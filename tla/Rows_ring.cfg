SPECIFICATION Spec
CONSTANTS
  b1 = b1
  b2 = b2
  Beacons = {b1, b2}
  NoBeacon = NoBeacon
  Strengths <- MCStrengths
  number_of_lbeacons_under_tracked = 2
  number_of_rssi_signals_under_tracked = 2
  rssi_threashold <- MCrssi_threashold
  unreasonable_rssi_change = 5
  accuracy_tolerance = 4
  SummaryThreads = {w1}
  MaxDelay <- MCMaxDelay
  MaxPass = 1
  MaxTime = 4
INVARIANTS RingIsOwn ComparesAdjacent
CHECK_DEADLOCK FALSE
