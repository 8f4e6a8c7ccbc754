SPECIFICATION FenceSpec
CONSTANTS
  Objects <- MCObjects
  NoObject = NoObject
  Beacons <- MCBeacons
  Rssi <- MCRssi
  AreaOf <- MCAreaOf
  Settings <- TwoFences
  Commands = {c1}
  perimeter_valid_duration_in_sec = 2
  ViolationSlots = 2
  FirstSlots = 1
  MaxReadings = 2
  MaxTime = 3
INVARIANTS RecordsSound
PROPERTIES AlarmJustified RecordsKept
CHECK_DEADLOCK FALSE
