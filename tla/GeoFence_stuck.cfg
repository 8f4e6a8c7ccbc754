SPECIFICATION FenceFairSpec
CONSTANTS
  Objects <- MCObjects
  NoObject = NoObject
  Beacons <- MCBeacons
  Rssi <- MCRssi
  AreaOf <- MCAreaOf
  Settings <- OneFence
  Commands = {c1}
  perimeter_valid_duration_in_sec = 2
  ViolationSlots = 2
  FirstSlots = 1
  MaxReadings = 1
  MaxTime = 2
PROPERTIES CheckEnds
CHECK_DEADLOCK FALSE
