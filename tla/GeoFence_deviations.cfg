SPECIFICATION FenceSpec
CONSTANTS
  Objects <- MCObjects
  NoObject = NoObject
  Beacons <- MCBeacons
  Rssi <- MCRssi
  AreaOf <- MCAreaOf
  Settings <- OneFence
  Commands = {c1, c2}
  perimeter_valid_duration_in_sec = 2
  ViolationSlots = 2
  FirstSlots = 0
  MaxReadings = 2
  MaxTime = 2
INVARIANTS SettingsLoadedOnce
PROPERTIES AlarmNearFence PerimeterRecorded AlarmBeforeRemoval
