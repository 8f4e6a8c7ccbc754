SPECIFICATION Spec
CONSTANTS
  o1 = o1
  o2 = o2
  Objects = {o1, o2}
  monitor_types <- MCmonitor_types
  monitor_type <- MCmonitor_type
  ByPacket = {"panic"}
  time_interval_in_sec = 1
  granularity_for_continuous_violations_in_sec = 2
  database_keep_hours = 1
  buf_len = 2
  record_len <- MCrecord_len
  MaxTime = 2
  MaxId = 2
  MaxFaults = 1
INVARIANTS OneRecordPerWindow
PROPERTIES OwnViolationRecorded NoBlankMessage
CHECK_DEADLOCK FALSE
