SPECIFICATION AreaFairSpec
CONSTANTS
  Workers = {w1, w2}
  Summarizers = {0}
  Areas = {1, 2}
  INITIAL_AREA_TABLE_MAX_SIZE = 1
  number_areas_per_summary_thread = 2
  StartIndex <- MCStart
  MaxTables = 3
INVARIANTS OneTablePerArea LookupIsRight
PROPERTIES SetIsServed
CHECK_DEADLOCK FALSE
