SPECIFICATION AreaSpec
CONSTANTS
  Workers = {w1, w2}
  Summarizers = {}
  Areas = {1, 2}
  INITIAL_AREA_TABLE_MAX_SIZE = 1
  number_areas_per_summary_thread = 1
  StartIndex <- MCStart
  MaxTables = 3
INVARIANTS ReadsAreDefined
PROPERTIES LookupFindsTable
