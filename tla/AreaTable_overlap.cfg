SPECIFICATION AreaSpec
CONSTANTS
  Workers = {w1}
  Summarizers <- MCSummarizers
  Areas = {1, 2, 3, 4}
  INITIAL_AREA_TABLE_MAX_SIZE = 4
  number_areas_per_summary_thread = 2
  StartIndex <- MCStart
  MaxTables = 4
INVARIANTS AreasAreDivided EveryAreaIsCovered
