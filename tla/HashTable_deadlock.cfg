SPECIFICATION FairSpec
CONSTANTS
  Putters = {p1}
  Keys = {k1, k2}
  Nodes = {n1, n2}
  NoNode = NoNode
  Nobody = Nobody
  Summarizer = Summarizer
  NewBeacons = FALSE
  Ageing = TRUE
PROPERTIES PutGetsRow
CHECK_DEADLOCK FALSE
