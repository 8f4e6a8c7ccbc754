SPECIFICATION Spec
CONSTANTS
  Putters = {p1, p2}
  Keys = {k1, k2}
  Nodes = {n1, n2, n3}
  NoNode = NoNode
  Nobody = Nobody
  Summarizer = Summarizer
  NewBeacons = TRUE
  Ageing = FALSE
INVARIANTS UniqueKeys
CHECK_DEADLOCK FALSE
