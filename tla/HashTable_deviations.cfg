SPECIFICATION Spec
CONSTANTS
  Putters = {p1, p2}
  Keys = {k1, k2}
  Nodes = {n1, n2}
  NoNode = NoNode
  Nobody = Nobody
  Summarizer = Summarizer
  NewBeacons = FALSE
  Ageing = TRUE
PROPERTIES EvictsOneNode
INVARIANTS UploadReadsLiveNodes OneLiveNode
CHECK_DEADLOCK FALSE
