SPECIFICATION FairSpec
CONSTANTS
  Workers = {w1, w2}
  Gateways = {g1, g2, g3}
  MAX_NUMBER_NODES = 2
  MAX_QUEUE_LENGTH = 1
  Nodes = {n1, n2}
INVARIANTS OneEntryPerGateway AckIsFounded BroadcastComplete
PROPERTIES JoinsAnswered
