SPECIFICATION UnitFairSpec
CONSTANTS
  Nodes = {n1, n2}
  Registered <- MCRegistered
  Priority <- MCPriority
  Received <- MCReceived
  Successor <- MCSuccessor
  NumberOfWorkers = 1
  JobSlots = 2
  FirstSlots = {n1}
  FirstJobSlots = 1
INVARIANTS NodesConserved
PROPERTIES NodeReturns StopCompletes
CHECK_DEADLOCK FALSE
