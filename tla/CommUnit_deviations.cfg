SPECIFICATION UnitSpec
CONSTANTS
  Nodes = {n1, n2, n3, n4}
  Registered <- MCRegistered
  Priority <- MCPriority
  Received <- MCReceived
  Successor <- MCSuccessor
  NumberOfWorkers = 1
  JobSlots = 2
  FirstSlots = {}
  FirstJobSlots = 0
INVARIANTS DispatchedIsExecuted
PROPERTIES ScanTakesHighest AnswersAreDispatched
CHECK_DEADLOCK FALSE
