SPECIFICATION FairSpec
CONSTANTS
  Clients = {c1, c2, c3}
  max_connection = 2
  MEMORY_ALLOCATE_RETRIES = 2
  SQL_GET_AVAILABLE_CONNECTION_RETRIES = 2
  UploadStatements = 2
  MallocFails = TRUE
INVARIANTS UsedIsHeld NoStrayTransaction
PROPERTIES CallsReturn
CHECK_DEADLOCK FALSE
