SPECIFICATION Spec
CONSTANTS
  Clients = {c1, c2}
  max_connection = 6
  MEMORY_ALLOCATE_RETRIES = 5
  SQL_GET_AVAILABLE_CONNECTION_RETRIES = 5
  UploadStatements = 2
  MallocFails = FALSE
INVARIANTS PoolIsComplete
CHECK_DEADLOCK FALSE
