CONSTANTS
  Workers = {w0, w1}
  Client = Client
  NumJobs = 2
  Chunks = 1
SPECIFICATION PoolFairSpec
PROPERTIES ResultsReturned
CHECK_DEADLOCK FALSE
