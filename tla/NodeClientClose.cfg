CONSTANTS
  MaxQueueSize = 3
  MaxBatchSize = 2
  MaxRetries = 1
  Items = 6
SPECIFICATION Spec
INVARIANT
  CloseFlushes
CHECK_DEADLOCK FALSE
