CONSTANTS
  MaxQueueSize = 3
  MaxBatchSize = 2
  MaxAttempts = 2
  Items = 4
SPECIFICATION FairSpec
PROPERTY
  FlushesAutomatically
CHECK_DEADLOCK FALSE
