CONSTANTS
  Recorder = {r1, r2}
  QueueSize = 2
  BatchSize = 2
  MaxRetries = 1
  Events = 3
SPECIFICATION ClientsSpec
INVARIANTS
  Conserved
  FlushesSettle
  ClosedClean
PROPERTIES
  Drained
  CallsEnd
CHECK_DEADLOCK FALSE
