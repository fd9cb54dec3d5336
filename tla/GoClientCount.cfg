CONSTANTS
  Recorder = {r1, r2}
  QueueSize = 2
  BatchSize = 2
  MaxRetries = 1
  Events = 4
SPECIFICATION Spec
INVARIANT
  AllCounted
CHECK_DEADLOCK FALSE
