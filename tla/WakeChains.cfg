\* Two consumers and the cron, with a product request or one failure of any
\* kind; as many tokens as are mentioned at once, and slices that continue.
\* A run, its delivery and a second run fit into a lease.
CONSTANTS
  Token = {t1, t2, t3, t4}
  Legacy = Legacy
  None = None
  Owner = Owner
  Job = {1, 2}
  Tokens = 4
  Drainer = {w}
  Consumer = {v, w}
  Cron = Cron
  Request = {Owner}
  Lease = 4
  Delay = 1
  Pause = 1
  Life = 1
  Period = 5
  Slices = 2
  Faults = 1
SPECIFICATION ChainsSpec
INVARIANTS
  OneRun
  Alive
PROPERTY
  Done
CHECK_DEADLOCK FALSE
