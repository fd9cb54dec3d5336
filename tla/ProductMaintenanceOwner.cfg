CONSTANTS
  Token = {t1, t2, t3}
  Legacy = Legacy
  None = None
  Consumer = {w1, w2}
  Cron = Cron
  Request = {}
  Lease = 2
  Delay = 1
  Pause = 1
  Life = 2
  Period = 3
  Slices = 1
  Faults = 2
SPECIFICATION Spec
PROPERTY
  OwnershipKept
