\* Long: one compaction run and a report, until segments expire and objects
\* are fenced.  Short (in the module): two compaction runs and two segments,
\* stalls, takeovers, candidates that expire before they are published.
CONSTANTS
  Raw = {a, b}
  Merged = {m}
  Compactor = {c1}
  Rivals = {c1, c2}
  Drafts = {m, n}
  Reader = {d1}
  None = None
  Lease = 1
  Flight = 0
  Candidate = 2
  Grace = 2
  ReadLife = 1
  Retry = 4
  Expiry = 3
  Day = 0
  SealLife = 2
  DayEnd = 2
  MinYoung = 2
  MaxTime = 4
SYMMETRY MCSymmetry
SPECIFICATION MCSpec
INVARIANTS
  IndexIntact
  Leakless
  Complete
  Once
  Readable
CHECK_DEADLOCK FALSE
