\* Two requests at a time over two batch ids and conflicting versions: retries,
\* rebatches, stalls, receipt expiry, retirement, forgetting, two overlapping
\* cleanup runs, the tombstone and late creates.
CONSTANTS
  i1 = i1
  i2 = i2
  e1 = e1
  e2 = e2
  f2 = f2
  Id = {i1, i2}
  Event = {e1, e2, f2}
  IdOf <- MCIdOf
  OccurredAt <- MCOccurredAt
  BatchId = {b1, b2}
  Input <- MCInput
  Reservation = {r1, r2}
  Worker = {w1, w2}
  Cleaner = {c1, c2}
  None = None
  PendingTtl = 1
  RawTtl = 2
  IdentityTtl = 3
  Grace = 1
  Tombstone = 3
  Window = 1
  Skew = 1
  RunLife = 1
  ClaimCapacity = 2
  ReceiptCapacity = 2
  PendingCapacity = 2
  MaxTime = 9
SYMMETRY MCSymmetry
SPECIFICATION Spec
INVARIANTS
  TypeOK
  AtMostOnce
  ObjectIntact
  AckedArchived
  Published
  NoOrphan
  Erased
  UsageExact
CHECK_DEADLOCK FALSE
