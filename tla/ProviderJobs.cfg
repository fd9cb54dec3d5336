\* An import and a webhook about the same transaction, two workers that take
\* over from each other, clocks read up to Delay before the commit.
CONSTANTS
  c1 = c1  i1 = i1  w1 = w1
  p1 = p1  p2 = p2  r1 = r1  t1 = t1  t2 = t2  ws = ws
  Conn = {c1}
  Workspace <- MCWorkspace
  Import = {i1}
  Webhook = {w1}
  ConnOf <- MCConnOf
  Subject <- MCSubject
  Payment = {p1, p2}
  Refund = {r1}
  OriginalOf <- MCOriginalOf
  Pages <- MCPages
  Filtered = {p2}
  Target = {t1, t2}
  Home <- MCHome
  Exclusive = Exclusive
  None = None
  Worker = {a, b}
  a = a
  Lease = 2
  Backoff = 1
  Delay = 1
  MaxGen = 1
  Failures = {}
  Routing = {}
SYMMETRY MCSymmetry
SPECIFICATION MCSpec
CHECK_DEADLOCK FALSE
INVARIANTS
  Originals
  LeasedOnce
  NoneStranded
  SameDestination
  NoneSkipped
PROPERTIES
  Fenced
  Forward
