CONSTANTS
  a = a  b = b  c = c  x = x  y = y  v = v  w = w
  None = None
  Day = {1, 2}
  Message <- TwoDays
  Request = {q1, q2}
  Generation = {g1, g2}
  Recording = {g1}
  Skew = 0
  Late = 1
  Grace = 0
  Retention = 2
  MaxTime = 4
  Runner = {r1, r2}  Shards = 2  Segment = {1, 2, 3}  Early = {2, 3}
  ShardOf <- TwoShards  SegmentRows <- ThreeSegments  DayReceipts <- TwoReceipts
  InDay = {a, b}  Budget = 2  ReceiptsPerSlice = 1  SegmentsPerPage = 1
  ShardsPerSlice = 2  Retries = 2
  Session = {r1, r2}  Scope = {a}  ScopeOf <- OneScope  Viewer = {v}
  Connection = {c}  Ttl = 3  Skip = 1  Beat = 2  Gap = 1  ViewLease = 4
  Upgrade = 0  MaxSessions = 1  MaxScopes = 1  PresenceTime = 7
  Guest = {r1, r2}  Invite = {q1, q2}  Seats = 1  OpenInvites = 1  Life = 1
  AccessTime = 2
  Owner = {v, w}  First = {r1, r2}  Existing = {a}  OwnedBy <- AppOfOne
  Catalog = {b, c}  Content = {x, y}  Import <- Imports  MaxImports = 3
  Capacity = 4  Periods <- ThreePeriods  LedgerRequest <- PaymentsAndRefunds
  Attempt = {r1, r2}  Transit = 1
  EndpointBatch <- SdkAndOtlp  EndpointStamp <- StampOne  Environment = {a, b, c}
  Failed = {x}  FailureKeep = 2
  MaxEnvironments = 2  EndpointSkew = 1  Keep = 3  EndpointTime = 5
  LogBatch <- TwoBrowsers  LogStamp <- StampZero  Quota = 2  Window = 2
  LogSkew = 1  LogRetention = 3  ClaimKeep = 2  LogTime = 4
  Steps = 3  Within = 3  RangeFrom = 0  RangeTo = 5  Limit = 4  MaxFacts = 5
  Fact <- TwoSessions
SPECIFICATION StoresSpec
SYMMETRY Symmetry
INVARIANTS
  OneFacts
  ExactVisitors
  Audited
  Watched
  Admitted
  Ingested
  Reported
PROPERTY
  SealedFinal
CHECK_DEADLOCK FALSE
