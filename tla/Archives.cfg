\* A shard of two batches, and two compactors and a report over a day of two
\* hours of two minutes.
CONSTANTS
  a = a  b = b  x = x  y = y
  Batch = {a, b}
  Facts = {x, y}
  Sent <- MCSent
  Consumer = {c1}
  Segments = 2
  SegmentMax = 1
  None = None
  Crashes = 1
  Query = {q1}
  Compactor = {p1, p2}
  Hour = 2
  Day = 4
  BusyMinute = {1, 2}
  Requests = 2
SPECIFICATION ArchivesSpec
INVARIANTS
  OneObject
  ManifestsBacked
PROPERTIES
  ArchiveKept
  ArchiveInvisible
SYMMETRY Symmetry
CHECK_DEADLOCK FALSE
