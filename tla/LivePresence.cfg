\* A heartbeat is counted for three ticks, alarms are two apart and frames one.
CONSTANTS
  s = s  p = p
  Session = {s}
  Scope = {p}
  ScopeOf <- OneScope
  Viewer = {v}
  Connection = {c}
  Ttl = 3
  Skip = 1
  Beat = 2
  Gap = 1
  Lease = 8
  Transit = 0
  MaxSessions = 1
  MaxScopes = 1
  MaxTime = 9
  Never = Never
SPECIFICATION Spec
INVARIANT
  ObservedInTime
CHECK_DEADLOCK FALSE
