CONSTANTS
  Jobs = {j1}
  Executions = {e1, e2, e3, e4}
  JobAttempts = 2
  MaxStalls = 1
  Tokens = {t1}
  Listeners = {u1, u2}
  PushCalls = {c1, c2}
  Pushes = {m1}
  Nobody = Nobody
  CacheKeys = {k1}
  Readers = {r1, r2}
  Ttl = 2
  Latency = 1
  MaxChanges = 1
  MaxClock = 5
  Missing = Missing
  Sessions = {s1}
  SessionCalls = {x1, x2}
  NoSession = NoSession
  Invitations = {v1, v2}
  Guests = {g1}
  OwnerCalls = {o1, o2}
  NoOne = NoOne
  Connections = {cn1, cn2, cn3}
  Players = {h1, h2, h3, h4}
  MaxDrops = 2
  NoRef = NoRef
  Chunk = 2
  Lead = 1
  MaxDelay = 5
  MaxTime = 10
SPECIFICATION Spec
CHECK_DEADLOCK FALSE
INVARIANTS
  CompletedIsTold
  RowsBounded
  DevicesReachable
  LogsTruthful
  StaleBounded
  SessionDates
  NothingLost
  HeardInTime
PROPERTIES
  JobsEnd
  AnsweredOnce
  SwitchingEnds
