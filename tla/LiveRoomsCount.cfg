CONSTANTS
  Streams = {st1}
  Sessions = {s1, s2, s3}
  Calls = {c1, c2}
  Capacity = 1
  MaxRooms = 2
  MaxCallsPerSession = 1
  HostOps = {"end"}
  Restarts = TRUE
  None = None
SPECIFICATION Spec
CHECK_DEADLOCK FALSE
SYMMETRY Symmetry
INVARIANTS
  RoomCountAccurate
  OvershootBounded
  PeakCoversViewers
  TotalCountsSessions
