CONSTANTS
  Streams = {st1}
  Sessions = {s1, s2}
  Calls = {c1, c2}
  Capacity = 1
  MaxRooms = 1
  MaxCallsPerSession = 2
  HostOps = {"pause", "resume", "end"}
  Restarts = TRUE
  None = None
SPECIFICATION Spec
CHECK_DEADLOCK FALSE
SYMMETRY Symmetry
INVARIANTS
  RoomsBounded
  AllocationInv
  CountBounded
  NoGhostListeners
PROPERTIES
  AllocationSpec
