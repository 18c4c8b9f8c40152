CONSTANTS
  Streams = {st1, st2, st3}
  Calls = {c1, c2}
  Timeout = Timeout
  HostOps = {"create", "start", "pause", "end"}
  TimersFire = FALSE
  Failures = FALSE
  Restarts = FALSE
  MaxEncoders = 1
  None = None
SPECIFICATION Spec
CHECK_DEADLOCK FALSE
SYMMETRY Symmetry
INVARIANTS
  ActiveBounded
