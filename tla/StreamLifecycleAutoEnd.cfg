CONSTANTS
  Streams = {st1}
  Calls = {c1, c2}
  Timeout = Timeout
  HostOps = {"create", "start", "end"}
  TimersFire = TRUE
  Failures = FALSE
  Restarts = FALSE
  MaxEncoders = 2
  None = None
SPECIFICATION FairSpec
CHECK_DEADLOCK FALSE
INVARIANTS
  AutoEndArmed
PROPERTIES
  AutoEnds
