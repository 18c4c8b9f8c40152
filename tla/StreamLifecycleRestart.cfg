CONSTANTS
  Streams = {st1}
  Calls = {c1}
  Timeout = Timeout
  HostOps = {"create", "start"}
  TimersFire = TRUE
  Failures = FALSE
  Restarts = TRUE
  MaxEncoders = 1
  None = None
SPECIFICATION FairSpec
CHECK_DEADLOCK FALSE
PROPERTY
  AutoEnds
