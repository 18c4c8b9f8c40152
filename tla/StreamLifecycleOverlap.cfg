CONSTANTS
  Streams = {st1}
  Calls = {c1, c2}
  Timeout = Timeout
  HostOps = {"create", "start", "pause", "resume", "end", "cancel"}
  TimersFire = TRUE
  Failures = TRUE
  Restarts = TRUE
  MaxEncoders = 2
  None = None
SPECIFICATION Spec
CHECK_DEADLOCK FALSE
SYMMETRY Symmetry
INVARIANTS
  PublishedOnce
  RecordingKept
PROPERTIES
  LifeSpec
