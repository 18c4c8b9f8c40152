CONSTANTS
  Streams = {s1, s2}
  Clicks = {c1, c2}
  None = None
  MaxTimers = 2
SPECIFICATION Spec
CHECK_DEADLOCK FALSE
INVARIANTS
  PttSilent
