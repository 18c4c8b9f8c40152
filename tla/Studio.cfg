CONSTANTS
  Streams = {s1, s2}
  Clicks = {c1, c2}
  None = None
  MaxTimers = 2
  Videos = {s1, s2}
  Podcasts = {p1}
  Episodes = {ep1}
  Editors = {c1, c2}
  NoRow = NoRow
SPECIFICATION StudioSpec
SYMMETRY Symmetry
CHECK_DEADLOCK FALSE
INVARIANTS
  PageAgrees
  TimerRuns
  QuietWhenOver
  LiveIsCaptured
  EpisodesSound
