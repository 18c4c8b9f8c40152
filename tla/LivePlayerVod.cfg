CONSTANTS
  Connections = {c1, c2}
  Players = {h1, h2}
  MaxDrops = 1
  NoRef = NoRef
SPECIFICATION PlayerSpec
CHECK_DEADLOCK FALSE
INVARIANT
  RecordingLoaded
