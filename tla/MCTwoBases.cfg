SPECIFICATION Spec
CONSTANTS
  p1 = p1
  p2 = p2
  c1 = c1
  c2 = c2
  NoConfig = NoConfig
  Paths <- TwoPaths
  Configs <- TwoConfigs
  Connected <- NoPath
  PauseThreshold = 2
  MaxOps = 1
  MaxEdits = 0
  MaxPushes = 0
  MaxFaults = 0
  MaxStops = 0
INVARIANTS
  AcceptedHasJob
\* A base that waits for its user may refuse every request: the system may stop.
CHECK_DEADLOCK FALSE
