SPECIFICATION Spec
CONSTANTS
  p1 = p1
  p2 = p2
  c1 = c1
  c2 = c2
  NoConfig = NoConfig
  Paths <- OnePath
  Configs <- OneConfig
  Connected <- OnePath
  PauseThreshold = 2
  MaxOps = 2
  MaxEdits = 0
  MaxPushes = 0
  MaxFaults = 0
  MaxStops = 1
INVARIANTS
  DeduplicatedWillRun
\* A base that waits for its user may refuse every request: the system may stop.
CHECK_DEADLOCK FALSE
