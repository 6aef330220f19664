SPECIFICATION FairSpec
CONSTANTS
  N = 1
  Intervals <- OneInterval
  Stagger = 1
  Retry = 1
  MaxUser = 1
  MaxFaults = 1
INVARIANTS
  NoMissedChange
PROPERTIES
  IntervalKept
  OverdueIsTried
  SchedulerStops
\* After Close and the end of the scheduler nothing is left to do.
CHECK_DEADLOCK FALSE
