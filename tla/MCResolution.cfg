SPECIFICATION Spec
CONSTANTS
  NoPath = NoPath
  Paths = {a, b, c}
  MaxEdits = 1
  MaxFaults = 1
SYMMETRY Symmetry
INVARIANTS
  Retriable
PROPERTIES
  FilesKept
  OthersKept
  StagesTheRequest
\* When the last conflict is resolved the merge is completed by a job.
CHECK_DEADLOCK FALSE
