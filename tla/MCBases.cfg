SPECIFICATION Spec
CONSTANTS
  NoRow = NoRow
  Paths = {p1, p2}
  Names = {a, b}
  FileNames = {f, g}
  Inner = {f}
  Contents = {x}
  MaxEdits = 1
  MaxFaults = 1
  MaxChanges = 1
  MaxStops = 1
  MaxEvents = 1
SYMMETRY Symmetry
INVARIANTS
  TreeIsDisk
  RuntimeMatchesConfig
  StatusesMatchConfig
  ConflictLocksNotes
PROPERTIES
  ClosedStaysClosed
\* A process that is down may find no directory to open: the system may stop.
CHECK_DEADLOCK FALSE
