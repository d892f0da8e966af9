SPECIFICATION Spec
CONSTANTS
  Pipe = {p1, p2, p3}
  NoPipe = NoPipe
  LastNode = 2
  MaxLen = 2
  Capacity = 1
  MaxOut = 2
  MaxForks = 3
SYMMETRY PipeSymmetry
INVARIANTS TypeOK FdsAccounted WaitsOnlyForOlder StallNeedsUnreadPipe
PROPERTIES NoEarlyRead ImplementsSchedule
\* the bound on forks ends every behaviour
CHECK_DEADLOCK FALSE
