SPECIFICATION FairSpec
CONSTANTS
  Pipe = {p1, p2}
  NoPipe = NoPipe
  LastNode = 2
  MaxLen = 2
  Capacity = 3
  MaxOut = 1
  MaxForks = 3
PROPERTIES PromptReturns ZombiesReaped
\* the bound on forks ends every behaviour
CHECK_DEADLOCK FALSE
