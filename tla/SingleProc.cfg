SPECIFICATION Spec
CONSTANTS
  MaxSlot = 1
  MaxFd = 8
  OddBit = 7
  LastNode = 1
  MaxLen = 1
  Name = {n1}
  NoName = NoName
INVARIANTS TypeOK EntriesValid FdsAccounted Watched
\* the server stops when it is down, out of descriptors, or past the bound
CHECK_DEADLOCK FALSE
