SPECIFICATION Spec
CONSTANTS
  MaxSlot = 1
  MaxFd = 9
  OddBit = 7
  LastNode = 0
  MaxLen = 0
  Name = {}
  NoName = NoName
INVARIANT Mirrored
PROPERTY ImplementsUserPipes
\* the server stops when it is down, out of descriptors, or past the bound
CHECK_DEADLOCK FALSE
