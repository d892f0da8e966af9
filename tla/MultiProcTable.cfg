SPECIFICATION Spec
CONSTANTS
  MaxSlot = 1
  MaxProc = 3
  Name = {}
  NoName = NoName
  Typed = {"exit","hangup","vanish","yell","tell"}
  Aim <- Nothing
  Heard <- Second
INVARIANTS TypeOK NoGhosts PlaceKept LastMessageShown
\* connections are bounded, and a shell may block in open() for ever
CHECK_DEADLOCK FALSE
