SPECIFICATION FairSpec
CONSTANTS
  MaxSlot = 1
  MaxProc = 2
  Name = {n1}
  NoName = NoName
  Typed = {"exit","hangup","vanish","name"}
  Aim <- Forward
  Heard <- Nothing
INVARIANTS UniqueNames MarksAgree
PROPERTY ReceiveReturns
\* connections are bounded, and a shell may block in open() for ever
CHECK_DEADLOCK FALSE
