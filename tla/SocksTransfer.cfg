SPECIFICATION FairTransferSpec
CONSTANTS
  Cap = 2
  ReadMax = 2
  MaxUp = 5
  MaxDown = 1
  MaxPieces = 2
INVARIANTS StreamKept SpinsOnlyIf BindKept
PROPERTY Delivered
\* the transfer may be over, and its peers too
CHECK_DEADLOCK FALSE
