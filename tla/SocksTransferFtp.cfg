SPECIFICATION TransferSpec
CONSTANTS
  Cap = 1
  ReadMax = 1
  MaxUp = 0
  MaxDown = 0
  MaxPieces = 1
INVARIANT FtpCanRead
\* the transfer may be over, and its peers too
CHECK_DEADLOCK FALSE
