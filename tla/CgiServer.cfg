SPECIFICATION FairSpec
CONSTANTS
  Conn = {c1, c2, c3}
  None = None
INVARIANTS TypeOK OnePage
PROPERTY AnsweredInTheEnd
\* the server may be down, or wait for browsers that say nothing
CHECK_DEADLOCK FALSE
