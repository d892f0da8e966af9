SPECIFICATION FairSpec
CONSTANTS
  Sessions = 5
  Session = {1, 2}
  Lines = 4
  Lookalikes = 1
INVARIANTS TypeOK ReadsForm StuckOnlyIfMissed
PROPERTY ScriptsSent
\* the CGI may be over, or stuck
CHECK_DEADLOCK FALSE
