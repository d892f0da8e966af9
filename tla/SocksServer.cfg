SPECIFICATION FairSpec
CONSTANTS
  c1 = c1
  c2 = c2
  Conn = {c1, c2}
  Address <- MCAddress
  Loopback <- Local
  Unresolved <- Zero
  Confs <- MCConfs
  Missing = Missing
  Requests <- MCRequests
INVARIANTS TypeOK ServedByRule
PROPERTIES KeepsPromise EndSeen LeftClientsEnd
\* all connections may be over
CHECK_DEADLOCK FALSE
