----------------------------- MODULE UserPipes -----------------------------
(***************************************************************************)
(* What user pipes promise, whichever server keeps them: at most one pipe  *)
(* from one user to another; it is made while both are logged in, stays    *)
(* until its receiver reads it, and goes when either of them leaves.       *)
(***************************************************************************)
CONSTANTS Slot, None

VARIABLES
  online,   \* the slots of users who are logged in
  pipes     \* <<i, j>>: what i piped to j waits to be read

vars == <<online, pipes>>

Init == online = {} /\ pipes = {}

Login(i) ==
  /\ i \notin online
  /\ online' = online \cup {i}
  /\ UNCHANGED pipes

Logout(i) ==
  /\ i \in online
  /\ online' = online \ {i}
  /\ pipes' = {x \in pipes : x[1] # i /\ x[2] # i}

(* A command of i reads what "from" piped to i and pipes to "to", either   *)
(* of them None.  A pipe that exists is not made again, not even by the    *)
(* command that reads it.                                                  *)
Command(i, from, to) ==
  LET taken == {<<from, i>>} \cap pipes
      made  == IF to \in online /\ <<i, to>> \notin pipes THEN {<<i, to>>} ELSE {}
  IN  /\ i \in online
      /\ pipes' = (pipes \ taken) \cup made
      /\ UNCHANGED online

Next ==
  \E i \in Slot :
    \/ Login(i)
    \/ Logout(i)
    \/ \E from, to \in Slot \cup {None} : Command(i, from, to)

Spec == Init /\ [][Next]_vars
=============================================================================
