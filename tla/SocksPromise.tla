---------------------------- MODULE SocksPromise ----------------------------
(***************************************************************************)
(* What a SOCKS 4 client may count on, whatever its requests: a rejection, *)
(* after which nothing is passed on; or one acceptance before data flows   *)
(* for a CONNECT, two for a BIND, the second one once somebody has         *)
(* connected; or the end of the connection.                                *)
(***************************************************************************)
CONSTANT Conn

VARIABLE phase   \* phase[c]: what the client of connection c has been told

Follows ==
  [asked |-> {"rejected", "bound", "open", "ended"},
   bound |-> {"open", "ended"},
   open |-> {"ended"},
   rejected |-> {},
   ended |-> {}]

Init == phase = [c \in Conn |-> "asked"]

Step(c) == \E p \in Follows[phase[c]] : phase' = [phase EXCEPT ![c] = p]

Next == \E c \in Conn : Step(c)
Spec == Init /\ [][Next]_phase
=============================================================================
