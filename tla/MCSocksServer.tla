--------------------------- MODULE MCSocksServer ---------------------------
(* Instances of SocksServer for TLC.                                       *)
EXTENDS SocksServer, TLC

CONSTANTS c1, c2

Asked == <<"140", "113", "1", "2">>
Local == <<"127", "0", "0", "1">>
Zero == <<"0", "0", "0", "1">>
MCAddress == {Asked, Local, Zero}

(* Lines that almost cover the address that is asked for, and all there is *)
(* in the repository's file.                                               *)
Short == <<[mode |-> "c", pattern |-> <<"140", "113", "1">>],
           [mode |-> "c", pattern |-> <<"140", "*", "1", "3">>],
           [mode |-> "c", pattern |-> <<>>],
           [mode |-> "b", pattern |-> <<"*", "113", "*", "*">>]>>
All == <<[mode |-> "c", pattern |-> <<"140", "113", "*", "*">>],
         [mode |-> "c", pattern |-> <<"*", "*", "*", "*">>],
         [mode |-> "b", pattern |-> <<"*", "*", "*", "*">>]>>
MCConfs == {Short, All, Missing}

(* The first client asks for anything, the second one for a CONNECT.       *)
Of(cd, name) == [ver |-> 4, cd |-> cd, byName |-> name, addr |-> Asked]
Varied ==
  {Of(cd, FALSE) : cd \in Command} \cup {Of(1, TRUE)}
    \cup {[Of(1, FALSE) EXCEPT !.ver = 5]}
MCRequests == (c1 :> Varied) @@ (c2 :> {Of(1, FALSE)})
=============================================================================
