--------------------------- MODULE SocksTransfer ---------------------------
(***************************************************************************)
(* The data phase of a socks_server child: redirectData() for a CONNECT,   *)
(* the loop of its own for a BIND.  cd, the command of the request, says   *)
(* which of the two runs; the other one never starts.                      *)
(***************************************************************************)
EXTENDS Relay

CONSTANT MaxPieces    \* bound: pieces each peer of a BIND sends

ASSUME PiecesAssumption == MaxPieces \in Nat

VARIABLES cd, bpc, ftpfd, copy, from, bsent, bgot, closed, reset

Bind == INSTANCE BindTransfer
  WITH pc <- bpc, sent <- bsent, got <- bgot, MaxSend <- MaxPieces

bindVars == <<bpc, ftpfd, copy, from, bsent, bgot, closed, reset>>

InitTransfer == Init /\ Bind!Init /\ cd \in {1, 2}

Connected == cd = 1 /\ Next /\ UNCHANGED <<bindVars, cd>>
Bound == cd = 2 /\ Bind!Next /\ UNCHANGED <<vars, cd>>

NextTransfer == Connected \/ Bound
TransferSpec == InitTransfer /\ [][NextTransfer]_<<vars, bindVars, cd>>

(* The process is scheduled, and the peers of a CONNECT read what they are *)
(* sent: the second is an assumption about them, not about the code.       *)
FairTransferSpec ==
  /\ TransferSpec
  /\ WF_<<vars, bindVars, cd>>(cd = 1 /\ Loop /\ UNCHANGED <<bindVars, cd>>)
  /\ \A x \in Side :
       WF_<<vars, bindVars, cd>>(cd = 1 /\ Receive(x) /\ UNCHANGED <<bindVars, cd>>)

-----------------------------------------------------------------------------
(* What the loop of a BIND reads is passed on in order and not twice, in   *)
(* whatever pieces it comes.  To the client nothing is lost either, until  *)
(* its connection is reset: what it has not been sent yet still waits to   *)
(* be read, also after its own end of stream, which keeps the loop from    *)
(* coming to it; and after a reset it has got a beginning of the stream.   *)
(* The other side may miss pieces, if it cannot be written to.             *)
Ascending(q) == \A i, j \in 1 .. Len(q) : i < j => q[i] < q[j]
BindKept ==
  /\ Follows(bgot["client"], 0)
  /\ reset = "no" => /\ Follows(from["terminal"], Len(bgot["client"]))
                     /\ Len(bgot["client"]) + Len(from["terminal"]) = bsent["terminal"]
  /\ Ascending(bgot["terminal"])
  /\ \A i \in 1 .. Len(bgot["terminal"]) : bgot["terminal"][i] <= bsent["client"]

(* With a data connection, the half of a round that prints "FTP can read"  *)
(* reads data that this connection has sent.                               *)
FtpCanRead ==
  bpc = "ftp" /\ ftpfd = "stdin" => from["ftp"] # <<>> \/ "ftp" \in closed
=============================================================================
