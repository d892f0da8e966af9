---------------------------- MODULE BindTransfer ----------------------------
(***************************************************************************)
(* The loop of a BIND in socks_server, from the accept() of the data       *)
(* connection on.  ftpfd = accept(...) == -1 gives ftpfd the result of the *)
(* comparison: 0, standard input, when there is a data connection, which   *)
(* stays open without a name; 1, standard output, when accept() failed.    *)
(* The loop then passes data between the client and the server's terminal. *)
(*                                                                         *)
(* The n-th piece that a peer sends is the number n.  A piece is written   *)
(* as a whole; whether it can be is up to its reader, and no property here *)
(* says when.                                                              *)
(***************************************************************************)
EXTENDS Integers, Sequences

CONSTANT MaxSend    \* bound: pieces each of the three peers sends

Peer == {"client", "ftp", "terminal"}

VARIABLES
  pc,      \* "accept", "select", "client", "ftp" (its half of a round) or "dead"
  ftpfd,   \* the descriptor in the variable of that name; "write_only" is
           \* standard output when it cannot be read
  copy,    \* the descriptors that select() reported
  from,    \* from[p]: what p has sent and nobody has read
  sent,    \* sent[p]: how many pieces p has sent
  got,     \* got[p]: what was written to p
  closed,  \* the peers that have finished sending
  reset    \* the client's connection: "no", "new" (its error is still to be
           \* reported) or "seen"

peers == <<from, sent, got, closed>>

Init ==
  /\ pc = "accept" /\ ftpfd = "none" /\ copy = {}
  /\ from = [p \in Peer |-> <<>>] /\ sent = [p \in Peer |-> 0]
  /\ got = [p \in Peer |-> <<>>]
  /\ closed = {} /\ reset = "no"

(* write() to the client: after a reset, the first call that meets it      *)
(* reports an error, and one after that raises SIGPIPE.                    *)
WriteClient(data, next) ==
  /\ pc' = IF reset = "seen" THEN "dead" ELSE next
  /\ reset' = IF reset = "no" THEN "no" ELSE "seen"
  /\ got' = IF reset = "no" THEN [got EXCEPT !["client"] = @ \o data] ELSE got

(* The second answer says 90, whatever accept() said.                      *)
Accept ==
  /\ pc = "accept"
  /\ ftpfd' \in {"stdin", "stdout", "write_only"}
  /\ WriteClient(<<>>, "select")
  /\ UNCHANGED <<copy, from, sent, closed>>

Readable ==
  {p \in {"client", "terminal"} :
     \/ from[p] # <<>> \/ p \in closed
     \/ p = "client" /\ reset # "no"
     \/ p = "terminal" /\ ftpfd = "write_only"}

Select ==
  /\ pc = "select"
  /\ Readable # {}
  /\ copy' = Readable
  /\ pc' = IF "client" \in Readable THEN "client" ELSE "ftp"
  /\ UNCHANGED <<ftpfd, peers, reset>>

AfterClient == IF "terminal" \in copy THEN "ftp" ELSE "select"

(* read() takes some of what is there.                                     *)
Remaining(p, n) == [from EXCEPT ![p] = SubSeq(@, n + 1, Len(@))]
TakenButLast(p, n) == SubSeq(from[p], 1, n - 1)    \* a mutation of Taken
Taken(p, n) == SubSeq(from[p], 1, n)

(* A terminal that is not open for writing takes nothing.                  *)
ServeClient ==
  /\ pc = "client"
  /\ \E n \in 1 .. Len(from["client"]) :
       /\ from' = Remaining("client", n)
       /\ got' \in {got, [got EXCEPT !["terminal"] = @ \o Taken("client", n)]}
  /\ pc' = AfterClient
  /\ UNCHANGED <<ftpfd, copy, sent, closed, reset>>

(* read() == -1: no bytes can be written from there, and the round goes on.*)
ReadFails ==
  /\ pc = "client" /\ from["client"] = <<>> /\ reset = "new"
  /\ reset' = "seen"
  /\ pc' = AfterClient
  /\ UNCHANGED <<ftpfd, copy, peers>>

(* The end of the client's stream: continue.                               *)
ClientEnds ==
  /\ pc = "client" /\ from["client"] = <<>> /\ reset # "new"
  /\ pc' = "select"
  /\ UNCHANGED <<ftpfd, copy, peers, reset>>

ServeFtp ==
  /\ pc = "ftp" /\ ftpfd # "write_only"
  /\ \/ \E n \in 1 .. Len(from["terminal"]) :
          /\ from' = Remaining("terminal", n)
          /\ WriteClient(Taken("terminal", n), "select")
     \/ /\ from["terminal"] = <<>>
        /\ WriteClient(<<>>, "select")
        /\ UNCHANGED from
  /\ UNCHANGED <<ftpfd, copy, sent, closed>>

(* read() == -1 of what cannot be read, and nothing is written.            *)
FtpFails ==
  /\ pc = "ftp" /\ ftpfd = "write_only"
  /\ pc' = "select"
  /\ UNCHANGED <<ftpfd, copy, peers, reset>>

Send(p) ==
  /\ p \notin closed /\ sent[p] < MaxSend
  /\ p = "client" => reset = "no"
  /\ sent' = [sent EXCEPT ![p] = @ + 1]
  /\ from' = [from EXCEPT ![p] = Append(@, sent[p] + 1)]
  /\ UNCHANGED <<pc, ftpfd, copy, got, closed, reset>>

Close(p) ==
  /\ p \notin closed
  /\ p = "client" => reset = "no"
  /\ closed' = closed \cup {p}
  /\ UNCHANGED <<pc, ftpfd, copy, from, sent, got, reset>>

(* What has not arrived is lost.  After the end of its stream, a reset is  *)
(* nothing a read() would report.                                          *)
Reset ==
  /\ reset = "no"
  /\ reset' = IF "client" \in closed THEN "seen" ELSE "new"
  /\ \E n \in 0 .. Len(from["client"]) : from' = [from EXCEPT !["client"] = SubSeq(@, 1, n)]
  /\ UNCHANGED <<pc, ftpfd, copy, sent, got, closed>>

Loop == Accept \/ Select \/ ServeClient \/ ReadFails \/ ClientEnds \/ ServeFtp \/ FtpFails
Next == Loop \/ Reset \/ \E p \in Peer : Send(p) \/ Close(p)
=============================================================================
