------------------------------- MODULE Relay -------------------------------
(***************************************************************************)
(* redirectData() of socks_server: one process copies bytes between the    *)
(* SOCKS client (ssock) and the destination (rsock) of a CONNECT.          *)
(*                                                                         *)
(* A round is: select() for reading, one read() per readable socket whose  *)
(* buffer is empty, select() for writing, one write() per full buffer      *)
(* whose socket is writable.  The sockets are blocking.  The peers send,   *)
(* read, finish and break their connections when they like.                *)
(*                                                                         *)
(* A byte is the number of its place in its stream.  timeout.tv_usec is    *)
(* never set: with a negative value in it, every select() fails, leaves    *)
(* its sets as they were, and the loop goes on as if all were ready.       *)
(***************************************************************************)
EXTENDS Integers, Sequences

CONSTANTS
  Cap,       \* bytes a connection holds in the kernel, each way
  ReadMax,   \* bytes one read() takes, at most
  MaxUp,     \* bound: bytes the client sends
  MaxDown    \* bound: bytes the destination sends

ASSUME SizeAssumption ==
  /\ Cap \in Nat \ {0} /\ ReadMax \in Nat \ {0} /\ MaxUp \in Nat /\ MaxDown \in Nat

Side == {"s", "r"}
MaxSend == [s |-> MaxUp, r |-> MaxDown]
Other(x) == IF x = "s" THEN "r" ELSE "s"

VARIABLES
  pc,        \* where the loop is
  rset,      \* rfds: the sockets the first select() reported
  wset,      \* wfds: those the second one reported
  full,      \* full[x]: the buffer of what was read from x is not empty
  held,      \* held[x]: what is still in it
  inbound,   \* inbound[x]: sent by x and not read by the relay
  outbound,  \* outbound[x]: written to x and not read by it
  got,       \* got[x]: what x has read
  sent,      \* sent[x]: how much x has sent
  fin,       \* the peers that have finished sending
  broken,    \* the peers whose connection was reset
  unset,     \* tv_usec happens to be negative
  moved,     \* history: this round has moved bytes
  idle,      \* history: the last round moved none
  skipped    \* history: a write was put off because its socket was full

kernel == <<inbound, outbound, broken>>
peers == <<got, sent, fin>>
vars == <<pc, rset, wset, full, held, kernel, peers, unset, moved, idle, skipped>>

-----------------------------------------------------------------------------
ReadAt == [s |-> "read_s", r |-> "read_r"]
WriteAt == [s |-> "write_s", r |-> "write_r"]   \* writes what came from s, from r
AfterRead == [s |-> "read_r", r |-> "wselect"]
AfterWrite == [s |-> "write_r", r |-> "select"]
Place == {"select", "read_s", "read_r", "wselect", "write_s", "write_r", "timeout", "dead"}
Running == pc \notin {"timeout", "dead"}

Readable == {x \in Side : x \in broken \/ inbound[x] # <<>> \/ x \in fin}
Writable == {x \in Side : x \in broken \/ Len(outbound[x]) < Cap}

Least(m, n) == IF m < n THEN m ELSE n
Taken(x) == Least(Len(inbound[x]), ReadMax)

Init ==
  /\ pc = "select" /\ rset = {} /\ wset = {}
  /\ full = [x \in Side |-> FALSE]
  /\ held = [x \in Side |-> <<>>]
  /\ inbound = [x \in Side |-> <<>>] /\ outbound = [x \in Side |-> <<>>]
  /\ got = [x \in Side |-> <<>>] /\ sent = [x \in Side |-> 0]
  /\ fin = {} /\ broken = {}
  /\ unset \in BOOLEAN
  /\ moved = FALSE /\ idle = FALSE /\ skipped = FALSE

-----------------------------------------------------------------------------
(* select() for reading: it returns once a socket is readable.             *)
Select ==
  /\ pc = "select"
  /\ IF unset THEN rset' = Side ELSE Readable # {} /\ rset' = Readable
  /\ pc' = "read_s"
  /\ moved' = FALSE
  /\ UNCHANGED <<wset, full, held, kernel, peers, unset, idle, skipped>>

(* Linux counts the waiting down in timeout, which is set once: any wait   *)
(* may be the one that uses it up.                                         *)
Timeout ==
  /\ ~unset
  /\ \/ pc = "select" /\ Readable = {}
     \/ pc = "wselect" /\ Writable = {}
  /\ pc' = "timeout"
  /\ UNCHANGED <<rset, wset, full, held, kernel, peers, unset, moved, idle, skipped>>

ReadsAnyway(x) == x \in rset   \* a mutation of Reads
Reads(x) == ~full[x] /\ x \in rset

SkipRead(x) ==
  /\ pc = ReadAt[x]
  /\ ~Reads(x)
  /\ pc' = AfterRead[x]
  /\ UNCHANGED <<rset, wset, full, held, kernel, peers, unset, moved, idle, skipped>>

(* read() returns what there is, up to the size of the buffer, or 0 at the *)
(* end of the stream, which is then "written" like data.                   *)
Read(x) ==
  LET n == Taken(x)
  IN  /\ pc = ReadAt[x]
      /\ Reads(x)
      /\ x \in Readable
      /\ held' = [held EXCEPT ![x] = SubSeq(inbound[x], 1, n)]
      /\ inbound' = [inbound EXCEPT ![x] = SubSeq(@, n + 1, Len(@))]
      /\ full' = [full EXCEPT ![x] = TRUE]
      /\ moved' = (moved \/ n > 0)
      /\ pc' = AfterRead[x]
      /\ UNCHANGED <<rset, wset, outbound, broken, peers, unset, idle, skipped>>

(* The -1 of a failed read() is taken for a size: the copy runs off the    *)
(* buffer, and the process dies of it.                                     *)
ReadFails(x) ==
  /\ pc = ReadAt[x]
  /\ Reads(x)
  /\ x \in broken
  /\ pc' = "dead"
  /\ UNCHANGED <<rset, wset, full, held, kernel, peers, unset, moved, idle, skipped>>

(* select() for writing: it returns once either socket has room.           *)
SelectWrite ==
  /\ pc = "wselect"
  /\ IF unset THEN wset' = Side ELSE Writable # {} /\ wset' = Writable
  /\ pc' = "write_s"
  /\ UNCHANGED <<rset, full, held, kernel, peers, unset, moved, idle, skipped>>

Writes(x) == full[x] /\ Other(x) \in wset

LeaveWrite(x, m) ==
  /\ pc' = AfterWrite[x]
  /\ idle' = IF x = "r" THEN ~m ELSE idle

SkipWrite(x) ==
  /\ pc = WriteAt[x]
  /\ ~Writes(x)
  /\ LeaveWrite(x, moved)
  /\ skipped' = (skipped \/ full[x])
  /\ UNCHANGED <<rset, wset, full, held, kernel, peers, unset, moved>>

(* write() blocks until the kernel has taken all of the buffer.            *)
Push(x) ==
  LET y == Other(x)
  IN  /\ pc = WriteAt[x]
      /\ Writes(x)
      /\ held[x] # <<>>
      /\ y \notin broken /\ Len(outbound[y]) < Cap
      /\ outbound' = [outbound EXCEPT ![y] = Append(@, Head(held[x]))]
      /\ held' = [held EXCEPT ![x] = Tail(@)]
      /\ moved' = TRUE
      /\ UNCHANGED <<pc, rset, wset, full, inbound, broken, peers, unset, idle, skipped>>

KeptFull(x) == full            \* a mutation of Emptied
Emptied(x) == [full EXCEPT ![x] = FALSE]
Written(x) ==
  /\ pc = WriteAt[x]
  /\ Writes(x)
  /\ held[x] = <<>>
  /\ full' = Emptied(x)
  /\ LeaveWrite(x, moved)
  /\ UNCHANGED <<rset, wset, held, kernel, peers, unset, moved, skipped>>

(* Writing to a reset connection: SIGPIPE, or an error nobody looks at,    *)
(* after which the buffer counts as written.                               *)
WriteFails(x) ==
  /\ pc = WriteAt[x]
  /\ Writes(x)
  /\ held[x] # <<>> /\ Other(x) \in broken
  /\ \/ pc' = "dead" /\ UNCHANGED <<held, full, idle>>
     \/ /\ held' = [held EXCEPT ![x] = <<>>]
        /\ full' = Emptied(x)
        /\ LeaveWrite(x, moved)
  /\ UNCHANGED <<rset, wset, kernel, peers, unset, moved, skipped>>

Loop ==
  \/ Select \/ SelectWrite
  \/ \E x \in Side : \/ SkipRead(x) \/ Read(x) \/ ReadFails(x)
                     \/ SkipWrite(x) \/ Push(x) \/ Written(x) \/ WriteFails(x)

-----------------------------------------------------------------------------
(* The peers *)

loop == <<pc, rset, wset, full, held, unset, moved, idle, skipped>>

Send(x) ==
  /\ sent[x] < MaxSend[x]
  /\ x \notin fin \cup broken
  /\ Len(inbound[x]) < Cap
  /\ sent' = [sent EXCEPT ![x] = @ + 1]
  /\ inbound' = [inbound EXCEPT ![x] = Append(@, sent[x] + 1)]
  /\ UNCHANGED <<loop, outbound, broken, got, fin>>

Receive(x) ==
  /\ x \notin broken
  /\ outbound[x] # <<>>
  /\ got' = [got EXCEPT ![x] = Append(@, Head(outbound[x]))]
  /\ outbound' = [outbound EXCEPT ![x] = Tail(@)]
  /\ UNCHANGED <<loop, inbound, broken, sent, fin>>

Finish(x) ==
  /\ x \notin fin \cup broken
  /\ fin' = fin \cup {x}
  /\ UNCHANGED <<loop, kernel, got, sent>>

(* The peer dies, or closes with bytes unread: what is on the way is lost. *)
Break(x) ==
  /\ x \notin broken
  /\ broken' = broken \cup {x}
  /\ inbound' = [inbound EXCEPT ![x] = <<>>]
  /\ outbound' = [outbound EXCEPT ![x] = <<>>]
  /\ UNCHANGED <<loop, peers>>

Peer == \E x \in Side : Send(x) \/ Receive(x) \/ Finish(x) \/ Break(x)

Next == Loop \/ Timeout \/ Peer
Spec == Init /\ [][Next]_vars

-----------------------------------------------------------------------------
(* Properties *)

TypeOK ==
  /\ pc \in Place
  /\ {rset, wset, fin, broken} \subseteq SUBSET Side
  /\ full \in [Side -> BOOLEAN] /\ sent \in [Side -> Nat]
  /\ held \in [Side -> Seq(Nat)] /\ got \in [Side -> Seq(Nat)]
  /\ inbound \in [Side -> Seq(Nat)] /\ outbound \in [Side -> Seq(Nat)]
  /\ {unset, moved, idle, skipped} \subseteq BOOLEAN

(* Nothing is lost, repeated or reordered between two connections that are *)
(* not broken, whatever the two buffers, partial writes and either side's  *)
(* speed: what a peer has read, what waits for it, what the relay holds    *)
(* and what waits to be read are the bytes 1, 2, .. that the other sent.   *)
(* And whatever breaks, a peer has only ever read a beginning of them.     *)
Follows(q, n) == \A i \in 1 .. Len(q) : q[i] = n + i
Passed(x) == Len(got[Other(x)]) + Len(outbound[Other(x)])
StreamKept ==
  \A x \in Side :
    LET y == Other(x) IN
    /\ broken = {} => /\ Follows(outbound[y], Len(got[y]))
                      /\ Follows(held[x], Passed(x))
                      /\ Follows(inbound[x], Passed(x) + Len(held[x]))
                      /\ Passed(x) + Len(held[x]) + Len(inbound[x]) = sent[x]
    /\ Follows(got[y], 0) /\ Len(got[y]) <= sent[x]

(* As long as both peers go on sending and reading at speed, every round   *)
(* moves bytes: the loop spins only once a stream has ended (its end is    *)
(* read again and again and never passed on), a write was put off (the     *)
(* next bytes of that stream keep the first select() from waiting), or a   *)
(* connection broke.                                                       *)
SpinsOnlyIf == idle => fin # {} \/ skipped \/ broken # {} \/ unset

(* With peers that read, all that a peer sends arrives, unless the relay   *)
(* timed out, a connection broke, tv_usec was negative, or a write was put *)
(* off: after that the loop may sleep in the first select(), which is      *)
(* about reading only, on bytes that it could deliver.                     *)
Delivered ==
  \A x \in Side :
    [](sent[x] > Len(got[Other(x)]) =>
         <>(sent[x] = Len(got[Other(x)]) \/ ~Running \/ broken # {} \/ unset \/ skipped))
=============================================================================
