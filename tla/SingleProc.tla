----------------------------- MODULE SingleProc -----------------------------
(***************************************************************************)
(* np_single_proc: one process serves every client from a select() loop.   *)
(*                                                                         *)
(* The server's descriptors are numbers handed out lowest first, and the   *)
(* tables it keeps (the sockets of its clients, the pipes of each client's *)
(* list of numbered pipes, the user pipes from client to client) are       *)
(* tables of such numbers.  What can go wrong is that a table names a      *)
(* number that has been closed, or has become something else.              *)
(*                                                                         *)
(* Between two events of the loop nothing but the served client's line     *)
(* changes the tables: a command is one step, its waitpid() included.      *)
(***************************************************************************)
EXTENDS Integers

CONSTANTS
  MaxSlot,    \* index of the last client slot (29 in the code)
  MaxFd,      \* highest descriptor the process can have
  OddBit,     \* the bit that FD_SET(-1) sets (63 in the code's build)
  LastNode,   \* index of the last node of a client's list (1001 in the code)
  MaxLen,     \* the longest |N a client types
  Name,       \* nicknames clients give themselves
  NoName      \* "(no name)"

ASSUME SlotAssumption == MaxSlot \in Nat
ASSUME FdAssumption == MaxFd \in Nat /\ MaxFd >= 3
ASSUME BitAssumption == OddBit \in Nat /\ OddBit > 3
ASSUME RingAssumption ==
  /\ LastNode \in Nat /\ MaxLen \in Nat
  /\ MaxLen <= LastNode
ASSUME NameAssumption == NoName \notin Name

VARIABLES
  up,       \* whether the server runs
  client,   \* client[i]: the socket of the client in slot i, or None
  ghost,    \* the slots of clients whose accept() failed: their socket is -1
  name,     \* name[i]: its nickname
  ring,     \* ring[i][n]: the pipe in the n-th node of its list
  wr,       \* wr[i][j]: write end of the user pipe from i to j (pipe_write_to)
  rd,       \* rd[j][i]: read end of that pipe (pipe_read_from)
  open,     \* open[f]: what descriptor f is
  readfd,   \* the bits of the set given to select()
  maxfd,    \* select() looks at no higher bit than this
  ready,    \* what select() reported and the loop has not come to yet
  cur,      \* the slot whose line is being executed, or None
  leaked,   \* history: open descriptors no table names any more
  strays    \* history: departures that closed descriptor 1

tables == <<client, ghost, name, ring, wr, rd, open, maxfd, leaked>>
vars == <<up, client, ghost, name, ring, wr, rd, open, readfd, maxfd, ready, cur,
          leaked, strays>>

-----------------------------------------------------------------------------
(* Values *)

None == -1
Slot == 0 .. MaxSlot
Fd == 0 .. MaxFd
Node == 0 .. LastNode
Stdout == 1
Listener == 3

(* A pipe end remembers the number its other end was given with it.        *)
Closed == [kind |-> "closed", mate |-> None]
Std == [kind |-> "std", mate |-> None]
Listening == [kind |-> "listen", mate |-> None]
Socket == [kind |-> "socket", mate |-> None]
ReadEnd(w) == [kind |-> "read", mate |-> w]
WriteEnd(r) == [kind |-> "write", mate |-> r]
Object == [kind : {"closed", "std", "listen", "socket", "read", "write"},
           mate : Fd \cup {None}]

NoPipe == [w |-> None, r |-> None]
NodePipe == [w : Fd \cup {None}, r : Fd \cup {None}]
EmptyRing == [n \in Node |-> NoPipe]
NoUserPipe == [j \in Slot |-> None]

(* One parsed command: its |N or !N (len = 0 when it has none), the slots  *)
(* its <N and >N name, and whether the line ends after it.                 *)
Command == [len : 0 .. MaxLen, from : Slot \cup {None}, to : Slot \cup {None}, last : BOOLEAN]
Unredirected == {c \in Command : c.from = None /\ c.to = None}

Online == {i \in Slot : client[i] # None} \cup ghost

Lowest(S) == CHOOSE f \in S : \A g \in S : f <= g
FreeFds(t) == {f \in Fd : t[f] = Closed}

(* The numbers pipe() returns, and the table after it.                     *)
PipeFds(t) == LET r == Lowest(FreeFds(t))
              IN  [r |-> r, w |-> Lowest(FreeFds(t) \ {r})]
WithPipe(t, p) == [t EXCEPT ![p.r] = ReadEnd(p.w), ![p.w] = WriteEnd(p.r)]
CanPipe(t) == \E f, g \in FreeFds(t) : f # g

(* close() of every number in S that is one.                               *)
Close(t, S) == [f \in Fd |-> IF f \in S THEN Closed ELSE t[f]]

PipeFdsOf(r) == ({r[n].w : n \in Node} \cup {r[n].r : n \in Node}) \ {None}

-----------------------------------------------------------------------------
Init ==
  /\ up = TRUE
  /\ client = [i \in Slot |-> None]
  /\ ghost = {}
  /\ name = [i \in Slot |-> NoName]
  /\ ring = [i \in Slot |-> EmptyRing]
  /\ wr = [i \in Slot |-> NoUserPipe]
  /\ rd = [i \in Slot |-> NoUserPipe]
  /\ open = [f \in Fd |-> IF f < Listener THEN Std
                          ELSE IF f = Listener THEN Listening ELSE Closed]
  /\ readfd = {Listener}
  /\ maxfd = Listener
  /\ ready = {}
  /\ cur = None
  /\ leaked = {}
  /\ strays = 0

(* select() fails for ever once it is given a closed descriptor.           *)
Looked == {f \in readfd : f <= maxfd}
Select ==
  /\ ready = {} /\ cur = None
  /\ \A f \in Looked : open[f] # Closed
  /\ ready' \in (SUBSET Looked) \ {{}}
  /\ UNCHANGED <<up, readfd, cur, strays, tables>>

(* The loop goes through what is ready by ascending number.                *)
Turn(f) == ready # {} /\ cur = None /\ f = Lowest(ready)
StillReady(f) == IF f = Listener THEN ready \ {f} ELSE ready
LeftReady(f) == ready \ {f}

FirstFree == Lowest(Slot \ Online)

(* A connection: the first free slot gets a new npshell.                   *)
Accept ==
  LET f == Lowest(FreeFds(open))
      i == FirstFree
  IN  /\ Turn(Listener)
      /\ FreeFds(open) # {}
      /\ Slot \ Online # {}
      /\ ready' = LeftReady(Listener)
      /\ open' = [open EXCEPT ![f] = Socket]
      /\ readfd' = readfd \cup {f}
      /\ maxfd' = IF f > maxfd THEN f ELSE maxfd
      /\ client' = [client EXCEPT ![i] = f]
      /\ name' = [name EXCEPT ![i] = NoName]
      /\ ring' = [ring EXCEPT ![i] = EmptyRing]
      /\ wr' = [wr EXCEPT ![i] = NoUserPipe]
      /\ rd' = [rd EXCEPT ![i] = NoUserPipe]
      /\ UNCHANGED <<up, ghost, cur, leaked, strays>>

(* accept() fails, for want of a descriptor or because the client has left *)
(* already.  It is reported, and the loop goes on with the socket -1: a    *)
(* client nobody will ever serve gets a slot, and FD_SET(-1) sets a bit.   *)
AcceptFails ==
  LET i == FirstFree
  IN  /\ Turn(Listener)
      /\ Slot \ Online # {}
      /\ ready' = LeftReady(Listener)
      /\ readfd' = readfd \cup {OddBit}
      /\ ghost' = ghost \cup {i}
      /\ name' = [name EXCEPT ![i] = NoName]
      /\ ring' = [ring EXCEPT ![i] = EmptyRing]
      /\ wr' = [wr EXCEPT ![i] = NoUserPipe]
      /\ rd' = [rd EXCEPT ![i] = NoUserPipe]
      /\ UNCHANGED <<up, client, open, maxfd, cur, leaked, strays>>

(* When every slot is taken the search ends at an index past the table,    *)
(* and client.at() throws: the server ends.                                *)
AcceptTooMany ==
  /\ Turn(Listener)
  /\ Slot = Online
  /\ up' = FALSE
  /\ UNCHANGED <<readfd, ready, cur, strays, tables>>

(* A client's line is ready: it is found by its socket.                    *)
Serve(i) ==
  /\ Turn(client[i])
  /\ client[i] # None
  /\ ready' = LeftReady(client[i])
  /\ cur' = i
  /\ UNCHANGED <<up, readfd, strays, tables>>

(* What is ready is no client's socket: client.at() throws.                *)
ServeNobody ==
  /\ \E f \in ready \ {Listener} : Turn(f) /\ \A i \in Slot : client[i] # f
  /\ up' = FALSE
  /\ UNCHANGED <<readfd, ready, cur, strays, tables>>

(* The rest of the line is empty.                                          *)
EndLine ==
  /\ cur # None
  /\ cur' = None
  /\ UNCHANGED <<up, readfd, ready, strays, tables>>

-----------------------------------------------------------------------------
(* Commands of the client in slot cur *)

(* The list after a node's pipe was asked for, and the descriptors then.   *)
NeedsPipe(c) == c.len > 0 /\ ring[cur][c.len] = NoPipe
Aimed(c) == IF NeedsPipe(c) THEN [ring[cur] EXCEPT ![c.len] = PipeFds(open)]
                            ELSE ring[cur]
Opened(c) == IF NeedsPipe(c) THEN WithPipe(open, PipeFds(open)) ELSE open

(* linked_list_new_node                                                    *)
NextNode(r) == [n \in Node |-> IF n < LastNode THEN r[n + 1] ELSE NoPipe]

LineGoesOn(c) == cur' = IF c.last THEN None ELSE cur

(* setenv, printenv, who, tell, yell, and a name already taken: no command *)
(* is forked, and the first node is dropped with its pipe still open.      *)
Builtin(c) ==
  /\ cur # None
  /\ NeedsPipe(c) => CanPipe(open)
  /\ ring' = [ring EXCEPT ![cur] = NextNode(Aimed(c))]
  /\ open' = Opened(c)
  /\ leaked' = leaked \cup ({ring[cur][0].w, ring[cur][0].r} \ {None})
  /\ LineGoesOn(c)
  /\ UNCHANGED <<up, client, ghost, name, wr, rd, readfd, maxfd, ready, strays>>

NameIsFree(n) == \A i \in Online : name[i] # n

Rename(c, n) ==
  /\ cur # None
  /\ NeedsPipe(c) => CanPipe(open)
  /\ NameIsFree(n)
  /\ name' = [name EXCEPT ![cur] = n]
  /\ ring' = [ring EXCEPT ![cur] = NextNode(Aimed(c))]
  /\ open' = Opened(c)
  /\ leaked' = leaked \cup ({ring[cur][0].w, ring[cur][0].r} \ {None})
  /\ LineGoesOn(c)
  /\ UNCHANGED <<up, client, ghost, wr, rd, readfd, maxfd, ready, strays>>

(* <N finds a pipe if N's client has the write end of one to this client;  *)
(* >N makes one if N's client has no read end of one from this client.     *)
Receives(c) == c.from \in Online /\ wr[c.from][cur] # None
SendsAnyway(c) == c.to \in Online
Sends(c) == c.to \in Online /\ rd[c.to][cur] = None

(* The write end of what is received is closed and forgotten before the    *)
(* fork, its read end after it.                                            *)
KeepWriteEnd(c) == wr
ForgetWriteEnd(c) == IF Receives(c) THEN [wr EXCEPT ![c.from][cur] = None] ELSE wr
ForgetReadEnd(c, t) == IF Receives(c) THEN [t EXCEPT ![cur][c.from] = None] ELSE t

Exec(c) ==
  LET node  == ring[cur][0]
      recvW == IF Receives(c) THEN {wr[c.from][cur]} ELSE {}
      recvR == IF Receives(c) THEN {rd[cur][c.from]} ELSE {}
      t1    == Close(Opened(c), {node.w} \cup recvW)
      p     == PipeFds(t1)
      t2    == IF Sends(c) THEN WithPipe(t1, p) ELSE t1
      wr1   == ForgetWriteEnd(c)
  IN  /\ cur # None
      /\ NeedsPipe(c) => CanPipe(open)
      /\ Sends(c) => CanPipe(t1)
      /\ open' = Close(t2, {node.r} \cup recvR)
      /\ wr' = IF Sends(c) THEN [wr1 EXCEPT ![cur][c.to] = p.w] ELSE wr1
      /\ rd' = ForgetReadEnd(c, IF Sends(c) THEN [rd EXCEPT ![c.to][cur] = p.r] ELSE rd)
      /\ ring' = [ring EXCEPT ![cur] = NextNode(Aimed(c))]
      /\ LineGoesOn(c)
      /\ UNCHANGED <<up, client, ghost, name, readfd, maxfd, ready, leaked, strays>>

(* "exit", or end of file on the socket.  The departing client's own user  *)
(* pipe ends are closed, and the others' write ends to it; of their read   *)
(* ends from it, none is: close(pipe_read_from[i] != -1) closes 1.         *)
OwnEnds(i) == ({wr[i][j] : j \in Slot} \cup {rd[i][j] : j \in Slot}) \ {None}
WriteEndsTo(i) == {wr[j][i] : j \in Slot \ {i}} \ {None}
ReadEndsFrom(i) == {rd[j][i] : j \in Slot \ {i}} \ {None}
ForgetOwn(t, i) == [t EXCEPT ![i] = NoUserPipe]
WithoutUser(t, i) ==
  [j \in Slot |-> IF j = i THEN NoUserPipe ELSE [t[j] EXCEPT ![i] = None]]
StillWatched(f) == readfd
Unwatched(f) == readfd \ {f}

StrayClose(i) == IF ReadEndsFrom(i) = {} THEN {} ELSE {Stdout}

Logout(c) ==
  LET i == cur
  IN  /\ i # None
      /\ NeedsPipe(c) => CanPipe(open)
      /\ open' = Close(Opened(c),
                       {client[i]} \cup OwnEnds(i) \cup WriteEndsTo(i) \cup StrayClose(i))
      /\ readfd' = Unwatched(client[i])
      /\ client' = [client EXCEPT ![i] = None]
      /\ name' = [name EXCEPT ![i] = NoName]
      /\ ring' = [ring EXCEPT ![i] = EmptyRing]
      /\ wr' = WithoutUser(wr, i)
      /\ rd' = WithoutUser(rd, i)
      /\ leaked' = leaked \cup PipeFdsOf(Aimed(c)) \cup ReadEndsFrom(i)
      /\ strays' = IF StrayClose(i) = {} THEN strays ELSE strays + 1
      /\ cur' = None
      /\ UNCHANGED <<up, ghost, maxfd, ready>>

-----------------------------------------------------------------------------
(* Bound: what follows the second departure that closes descriptor 1 is    *)
(* not explored.                                                           *)
Explored == up /\ strays < 2

Next ==
  /\ Explored
  /\ \/ Select
     \/ Accept
     \/ AcceptFails
     \/ AcceptTooMany
     \/ \E i \in Slot : Serve(i)
     \/ ServeNobody
     \/ EndLine
     \/ \E c \in Command : Exec(c)
     \/ \E c \in Unredirected : \/ Builtin(c)
                                \/ Logout(c)
                                \/ \E n \in Name : Rename(c, n)

Spec == Init /\ [][Next]_vars

-----------------------------------------------------------------------------
(* Properties *)

TypeOK ==
  /\ up \in BOOLEAN
  /\ client \in [Slot -> Fd \cup {None}]
  /\ ghost \in SUBSET Slot
  /\ name \in [Slot -> Name \cup {NoName}]
  /\ ring \in [Slot -> [Node -> NodePipe]]
  /\ wr \in [Slot -> [Slot -> Fd \cup {None}]]
  /\ rd \in [Slot -> [Slot -> Fd \cup {None}]]
  /\ open \in [Fd -> Object]
  /\ readfd \in SUBSET (Fd \cup {OddBit})
  /\ maxfd \in Fd /\ ready \in SUBSET Looked
  /\ cur \in Slot \cup {None}
  /\ leaked \in SUBSET Fd
  /\ strays \in 0 .. 2

(* The two users of a pipe agree that it exists, and both are logged in:   *)
(* the sender's entry is what a receiver tests, the receiver's entry is    *)
(* what a sender tests and what is read.                                   *)
Mirrored ==
  \A i, j \in Slot : /\ wr[i][j] # None <=> rd[j][i] # None
                     /\ wr[i][j] # None => i \in Online /\ j \in Online

(* The sockets of the clients that have one.                               *)
Sockets == {client[i] : i \in Slot} \ {None}

(* Up to the second stray close, every entry of every table is what the    *)
(* table says it is: the sockets are open sockets, and the two entries of  *)
(* a pipe are the two ends of one pipe.                                    *)
IsPipe(w, r) == w # None /\ r # None /\ open[w] = WriteEnd(r) /\ open[r] = ReadEnd(w)
EntriesValid ==
  strays < 2 =>
    /\ \A f \in Sockets : open[f] = Socket
    /\ \A i, j \in Slot : wr[i][j] # None => IsPipe(wr[i][j], rd[j][i])
    /\ \A i \in Slot, n \in Node : ring[i][n] # NoPipe => IsPipe(ring[i][n].w, ring[i][n].r)

(* Every open descriptor is one of the server's own, is named by a table,  *)
(* or is the leftover of a dropped node, a departed client's list, or a    *)
(* user pipe whose sender left; none is named by a table and given up too. *)
Named == Sockets
         \cup (UNION {PipeFdsOf(ring[i]) : i \in Slot})
         \cup (UNION {OwnEnds(i) : i \in Slot})
Own == IF strays = 0 THEN 0 .. Listener ELSE (0 .. Listener) \ {Stdout}
FdsAccounted ==
  strays < 2 =>
    /\ {f \in Fd : open[f] # Closed} = Own \cup Named \cup leaked
    /\ Named \cap leaked = {} /\ (Named \cup leaked) \cap Own = {}

(* select() looks at every client it can serve, and at nothing else but    *)
(* the bit a failed accept() set; what the loop goes on with afterwards    *)
(* is still a client's socket, although clients leave and come during the  *)
(* round; and it can select at all: it takes two stray closes, or that     *)
(* bit, to hand it a closed descriptor, which it fails on for ever.        *)
Odd == IF ghost = {} THEN {} ELSE {OddBit}
Watched ==
  /\ {Listener} \cup Sockets \subseteq Looked
  /\ readfd \subseteq {Listener} \cup Sockets \cup Odd
  /\ ready \subseteq {Listener} \cup Sockets \cup Odd
  /\ strays < 2 => \A f \in readfd \ Odd : open[f] # Closed

(* The tables implement user pipes.                                        *)
Promise == INSTANCE UserPipes
             WITH online <- Online, pipes <- {x \in Slot \X Slot : wr[x[1]][x[2]] # None}
ImplementsUserPipes == Promise!Spec
=============================================================================
