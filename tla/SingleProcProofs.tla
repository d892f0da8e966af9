-------------------------- MODULE SingleProcProofs --------------------------
(***************************************************************************)
(* The tables of np_single_proc implement user pipes for every number of   *)
(* clients and descriptors: the two entries of a pipe are always set and   *)
(* reset together, by whichever of its users does it.                      *)
(*                                                                         *)
(* And its descriptors are accounted for: an open one is a client's, or in *)
(* one place of the lists and tables, or was given up.  A descriptor that  *)
(* is closed without being in any place may be anybody's by then, so that  *)
(* all this is said up to the second such close.                           *)
(***************************************************************************)
EXTENDS SingleProc, WellFoundedInduction, TLAPS

Entries == [Slot -> [Slot -> Fd \cup {None}]]

\* What the argument needs of the types: the sockets, the user pipes, and that
\* the client served is logged in and has a socket.
UserPipeInv ==
  /\ client \in [Slot -> Fd \cup {None}]
  /\ ghost \in SUBSET Slot /\ \A i \in ghost : client[i] = None
  /\ wr \in Entries /\ rd \in Entries
  /\ cur \in Slot \cup {None}
  /\ cur # None => client[cur] # None
  /\ Mirrored

-----------------------------------------------------------------------------
(* Numbers handed out *)

\* No descriptor and no slot is None.
LEMMA NoneFacts == None \notin Fd /\ None \notin Slot
BY SlotAssumption, FdAssumption DEF None, Fd, Slot

(* A set of naturals that is not empty has a lowest element, and Lowest()  *)
(* is it.                                                                  *)
LEMMA LowestFacts ==
  ASSUME NEW S \in SUBSET Nat, S # {}
  PROVE  Lowest(S) \in S
<1> DEFINE Less == {p \in Nat \X Nat : p[1] < p[2]}
<1>1. IsWellFoundedOn(Less, Nat)
  BY NatLessThanWellFounded DEF OpToRel
<1>2. PICK m \in S : \A x \in S : <<x, m>> \notin Less
  <2> HIDE DEF Less
  <2> QED BY <1>1, WFMin
<1>3. ASSUME NEW x \in S PROVE m <= x
  <2>1. m \in Nat /\ x \in Nat /\ ~(x < m)
    <3>1. <<x, m>> \in Nat \X Nat => <<x, m>>[1] = x /\ <<x, m>>[2] = m
      OBVIOUS
    <3> QED BY <1>2, <3>1
  <2> QED BY <2>1
<1> QED BY <1>3 DEF Lowest

\* The first free slot is one.
LEMMA FirstFreeFacts ==
  ASSUME Slot \ Online # {}
  PROVE  FirstFree \in Slot /\ FirstFree \notin Online
<1>1. Slot \ Online \in SUBSET Nat
  BY SlotAssumption DEF Slot
<1> QED BY <1>1, LowestFacts DEF FirstFree

(* So a free descriptor is found if there is one.                          *)
LEMMA FreeFdFacts ==
  ASSUME NEW t, FreeFds(t) # {}
  PROVE  Lowest(FreeFds(t)) \in Fd
<1>1. FreeFds(t) \in SUBSET Nat /\ FreeFds(t) \subseteq Fd
  BY FdAssumption DEF FreeFds, Fd
<1> QED BY <1>1, LowestFacts

\* pipe() returns two descriptors.
LEMMA PipeFdsFacts ==
  ASSUME NEW t, CanPipe(t)
  PROVE  PipeFds(t).r \in Fd /\ PipeFds(t).w \in Fd
<1> DEFINE r == Lowest(FreeFds(t))
<1>1. FreeFds(t) \in SUBSET Nat /\ FreeFds(t) \subseteq Fd
  BY FdAssumption DEF FreeFds, Fd
<1>2. FreeFds(t) # {} /\ FreeFds(t) \ {r} # {}
  BY DEF CanPipe
<1>3. r \in Fd
  BY <1>1, <1>2, LowestFacts
<1>4. Lowest(FreeFds(t) \ {r}) \in FreeFds(t) \ {r}
  BY <1>1, <1>2, LowestFacts
<1> QED BY <1>1, <1>3, <1>4 DEF PipeFds

-----------------------------------------------------------------------------
(* The steps that touch the tables of user pipes *)

Waiting == {x \in Slot \X Slot : wr[x[1]][x[2]] # None}

(* The tables start empty, as the promised user pipes do,                  *)
LEMMA InitUserPipe == Init => UserPipeInv /\ Promise!Init
<1> SUFFICES ASSUME Init PROVE UserPipeInv /\ Promise!Init
  OBVIOUS
<1>1. \A i, j \in Slot : wr[i][j] = None /\ rd[i][j] = None
  BY DEF Init, NoUserPipe
<1>2. Online = {}
  BY DEF Init, Online
<1>3. client \in [Slot -> Fd \cup {None}] /\ wr \in Entries /\ rd \in Entries
  BY DEF Init, NoUserPipe, Entries
<1>4. cur = None /\ ghost = {}
  BY DEF Init
<1>5. Mirrored
  BY <1>1 DEF Mirrored
<1>6. Promise!Init
  BY <1>1, <1>2 DEF Promise!Init
<1> QED BY <1>3, <1>4, <1>5, <1>6 DEF UserPipeInv

\* A new client starts with no user pipe, and nobody has one with its slot; so
\* does the one that has no socket.
LEMMA LoginUserPipe ==
  ASSUME UserPipeInv, Accept \/ AcceptFails
  PROVE  UserPipeInv' /\ Promise!Login(FirstFree)
<1> DEFINE f == Lowest(FreeFds(open))
           i == FirstFree
<1>1. /\ i \in Slot /\ i \notin Online /\ i \notin ghost /\ client[i] = None
      /\ wr' = [wr EXCEPT ![i] = NoUserPipe] /\ rd' = [rd EXCEPT ![i] = NoUserPipe]
      /\ cur = None /\ cur' = None
  BY FirstFreeFacts DEF Accept, AcceptFails, Turn, Online
<1>2. /\ client \in [Slot -> Fd \cup {None}] /\ wr \in Entries /\ rd \in Entries
      /\ ghost \in SUBSET Slot /\ \A j \in ghost : client[j] = None
  BY DEF UserPipeInv
<1>3. /\ client' \in [Slot -> Fd \cup {None}] /\ Online' = Online \cup {i}
      /\ ghost' \in SUBSET Slot /\ \A j \in ghost' : client'[j] = None
  <2>1. CASE Accept
    <3>1. f \in Fd /\ f # None /\ client' = [client EXCEPT ![i] = f] /\ ghost' = ghost
      BY <2>1, FreeFdFacts, NoneFacts DEF Accept
    <3> HIDE DEF f, i
    <3> QED BY <1>1, <1>2, <3>1 DEF Online
  <2>2. CASE AcceptFails
    <3>1. client' = client /\ ghost' = ghost \cup {i}
      BY <2>2 DEF AcceptFails
    <3> HIDE DEF i
    <3> QED BY <1>1, <1>2, <3>1 DEF Online
  <2> QED BY <2>1, <2>2
<1>4. NoUserPipe \in [Slot -> Fd \cup {None}] /\ \A j \in Slot : NoUserPipe[j] = None
  BY DEF NoUserPipe
<1>5. wr' \in Entries /\ rd' \in Entries
  BY <1>1, <1>2, <1>4 DEF Entries
<1>6. \A j \in Slot : wr[i][j] = None /\ wr[j][i] = None /\ rd[i][j] = None /\ rd[j][i] = None
  BY <1>1 DEF UserPipeInv, Mirrored
<1>7. \A j, k \in Slot : wr'[j][k] = wr[j][k] /\ rd'[j][k] = rd[j][k]
  BY <1>1, <1>2, <1>4, <1>6 DEF Entries
<1>8. Mirrored'
  BY <1>3, <1>7 DEF UserPipeInv, Mirrored
<1>9. UserPipeInv'
  BY <1>1, <1>3, <1>5, <1>8 DEF UserPipeInv
<1>10. Waiting' = Waiting
  BY <1>7 DEF Waiting
<1> QED BY <1>1, <1>3, <1>9, <1>10 DEF Promise!Login, Waiting

\* Whoever leaves takes along every pipe to and from it.
LEMMA LogoutUserPipe ==
  ASSUME UserPipeInv, NEW c \in Command, Logout(c)
  PROVE  UserPipeInv' /\ Promise!Logout(cur)
<1> DEFINE i == cur
<1>1. /\ i \in Slot /\ i \in Online /\ cur' = None /\ client[i] # None
      /\ client' = [client EXCEPT ![i] = None] /\ ghost' = ghost
      /\ wr' = WithoutUser(wr, i) /\ rd' = WithoutUser(rd, i)
  BY DEF Logout, UserPipeInv, Online
<1>2. /\ client \in [Slot -> Fd \cup {None}] /\ wr \in Entries /\ rd \in Entries
      /\ ghost \in SUBSET Slot /\ \A j \in ghost : client[j] = None
  BY DEF UserPipeInv
<1>3. /\ client' \in [Slot -> Fd \cup {None}] /\ Online' = Online \ {i}
      /\ \A j \in ghost' : client'[j] = None
  BY <1>1, <1>2 DEF Online
<1>4. ASSUME NEW t \in Entries
      PROVE  /\ WithoutUser(t, i) \in Entries
             /\ \A j, k \in Slot : WithoutUser(t, i)[j][k] =
                                     IF j = i \/ k = i THEN None ELSE t[j][k]
  BY <1>1, <1>4 DEF WithoutUser, NoUserPipe, Entries
<1>5. wr' \in Entries /\ rd' \in Entries
  BY <1>1, <1>2, <1>4
<1>6. \A j, k \in Slot : /\ wr'[j][k] = IF j = i \/ k = i THEN None ELSE wr[j][k]
                         /\ rd'[j][k] = IF j = i \/ k = i THEN None ELSE rd[j][k]
  BY <1>1, <1>2, <1>4
<1>7. Mirrored'
  BY <1>3, <1>6 DEF UserPipeInv, Mirrored
<1>8. UserPipeInv'
  BY <1>1, <1>2, <1>3, <1>5, <1>7 DEF UserPipeInv
<1>9. Waiting' = {x \in Waiting : x[1] # i /\ x[2] # i}
  BY <1>6 DEF Waiting
<1> QED BY <1>1, <1>3, <1>8, <1>9 DEF Promise!Logout, Waiting

\* The descriptors when a command's output pipe is made, and that pipe.
BeforePipe(c) == Close(Opened(c), {ring[cur][0].w} \cup
                                  (IF Receives(c) THEN {wr[c.from][cur]} ELSE {}))
OutPipe(c) == PipeFds(BeforePipe(c))

\* What the two tables hold after a command; the pipe it makes is never the one
\* it reads.
LEMMA ExecEntries ==
  ASSUME UserPipeInv, NEW c \in Command, Exec(c)
  PROVE  /\ cur \in Slot /\ cur \in Online
         /\ Receives(c) => c.from \in Slot
         /\ Sends(c) => c.to \in Slot /\ OutPipe(c).w \in Fd /\ OutPipe(c).r \in Fd
         /\ ~(Sends(c) /\ Receives(c) /\ cur = c.from /\ cur = c.to)
         /\ wr' \in Entries /\ rd' \in Entries
         /\ \A j, k \in Slot : wr'[j][k] =
               IF Sends(c) /\ j = cur /\ k = c.to THEN OutPipe(c).w
               ELSE IF Receives(c) /\ j = c.from /\ k = cur THEN None ELSE wr[j][k]
         /\ \A j, k \in Slot : rd'[k][j] =
               IF Receives(c) /\ j = c.from /\ k = cur THEN None
               ELSE IF Sends(c) /\ j = cur /\ k = c.to THEN OutPipe(c).r ELSE rd[k][j]
<1> DEFINE i == cur
           p == OutPipe(c)
<1>1. /\ i \in Slot /\ i \in Online
      /\ Sends(c) => CanPipe(BeforePipe(c))
      /\ wr' = IF Sends(c) THEN [ForgetWriteEnd(c) EXCEPT ![i][c.to] = p.w]
                           ELSE ForgetWriteEnd(c)
      /\ rd' = ForgetReadEnd(c, IF Sends(c) THEN [rd EXCEPT ![c.to][i] = p.r] ELSE rd)
  BY DEF Exec, UserPipeInv, BeforePipe, OutPipe, Online
<1>2. /\ wr \in Entries /\ rd \in Entries /\ Online \subseteq Slot
  BY DEF UserPipeInv, Online
<1>3. /\ Receives(c) => c.from \in Slot
      /\ Sends(c) => c.to \in Slot /\ p.w \in Fd /\ p.r \in Fd
  BY <1>1, <1>2, PipeFdsFacts, NoneFacts DEF Receives, Sends, OutPipe
<1> HIDE DEF p
<1>4. ForgetWriteEnd(c) \in Entries /\
      \A j, k \in Slot : ForgetWriteEnd(c)[j][k] =
                           IF Receives(c) /\ j = c.from /\ k = i THEN None ELSE wr[j][k]
  BY <1>1, <1>2, <1>3 DEF ForgetWriteEnd, Entries
<1>5. wr' \in Entries /\
      \A j, k \in Slot : wr'[j][k] =
        IF Sends(c) /\ j = i /\ k = c.to THEN p.w
        ELSE IF Receives(c) /\ j = c.from /\ k = i THEN None ELSE wr[j][k]
  BY <1>1, <1>3, <1>4 DEF Entries
<1>6. ASSUME NEW t \in Entries
      PROVE  /\ ForgetReadEnd(c, t) \in Entries
             /\ \A j, k \in Slot : ForgetReadEnd(c, t)[k][j] =
                  IF Receives(c) /\ j = c.from /\ k = i THEN None ELSE t[k][j]
  BY <1>1, <1>3, <1>6 DEF ForgetReadEnd, Entries
<1>7. rd' \in Entries /\
      \A j, k \in Slot : rd'[k][j] =
        IF Receives(c) /\ j = c.from /\ k = i THEN None
        ELSE IF Sends(c) /\ j = i /\ k = c.to THEN p.r ELSE rd[k][j]
  <2> DEFINE t == IF Sends(c) THEN [rd EXCEPT ![c.to][i] = p.r] ELSE rd
  <2>1. t \in Entries /\ \A j, k \in Slot : t[k][j] = IF Sends(c) /\ j = i /\ k = c.to
                                                    THEN p.r ELSE rd[k][j]
    BY <1>1, <1>2, <1>3 DEF Entries
  <2> HIDE DEF t
  <2>2. rd' = ForgetReadEnd(c, t)
    BY <1>1 DEF t
  <2>3. /\ rd' \in Entries
        /\ \A j, k \in Slot : rd'[k][j] =
             IF Receives(c) /\ j = c.from /\ k = i THEN None ELSE t[k][j]
    BY <1>6, <2>1, <2>2
  <2> QED BY <2>1, <2>3
<1>8. ~(Sends(c) /\ Receives(c) /\ i = c.from /\ i = c.to)
  BY <1>1 DEF UserPipeInv, Sends, Receives, Mirrored
<1> QED BY <1>1, <1>3, <1>5, <1>7, <1>8 DEF p

\* A command takes the pipe it reads out of both tables and puts the one it
\* makes into both.
LEMMA ExecUserPipe ==
  ASSUME UserPipeInv, NEW c \in Command, Exec(c)
  PROVE  UserPipeInv' /\ Promise!Command(cur, c.from, c.to)
<1> DEFINE i == cur
           p == OutPipe(c)
<1>1. /\ i \in Slot /\ i \in Online /\ cur' \in {None, cur}
      /\ client' = client /\ ghost' = ghost
  BY DEF Exec, UserPipeInv, LineGoesOn, Online
<1>2. /\ client \in [Slot -> Fd \cup {None}] /\ wr \in Entries /\ rd \in Entries
      /\ Online' = Online /\ Online \subseteq Slot /\ Mirrored
  BY <1>1 DEF UserPipeInv, Online
<1>3. /\ Receives(c) => c.from \in Slot
      /\ Sends(c) => c.to \in Slot /\ p.w # None /\ p.r # None
      /\ ~(Sends(c) /\ Receives(c) /\ i = c.from /\ i = c.to)
  BY ExecEntries, NoneFacts
<1>4. wr' \in Entries /\
      \A j, k \in Slot : wr'[j][k] =
        IF Sends(c) /\ j = i /\ k = c.to THEN p.w
        ELSE IF Receives(c) /\ j = c.from /\ k = i THEN None ELSE wr[j][k]
  BY ExecEntries
<1>5. rd' \in Entries /\
      \A j, k \in Slot : rd'[k][j] =
        IF Receives(c) /\ j = c.from /\ k = i THEN None
        ELSE IF Sends(c) /\ j = i /\ k = c.to THEN p.r ELSE rd[k][j]
  BY ExecEntries
<1> HIDE DEF p
<1>6. Mirrored'
  <2> SUFFICES ASSUME NEW j \in Slot, NEW k \in Slot
               PROVE  /\ wr'[j][k] # None <=> rd'[k][j] # None
                      /\ wr'[j][k] # None => j \in Online /\ k \in Online
    BY <1>2 DEF Mirrored
  <2>1. CASE Sends(c) /\ j = i /\ k = c.to
    <3>1. wr'[j][k] = p.w
      BY <1>4, <2>1
    <3>2. rd'[k][j] = p.r
      BY <1>3, <1>5, <2>1
    <3>3. j \in Online /\ k \in Online
      BY <1>1, <2>1 DEF Sends
    <3> QED BY <1>3, <2>1, <3>1, <3>2, <3>3
  <2>2. CASE ~(Sends(c) /\ j = i /\ k = c.to)
    BY <1>2, <1>4, <1>5, <2>2 DEF Mirrored
  <2> QED BY <2>1, <2>2
<1>7. UserPipeInv'
  BY <1>1, <1>2, <1>4, <1>5, <1>6 DEF UserPipeInv
<1>8. Receives(c) <=> <<c.from, i>> \in Waiting
  BY <1>1, <1>2 DEF Receives, Waiting, Mirrored
<1>9. Sends(c) <=> c.to \in Online /\ <<i, c.to>> \notin Waiting
  BY <1>1, <1>2 DEF Sends, Waiting, Mirrored
<1>10. Waiting' = (Waiting \ ({<<c.from, i>>} \cap Waiting))
                   \cup (IF c.to \in Online /\ <<i, c.to>> \notin Waiting
                         THEN {<<i, c.to>>} ELSE {})
  <2>1. \A j, k \in Slot :
          <<j, k>> \in Waiting' <=>
            \/ Sends(c) /\ j = i /\ k = c.to
            \/ <<j, k>> \in Waiting /\ ~(Receives(c) /\ j = c.from /\ k = i)
    BY <1>3, <1>4 DEF Waiting
  <2>2. Waiting \subseteq Slot \X Slot /\ Waiting' \subseteq Slot \X Slot
    BY DEF Waiting
  <2> QED BY <1>1, <1>2, <1>8, <1>9, <2>1, <2>2
<1> QED BY <1>1, <1>2, <1>7, <1>10 DEF Promise!Command, Waiting

\* Nothing else touches them.
LEMMA QuietUserPipe ==
  ASSUME UserPipeInv, UNCHANGED <<client, ghost, wr, rd>>,
         cur' \in Slot \cup {None}, cur' # None => client[cur'] # None
  PROVE  UserPipeInv' /\ UNCHANGED Promise!vars
BY DEF UserPipeInv, Mirrored, Online, Promise!vars

(* and every step is one of the promised ones, or none of them.            *)
LEMMA NextUserPipe ==
  UserPipeInv /\ [Next]_vars => UserPipeInv' /\ [Promise!Next]_Promise!vars
<1> SUFFICES ASSUME UserPipeInv, [Next]_vars
             PROVE  UserPipeInv' /\ [Promise!Next]_Promise!vars
  OBVIOUS
<1>1. Unredirected \subseteq Command /\ (cur # None => client[cur] # None /\ cur \in Slot)
  BY DEF Unredirected, UserPipeInv
<1>2. CASE Accept \/ AcceptFails
  BY <1>2, LoginUserPipe, FirstFreeFacts DEF Accept, AcceptFails, Promise!Next
<1>3. ASSUME NEW c \in Command, Exec(c) PROVE UserPipeInv' /\ Promise!Next
  <2>1. cur \in Slot /\ c.from \in Slot \cup {None} /\ c.to \in Slot \cup {None}
    BY <1>1, <1>3 DEF Exec, Command
  <2> QED BY <1>3, <2>1, ExecUserPipe DEF Promise!Next
<1>4. ASSUME NEW c \in Command, Logout(c) PROVE UserPipeInv' /\ Promise!Next
  <2>1. cur \in Slot
    BY <1>1, <1>4 DEF Logout
  <2>2. UserPipeInv' /\ Promise!Logout(cur)
    BY <1>4, LogoutUserPipe
  <2>3. \E i \in Slot : Promise!Logout(i)
    BY <2>1, <2>2 DEF Promise!Logout
  <2> QED BY <2>2, <2>3 DEF Promise!Next
<1>5. CASE Select \/ AcceptTooMany \/ ServeNobody \/ EndLine
  BY <1>1, <1>5, QuietUserPipe
     DEF Select, AcceptTooMany, ServeNobody, EndLine, tables, UserPipeInv
<1>6. ASSUME NEW i \in Slot, Serve(i) PROVE UserPipeInv' /\ UNCHANGED Promise!vars
  BY <1>6, QuietUserPipe DEF Serve, tables
<1>7. ASSUME NEW c \in Command, Builtin(c) \/ \E n \in Name : Rename(c, n)
      PROVE  UserPipeInv' /\ UNCHANGED Promise!vars
  BY <1>1, <1>7, QuietUserPipe DEF Builtin, Rename, LineGoesOn, UserPipeInv
<1>8. CASE UNCHANGED vars
  BY <1>1, <1>8, QuietUserPipe DEF vars, UserPipeInv
<1> QED BY <1>1, <1>2, <1>3, <1>4, <1>5, <1>6, <1>7, <1>8 DEF Next

\* Both users of a pipe know of it, or neither does, and both are logged in.
THEOREM TablesMirrored == Spec => []Mirrored
<1>1. UserPipeInv => Mirrored
  BY DEF UserPipeInv
<1> QED BY InitUserPipe, NextUserPipe, <1>1, PTL DEF Spec

\* np_single_proc keeps the promise of user pipes.
THEOREM SingleProcKeepsPromise == Spec => ImplementsUserPipes
BY InitUserPipe, NextUserPipe, PTL DEF Spec, ImplementsUserPipes, Promise!Spec

-----------------------------------------------------------------------------
(* What the tables say of the descriptors *)

\* A pipe P[x] is kept in each place x of a set H, at most; cl are the sockets,
\* t the descriptors, lk those given up while open, own the server's own.
PipeAt(t, p) == /\ p.w \in Fd /\ p.r \in Fd
                /\ t[p.w] = WriteEnd(p.r) /\ t[p.r] = ReadEnd(p.w)
HasEnd(P, X, f) == \E x \in X : f = P[x].w \/ f = P[x].r
HasSocket(cl, f) == \E i \in Slot : cl[i] = f

Typed(H, P, cl, t, lk, own) ==
  /\ P \in [H -> NodePipe] /\ cl \in [Slot -> Fd \cup {None}]
  /\ t \in [Fd -> Object] /\ lk \in SUBSET Fd /\ own \in SUBSET Fd

PipesValid(H, P, t) ==
  /\ \A x \in H : P[x] # NoPipe => PipeAt(t, P[x])
  /\ \A x, y \in H : P[x] = P[y] /\ P[x] # NoPipe => x = y

SocketsValid(cl, t) ==
  /\ \A i \in Slot : cl[i] # None => t[cl[i]] = Socket
  /\ \A i, j \in Slot : cl[i] = cl[j] /\ cl[i] # None => i = j

Accounted(H, P, cl, t, lk, own) ==
  \A f \in Fd :
    /\ t[f] # Closed <=> f \in own \/ f \in lk \/ HasSocket(cl, f) \/ HasEnd(P, H, f)
    /\ f \in lk => ~HasSocket(cl, f) /\ ~HasEnd(P, H, f)
    /\ f \in own => f \notin lk /\ ~HasSocket(cl, f) /\ ~HasEnd(P, H, f)

Sound(H, P, cl, t, lk, own) ==
  /\ Typed(H, P, cl, t, lk, own) /\ PipesValid(H, P, t) /\ SocketsValid(cl, t)
  /\ Accounted(H, P, cl, t, lk, own)

\* The kinds of descriptor differ, and a pipe end knows its mate.
LEMMA KindFacts ==
  /\ Socket # Closed
  /\ \A m : /\ ReadEnd(m) # Closed /\ ReadEnd(m) # Socket
            /\ WriteEnd(m) # Closed /\ WriteEnd(m) # Socket
  /\ \A m, n : ReadEnd(m) # WriteEnd(n)
  /\ \A m, n : ReadEnd(m) = ReadEnd(n) => m = n
  /\ \A m, n : WriteEnd(m) = WriteEnd(n) => m = n
BY DEF Socket, Closed, ReadEnd, WriteEnd

(* A pipe is known by its two ends.                                        *)
LEMMA PipeFacts ==
  /\ NoPipe \in NodePipe /\ NoPipe.w = None /\ NoPipe.r = None
  /\ \A p, q \in NodePipe : p.w = q.w /\ p.r = q.r => p = q
  /\ \A p \in NodePipe : p.w \in Fd \cup {None} /\ p.r \in Fd \cup {None}
BY DEF NodePipe, NoPipe

(* close() of a set of descriptors closes these and no other, in any       *)
(* order.                                                                  *)
LEMMA CloseFacts ==
  ASSUME NEW t \in [Fd -> Object], NEW S
  PROVE  /\ Close(t, S) \in [Fd -> Object]
         /\ \A f \in Fd : Close(t, S)[f] = IF f \in S THEN Closed ELSE t[f]
BY DEF Close, Object, Closed

\* Two places never share a descriptor.
LEMMA EndsApart ==
  ASSUME NEW H, NEW P \in [H -> NodePipe], NEW t, PipesValid(H, P, t),
         NEW x \in H, NEW y \in H, P[x] # NoPipe, P[y] # NoPipe, x # y
  PROVE  /\ P[x].w # P[y].w /\ P[x].w # P[y].r
         /\ P[x].r # P[y].w /\ P[x].r # P[y].r
<1>1. PipeAt(t, P[x]) /\ PipeAt(t, P[y]) /\ P[x] # P[y]
  BY DEF PipesValid
<1>2. P[x].w # P[y].w \/ P[x].r # P[y].r
  BY <1>1, PipeFacts
<1> QED BY <1>1, <1>2, KindFacts DEF PipeAt

-----------------------------------------------------------------------------
(* What an operation on the tables does to them *)

\* A pipe is put in a place that holds none.
LEMMA AddSound ==
  ASSUME NEW H, NEW P, NEW cl, NEW t, NEW lk, NEW own, Sound(H, P, cl, t, lk, own),
         NEW x \in H, P[x] = NoPipe,
         NEW p \in NodePipe, p.r \in Fd, p.w \in Fd, p.r # p.w,
         t[p.r] = Closed, t[p.w] = Closed,
         NEW Q \in [H -> NodePipe], Q[x] = p, \A y \in H : y # x => Q[y] = P[y]
  PROVE  Sound(H, Q, cl, WithPipe(t, p), lk, own)
<1> DEFINE u == WithPipe(t, p)
<1>1. /\ P \in [H -> NodePipe] /\ t \in [Fd -> Object] /\ cl \in [Slot -> Fd \cup {None}]
      /\ lk \in SUBSET Fd /\ own \in SUBSET Fd
  BY DEF Sound, Typed
<1>2. Q \in [H -> NodePipe] /\ Q[x] = p /\ \A y \in H : y # x => Q[y] = P[y]
  OBVIOUS
<1>3. /\ u \in [Fd -> Object] /\ u[p.r] = ReadEnd(p.w) /\ u[p.w] = WriteEnd(p.r)
      /\ \A f \in Fd : f # p.r /\ f # p.w => u[f] = t[f]
  BY <1>1 DEF WithPipe, Object, ReadEnd, WriteEnd
<1>4. p # NoPipe /\ None \notin Fd
  BY PipeFacts, NoneFacts
<1> HIDE DEF u
<1>5. ASSUME NEW y \in H, P[y] # NoPipe
      PROVE  P[y].w # p.w /\ P[y].w # p.r /\ P[y].r # p.w /\ P[y].r # p.r
  BY <1>5, KindFacts DEF Sound, PipesValid, PipeAt
<1>6. PipesValid(H, Q, u)
  <2>1. ASSUME NEW y \in H, Q[y] # NoPipe PROVE PipeAt(u, Q[y])
    <3>1. CASE y = x
      BY <1>2, <1>3, <3>1 DEF PipeAt
    <3>2. CASE y # x
      <4>1. Q[y] = P[y] /\ PipeAt(t, P[y])
        BY <1>2, <2>1, <3>2 DEF Sound, PipesValid
      <4> QED BY <1>3, <1>5, <2>1, <4>1 DEF PipeAt
    <3> QED BY <3>1, <3>2
  <2>2. ASSUME NEW y \in H, NEW z \in H, Q[y] = Q[z], Q[y] # NoPipe PROVE y = z
    BY <1>2, <1>5, <2>2 DEF Sound, PipesValid
  <2> QED BY <2>1, <2>2 DEF PipesValid
<1>7. SocketsValid(cl, u)
  BY <1>1, <1>3, KindFacts DEF Sound, SocketsValid
<1>8. Accounted(H, Q, cl, u, lk, own)
  <2> SUFFICES ASSUME NEW f \in Fd
               PROVE  /\ u[f] # Closed <=> f \in own \/ f \in lk \/ HasSocket(cl, f) \/ HasEnd(Q, H, f)
                      /\ f \in lk => ~HasSocket(cl, f) /\ ~HasEnd(Q, H, f)
                      /\ f \in own => f \notin lk /\ ~HasSocket(cl, f) /\ ~HasEnd(Q, H, f)
    BY DEF Accounted
  <2>1. /\ t[f] # Closed <=> f \in own \/ f \in lk \/ HasSocket(cl, f) \/ HasEnd(P, H, f)
        /\ f \in lk => ~HasSocket(cl, f) /\ ~HasEnd(P, H, f)
        /\ f \in own => f \notin lk /\ ~HasSocket(cl, f) /\ ~HasEnd(P, H, f)
    BY DEF Sound, Accounted
  <2>2. HasEnd(Q, H, f) <=> HasEnd(P, H, f) \/ f = p.w \/ f = p.r
    BY <1>2, <1>4, PipeFacts DEF HasEnd
  <2>3. CASE f = p.w \/ f = p.r
    BY <1>3, <2>1, <2>2, <2>3, KindFacts
  <2>4. CASE f # p.w /\ f # p.r
    BY <1>3, <2>1, <2>2, <2>4
  <2> QED BY <2>3, <2>4
<1> QED BY <1>1, <1>2, <1>3, <1>6, <1>7, <1>8 DEF Sound, Typed, u

\* The places in X lose their pipes: of their ends, those in Z are closed and
\* those in K are given up.
LEMMA ForgetSound ==
  ASSUME NEW H, NEW P, NEW cl, NEW t, NEW lk, NEW own, Sound(H, P, cl, t, lk, own),
         NEW X \in SUBSET H, NEW Q \in [H -> NodePipe],
         \A x \in H : Q[x] = IF x \in X THEN NoPipe ELSE P[x],
         NEW Z, NEW K \in SUBSET Fd,
         \A f \in Fd : f \in Z \/ f \in K <=> HasEnd(P, X, f),
         \A f \in Fd : ~(f \in Z /\ f \in K)
  PROVE  Sound(H, Q, cl, Close(t, Z), lk \cup K, own)
<1> DEFINE u == Close(t, Z)
<1>1. /\ P \in [H -> NodePipe] /\ t \in [Fd -> Object] /\ cl \in [Slot -> Fd \cup {None}]
      /\ lk \in SUBSET Fd /\ own \in SUBSET Fd
  BY DEF Sound, Typed
<1>2. u \in [Fd -> Object] /\ \A f \in Fd : u[f] = IF f \in Z THEN Closed ELSE t[f]
  BY <1>1, CloseFacts
<1>3. None \notin Fd
  BY NoneFacts
<1> HIDE DEF u
<1>4. ASSUME NEW f \in Fd, HasEnd(P, X, f), HasEnd(Q, H, f) PROVE FALSE
  <2>1. PICK x \in X : f = P[x].w \/ f = P[x].r
    BY <1>4 DEF HasEnd
  <2>2. PICK y \in H : f = Q[y].w \/ f = Q[y].r
    BY <1>4 DEF HasEnd
  <2>3. x \in H /\ y \notin X /\ Q[y] = P[y] /\ P[y] # NoPipe /\ P[x] # NoPipe /\ x # y
    BY <1>3, <2>1, <2>2, PipeFacts
  <2> QED BY <1>1, <2>1, <2>2, <2>3, EndsApart DEF Sound
<1>5. ASSUME NEW f \in Fd
      PROVE  HasEnd(P, H, f) <=> HasEnd(Q, H, f) \/ HasEnd(P, X, f)
  BY <1>3, PipeFacts DEF HasEnd
<1>6. ASSUME NEW f \in Fd, HasEnd(P, X, f) PROVE ~HasSocket(cl, f) /\ t[f] # Closed
  <2>1. HasEnd(P, H, f)
    BY <1>5, <1>6
  <2>2. PICK x \in X : f = P[x].w \/ f = P[x].r
    BY <1>6 DEF HasEnd
  <2>3. PipeAt(t, P[x])
    BY <1>3, <2>2, PipeFacts DEF Sound, PipesValid
  <2>4. t[f] # Socket /\ t[f] # Closed
    BY <2>2, <2>3, KindFacts DEF PipeAt
  <2> QED BY <1>3, <2>4 DEF Sound, SocketsValid, HasSocket
<1>7. PipesValid(H, Q, u)
  <2>1. ASSUME NEW y \in H, Q[y] # NoPipe PROVE PipeAt(u, Q[y])
    <3>1. Q[y] = P[y] /\ PipeAt(t, P[y])
      BY <2>1 DEF Sound, PipesValid
    <3>2. HasEnd(Q, H, Q[y].w) /\ HasEnd(Q, H, Q[y].r)
      BY DEF HasEnd
    <3>3. Q[y].w \notin Z /\ Q[y].r \notin Z
      BY <1>4, <3>1, <3>2 DEF PipeAt
    <3> QED BY <1>2, <3>1, <3>3 DEF PipeAt
  <2>2. ASSUME NEW y \in H, NEW z \in H, Q[y] = Q[z], Q[y] # NoPipe PROVE y = z
    BY <2>2 DEF Sound, PipesValid
  <2> QED BY <2>1, <2>2 DEF PipesValid
<1>8. SocketsValid(cl, u)
  <2>1. ASSUME NEW i \in Slot, cl[i] # None PROVE u[cl[i]] = Socket
    <3>1. cl[i] \in Fd /\ HasSocket(cl, cl[i]) /\ t[cl[i]] = Socket
      BY <1>1, <2>1 DEF HasSocket, Sound, SocketsValid
    <3>2. cl[i] \notin Z
      BY <1>6, <3>1
    <3> QED BY <1>2, <3>1, <3>2
  <2> QED BY <2>1 DEF Sound, SocketsValid
<1>9. Accounted(H, Q, cl, u, lk \cup K, own)
  <2> SUFFICES ASSUME NEW f \in Fd
               PROVE  /\ u[f] # Closed <=> f \in own \/ f \in lk \cup K \/ HasSocket(cl, f) \/ HasEnd(Q, H, f)
                      /\ f \in lk \cup K => ~HasSocket(cl, f) /\ ~HasEnd(Q, H, f)
                      /\ f \in own => f \notin lk \cup K /\ ~HasSocket(cl, f) /\ ~HasEnd(Q, H, f)
    BY DEF Accounted
  <2>1. /\ t[f] # Closed <=> f \in own \/ f \in lk \/ HasSocket(cl, f) \/ HasEnd(P, H, f)
        /\ f \in lk => ~HasSocket(cl, f) /\ ~HasEnd(P, H, f)
        /\ f \in own => f \notin lk /\ ~HasSocket(cl, f) /\ ~HasEnd(P, H, f)
    BY DEF Sound, Accounted
  <2> QED BY <1>2, <1>4, <1>5, <1>6, <2>1
<1> QED BY <1>1, <1>2, <1>7, <1>8, <1>9 DEF Sound, Typed, u

\* Pipes change places.
LEMMA MoveSound ==
  ASSUME NEW H, NEW P, NEW cl, NEW t, NEW lk, NEW own, Sound(H, P, cl, t, lk, own),
         NEW Q \in [H -> NodePipe],
         \A x \in H : Q[x] # NoPipe => \E y \in H : P[y] = Q[x],
         \A y \in H : P[y] # NoPipe => \E x \in H : Q[x] = P[y],
         \A x, y \in H : Q[x] = Q[y] /\ Q[x] # NoPipe => x = y
  PROVE  Sound(H, Q, cl, t, lk, own)
<1>1. P \in [H -> NodePipe]
  BY DEF Sound, Typed
<1>2. ASSUME NEW f \in Fd PROVE HasEnd(P, H, f) <=> HasEnd(Q, H, f)
  <2>1. ASSUME NEW p \in NodePipe, f = p.w \/ f = p.r PROVE p # NoPipe
    BY <2>1, PipeFacts, NoneFacts
  <2> QED BY <1>1, <2>1 DEF HasEnd
<1>3. PipesValid(H, Q, t)
  BY DEF Sound, PipesValid
<1>4. Accounted(H, Q, cl, t, lk, own)
  BY <1>2 DEF Sound, Accounted
<1> QED BY <1>3, <1>4 DEF Sound, Typed

\* A connection takes a free slot and a free descriptor.
LEMMA LoginSound ==
  ASSUME NEW H, NEW P, NEW cl, NEW t, NEW lk, NEW own, Sound(H, P, cl, t, lk, own),
         NEW i \in Slot, cl[i] = None, NEW d \in Fd, t[d] = Closed
  PROVE  Sound(H, P, [cl EXCEPT ![i] = d], [t EXCEPT ![d] = Socket], lk, own)
<1> DEFINE c == [cl EXCEPT ![i] = d]
           u == [t EXCEPT ![d] = Socket]
<1>1. /\ P \in [H -> NodePipe] /\ t \in [Fd -> Object] /\ cl \in [Slot -> Fd \cup {None}]
      /\ lk \in SUBSET Fd /\ own \in SUBSET Fd
  BY DEF Sound, Typed
<1>2. c \in [Slot -> Fd \cup {None}] /\ c[i] = d /\ \A j \in Slot : j # i => c[j] = cl[j]
  BY <1>1
<1>3. u \in [Fd -> Object] /\ u[d] = Socket /\ \A f \in Fd : f # d => u[f] = t[f]
  BY <1>1 DEF Socket, Object
<1>4. None \notin Fd
  BY NoneFacts
<1> HIDE DEF c, u
<1>5. \A j \in Slot : cl[j] # d
  BY <1>4, KindFacts DEF Sound, SocketsValid
<1>6. PipesValid(H, P, u)
  BY <1>3, KindFacts DEF Sound, PipesValid, PipeAt
<1>7. SocketsValid(c, u)
  BY <1>1, <1>2, <1>3, <1>5 DEF Sound, SocketsValid
<1>8. Accounted(H, P, c, u, lk, own)
  <2> SUFFICES ASSUME NEW f \in Fd
               PROVE  /\ u[f] # Closed <=> f \in own \/ f \in lk \/ HasSocket(c, f) \/ HasEnd(P, H, f)
                      /\ f \in lk => ~HasSocket(c, f) /\ ~HasEnd(P, H, f)
                      /\ f \in own => f \notin lk /\ ~HasSocket(c, f) /\ ~HasEnd(P, H, f)
    BY DEF Accounted
  <2>1. /\ t[f] # Closed <=> f \in own \/ f \in lk \/ HasSocket(cl, f) \/ HasEnd(P, H, f)
        /\ f \in lk => ~HasSocket(cl, f) /\ ~HasEnd(P, H, f)
        /\ f \in own => f \notin lk /\ ~HasSocket(cl, f) /\ ~HasEnd(P, H, f)
    BY DEF Sound, Accounted
  <2>2. HasSocket(c, f) <=> HasSocket(cl, f) \/ f = d
    BY <1>2, <1>4 DEF HasSocket
  <2> QED BY <1>3, <2>1, <2>2, KindFacts
<1> QED BY <1>1, <1>2, <1>3, <1>6, <1>7, <1>8 DEF Sound, Typed, c, u

\* A client's socket is closed.
LEMMA LogoutSound ==
  ASSUME NEW H, NEW P, NEW cl, NEW t, NEW lk, NEW own, Sound(H, P, cl, t, lk, own),
         NEW i \in Slot, cl[i] # None
  PROVE  Sound(H, P, [cl EXCEPT ![i] = None], Close(t, {cl[i]}), lk, own)
<1> DEFINE c == [cl EXCEPT ![i] = None]
           u == Close(t, {cl[i]})
           d == cl[i]
<1>1. /\ P \in [H -> NodePipe] /\ t \in [Fd -> Object] /\ cl \in [Slot -> Fd \cup {None}]
      /\ lk \in SUBSET Fd /\ own \in SUBSET Fd /\ d \in Fd
  BY DEF Sound, Typed
<1>2. c \in [Slot -> Fd \cup {None}] /\ c[i] = None /\ \A j \in Slot : j # i => c[j] = cl[j]
  BY <1>1
<1>3. u \in [Fd -> Object] /\ u[d] = Closed /\ \A f \in Fd : f # d => u[f] = t[f]
  BY <1>1, CloseFacts
<1>4. None \notin Fd /\ t[d] = Socket /\ \A j \in Slot : j # i => cl[j] # d
  BY NoneFacts DEF Sound, SocketsValid
<1> HIDE DEF c, u, d
<1>5. PipesValid(H, P, u)
  BY <1>3, <1>4, KindFacts DEF Sound, PipesValid, PipeAt
<1>6. SocketsValid(c, u)
  BY <1>1, <1>2, <1>3, <1>4 DEF Sound, SocketsValid
<1>7. Accounted(H, P, c, u, lk, own)
  <2> SUFFICES ASSUME NEW f \in Fd
               PROVE  /\ u[f] # Closed <=> f \in own \/ f \in lk \/ HasSocket(c, f) \/ HasEnd(P, H, f)
                      /\ f \in lk => ~HasSocket(c, f) /\ ~HasEnd(P, H, f)
                      /\ f \in own => f \notin lk /\ ~HasSocket(c, f) /\ ~HasEnd(P, H, f)
    BY DEF Accounted
  <2>1. /\ t[f] # Closed <=> f \in own \/ f \in lk \/ HasSocket(cl, f) \/ HasEnd(P, H, f)
        /\ f \in lk => ~HasSocket(cl, f) /\ ~HasEnd(P, H, f)
        /\ f \in own => f \notin lk /\ ~HasSocket(cl, f) /\ ~HasEnd(P, H, f)
    BY DEF Sound, Accounted
  <2>2. HasSocket(c, f) <=> HasSocket(cl, f) /\ f # d
    BY <1>2, <1>4 DEF HasSocket, d
  <2>3. HasSocket(cl, d) /\ ~HasEnd(P, H, d)
    <3>1. HasSocket(cl, d)
      BY DEF HasSocket, d
    <3>2. ASSUME NEW x \in H, d = P[x].w \/ d = P[x].r PROVE FALSE
      <4>1. P[x] # NoPipe
        BY <1>1, <1>4, <3>2, PipeFacts
      <4> QED BY <1>4, <3>2, <4>1, KindFacts DEF Sound, PipesValid, PipeAt
    <3> QED BY <3>1, <3>2 DEF HasEnd
  <2>4. CASE f = d
    BY <1>1, <1>3, <2>1, <2>2, <2>3, <2>4
  <2>5. CASE f # d
    BY <1>3, <2>1, <2>2, <2>5
  <2> QED BY <2>4, <2>5
<1> QED BY <1>1, <1>2, <1>3, <1>5, <1>6, <1>7 DEF Sound, Typed, c, u, d

\* The server loses a descriptor of its own.
LEMMA StraySound ==
  ASSUME NEW H, NEW P, NEW cl, NEW t, NEW lk, NEW own, Sound(H, P, cl, t, lk, own),
         NEW d \in own
  PROVE  Sound(H, P, cl, Close(t, {d}), lk, own \ {d})
<1> DEFINE u == Close(t, {d})
<1>1. /\ P \in [H -> NodePipe] /\ t \in [Fd -> Object] /\ cl \in [Slot -> Fd \cup {None}]
      /\ lk \in SUBSET Fd /\ own \in SUBSET Fd /\ d \in Fd
  BY DEF Sound, Typed
<1>2. u \in [Fd -> Object] /\ u[d] = Closed /\ \A f \in Fd : f # d => u[f] = t[f]
  BY <1>1, CloseFacts
<1>3. ~HasSocket(cl, d) /\ ~HasEnd(P, H, d) /\ d \notin lk
  BY <1>1 DEF Sound, Accounted
<1> HIDE DEF u
<1>4. PipesValid(H, P, u)
  BY <1>2, <1>3 DEF Sound, PipesValid, PipeAt, HasEnd
<1>5. SocketsValid(cl, u)
  BY <1>1, <1>2, <1>3 DEF Sound, SocketsValid, HasSocket
<1>6. Accounted(H, P, cl, u, lk, own \ {d})
  BY <1>1, <1>2, <1>3 DEF Sound, Accounted
<1> QED BY <1>1, <1>2, <1>4, <1>5, <1>6 DEF Sound, Typed, u

LEMMA CloseTwice ==
  ASSUME NEW t, NEW A, NEW B
  PROVE  Close(Close(t, A), B) = Close(t, A \cup B)
BY DEF Close

\* The numbers pipe() returns are free, and differ.
LEMMA PipeFdsFree ==
  ASSUME NEW t, CanPipe(t)
  PROVE  LET p == PipeFds(t) IN
         /\ p \in NodePipe /\ p.r \in Fd /\ p.w \in Fd /\ p.r # p.w
         /\ t[p.r] = Closed /\ t[p.w] = Closed
<1> DEFINE r == Lowest(FreeFds(t))
           w == Lowest(FreeFds(t) \ {r})
<1>1. FreeFds(t) \in SUBSET Nat /\ FreeFds(t) \subseteq Fd
  BY FdAssumption DEF FreeFds, Fd
<1>2. FreeFds(t) # {} /\ FreeFds(t) \ {r} # {}
  BY DEF CanPipe
<1>3. r \in FreeFds(t)
  BY <1>1, <1>2, LowestFacts
<1>4. w \in FreeFds(t) \ {r}
  BY <1>1, <1>2, LowestFacts
<1>5. PipeFds(t) = [r |-> r, w |-> w]
  BY DEF PipeFds
<1> HIDE DEF r, w
<1>6. PipeFds(t) \in NodePipe
  BY <1>1, <1>3, <1>4, <1>5 DEF NodePipe
<1> QED BY <1>1, <1>3, <1>4, <1>5, <1>6 DEF FreeFds

-----------------------------------------------------------------------------
(* The places are the nodes of the lists and the pairs of users *)

NodePlace(i, n) == <<"node", i, n>>
UserPlace(i, j) == <<"user", i, j>>
Held == {NodePlace(i, n) : i \in Slot, n \in Node} \cup {UserPlace(i, j) : i \in Slot, j \in Slot}
Rings == [Slot -> [Node -> NodePipe]]

Pipes(g, w, r) ==
  [x \in Held |-> IF x[1] = "node" THEN g[x[2]][x[3]]
                  ELSE [w |-> w[x[2]][x[3]], r |-> r[x[3]][x[2]]]]

(* A place is a node of a client's list or an entry of the tables, and     *)
(* only one of them.                                                       *)
LEMMA PlaceFacts ==
  /\ \A i \in Slot, n \in Node : NodePlace(i, n) \in Held
  /\ \A i, j \in Slot : UserPlace(i, j) \in Held
  /\ \A i, n, j, m : NodePlace(i, n) = NodePlace(j, m) => i = j /\ n = m
  /\ \A i, n, j, m : UserPlace(i, n) = UserPlace(j, m) => i = j /\ n = m
  /\ \A i, n, j, m : NodePlace(i, n) # UserPlace(j, m)
BY DEF Held, NodePlace, UserPlace

LEMMA PlaceCases ==
  ASSUME NEW x \in Held
  PROVE  \/ \E i \in Slot, n \in Node : x = NodePlace(i, n)
         \/ \E i, j \in Slot : x = UserPlace(i, j)
BY DEF Held

(* What is held at each of them.                                           *)
LEMMA PipesFacts ==
  ASSUME NEW g \in Rings, NEW w \in Entries, NEW r \in Entries
  PROVE  /\ Pipes(g, w, r) \in [Held -> NodePipe]
         /\ \A i \in Slot, n \in Node : Pipes(g, w, r)[NodePlace(i, n)] = g[i][n]
         /\ \A i, j \in Slot :
              Pipes(g, w, r)[UserPlace(i, j)] = [w |-> w[i][j], r |-> r[j][i]]
<1>1. ASSUME NEW i \in Slot, NEW n \in Node PROVE Pipes(g, w, r)[NodePlace(i, n)] = g[i][n]
  <2>1. NodePlace(i, n) \in Held
    BY PlaceFacts
  <2> QED BY <2>1 DEF Pipes, NodePlace
<1>2. ASSUME NEW i \in Slot, NEW j \in Slot
      PROVE  Pipes(g, w, r)[UserPlace(i, j)] = [w |-> w[i][j], r |-> r[j][i]]
  <2>1. UserPlace(i, j) \in Held
    BY PlaceFacts
  <2> QED BY <2>1 DEF Pipes, UserPlace
<1>3. \A i, j \in Slot : [w |-> w[i][j], r |-> r[j][i]] \in NodePipe
  BY DEF Entries, NodePipe
<1>4. \A i \in Slot, n \in Node : g[i][n] \in NodePipe
  BY DEF Rings
<1>5. ASSUME NEW x \in Held PROVE Pipes(g, w, r)[x] \in NodePipe
  <2>1. ASSUME NEW i \in Slot, NEW n \in Node, x = NodePlace(i, n)
        PROVE  Pipes(g, w, r)[x] \in NodePipe
    BY <1>1, <1>4, <2>1
  <2>2. ASSUME NEW i \in Slot, NEW j \in Slot, x = UserPlace(i, j)
        PROVE  Pipes(g, w, r)[x] \in NodePipe
    <3>1. Pipes(g, w, r)[x] = [w |-> w[i][j], r |-> r[j][i]]
      BY <1>2, <2>2
    <3> QED BY <1>3, <3>1
  <2> HIDE DEF Pipes
  <2> QED BY <2>1, <2>2, PlaceCases
<1>6. Pipes(g, w, r) \in [Held -> NodePipe]
  BY <1>5 DEF Pipes
<1> QED BY <1>1, <1>2, <1>6

LEMMA PipesEnds ==
  ASSUME NEW g \in Rings, NEW w \in Entries, NEW r \in Entries
  PROVE  /\ \A i \in Slot, n \in Node : Pipes(g, w, r)[NodePlace(i, n)] = g[i][n]
         /\ \A i, j \in Slot : /\ Pipes(g, w, r)[UserPlace(i, j)].w = w[i][j]
                               /\ Pipes(g, w, r)[UserPlace(i, j)].r = r[j][i]
<1>1. \A i \in Slot, n \in Node : Pipes(g, w, r)[NodePlace(i, n)] = g[i][n]
  BY PipesFacts
<1>2. ASSUME NEW i \in Slot, NEW j \in Slot
      PROVE  /\ Pipes(g, w, r)[UserPlace(i, j)].w = w[i][j]
             /\ Pipes(g, w, r)[UserPlace(i, j)].r = r[j][i]
  <2>1. Pipes(g, w, r)[UserPlace(i, j)] = [w |-> w[i][j], r |-> r[j][i]]
    BY PipesFacts
  <2> QED BY <2>1
<1> QED BY <1>1, <1>2

\* A pipe is made for a node of the list.
LEMMA AimTables ==
  ASSUME NEW g \in Rings, NEW w \in Entries, NEW r \in Entries,
         NEW cl, NEW t, NEW lk, NEW own, Sound(Held, Pipes(g, w, r), cl, t, lk, own),
         NEW i \in Slot, NEW n \in Node, g[i][n] = NoPipe, CanPipe(t)
  PROVE  /\ [g EXCEPT ![i][n] = PipeFds(t)] \in Rings
         /\ Sound(Held, Pipes([g EXCEPT ![i][n] = PipeFds(t)], w, r), cl,
                  WithPipe(t, PipeFds(t)), lk, own)
<1> DEFINE p == PipeFds(t)
           h == [g EXCEPT ![i][n] = p]
           x == NodePlace(i, n)
           P == Pipes(g, w, r)
           Q == Pipes(h, w, r)
<1>1. /\ p \in NodePipe /\ p.r \in Fd /\ p.w \in Fd /\ p.r # p.w
      /\ t[p.r] = Closed /\ t[p.w] = Closed
  BY PipeFdsFree
<1> HIDE DEF p
<1>2. h \in Rings /\ \A j \in Slot, m \in Node :
                       h[j][m] = IF j = i /\ m = n THEN p ELSE g[j][m]
  BY <1>1 DEF Rings
<1> HIDE DEF h
<1>3. x \in Held /\ P[x] = NoPipe /\ Q[x] = p
  BY <1>2, PlaceFacts, PipesFacts
<1>4. Q \in [Held -> NodePipe]
  BY <1>2, PipesFacts
<1>5. ASSUME NEW y \in Held, y # x PROVE Q[y] = P[y]
  <2>1. ASSUME NEW j \in Slot, NEW m \in Node, y = NodePlace(j, m) PROVE Q[y] = P[y]
    <3>1. ~(j = i /\ m = n)
      BY <1>5, <2>1
    <3>2. P[y] = g[j][m]
      BY <2>1, PipesFacts
    <3>3. Q[y] = h[j][m]
      BY <1>2, <2>1, PipesFacts
    <3> QED BY <1>2, <3>1, <3>2, <3>3
  <2>2. ASSUME NEW j \in Slot, NEW k \in Slot, y = UserPlace(j, k) PROVE Q[y] = P[y]
    <3>1. P[y] = [w |-> w[j][k], r |-> r[k][j]]
      BY <2>2, PipesFacts
    <3>2. Q[y] = [w |-> w[j][k], r |-> r[k][j]]
      BY <1>2, <2>2, PipesFacts
    <3> QED BY <3>1, <3>2
  <2> HIDE DEF x, P, Q
  <2> QED BY <2>1, <2>2, PlaceCases
<1> HIDE DEF x, P, Q
<1>6. Sound(Held, Q, cl, WithPipe(t, p), lk, own)
  <2>1. Sound(Held, P, cl, t, lk, own)
    BY DEF P
  <2> QED BY <1>1, <1>3, <1>4, <1>5, <2>1, AddSound
<1> QED BY <1>2, <1>6 DEF h, p, Q

\* The first node of a list is dropped, its ends closed or given up.
LEMMA NextTables ==
  ASSUME NEW g \in Rings, NEW w \in Entries, NEW r \in Entries,
         NEW cl, NEW t, NEW lk, NEW own, Sound(Held, Pipes(g, w, r), cl, t, lk, own),
         NEW i \in Slot, NEW Z, NEW K \in SUBSET Fd,
         \A f \in Fd : f \in Z \/ f \in K <=> f = g[i][0].w \/ f = g[i][0].r,
         \A f \in Fd : ~(f \in Z /\ f \in K)
  PROVE  /\ [g EXCEPT ![i] = NextNode(g[i])] \in Rings
         /\ Sound(Held, Pipes([g EXCEPT ![i] = NextNode(g[i])], w, r), cl,
                  Close(t, Z), lk \cup K, own)
<1> DEFINE h == [g EXCEPT ![i] = NextNode(g[i])]
           x == NodePlace(i, 0)
           P == Pipes(g, w, r)
           Q == [y \in Held |-> IF y = x THEN NoPipe ELSE P[y]]
           R == Pipes(h, w, r)
<1>1. LastNode \in Nat /\ 0 \in Node /\ x \in Held
  BY RingAssumption, PlaceFacts DEF Node
<1>2. h \in Rings /\ \A j \in Slot, n \in Node :
                       h[j][n] = IF j # i THEN g[j][n]
                                 ELSE IF n < LastNode THEN g[i][n + 1] ELSE NoPipe
  <2>1. NextNode(g[i]) \in [Node -> NodePipe]
    BY <1>1, PipeFacts DEF NextNode, Rings, Node
  <2>2. \A n \in Node : NextNode(g[i])[n] = IF n < LastNode THEN g[i][n + 1] ELSE NoPipe
    BY DEF NextNode
  <2> QED BY <2>1, <2>2 DEF Rings
<1> HIDE DEF h
<1>3. P \in [Held -> NodePipe] /\ R \in [Held -> NodePipe]
  BY <1>2, PipesFacts
<1>4. /\ \A j \in Slot, n \in Node : P[NodePlace(j, n)] = g[j][n]
      /\ \A j \in Slot, n \in Node : R[NodePlace(j, n)] = h[j][n]
      /\ \A j, k \in Slot : P[UserPlace(j, k)] = R[UserPlace(j, k)]
  <2>1. \A j \in Slot, n \in Node : P[NodePlace(j, n)] = g[j][n]
    BY PipesFacts
  <2>2. \A j \in Slot, n \in Node : R[NodePlace(j, n)] = h[j][n]
    BY <1>2, PipesFacts
  <2>3. ASSUME NEW j \in Slot, NEW k \in Slot PROVE P[UserPlace(j, k)] = R[UserPlace(j, k)]
    <3>1. P[UserPlace(j, k)] = [w |-> w[j][k], r |-> r[k][j]]
      BY PipesFacts
    <3>2. R[UserPlace(j, k)] = [w |-> w[j][k], r |-> r[k][j]]
      BY <1>2, PipesFacts
    <3> QED BY <3>1, <3>2
  <2> QED BY <2>1, <2>2, <2>3
<1>5. Sound(Held, P, cl, t, lk, own)
  OBVIOUS
<1> HIDE DEF P, R
<1>6. Q \in [Held -> NodePipe] /\ \A y \in Held : Q[y] = IF y = x THEN NoPipe ELSE P[y]
  BY <1>3, PipeFacts
<1> HIDE DEF Q
<1>7. \A f \in Fd : f \in Z \/ f \in K <=> HasEnd(P, {x}, f)
  BY <1>1, <1>4 DEF HasEnd
<1>8. Sound(Held, Q, cl, Close(t, Z), lk \cup K, own)
  <2>1. {x} \in SUBSET Held /\ \A y \in Held : Q[y] = IF y \in {x} THEN NoPipe ELSE P[y]
    BY <1>1, <1>6
  <2> HIDE DEF x
  <2> QED BY <1>5, <1>6, <1>7, <2>1, ForgetSound
<1> HIDE DEF x
\* Where a place gets its pipe from.
<1>9. /\ \A n \in Node : R[NodePlace(i, n)] # NoPipe =>
             n < LastNode /\ n + 1 \in Node /\ Q[NodePlace(i, n + 1)] = R[NodePlace(i, n)]
      /\ \A n \in Node : Q[NodePlace(i, n)] # NoPipe =>
             n - 1 \in Node /\ R[NodePlace(i, n - 1)] = Q[NodePlace(i, n)]
      /\ \A j \in Slot, n \in Node : j # i => R[NodePlace(j, n)] = Q[NodePlace(j, n)]
      /\ \A j, k \in Slot : R[UserPlace(j, k)] = Q[UserPlace(j, k)]
  <2>1. /\ Q[x] = NoPipe
        /\ \A n \in Node : n # 0 => Q[NodePlace(i, n)] = g[i][n]
        /\ \A j \in Slot, n \in Node : j # i => Q[NodePlace(j, n)] = g[j][n]
        /\ \A j, k \in Slot : Q[UserPlace(j, k)] = R[UserPlace(j, k)]
    BY <1>1, <1>4, <1>6, PlaceFacts DEF x
  <2>2. ASSUME NEW n \in Node, R[NodePlace(i, n)] # NoPipe
        PROVE  n < LastNode /\ n + 1 \in Node /\ Q[NodePlace(i, n + 1)] = R[NodePlace(i, n)]
    <3>1. n < LastNode /\ n + 1 \in Node /\ n + 1 # 0
      BY <1>1, <1>2, <1>4, <2>2 DEF Node
    <3> QED BY <1>2, <1>4, <2>1, <3>1
  <2>3. ASSUME NEW n \in Node, Q[NodePlace(i, n)] # NoPipe
        PROVE  n - 1 \in Node /\ R[NodePlace(i, n - 1)] = Q[NodePlace(i, n)]
    <3>1. n # 0
      BY <2>1, <2>3 DEF x
    <3>2. n - 1 \in Node /\ n - 1 < LastNode /\ (n - 1) + 1 = n
      BY <1>1, <3>1 DEF Node
    <3> QED BY <1>2, <1>4, <2>1, <3>1, <3>2
  <2> QED BY <1>2, <1>4, <2>1, <2>2, <2>3
<1>10. ASSUME NEW y \in Held, R[y] # NoPipe
       PROVE  \E u \in Held : Q[u] = R[y] /\ (y = u \/ \E n \in Node : y = NodePlace(i, n) /\ u = NodePlace(i, n + 1))
  <2>1. ASSUME NEW n \in Node, y = NodePlace(i, n)
        PROVE  \E u \in Held : Q[u] = R[y] /\ u = NodePlace(i, n + 1)
    BY <1>9, <1>10, <2>1, PlaceFacts
  <2> QED BY <1>9, <2>1, PlaceCases
<1>11. ASSUME NEW y \in Held, Q[y] # NoPipe PROVE \E u \in Held : R[u] = Q[y]
  <2>1. ASSUME NEW n \in Node, y = NodePlace(i, n) PROVE \E u \in Held : R[u] = Q[y]
    BY <1>9, <1>11, <2>1, PlaceFacts
  <2> QED BY <1>9, <2>1, PlaceCases
<1>12. ASSUME NEW y \in Held, NEW z \in Held, R[y] = R[z], R[y] # NoPipe PROVE y = z
  <2>1. \A u, v \in Held : Q[u] = Q[v] /\ Q[u] # NoPipe => u = v
    BY <1>8 DEF Sound, PipesValid
  <2>2. ASSUME NEW n \in Node, NEW m \in Node, y = NodePlace(i, n), z = NodePlace(i, m)
        PROVE  y = z
    <3>1. NodePlace(i, n + 1) = NodePlace(i, m + 1)
      BY <1>9, <1>12, <2>1, <2>2, PlaceFacts
    <3>2. n + 1 = m + 1 /\ n \in Int /\ m \in Int
      BY <3>1, PlaceFacts DEF Node
    <3> QED BY <2>2, <3>2
  <2>3. ASSUME NEW a \in Held, NEW b \in Held, R[a] = R[b], R[a] # NoPipe,
               NEW n \in Node, a = NodePlace(i, n), \A m \in Node : b # NodePlace(i, m)
        PROVE  FALSE
    <3>1. Q[b] = R[b]
      BY <1>9, <2>3, PlaceCases
    <3>2. NodePlace(i, n + 1) = b /\ n + 1 \in Node
      BY <1>9, <2>1, <2>3, <3>1, PlaceFacts
    <3> QED BY <2>3, <3>2
  <2>4. CASE (\A n \in Node : y # NodePlace(i, n)) /\ (\A n \in Node : z # NodePlace(i, n))
    <3>1. Q[y] = R[y] /\ Q[z] = R[z]
      BY <1>9, <2>4, PlaceCases
    <3> QED BY <1>12, <2>1, <3>1
  <2> QED BY <1>12, <2>2, <2>3, <2>4
<1>13. Sound(Held, R, cl, Close(t, Z), lk \cup K, own)
  <2>1. \A y \in Held : R[y] # NoPipe => \E z \in Held : Q[z] = R[y]
    BY <1>10
  <2>2. \A y \in Held : Q[y] # NoPipe => \E z \in Held : R[z] = Q[y]
    BY <1>11
  <2>3. \A y, z \in Held : R[y] = R[z] /\ R[y] # NoPipe => y = z
    BY <1>12
  <2> QED BY <1>3, <1>8, <2>1, <2>2, <2>3, MoveSound
<1> QED BY <1>2, <1>13 DEF R, h

\* A user pipe is closed, and forgotten by both its users.
LEMMA ForgetUserTables ==
  ASSUME NEW g \in Rings, NEW w \in Entries, NEW r \in Entries,
         NEW cl, NEW t, NEW lk, NEW own, Sound(Held, Pipes(g, w, r), cl, t, lk, own),
         NEW a \in Slot, NEW b \in Slot, NEW v \in Entries, NEW s \in Entries,
         \A j, k \in Slot : v[j][k] = IF j = a /\ k = b THEN None ELSE w[j][k],
         \A j, k \in Slot : s[k][j] = IF j = a /\ k = b THEN None ELSE r[k][j]
  PROVE  Sound(Held, Pipes(g, v, s), cl, Close(t, {w[a][b], r[b][a]}), lk, own)
<1> DEFINE Z == {w[a][b], r[b][a]}
           x == UserPlace(a, b)
           P == Pipes(g, w, r)
           Q == Pipes(g, v, s)
<1>1. P \in [Held -> NodePipe] /\ Q \in [Held -> NodePipe] /\ x \in Held
  BY PipesFacts, PlaceFacts
<1>2. P[x] = [w |-> w[a][b], r |-> r[b][a]]
  BY PipesFacts
<1>3. Q[x] = [w |-> v[a][b], r |-> s[b][a]]
  BY PipesFacts
<1>4. Q[x] = NoPipe
  BY <1>3 DEF NoPipe
<1>5. ASSUME NEW y \in Held, y # x PROVE Q[y] = P[y]
  <2>1. ASSUME NEW j \in Slot, NEW n \in Node, y = NodePlace(j, n) PROVE Q[y] = P[y]
    <3>1. P[y] = g[j][n]
      BY <2>1, PipesFacts
    <3>2. Q[y] = g[j][n]
      BY <2>1, PipesFacts
    <3> QED BY <3>1, <3>2
  <2>2. ASSUME NEW j \in Slot, NEW k \in Slot, y = UserPlace(j, k) PROVE Q[y] = P[y]
    <3>1. ~(j = a /\ k = b)
      BY <1>5, <2>2
    <3>2. P[y] = [w |-> w[j][k], r |-> r[k][j]]
      BY <2>2, PipesFacts
    <3>3. Q[y] = [w |-> v[j][k], r |-> s[k][j]]
      BY <2>2, PipesFacts
    <3> QED BY <3>1, <3>2, <3>3
  <2> HIDE DEF x, P, Q
  <2> QED BY <2>1, <2>2, PlaceCases
<1>6. \A f \in Fd : f \in Z \/ f \in {} <=> HasEnd(P, {x}, f)
  BY <1>2 DEF HasEnd
<1>7. Sound(Held, P, cl, t, lk, own)
  OBVIOUS
<1> HIDE DEF x, P, Q, Z
<1>8. {x} \in SUBSET Held /\ \A y \in Held : Q[y] = IF y \in {x} THEN NoPipe ELSE P[y]
  BY <1>1, <1>4, <1>5
<1>9. \A f \in Fd : ~(f \in Z /\ f \in {})
  OBVIOUS
<1>10. Sound(Held, Q, cl, Close(t, Z), lk \cup {}, own)
  BY <1>1, <1>6, <1>7, <1>8, <1>9, ForgetSound
<1> QED BY <1>10 DEF Q, Z

\* A user pipe is made, and both its users know of it.
LEMMA AddUserTables ==
  ASSUME NEW g \in Rings, NEW w \in Entries, NEW r \in Entries,
         NEW cl, NEW t, NEW lk, NEW own, Sound(Held, Pipes(g, w, r), cl, t, lk, own),
         NEW a \in Slot, NEW b \in Slot, w[a][b] = None, r[b][a] = None,
         NEW p \in NodePipe, p.r \in Fd, p.w \in Fd, p.r # p.w,
         t[p.r] = Closed, t[p.w] = Closed,
         NEW v \in Entries, NEW s \in Entries,
         \A j, k \in Slot : v[j][k] = IF j = a /\ k = b THEN p.w ELSE w[j][k],
         \A j, k \in Slot : s[k][j] = IF j = a /\ k = b THEN p.r ELSE r[k][j]
  PROVE  Sound(Held, Pipes(g, v, s), cl, WithPipe(t, p), lk, own)
<1> DEFINE x == UserPlace(a, b)
           P == Pipes(g, w, r)
           Q == Pipes(g, v, s)
<1>1. P \in [Held -> NodePipe] /\ Q \in [Held -> NodePipe] /\ x \in Held
  BY PipesFacts, PlaceFacts
<1>2. P[x] = NoPipe
  <2>1. P[x] = [w |-> w[a][b], r |-> r[b][a]]
    BY PipesFacts
  <2> QED BY <2>1 DEF NoPipe
<1>3. Q[x] = p
  <2>1. Q[x] = [w |-> v[a][b], r |-> s[b][a]]
    BY PipesFacts
  <2>2. Q[x].w = p.w /\ Q[x].r = p.r /\ Q[x] \in NodePipe
    BY <1>1, <2>1
  <2> QED BY <2>2, PipeFacts
<1>4. ASSUME NEW y \in Held, y # x PROVE Q[y] = P[y]
  <2>1. ASSUME NEW j \in Slot, NEW n \in Node, y = NodePlace(j, n) PROVE Q[y] = P[y]
    <3>1. P[y] = g[j][n]
      BY <2>1, PipesFacts
    <3>2. Q[y] = g[j][n]
      BY <2>1, PipesFacts
    <3> QED BY <3>1, <3>2
  <2>2. ASSUME NEW j \in Slot, NEW k \in Slot, y = UserPlace(j, k) PROVE Q[y] = P[y]
    <3>1. ~(j = a /\ k = b)
      BY <1>4, <2>2
    <3>2. P[y] = [w |-> w[j][k], r |-> r[k][j]]
      BY <2>2, PipesFacts
    <3>3. Q[y] = [w |-> v[j][k], r |-> s[k][j]]
      BY <2>2, PipesFacts
    <3> QED BY <3>1, <3>2, <3>3
  <2> HIDE DEF x, P, Q
  <2> QED BY <2>1, <2>2, PlaceCases
<1>5. Sound(Held, P, cl, t, lk, own)
  OBVIOUS
<1> HIDE DEF x, P, Q
<1>6. Sound(Held, Q, cl, WithPipe(t, p), lk, own)
  BY <1>1, <1>2, <1>3, <1>4, <1>5, AddSound
<1> QED BY <1>6 DEF Q

\* A client's list and every user pipe to and from it go: its own entries are
\* closed and so are the write ends to it, the rest is given up.
LeaveClosed(w, r, i) ==
  (({w[i][j] : j \in Slot} \cup {r[i][j] : j \in Slot}) \ {None})
  \cup ({w[j][i] : j \in Slot \ {i}} \ {None})
LeaveGivenUp(g, r, i) == PipeFdsOf(g[i]) \cup ({r[j][i] : j \in Slot \ {i}} \ {None})

(* A client that leaves closes what its entries name and forgets them.     *)
LEMMA LeaveTables ==
  ASSUME NEW g \in Rings, NEW w \in Entries, NEW r \in Entries,
         NEW cl, NEW t, NEW lk, NEW own, Sound(Held, Pipes(g, w, r), cl, t, lk, own),
         NEW i \in Slot
  PROVE  Sound(Held, Pipes([g EXCEPT ![i] = EmptyRing], WithoutUser(w, i), WithoutUser(r, i)),
               cl, Close(t, LeaveClosed(w, r, i)), lk \cup LeaveGivenUp(g, r, i), own)
<1> DEFINE h == [g EXCEPT ![i] = EmptyRing]
           v == WithoutUser(w, i)
           s == WithoutUser(r, i)
           Z == LeaveClosed(w, r, i)
           K == LeaveGivenUp(g, r, i)
<1>1. h \in Rings /\ \A j \in Slot, n \in Node : h[j][n] = IF j = i THEN NoPipe ELSE g[j][n]
  <2>1. EmptyRing \in [Node -> NodePipe] /\ \A n \in Node : EmptyRing[n] = NoPipe
    BY PipeFacts DEF EmptyRing
  <2> QED BY <2>1 DEF Rings
<1>2. ASSUME NEW e \in Entries
      PROVE  /\ WithoutUser(e, i) \in Entries
             /\ \A j, k \in Slot : WithoutUser(e, i)[j][k] =
                                     IF j = i \/ k = i THEN None ELSE e[j][k]
  BY <1>2 DEF WithoutUser, NoUserPipe, Entries
<1>3. /\ v \in Entries /\ s \in Entries
      /\ \A j, k \in Slot : v[j][k] = IF j = i \/ k = i THEN None ELSE w[j][k]
      /\ \A j, k \in Slot : s[j][k] = IF j = i \/ k = i THEN None ELSE r[j][k]
  BY <1>2
<1>4. \A f \in Fd : f \in Z <=> \/ \E j \in Slot : f = w[i][j] \/ f = r[i][j]
                                \/ \E j \in Slot : j # i /\ f = w[j][i]
  BY NoneFacts DEF LeaveClosed
<1>5. /\ K \in SUBSET Fd
      /\ \A f \in Fd : f \in K <=> \/ \E n \in Node : f = g[i][n].w \/ f = g[i][n].r
                                   \/ \E j \in Slot : j # i /\ f = r[j][i]
  <2>1. ASSUME NEW n \in Node PROVE g[i][n] \in NodePipe
    BY DEF Rings
  <2>2. PipeFdsOf(g[i]) \in SUBSET Fd
    BY <2>1, PipeFacts DEF PipeFdsOf
  <2>3. {r[j][i] : j \in Slot \ {i}} \ {None} \in SUBSET Fd
    BY DEF Entries
  <2>4. \A f \in Fd : f \in PipeFdsOf(g[i]) <=> \E n \in Node : f = g[i][n].w \/ f = g[i][n].r
    BY NoneFacts DEF PipeFdsOf
  <2>5. \A f \in Fd : f \in {r[j][i] : j \in Slot \ {i}} \ {None} <=> \E j \in Slot : j # i /\ f = r[j][i]
    BY NoneFacts
  <2> QED BY <2>2, <2>3, <2>4, <2>5 DEF LeaveGivenUp
<1> HIDE DEF h, v, s, Z, K
<1> DEFINE X == {x \in Held : \/ \E n \in Node : x = NodePlace(i, n)
                              \/ \E j \in Slot : x = UserPlace(i, j) \/ x = UserPlace(j, i)}
           P == Pipes(g, w, r)
           Q == Pipes(h, v, s)
<1>6. P \in [Held -> NodePipe] /\ Q \in [Held -> NodePipe] /\ X \in SUBSET Held
  BY <1>1, <1>3, PipesFacts
<1>7. /\ \A j \in Slot, n \in Node : P[NodePlace(j, n)] = g[j][n]
      /\ \A j, k \in Slot : /\ P[UserPlace(j, k)].w = w[j][k]
                            /\ P[UserPlace(j, k)].r = r[k][j]
  BY PipesEnds
<1>8. /\ \A j \in Slot, n \in Node : Q[NodePlace(j, n)] = h[j][n]
      /\ \A j, k \in Slot : /\ Q[UserPlace(j, k)].w = v[j][k]
                            /\ Q[UserPlace(j, k)].r = s[k][j]
  BY <1>1, <1>3, PipesEnds
<1>9. Sound(Held, P, cl, t, lk, own)
  OBVIOUS
<1> HIDE DEF P, Q
<1>10. \A y \in Held : Q[y] = IF y \in X THEN NoPipe ELSE P[y]
  <2>1. ASSUME NEW j \in Slot, NEW n \in Node
        PROVE  Q[NodePlace(j, n)] = IF NodePlace(j, n) \in X THEN NoPipe ELSE P[NodePlace(j, n)]
    <3>1. NodePlace(j, n) \in X <=> j = i
      BY PlaceFacts
    <3> HIDE DEF X
    <3> QED BY <1>7, <1>8, <1>1, <3>1
  <2>2. ASSUME NEW j \in Slot, NEW k \in Slot
        PROVE  Q[UserPlace(j, k)] = IF UserPlace(j, k) \in X THEN NoPipe ELSE P[UserPlace(j, k)]
    <3>1. UserPlace(j, k) \in X <=> j = i \/ k = i
      BY PlaceFacts
    <3>2. UserPlace(j, k) \in Held
      BY PlaceFacts
    <3>3. CASE j = i \/ k = i
      <4>1. Q[UserPlace(j, k)].w = None /\ Q[UserPlace(j, k)].r = None
        BY <1>8, <1>3, <3>3
      <4>2. Q[UserPlace(j, k)] = NoPipe
        BY <1>6, <3>2, <4>1, PipeFacts
      <4> QED BY <3>1, <3>3, <4>2
    <3>4. CASE ~(j = i \/ k = i)
      <4>1. /\ Q[UserPlace(j, k)].w = P[UserPlace(j, k)].w
            /\ Q[UserPlace(j, k)].r = P[UserPlace(j, k)].r
        BY <1>7, <1>8, <1>3, <3>4
      <4>2. Q[UserPlace(j, k)] = P[UserPlace(j, k)]
        BY <1>6, <3>2, <4>1, PipeFacts
      <4> QED BY <3>1, <3>4, <4>2
    <3> QED BY <3>3, <3>4
  <2> HIDE DEF X
  <2> QED BY <2>1, <2>2, PlaceCases
<1>11. ASSUME NEW f \in Fd PROVE f \in Z \/ f \in K <=> HasEnd(P, X, f)
  <2>1. ASSUME f \in Z \/ f \in K PROVE HasEnd(P, X, f)
    <3>1. \A n \in Node : NodePlace(i, n) \in X
      BY PlaceFacts
    <3>2. \A j \in Slot : UserPlace(i, j) \in X /\ UserPlace(j, i) \in X
      BY PlaceFacts
    <3> HIDE DEF X
    <3> QED BY <1>7, <1>4, <1>5, <2>1, <3>1, <3>2 DEF HasEnd
  <2>2. ASSUME HasEnd(P, X, f) PROVE f \in Z \/ f \in K
    <3>1. PICK x \in X : f = P[x].w \/ f = P[x].r
      BY <2>2 DEF HasEnd
    <3>2. ASSUME NEW n \in Node, x = NodePlace(i, n) PROVE f \in Z \/ f \in K
      BY <1>7, <1>4, <1>5, <3>1, <3>2
    <3>3. ASSUME NEW j \in Slot, x = UserPlace(i, j) PROVE f \in Z \/ f \in K
      BY <1>7, <1>4, <1>5, <3>1, <3>3
    <3>4. ASSUME NEW j \in Slot, x = UserPlace(j, i) PROVE f \in Z \/ f \in K
      BY <1>7, <1>4, <1>5, <3>1, <3>4
    <3> QED BY <3>1, <3>2, <3>3, <3>4
  <2> QED BY <2>1, <2>2
<1>12. ASSUME NEW f \in Fd, f \in Z, f \in K PROVE FALSE
  <2>1. PICK a \in Slot, b \in Slot :
           \/ f = P[UserPlace(a, b)].w
           \/ f = P[UserPlace(a, b)].r /\ b = i
    BY <1>7, <1>12, <1>4, <1>5
  <2>2. UserPlace(a, b) \in Held /\ P[UserPlace(a, b)] # NoPipe
    BY <2>1, PlaceFacts, PipeFacts, NoneFacts
  <2>3. PICK y \in Held : /\ f = P[y].w \/ f = P[y].r
                          /\ \/ \E n \in Node : y = NodePlace(i, n)
                             \/ \E j \in Slot : j # i /\ y = UserPlace(i, j) /\ f = P[y].r
    BY <1>7, <1>12, <1>4, <1>5, PlaceFacts
  <2>4. P[y] # NoPipe
    BY <2>3, PipeFacts, NoneFacts
  <2>5. PipesValid(Held, P, t)
    BY <1>9 DEF Sound
  <2>6. y = UserPlace(a, b)
    BY <1>6, <2>1, <2>2, <2>3, <2>4, <2>5, EndsApart
  <2>7. PipeAt(t, P[y]) /\ P[y].w # P[y].r
    <3>1. PipeAt(t, P[y])
      BY <2>4, <2>5 DEF PipesValid
    <3> QED BY <3>1, KindFacts DEF PipeAt
  <2> QED BY <2>1, <2>3, <2>6, <2>7, PlaceFacts
<1>13. Sound(Held, Q, cl, Close(t, Z), lk \cup K, own)
  <2> HIDE DEF X
  <2> QED BY <1>6, <1>9, <1>10, <1>11, <1>12, <1>5, ForgetSound
<1> QED BY <1>13 DEF Q, h, v, s, Z, K

-----------------------------------------------------------------------------
(* The descriptors, action by action *)

\* Up to the second stray close the tables and the descriptors agree; what is
\* watched are the clients and perhaps the odd bit, what is still ready is not
\* the client served, and a free slot has no numbered pipes.
TablesSound == Sound(Held, Pipes(ring, wr, rd), client, open, leaked, Own)
WatchInv ==
  /\ {Listener} \cup Sockets \subseteq Looked
  /\ readfd \subseteq {Listener} \cup Sockets \cup Odd
  /\ cur # None => client[cur] \notin ready
OfflineEmpty == \A i \in Slot : i \notin Online => ring[i] = EmptyRing
DescriptorInv ==
  /\ TypeOK /\ UserPipeInv /\ WatchInv /\ OfflineEmpty
  /\ strays < 2 => TablesSound

(* The tables' types, without those of the program's place.                *)
LEMMA TableTypes ==
  ASSUME TypeOK
  PROVE  /\ ring \in Rings /\ wr \in Entries /\ rd \in Entries
         /\ Own \in SUBSET Fd /\ Listener \in Own /\ Own \subseteq Nat
         /\ client \in [Slot -> Fd \cup {None}] /\ open \in [Fd -> Object]
BY FdAssumption DEF TypeOK, Rings, Entries, Own, Listener, Stdout, Fd

\* The pipe of the node a command writes to is made.
LEMMA AimedSound ==
  ASSUME TypeOK, TablesSound, cur \in Slot, NEW c \in Command,
         NeedsPipe(c) => CanPipe(open)
  PROVE  /\ [ring EXCEPT ![cur] = Aimed(c)] \in Rings
         /\ Sound(Held, Pipes([ring EXCEPT ![cur] = Aimed(c)], wr, rd), client,
                  Opened(c), leaked, Own)
         /\ Aimed(c)[0] = ring[cur][0]
<1>1. ring \in Rings /\ wr \in Entries /\ rd \in Entries
  BY TableTypes
<1>2. c.len \in Node /\ 0 \in Node
  BY RingAssumption DEF Command, Node
<1>3. CASE NeedsPipe(c)
  <2>1. ring[cur][c.len] = NoPipe /\ CanPipe(open) /\ c.len # 0
    BY <1>2, <1>3 DEF NeedsPipe, Node
  <2>2. [ring EXCEPT ![cur] = Aimed(c)] = [ring EXCEPT ![cur][c.len] = PipeFds(open)]
    BY <1>3 DEF Aimed
  <2>3. Opened(c) = WithPipe(open, PipeFds(open))
    BY <1>3 DEF Opened
  <2>4. Aimed(c)[0] = ring[cur][0]
    BY <1>1, <1>2, <1>3, <2>1 DEF Aimed, Rings
  <2> QED BY <1>1, <1>2, <2>1, <2>2, <2>3, <2>4, AimTables DEF TablesSound
<1>4. CASE ~NeedsPipe(c)
  <2>1. Aimed(c) = ring[cur] /\ Opened(c) = open
    BY <1>4 DEF Aimed, Opened
  <2>2. [ring EXCEPT ![cur] = Aimed(c)] = ring
    BY <1>1, <2>1 DEF Rings
  <2> QED BY <1>1, <2>1, <2>2 DEF TablesSound
<1> QED BY <1>3, <1>4

\* The first node is dropped after it.
LEMMA DroppedSound ==
  ASSUME TypeOK, TablesSound, cur \in Slot, NEW c \in Command,
         NeedsPipe(c) => CanPipe(open),
         NEW Z, NEW K \in SUBSET Fd,
         \A f \in Fd : f \in Z \/ f \in K <=> f = ring[cur][0].w \/ f = ring[cur][0].r,
         \A f \in Fd : ~(f \in Z /\ f \in K)
  PROVE  /\ [ring EXCEPT ![cur] = NextNode(Aimed(c))] \in Rings
         /\ Sound(Held, Pipes([ring EXCEPT ![cur] = NextNode(Aimed(c))], wr, rd), client,
                  Close(Opened(c), Z), leaked \cup K, Own)
<1> DEFINE g == [ring EXCEPT ![cur] = Aimed(c)]
           h == [ring EXCEPT ![cur] = NextNode(Aimed(c))]
<1>1. /\ g \in Rings /\ Sound(Held, Pipes(g, wr, rd), client, Opened(c), leaked, Own)
      /\ Aimed(c)[0] = ring[cur][0]
  BY AimedSound
<1>2. ring \in Rings /\ wr \in Entries /\ rd \in Entries
  BY TableTypes
<1>3. g[cur] = Aimed(c) /\ [g EXCEPT ![cur] = NextNode(g[cur])] = h
  BY <1>2 DEF Rings
<1> HIDE DEF g, h
<1>4. \A f \in Fd : f \in Z \/ f \in K <=> f = g[cur][0].w \/ f = g[cur][0].r
  BY <1>1, <1>3
<1>5. /\ [g EXCEPT ![cur] = NextNode(g[cur])] \in Rings
      /\ Sound(Held, Pipes([g EXCEPT ![cur] = NextNode(g[cur])], wr, rd), client,
               Close(Opened(c), Z), leaked \cup K, Own)
  BY <1>1, <1>2, <1>4, NextTables
<1> QED BY <1>3, <1>5 DEF h

\* No command is forked: the first node's pipe is given up.
LEMMA BuiltinSound ==
  ASSUME TypeOK, TablesSound, cur \in Slot, NEW c \in Command,
         NeedsPipe(c) => CanPipe(open),
         ring' = [ring EXCEPT ![cur] = NextNode(Aimed(c))], open' = Opened(c),
         leaked' = leaked \cup ({ring[cur][0].w, ring[cur][0].r} \ {None}),
         UNCHANGED <<client, wr, rd, strays>>
  PROVE  TablesSound' /\ ring' \in Rings
<1> DEFINE K == {ring[cur][0].w, ring[cur][0].r} \ {None}
<1>1. ring[cur][0] \in NodePipe
  BY TableTypes, RingAssumption DEF Rings, Node
<1>2. K \in SUBSET Fd
  BY <1>1, PipeFacts
<1>3. \A f \in Fd : f \in {} \/ f \in K <=> f = ring[cur][0].w \/ f = ring[cur][0].r
  BY NoneFacts
<1> HIDE DEF K
<1>4. ring' \in Rings /\ Sound(Held, Pipes(ring', wr, rd), client,
                               Close(Opened(c), {}), leaked \cup K, Own)
  <2>1. \A f \in Fd : ~(f \in {} /\ f \in K)
    OBVIOUS
  <2>2. /\ [ring EXCEPT ![cur] = NextNode(Aimed(c))] \in Rings
        /\ Sound(Held, Pipes([ring EXCEPT ![cur] = NextNode(Aimed(c))], wr, rd), client,
                 Close(Opened(c), {}), leaked \cup K, Own)
    BY <1>2, <1>3, <2>1, DroppedSound
  <2> QED BY <2>2
<1>5. Opened(c) \in [Fd -> Object]
  BY AimedSound DEF Sound, Typed
<1>6. Close(Opened(c), {}) = Opened(c)
  BY <1>5 DEF Close
<1> QED BY <1>4, <1>6 DEF TablesSound, Own, K

(* Tables are equal by their entries.                                      *)
LEMMA EntriesEqual ==
  ASSUME NEW a \in Entries, NEW b \in Entries, \A j, k \in Slot : a[j][k] = b[j][k]
  PROVE  a = b
<1>1. ASSUME NEW j \in Slot PROVE a[j] = b[j]
  BY DEF Entries
<1> QED BY <1>1 DEF Entries

\* A forked command: the first node's pipe and what it received are closed,
\* and the pipe it writes to, if it makes one, is new.
LEMMA ExecSound ==
  ASSUME TypeOK, UserPipeInv, TablesSound, NEW c \in Command, Exec(c)
  PROVE  TablesSound' /\ ring' \in Rings
<1> DEFINE node  == ring[cur][0]
           recvW == IF Receives(c) THEN {wr[c.from][cur]} ELSE {}
           recvR == IF Receives(c) THEN {rd[cur][c.from]} ELSE {}
           A == {node.w} \cup recvW
           B == {node.r} \cup recvR
           t0 == Close(Opened(c), {node.w, node.r})
           Z  == recvW \cup recvR
           t1 == Close(t0, Z)
           p  == OutPipe(c)
           g  == [ring EXCEPT ![cur] = NextNode(Aimed(c))]
           v  == [j \in Slot |-> [k \in Slot |->
                    IF Receives(c) /\ j = c.from /\ k = cur THEN None ELSE wr[j][k]]]
           s  == [k \in Slot |-> [j \in Slot |->
                    IF Receives(c) /\ j = c.from /\ k = cur THEN None ELSE rd[k][j]]]
<1>1. /\ ring \in Rings /\ wr \in Entries /\ rd \in Entries /\ cur \in Slot
      /\ open \in [Fd -> Object]
  BY TableTypes, ExecEntries
<1>2. /\ NeedsPipe(c) => CanPipe(open)
      /\ Sends(c) => CanPipe(BeforePipe(c))
      /\ open' = Close(IF Sends(c) THEN WithPipe(BeforePipe(c), p) ELSE BeforePipe(c), B)
      /\ ring' = g /\ UNCHANGED <<client, leaked, strays>>
  BY DEF Exec, BeforePipe, OutPipe
<1>3. BeforePipe(c) = Close(Opened(c), A)
  BY DEF BeforePipe
<1>4. /\ v \in Entries /\ s \in Entries
      /\ \A j, k \in Slot : v[j][k] = IF Receives(c) /\ j = c.from /\ k = cur
                                      THEN None ELSE wr[j][k]
      /\ \A j, k \in Slot : s[k][j] = IF Receives(c) /\ j = c.from /\ k = cur
                                      THEN None ELSE rd[k][j]
  BY <1>1 DEF Entries
<1>5. Opened(c) \in [Fd -> Object]
  BY <1>1, <1>2, AimedSound DEF Sound, Typed
<1>6. g \in Rings /\ Sound(Held, Pipes(g, wr, rd), client, t0, leaked, Own)
  <2>1. \A f \in Fd : f \in {node.w, node.r} \/ f \in {} <=>
                        f = ring[cur][0].w \/ f = ring[cur][0].r
    OBVIOUS
  <2>2. \A f \in Fd : ~(f \in {node.w, node.r} /\ f \in {})
    OBVIOUS
  <2>3. {} \in SUBSET Fd /\ leaked \cup {} = leaked
    OBVIOUS
  <2> HIDE DEF node
  <2>4. g \in Rings /\ Sound(Held, Pipes(g, wr, rd), client, t0, leaked \cup {}, Own)
    BY <1>1, <1>2, <2>1, <2>2, <2>3, DroppedSound
  <2> QED BY <2>3, <2>4
<1> HIDE DEF t0, g, v, s
<1>7. Sound(Held, Pipes(g, v, s), client, t1, leaked, Own)
  <2>1. CASE Receives(c)
    <3>1. c.from \in Slot
      BY ExecEntries, <2>1
    <3>2. /\ \A j, k \in Slot : v[j][k] = IF j = c.from /\ k = cur THEN None ELSE wr[j][k]
          /\ \A j, k \in Slot : s[k][j] = IF j = c.from /\ k = cur THEN None ELSE rd[k][j]
      BY <1>4, <2>1
    <3>3. Sound(Held, Pipes(g, wr, rd), client, t0, leaked, Own)
      BY <1>6
    <3>4. g \in Rings /\ v \in Entries /\ s \in Entries
      BY <1>4, <1>6
    <3>5. Z = {wr[c.from][cur], rd[cur][c.from]}
      BY <2>1
    <3> HIDE DEF Z
    <3>6. Sound(Held, Pipes(g, v, s), client,
                Close(t0, {wr[c.from][cur], rd[cur][c.from]}), leaked, Own)
      BY <1>1, <3>1, <3>2, <3>3, <3>4, ForgetUserTables
    <3> QED BY <3>5, <3>6
  <2>2. CASE ~Receives(c)
    <3>1. v = wr /\ s = rd
      BY <1>1, <2>2 DEF v, s, Entries
    <3>2. t1 = t0
      BY <1>5, <2>2 DEF t0, Close
    <3> QED BY <1>6, <3>1, <3>2
  <2> QED BY <2>1, <2>2
<1>8. t1 = Close(Opened(c), A \cup B)
  BY DEF Close, t0
\* The pipes closed are pipes, so what is closed after the fork was open then.
<1>9. /\ node.w \in Fd \/ node.r \in Fd => PipeAt(Opened(c), node)
      /\ Receives(c) => /\ Opened(c)[wr[c.from][cur]] = WriteEnd(rd[cur][c.from])
                        /\ Opened(c)[rd[cur][c.from]] = ReadEnd(wr[c.from][cur])
  <2> DEFINE h == [ring EXCEPT ![cur] = Aimed(c)]
             P == Pipes(h, wr, rd)
  <2>1. h \in Rings /\ h[cur][0] = node /\ 0 \in Node
        /\ Sound(Held, P, client, Opened(c), leaked, Own)
    <3>1. /\ h \in Rings /\ Aimed(c)[0] = node
          /\ Sound(Held, P, client, Opened(c), leaked, Own)
      BY <1>1, <1>2, AimedSound
    <3>2. h[cur] = Aimed(c)
      BY <1>1 DEF Rings
    <3> QED BY <3>1, <3>2, RingAssumption DEF Node
  <2> HIDE DEF h
  <2>2. \A x \in Held : P[x] # NoPipe => PipeAt(Opened(c), P[x])
    BY <2>1 DEF Sound, PipesValid
  <2>3. NodePlace(cur, 0) \in Held /\ P[NodePlace(cur, 0)] = node
    BY <1>1, <2>1, PlaceFacts, PipesEnds
  <2>4. node.w \in Fd \/ node.r \in Fd => node # NoPipe
    BY PipeFacts, NoneFacts
  <2>5. ASSUME Receives(c)
        PROVE  /\ Opened(c)[wr[c.from][cur]] = WriteEnd(rd[cur][c.from])
               /\ Opened(c)[rd[cur][c.from]] = ReadEnd(wr[c.from][cur])
    <3>1. c.from \in Slot /\ wr[c.from][cur] # None
      BY <2>5, ExecEntries DEF Receives
    <3>2. /\ UserPlace(c.from, cur) \in Held
          /\ P[UserPlace(c.from, cur)].w = wr[c.from][cur]
          /\ P[UserPlace(c.from, cur)].r = rd[cur][c.from]
      BY <1>1, <2>1, <3>1, PlaceFacts, PipesEnds
    <3> HIDE DEF P
    <3>3. P[UserPlace(c.from, cur)] # NoPipe
      BY <3>1, <3>2, PipeFacts
    <3> QED BY <2>2, <3>2, <3>3 DEF PipeAt
  <2> QED BY <2>2, <2>3, <2>4, <2>5
<1>10. ASSUME NEW b \in Fd, b \in B PROVE BeforePipe(c)[b] # Closed
  <2>1. Close(Opened(c), A)[b] = IF b \in A THEN Closed ELSE Opened(c)[b]
    BY <1>5, CloseFacts
  <2>2. \E m : Opened(c)[b] = ReadEnd(m)
    BY <1>9, <1>10 DEF PipeAt
  <2>3. ASSUME b \in A PROVE \E m : Opened(c)[b] = WriteEnd(m)
    BY <1>9, <1>10, <2>3 DEF PipeAt
  <2>4. Opened(c)[b] # Closed /\ b \notin A
    BY <2>2, <2>3, KindFacts
  <2> QED BY <1>3, <2>1, <2>4
<1>11. CASE Sends(c)
  <2>1. /\ p \in NodePipe /\ p.r \in Fd /\ p.w \in Fd /\ p.r # p.w
        /\ BeforePipe(c)[p.r] = Closed /\ BeforePipe(c)[p.w] = Closed
    BY <1>2, <1>11, PipeFdsFree DEF OutPipe
  <2>2. p.r \notin B /\ p.w \notin B
    BY <1>10, <2>1
  <2>3. /\ \A f \in Fd : BeforePipe(c)[f] = IF f \in A THEN Closed ELSE Opened(c)[f]
        /\ \A f \in Fd : t1[f] = IF f \in A \cup B THEN Closed ELSE Opened(c)[f]
        /\ t1 \in [Fd -> Object] /\ BeforePipe(c) \in [Fd -> Object]
    BY <1>3, <1>5, <1>8, CloseFacts
  <2> HIDE DEF p, A, B, t1
  <2>4. t1[p.r] = Closed /\ t1[p.w] = Closed
    BY <2>1, <2>3
  <2>5. open' = WithPipe(t1, p)
    <3>1. \A f \in Fd : WithPipe(BeforePipe(c), p)[f] =
                           IF f = p.w THEN WriteEnd(p.r)
                           ELSE IF f = p.r THEN ReadEnd(p.w) ELSE BeforePipe(c)[f]
      BY <2>1, <2>3 DEF WithPipe
    <3>2. \A f \in Fd : WithPipe(t1, p)[f] = IF f = p.w THEN WriteEnd(p.r)
                                            ELSE IF f = p.r THEN ReadEnd(p.w) ELSE t1[f]
      BY <2>1, <2>3 DEF WithPipe
    <3>3. open' = [f \in Fd |-> IF f \in B THEN Closed ELSE WithPipe(BeforePipe(c), p)[f]]
      BY <1>2, <1>11 DEF Close
    <3>4. WithPipe(t1, p) = [f \in Fd |-> WithPipe(t1, p)[f]]
      BY <2>3 DEF WithPipe
    <3>5. ASSUME NEW f \in Fd
          PROVE  (IF f \in B THEN Closed ELSE WithPipe(BeforePipe(c), p)[f]) = WithPipe(t1, p)[f]
      BY <2>2, <2>3, <3>1, <3>2
    <3> QED BY <3>3, <3>4, <3>5
  <2>6. /\ c.to \in Slot /\ wr' \in Entries /\ rd' \in Entries
        /\ \A j, k \in Slot : wr'[j][k] = IF j = cur /\ k = c.to THEN p.w ELSE v[j][k]
        /\ \A j, k \in Slot : rd'[k][j] = IF j = cur /\ k = c.to THEN p.r ELSE s[k][j]
    BY <1>4, <1>11, ExecEntries DEF p
  <2>7. v[cur][c.to] = None /\ s[c.to][cur] = None
    <3>1. rd[c.to][cur] = None /\ wr[cur][c.to] = None
      BY <1>1, <1>11, <2>6 DEF Sends, UserPipeInv, Mirrored
    <3> QED BY <1>1, <1>4, <2>6, <3>1
  <2>8. g \in Rings /\ v \in Entries /\ s \in Entries
    BY <1>4, <1>6
  <2>9. Sound(Held, Pipes(g, wr', rd'), client, WithPipe(t1, p), leaked, Own)
    BY <1>1, <1>7, <2>1, <2>4, <2>6, <2>7, <2>8, AddUserTables
  <2> QED BY <1>2, <1>6, <2>5, <2>9 DEF TablesSound, Own
<1>12. CASE ~Sends(c)
  <2>1. wr' = v /\ rd' = s
    <3>1. /\ wr' \in Entries /\ rd' \in Entries
          /\ \A j, k \in Slot : wr'[j][k] = v[j][k] /\ rd'[j][k] = s[j][k]
      BY <1>4, <1>12, ExecEntries
    <3> QED BY <1>4, <3>1, EntriesEqual
  <2>2. open' = t1
    BY <1>2, <1>3, <1>8, <1>12, CloseTwice
  <2> QED BY <1>2, <1>6, <1>7, <2>1, <2>2 DEF TablesSound, Own
<1> QED BY <1>11, <1>12

\* A departure: the socket, the client's list and its user pipes go, and with
\* a user pipe still to be read the server loses descriptor 1.
LEMMA LogoutTables ==
  ASSUME TypeOK, UserPipeInv, TablesSound, NEW c \in Command, Logout(c),
         strays < 2, strays' < 2
  PROVE  TablesSound'
<1> DEFINE i == cur
           Z == OwnEnds(i) \cup WriteEndsTo(i)
           K == PipeFdsOf(Aimed(c)) \cup ReadEndsFrom(i)
           g == [ring EXCEPT ![i] = Aimed(c)]
           t1 == Close(Opened(c), Z)
           t2 == Close(t1, {client[i]})
<1>1. /\ ring \in Rings /\ wr \in Entries /\ rd \in Entries /\ i \in Slot
      /\ client[i] # None
      /\ NeedsPipe(c) => CanPipe(open)
  BY TableTypes DEF Logout, UserPipeInv
<1>2. g \in Rings /\ Sound(Held, Pipes(g, wr, rd), client, Opened(c), leaked, Own)
  BY <1>1, AimedSound
<1>3. g[i] = Aimed(c) /\ ring' = [g EXCEPT ![i] = EmptyRing]
  BY <1>1 DEF Rings, Logout
<1>4. wr' = WithoutUser(wr, i) /\ rd' = WithoutUser(rd, i)
  BY DEF Logout
<1>5. Z = LeaveClosed(wr, rd, i) /\ K = LeaveGivenUp(g, rd, i)
  BY <1>3 DEF LeaveClosed, LeaveGivenUp, OwnEnds, WriteEndsTo, ReadEndsFrom
<1> HIDE DEF g, Z, K
<1>6. Sound(Held, Pipes(ring', wr', rd'), client, t1, leaked \cup K, Own)
  BY <1>1, <1>2, <1>3, <1>4, <1>5, LeaveTables
<1>7. Sound(Held, Pipes(ring', wr', rd'), client', t2, leaked', Own)
  <2>1. client' = [client EXCEPT ![i] = None] /\ leaked' = leaked \cup K
    BY DEF Logout, K
  <2> HIDE DEF t1
  <2>2. Sound(Held, Pipes(ring', wr', rd'), [client EXCEPT ![i] = None], t2, leaked \cup K, Own)
    BY <1>1, <1>6, LogoutSound
  <2> QED BY <2>1, <2>2
<1>8. open' = Close(t2, StrayClose(i))
  <2>1. open' = Close(Opened(c), {client[i]} \cup OwnEnds(i) \cup WriteEndsTo(i) \cup StrayClose(i))
    BY DEF Logout
  <2>2. {client[i]} \cup OwnEnds(i) \cup WriteEndsTo(i) \cup StrayClose(i) =
          (Z \cup {client[i]}) \cup StrayClose(i)
    BY DEF Z
  <2>3. t2 = Close(Opened(c), Z \cup {client[i]})
    BY CloseTwice
  <2>4. Close(t2, StrayClose(i)) = Close(Opened(c), (Z \cup {client[i]}) \cup StrayClose(i))
    BY <2>3, CloseTwice
  <2> QED BY <2>1, <2>2, <2>4
<1>9. strays \in 0 .. 2 /\ strays' = IF StrayClose(i) = {} THEN strays ELSE strays + 1
  BY DEF TypeOK, Logout
<1>10. CASE StrayClose(i) = {}
  <2>1. t2 \in [Fd -> Object]
    BY <1>7 DEF Sound, Typed
  <2> HIDE DEF t2
  <2>2. open' = t2
    BY <1>8, <1>10, <2>1 DEF Close
  <2> QED BY <1>7, <1>9, <1>10, <2>2 DEF TablesSound, Own
<1>11. CASE StrayClose(i) # {}
  <2>1. StrayClose(i) = {Stdout}
    BY <1>11 DEF StrayClose
  <2>2. strays = 0 /\ strays' = 1
    BY <1>9, <1>11
  <2>3. Stdout \in Own /\ Own' = Own \ {Stdout}
    BY <2>2 DEF Own, Stdout, Listener
  <2> HIDE DEF t2
  <2> QED BY <1>7, <1>8, <2>1, <2>3, StraySound DEF TablesSound
<1> QED BY <1>10, <1>11

\* The tables of the slot a connection gets are empty already.
LEMMA LoginTables ==
  ASSUME TypeOK, UserPipeInv, OfflineEmpty, Accept \/ AcceptFails
  PROVE  /\ ring' = ring /\ wr' = wr /\ rd' = rd
         /\ FirstFree \in Slot /\ FirstFree \notin Online /\ client[FirstFree] = None
<1> DEFINE i == FirstFree
<1>1. /\ i \in Slot /\ i \notin Online /\ client[i] = None
      /\ ring' = [ring EXCEPT ![i] = EmptyRing]
      /\ wr' = [wr EXCEPT ![i] = NoUserPipe] /\ rd' = [rd EXCEPT ![i] = NoUserPipe]
  BY FirstFreeFacts DEF Accept, AcceptFails, Online
<1> HIDE DEF i
<1>2. ring \in Rings /\ wr \in Entries /\ rd \in Entries
  BY TableTypes
<1>3. ring' = ring
  BY <1>1, <1>2 DEF OfflineEmpty, Rings
<1>4. \A j \in Slot : wr[i][j] = None /\ rd[i][j] = None
  BY <1>1 DEF UserPipeInv, Mirrored
<1>5. wr[i] = NoUserPipe /\ rd[i] = NoUserPipe
  BY <1>1, <1>2, <1>4 DEF NoUserPipe, Entries
<1>6. wr' = wr /\ rd' = rd
  BY <1>1, <1>2, <1>5 DEF Entries
<1> QED BY <1>1, <1>3, <1>6 DEF i

\* A connection: a free descriptor for the free slot.
LEMMA AcceptTables ==
  ASSUME TypeOK, UserPipeInv, OfflineEmpty, TablesSound, Accept
  PROVE  /\ TablesSound' /\ ring' = ring
         /\ Lowest(FreeFds(open)) \in Fd /\ open[Lowest(FreeFds(open))] = Closed
<1> DEFINE f == Lowest(FreeFds(open))
           i == FirstFree
<1>1. /\ i \in Slot /\ client[i] = None
      /\ client' = [client EXCEPT ![i] = f] /\ open' = [open EXCEPT ![f] = Socket]
      /\ ring' = ring /\ wr' = wr /\ rd' = rd
      /\ UNCHANGED <<leaked, strays>>
  BY LoginTables DEF Accept
<1>2. f \in Fd /\ open[f] = Closed
  <2>1. FreeFds(open) \in SUBSET Nat /\ FreeFds(open) # {}
    BY FdAssumption DEF FreeFds, Fd, Accept
  <2>2. f \in FreeFds(open)
    BY <2>1, LowestFacts
  <2> QED BY <2>2 DEF FreeFds
<1> HIDE DEF f, i
<1>3. Sound(Held, Pipes(ring, wr, rd), client', open', leaked, Own)
  <2>1. /\ Sound(Held, Pipes(ring, wr, rd), client, open, leaked, Own)
        /\ i \in Slot /\ client[i] = None /\ f \in Fd /\ open[f] = Closed
        /\ client' = [client EXCEPT ![i] = f] /\ open' = [open EXCEPT ![f] = Socket]
    BY <1>1, <1>2 DEF TablesSound
  <2> QED BY <2>1, LoginSound
<1> QED BY <1>1, <1>2, <1>3 DEF TablesSound, Own, f

-----------------------------------------------------------------------------
(* The invariant of the descriptors *)

(* The descriptors are accounted for at the start,                         *)
LEMMA InitDescriptors == Init => DescriptorInv
<1> SUFFICES ASSUME Init PROVE DescriptorInv
  OBVIOUS
<1>1. UserPipeInv
  BY InitUserPipe
<1>2. /\ client \in [Slot -> Fd \cup {None}] /\ wr \in Entries /\ rd \in Entries
      /\ \A i \in Slot : client[i] = None
      /\ \A i, j \in Slot : wr[i][j] = None /\ rd[i][j] = None
  BY DEF Init, NoUserPipe, Entries
<1>3. ring \in Rings /\ \A i \in Slot, n \in Node : ring[i][n] = NoPipe
  BY PipeFacts DEF Init, EmptyRing, Rings
<1>4. open \in [Fd -> Object]
  BY DEF Init, Object, Std, Listening, Closed
<1>5. TypeOK
  <2>1. name \in [Slot -> Name \cup {NoName}]
    BY DEF Init
  <2>2. readfd \in SUBSET (Fd \cup {OddBit}) /\ maxfd \in Fd /\ ghost \in SUBSET Slot
    BY FdAssumption DEF Init, Fd, Listener
  <2>3. /\ up \in BOOLEAN /\ ready = {} /\ cur \in Slot \cup {None}
        /\ leaked \in SUBSET Fd /\ strays \in 0 .. 2
    BY DEF Init
  <2> QED BY <1>2, <1>3, <1>4, <2>1, <2>2, <2>3 DEF TypeOK, Rings, Entries
<1>6. WatchInv /\ OfflineEmpty
  <2>1. Sockets = {} /\ Looked = {Listener} /\ readfd = {Listener} /\ cur = None
    BY DEF Init, Sockets, Looked, Listener
  <2> QED BY <2>1 DEF Init, WatchInv, OfflineEmpty, Online
<1>7. TablesSound
  <2> DEFINE P == Pipes(ring, wr, rd)
  <2>1. P \in [Held -> NodePipe]
    BY <1>2, <1>3, PipesFacts
  <2>2. /\ \A i \in Slot, n \in Node : P[NodePlace(i, n)] = NoPipe
        /\ \A i, j \in Slot : P[UserPlace(i, j)].w = None /\ P[UserPlace(i, j)].r = None
    BY <1>2, <1>3, PipesEnds
  <2> HIDE DEF P
  <2>3. \A x \in Held : P[x] = NoPipe
    BY <2>1, <2>2, PlaceCases, PlaceFacts, PipeFacts
  <2>4. Typed(Held, P, client, open, leaked, Own)
    BY <1>2, <1>4, <1>5, <2>1, TableTypes DEF Typed, Init
  <2>5. PipesValid(Held, P, open) /\ SocketsValid(client, open)
    BY <1>2, <2>3 DEF PipesValid, SocketsValid
  <2>6. ASSUME NEW f \in Fd PROVE ~HasSocket(client, f) /\ ~HasEnd(P, Held, f)
    BY <1>2, <2>3, NoneFacts, PipeFacts DEF HasSocket, HasEnd
  <2>7. \A f \in Fd : open[f] # Closed <=> f \in Own
    BY FdAssumption DEF Init, Own, Fd, Listener, Std, Listening, Closed
  <2>8. Accounted(Held, P, client, open, leaked, Own)
    BY <2>6, <2>7 DEF Accounted, Init
  <2> QED BY <2>4, <2>5, <2>8 DEF TablesSound, Sound, P
<1> QED BY <1>1, <1>5, <1>6, <1>7 DEF DescriptorInv

\* While the tables are sound a socket is nobody else's, nor the listener.
LEMMA SocketsApart ==
  ASSUME TypeOK, TablesSound, NEW i \in Slot, client[i] # None
  PROVE  /\ client[i] \in Fd /\ client[i] # Listener
         /\ \A j \in Slot : client[j] = client[i] => j = i
<1>1. client[i] \in Fd
  BY TableTypes
<1>2. Listener \in Own /\ Listener \in Fd
  BY TableTypes
<1>3. ~HasSocket(client, Listener)
  BY <1>2 DEF TablesSound, Sound, Accounted
<1> QED BY <1>1, <1>3 DEF TablesSound, Sound, SocketsValid, HasSocket

\* Of two bits the higher one is kept.
LEMMA RaisedFacts ==
  ASSUME NEW f \in Fd, maxfd \in Fd, maxfd' = IF f > maxfd THEN f ELSE maxfd
  PROVE  /\ maxfd' \in Fd /\ f <= maxfd' /\ maxfd <= maxfd'
         /\ \A g \in Fd \cup {OddBit} : g <= maxfd => g <= maxfd'
BY FdAssumption, BitAssumption DEF Fd

LEMMA AcceptDescriptors ==
  ASSUME DescriptorInv, strays < 2, Accept
  PROVE  DescriptorInv'
<1> DEFINE f == Lowest(FreeFds(open))
           i == FirstFree
<1>1. TypeOK /\ UserPipeInv /\ WatchInv /\ OfflineEmpty /\ TablesSound
  BY DEF DescriptorInv
<1>2. TablesSound' /\ f \in Fd /\ open[f] = Closed
  BY <1>1, AcceptTables
<1>3. UserPipeInv'
  BY <1>1, LoginUserPipe
<1>4. /\ i \in Slot /\ i \notin Online /\ client[i] = None
      /\ ring' = ring /\ wr' = wr /\ rd' = rd
  BY <1>1, LoginTables
<1>5. /\ client' = [client EXCEPT ![i] = f] /\ readfd' = readfd \cup {f}
      /\ name' = [name EXCEPT ![i] = NoName] /\ ready' = ready \ {Listener}
      /\ cur = None /\ UNCHANGED <<up, ghost, cur, leaked, strays>>
      /\ open' = [open EXCEPT ![f] = Socket]
      /\ maxfd' = IF f > maxfd THEN f ELSE maxfd
  BY DEF Accept, Turn, LeftReady
<1> HIDE DEF f, i
<1>6. f # None
  BY <1>2, NoneFacts
<1>7. client' \in [Slot -> Fd \cup {None}] /\ Online' = Online \cup {i}
  BY <1>1, <1>2, <1>4, <1>5, <1>6 DEF TypeOK, Online
<1>8. maxfd' \in Fd /\ Looked \cup {f} \subseteq Looked'
  <2>1. /\ maxfd' \in Fd /\ f <= maxfd'
        /\ \A g \in Fd \cup {OddBit} : g <= maxfd => g <= maxfd'
    BY <1>1, <1>2, <1>5, RaisedFacts DEF TypeOK
  <2> QED BY <1>1, <1>5, <2>1 DEF Looked, TypeOK
<1>9. TypeOK'
  <2>1. open' \in [Fd -> Object]
    BY <1>1, <1>5 DEF TypeOK, Object, Socket
  <2>2. readfd' \in SUBSET (Fd \cup {OddBit}) /\ ready' \in SUBSET Looked'
    BY <1>1, <1>2, <1>5, <1>8 DEF TypeOK
  <2> QED BY <1>1, <1>2, <1>4, <1>5, <1>7, <1>8, <2>1, <2>2 DEF TypeOK
<1>10. WatchInv'
  <2>1. Sockets' = Sockets \cup {f}
    BY <1>1, <1>4, <1>5, <1>6 DEF TypeOK, Sockets
  <2>2. Odd' = Odd
    BY <1>5 DEF Odd
  <2> QED BY <1>1, <1>5, <1>8, <2>1, <2>2 DEF WatchInv
<1>11. OfflineEmpty'
  BY <1>1, <1>4, <1>7 DEF OfflineEmpty
<1> QED BY <1>2, <1>3, <1>9, <1>10, <1>11 DEF DescriptorInv

\* A connection that fails takes the slot and sets the bit, and no table
\* changes.
LEMMA GhostDescriptors ==
  ASSUME DescriptorInv, AcceptFails
  PROVE  DescriptorInv'
<1> DEFINE i == FirstFree
<1>1. TypeOK /\ UserPipeInv /\ WatchInv /\ OfflineEmpty /\ (strays < 2 => TablesSound)
  BY DEF DescriptorInv
<1>2. UserPipeInv'
  BY <1>1, LoginUserPipe
<1>3. i \in Slot /\ ring' = ring /\ wr' = wr /\ rd' = rd
  BY <1>1, LoginTables
<1>4. /\ readfd' = readfd \cup {OddBit} /\ ready' = ready \ {Listener}
      /\ ghost' = ghost \cup {i} /\ name' = [name EXCEPT ![i] = NoName]
      /\ cur = None /\ UNCHANGED <<up, client, open, maxfd, cur, leaked, strays>>
  BY DEF AcceptFails, Turn, LeftReady
<1> HIDE DEF i
<1>5. Looked \subseteq Looked' /\ Sockets' = Sockets /\ Odd' = {OddBit}
  BY <1>4 DEF Looked, Sockets, Odd
<1>6. TypeOK'
  <2>1. /\ readfd' \in SUBSET (Fd \cup {OddBit}) /\ ready' \in SUBSET Looked'
        /\ ghost' \in SUBSET Slot /\ name' \in [Slot -> Name \cup {NoName}]
    BY <1>1, <1>3, <1>4, <1>5 DEF TypeOK
  <2> QED BY <1>1, <1>3, <1>4, <2>1 DEF TypeOK
<1>7. WatchInv'
  BY <1>1, <1>4, <1>5 DEF WatchInv, Odd
<1>8. OfflineEmpty'
  BY <1>1, <1>3, <1>4 DEF OfflineEmpty, Online
<1>9. strays' < 2 => TablesSound'
  BY <1>1, <1>3, <1>4 DEF TablesSound, Own
<1> QED BY <1>2, <1>6, <1>7, <1>8, <1>9 DEF DescriptorInv

LEMMA LogoutDescriptors ==
  ASSUME DescriptorInv, strays < 2, NEW c \in Command, Logout(c)
  PROVE  DescriptorInv'
<1> DEFINE i == cur
<1>1. TypeOK /\ UserPipeInv /\ WatchInv /\ OfflineEmpty /\ TablesSound
  BY DEF DescriptorInv
<1>2. UserPipeInv'
  BY <1>1, LogoutUserPipe
<1>3. strays' < 2 => TablesSound'
  BY <1>1, LogoutTables
<1>4. i \in Slot /\ client[i] # None /\ i \in Online /\ i \notin ghost
  BY <1>1 DEF Logout, UserPipeInv, Online
<1>5. /\ client' = [client EXCEPT ![i] = None] /\ readfd' = readfd \ {client[i]}
      /\ name' = [name EXCEPT ![i] = NoName] /\ cur' = None
      /\ ring' = [ring EXCEPT ![i] = EmptyRing]
      /\ leaked' = leaked \cup PipeFdsOf(Aimed(c)) \cup ReadEndsFrom(i)
      /\ strays' = IF StrayClose(i) = {} THEN strays ELSE strays + 1
      /\ UNCHANGED <<up, ghost, maxfd, ready>>
      /\ open' = Close(Opened(c), {client[i]} \cup OwnEnds(i) \cup WriteEndsTo(i) \cup StrayClose(i))
      /\ NeedsPipe(c) => CanPipe(open)
  BY DEF Logout, Unwatched
<1>6. client' \in [Slot -> Fd \cup {None}] /\ Online' = Online \ {i}
  BY <1>1, <1>4, <1>5 DEF TypeOK, Online
<1>7. ring' \in Rings /\ OfflineEmpty'
  <2>1. EmptyRing \in [Node -> NodePipe]
    BY PipeFacts DEF EmptyRing
  <2> QED BY <1>1, <1>4, <1>5, <1>6, <2>1, TableTypes DEF Rings, OfflineEmpty
<1>8. open' \in [Fd -> Object]
  <2>1. Opened(c) \in [Fd -> Object]
    BY <1>1, <1>4, <1>5, AimedSound DEF Sound, Typed
  <2> QED BY <1>5, <2>1, CloseFacts
<1>9. leaked' \in SUBSET Fd
  <2>1. [ring EXCEPT ![i] = Aimed(c)] \in Rings /\ ring \in Rings
    BY <1>1, <1>4, <1>5, AimedSound, TableTypes
  <2>2. \A n \in Node : Aimed(c)[n] \in NodePipe
    BY <1>4, <2>1 DEF Rings
  <2>3. PipeFdsOf(Aimed(c)) \in SUBSET Fd
    BY <2>2, PipeFacts DEF PipeFdsOf
  <2>4. ReadEndsFrom(i) \in SUBSET Fd
    BY <1>1, <1>4 DEF ReadEndsFrom, TypeOK
  <2> QED BY <1>1, <1>5, <2>3, <2>4 DEF TypeOK
<1>10. strays' \in 0 .. 2
  BY <1>1, <1>5 DEF TypeOK
\* The socket closed is not one of those still ready.
<1>11. readfd' \in SUBSET (Fd \cup {OddBit}) /\ ready' \in SUBSET Looked'
  BY <1>1, <1>4, <1>5, NoneFacts DEF TypeOK, WatchInv, Looked
<1>12. TypeOK'
  BY <1>1, <1>2, <1>5, <1>6, <1>7, <1>8, <1>9, <1>10, <1>11
     DEF TypeOK, UserPipeInv, Entries, Rings
<1>13. WatchInv'
  <2>1. /\ client[i] # Listener
        /\ \A j \in Slot : client[j] = client[i] => j = i
    BY <1>1, <1>4, SocketsApart
  <2>2. Sockets' = Sockets \ {client[i]}
    BY <1>1, <1>4, <1>5, <2>1 DEF TypeOK, Sockets
  <2>3. Looked' = Looked \ {client[i]} /\ Odd' = Odd
    BY <1>5 DEF Looked, Odd
  <2> QED BY <1>1, <1>5, <2>1, <2>2, <2>3 DEF WatchInv
<1> QED BY <1>2, <1>3, <1>7, <1>12, <1>13 DEF DescriptorInv

\* A command that keeps the sound tables sound keeps the invariant.
LEMMA CommandDescriptors ==
  ASSUME DescriptorInv, cur # None, UserPipeInv', TablesSound', ring' \in Rings,
         \A j \in Slot : j # cur => ring'[j] = ring[j],
         name' \in [Slot -> Name \cup {NoName}], cur' \in {cur, None},
         UNCHANGED <<up, client, ghost, readfd, maxfd, ready, strays>>
  PROVE  DescriptorInv'
<1>1. TypeOK /\ UserPipeInv /\ WatchInv /\ OfflineEmpty
  BY DEF DescriptorInv
<1>2. open' \in [Fd -> Object] /\ leaked' \in SUBSET Fd
  BY DEF TablesSound, Sound, Typed
<1>3. wr' \in Entries /\ rd' \in Entries
  BY DEF UserPipeInv
<1>4. TypeOK'
  BY <1>1, <1>2, <1>3 DEF TypeOK, Entries, Rings, Looked
<1>5. Online' = Online /\ cur \in Online
  BY <1>1 DEF Online, UserPipeInv
<1>6. WatchInv'
  BY <1>1 DEF WatchInv, Sockets, Odd, Looked
<1>7. OfflineEmpty'
  BY <1>1, <1>5 DEF OfflineEmpty
<1> QED BY <1>4, <1>6, <1>7 DEF DescriptorInv

LEMMA ForkDescriptors ==
  ASSUME DescriptorInv, strays < 2, NEW c \in Command, Exec(c)
  PROVE  DescriptorInv'
<1>1. TypeOK /\ UserPipeInv /\ TablesSound
  BY DEF DescriptorInv
<1>2. UserPipeInv' /\ TablesSound' /\ ring' \in Rings
  BY <1>1, ExecUserPipe, ExecSound
<1>3. \A j \in Slot : j # cur => ring'[j] = ring[j]
  BY <1>1, TableTypes DEF Exec, Rings
<1>4. name' \in [Slot -> Name \cup {NoName}]
  BY <1>1 DEF Exec, TypeOK
<1>5. /\ cur # None /\ cur' \in {cur, None}
      /\ UNCHANGED <<up, client, ghost, readfd, maxfd, ready, strays>>
  BY DEF Exec, LineGoesOn
<1> QED BY <1>2, <1>3, <1>4, <1>5, CommandDescriptors

LEMMA BuiltinDescriptors ==
  ASSUME DescriptorInv, strays < 2, NEW c \in Command,
         Builtin(c) \/ \E n \in Name : Rename(c, n)
  PROVE  DescriptorInv'
<1>1. TypeOK /\ UserPipeInv /\ TablesSound
  BY DEF DescriptorInv
<1>2. /\ cur # None
      /\ NeedsPipe(c) => CanPipe(open)
      /\ ring' = [ring EXCEPT ![cur] = NextNode(Aimed(c))] /\ open' = Opened(c)
      /\ leaked' = leaked \cup ({ring[cur][0].w, ring[cur][0].r} \ {None})
      /\ cur' \in {cur, None}
      /\ UNCHANGED <<up, client, ghost, wr, rd, readfd, maxfd, ready, strays>>
  BY DEF Builtin, Rename, LineGoesOn
<1>3. cur \in Slot /\ client[cur] # None
  BY <1>1, <1>2 DEF UserPipeInv
<1>4. TablesSound' /\ ring' \in Rings
  BY <1>1, <1>2, <1>3, BuiltinSound
<1>5. UserPipeInv'
  BY <1>1, <1>2, <1>3, QuietUserPipe DEF UserPipeInv
<1>6. \A j \in Slot : j # cur => ring'[j] = ring[j]
  BY <1>1, <1>2, TableTypes DEF Rings
<1>7. name' \in [Slot -> Name \cup {NoName}]
  BY <1>1, <1>3, ZenonT(30) DEF Builtin, Rename, TypeOK
<1> QED BY <1>2, <1>4, <1>5, <1>6, <1>7, CommandDescriptors

\* The loop goes from one client to the next.
LEMMA LoopDescriptors ==
  ASSUME DescriptorInv,
         Select \/ AcceptTooMany \/ ServeNobody \/ EndLine \/ \E i \in Slot : Serve(i)
  PROVE  DescriptorInv'
<1>1. TypeOK /\ UserPipeInv /\ WatchInv /\ OfflineEmpty /\ (strays < 2 => TablesSound)
  BY DEF DescriptorInv
<1>2. UNCHANGED tables /\ UNCHANGED <<readfd, strays>>
  BY DEF Select, AcceptTooMany, ServeNobody, EndLine, Serve
<1>3. /\ up' \in BOOLEAN /\ ready' \in SUBSET Looked
      /\ cur' \in Slot \cup {None}
      /\ cur' # None => client[cur'] # None /\ client[cur'] \notin ready'
  <2>1. CASE Select
    BY <1>1, <2>1 DEF Select, TypeOK
  <2>2. CASE AcceptTooMany \/ ServeNobody
    BY <1>1, <2>2 DEF AcceptTooMany, ServeNobody, TypeOK, Turn
  <2>3. CASE EndLine
    BY <1>1, <2>3 DEF EndLine, TypeOK
  <2>4. ASSUME NEW i \in Slot, Serve(i)
        PROVE  /\ up' \in BOOLEAN /\ ready' \in SUBSET Looked
               /\ cur' \in Slot \cup {None}
               /\ cur' # None => client[cur'] # None /\ client[cur'] \notin ready'
    BY <1>1, <2>4 DEF Serve, TypeOK, LeftReady
  <2> QED BY <2>1, <2>2, <2>3, <2>4
<1>4. UserPipeInv'
  BY <1>1, <1>2, <1>3, QuietUserPipe DEF tables
<1>5. TypeOK'
  BY <1>1, <1>2, <1>3 DEF TypeOK, tables, Looked
<1>6. WatchInv' /\ OfflineEmpty'
  BY <1>1, <1>2, <1>3 DEF WatchInv, OfflineEmpty, Online, Sockets, Odd, Looked, tables
<1>7. strays' < 2 => TablesSound'
  BY <1>1, <1>2 DEF TablesSound, Own, tables
<1> QED BY <1>4, <1>5, <1>6, <1>7 DEF DescriptorInv

(* after every step,                                                       *)
LEMMA NextDescriptors == DescriptorInv /\ [Next]_vars => DescriptorInv'
<1> SUFFICES ASSUME DescriptorInv, [Next]_vars PROVE DescriptorInv'
  OBVIOUS
<1>1. CASE UNCHANGED vars
  BY <1>1 DEF vars, DescriptorInv, TypeOK, UserPipeInv, WatchInv, OfflineEmpty, TablesSound,
              Own, Online, Mirrored, Sockets, Odd, Looked
<1>2. CASE Next
  <2>1. strays < 2 /\ Unredirected \subseteq Command
    BY <1>2 DEF Next, Explored, Unredirected
  <2>2. CASE Select \/ AcceptTooMany \/ ServeNobody \/ EndLine \/ \E i \in Slot : Serve(i)
    BY <2>2, LoopDescriptors
  <2>3. CASE Accept \/ AcceptFails
    BY <2>1, <2>3, AcceptDescriptors, GhostDescriptors
  <2>4. ASSUME NEW c \in Command, Exec(c) PROVE DescriptorInv'
    BY <2>1, <2>4, ForkDescriptors
  <2>5. ASSUME NEW c \in Unredirected, Builtin(c) \/ \E n \in Name : Rename(c, n)
        PROVE  DescriptorInv'
    BY <2>1, <2>5, BuiltinDescriptors
  <2>6. ASSUME NEW c \in Unredirected, Logout(c) PROVE DescriptorInv'
    BY <2>1, <2>6, LogoutDescriptors
  <2> QED BY <1>2, <2>2, <2>3, <2>4, <2>5, <2>6 DEF Next
<1> QED BY <1>1, <1>2

\* Sound tables say what the properties of the module say.
LEMMA SoundEntries == DescriptorInv => EntriesValid
<1> SUFFICES ASSUME DescriptorInv, strays < 2
             PROVE  /\ \A f \in Sockets : open[f] = Socket
                    /\ \A i, j \in Slot : wr[i][j] # None => IsPipe(wr[i][j], rd[j][i])
                    /\ \A i \in Slot, n \in Node :
                         ring[i][n] # NoPipe => IsPipe(ring[i][n].w, ring[i][n].r)
  BY DEF EntriesValid
<1> DEFINE P == Pipes(ring, wr, rd)
<1>1. TypeOK /\ TablesSound /\ ring \in Rings /\ wr \in Entries /\ rd \in Entries
  BY TableTypes DEF DescriptorInv
<1>2. /\ \A i \in Slot, n \in Node : P[NodePlace(i, n)] = ring[i][n]
      /\ \A i, j \in Slot : /\ P[UserPlace(i, j)].w = wr[i][j]
                            /\ P[UserPlace(i, j)].r = rd[j][i]
  BY <1>1, PipesEnds
<1>3. PipesValid(Held, P, open) /\ SocketsValid(client, open)
  BY <1>1 DEF TablesSound, Sound
<1> HIDE DEF P
<1>4. \A x \in Held : P[x] # NoPipe => IsPipe(P[x].w, P[x].r)
  BY <1>3, NoneFacts DEF PipesValid, PipeAt, IsPipe
<1>5. ASSUME NEW i \in Slot, NEW j \in Slot, wr[i][j] # None
      PROVE  IsPipe(wr[i][j], rd[j][i])
  <2>1. UserPlace(i, j) \in Held /\ P[UserPlace(i, j)] # NoPipe
    BY <1>2, <1>5, PlaceFacts, PipeFacts
  <2> QED BY <1>2, <1>4, <2>1
<1>6. ASSUME NEW i \in Slot, NEW n \in Node, ring[i][n] # NoPipe
      PROVE  IsPipe(ring[i][n].w, ring[i][n].r)
  BY <1>2, <1>4, <1>6, PlaceFacts
<1> QED BY <1>3, <1>5, <1>6 DEF SocketsValid, Sockets

(* and this is what the runs check.                                        *)
LEMMA SoundFds == DescriptorInv => FdsAccounted
<1> SUFFICES ASSUME DescriptorInv, strays < 2
             PROVE  /\ {f \in Fd : open[f] # Closed} = Own \cup Named \cup leaked
                    /\ Named \cap leaked = {} /\ (Named \cup leaked) \cap Own = {}
  BY DEF FdsAccounted
<1> DEFINE P == Pipes(ring, wr, rd)
<1>1. /\ TypeOK /\ TablesSound /\ ring \in Rings /\ wr \in Entries /\ rd \in Entries
      /\ Own \in SUBSET Fd /\ leaked \in SUBSET Fd /\ client \in [Slot -> Fd \cup {None}]
  BY TableTypes DEF DescriptorInv, TypeOK
<1>2. /\ \A i \in Slot, n \in Node : P[NodePlace(i, n)] = ring[i][n]
      /\ \A i, j \in Slot : /\ P[UserPlace(i, j)].w = wr[i][j]
                            /\ P[UserPlace(i, j)].r = rd[j][i]
  BY <1>1, PipesEnds
<1>3. Accounted(Held, P, client, open, leaked, Own)
  BY <1>1 DEF TablesSound, Sound
<1> HIDE DEF P
<1>4. Named \in SUBSET Fd
  <2>1. Sockets \in SUBSET Fd
    BY <1>1 DEF Sockets
  <2>2. ASSUME NEW i \in Slot PROVE PipeFdsOf(ring[i]) \in SUBSET Fd
    BY <1>1, PipeFacts DEF PipeFdsOf, Rings
  <2>3. ASSUME NEW i \in Slot PROVE OwnEnds(i) \in SUBSET Fd
    BY <1>1 DEF OwnEnds, Entries
  <2> QED BY <2>1, <2>2, <2>3 DEF Named
<1>5. ASSUME NEW f \in Fd PROVE f \in Named <=> HasSocket(client, f) \/ HasEnd(P, Held, f)
  <2>1. f \in Sockets <=> HasSocket(client, f)
    BY NoneFacts DEF HasSocket, Sockets
  <2>2. ASSUME NEW i \in Slot
        PROVE  f \in PipeFdsOf(ring[i]) <=> \E n \in Node : f = ring[i][n].w \/ f = ring[i][n].r
    BY NoneFacts DEF PipeFdsOf
  <2>3. ASSUME NEW i \in Slot
        PROVE  f \in OwnEnds(i) <=> \E j \in Slot : f = wr[i][j] \/ f = rd[i][j]
    BY NoneFacts DEF OwnEnds
  <2>4. HasEnd(P, Held, f) <=> \/ \E i \in Slot, n \in Node : f = ring[i][n].w \/ f = ring[i][n].r
                               \/ \E i, j \in Slot : f = wr[i][j] \/ f = rd[j][i]
    <3>1. ASSUME HasEnd(P, Held, f)
          PROVE  \/ \E i \in Slot, n \in Node : f = ring[i][n].w \/ f = ring[i][n].r
                 \/ \E i, j \in Slot : f = wr[i][j] \/ f = rd[j][i]
      <4>1. PICK x \in Held : f = P[x].w \/ f = P[x].r
        BY <3>1 DEF HasEnd
      <4>2. ASSUME NEW i \in Slot, NEW n \in Node, x = NodePlace(i, n)
            PROVE  f = ring[i][n].w \/ f = ring[i][n].r
        BY <1>2, <4>1, <4>2
      <4>3. ASSUME NEW i \in Slot, NEW j \in Slot, x = UserPlace(i, j)
            PROVE  f = wr[i][j] \/ f = rd[j][i]
        BY <1>2, <4>1, <4>3
      <4> QED BY <4>2, <4>3, PlaceCases
    <3>2. ASSUME NEW i \in Slot, NEW n \in Node, f = ring[i][n].w \/ f = ring[i][n].r
          PROVE  HasEnd(P, Held, f)
      BY <1>2, <3>2, PlaceFacts DEF HasEnd
    <3>3. ASSUME NEW i \in Slot, NEW j \in Slot, f = wr[i][j] \/ f = rd[j][i]
          PROVE  HasEnd(P, Held, f)
      BY <1>2, <3>3, PlaceFacts DEF HasEnd
    <3> QED BY <3>1, <3>2, <3>3
  <2> QED BY <2>1, <2>2, <2>3, <2>4 DEF Named
<1> QED BY <1>1, <1>3, <1>4, <1>5 DEF Accounted

LEMMA SoundWatched == DescriptorInv => Watched
<1> SUFFICES ASSUME DescriptorInv PROVE Watched
  OBVIOUS
<1>1. TypeOK /\ WatchInv /\ (strays < 2 => TablesSound)
  BY DEF DescriptorInv
<1>2. ready \subseteq {Listener} \cup Sockets \cup Odd
  BY <1>1 DEF TypeOK, WatchInv, Looked
<1>3. ASSUME strays < 2, NEW f \in readfd \ Odd PROVE open[f] # Closed
  <2>1. Accounted(Held, Pipes(ring, wr, rd), client, open, leaked, Own)
    BY <1>1, <1>3 DEF TablesSound, Sound
  <2>2. f \in Fd /\ (f \in Own \/ HasSocket(client, f))
    BY <1>1, TableTypes DEF TypeOK, WatchInv, HasSocket, Sockets
  <2> QED BY <2>1, <2>2 DEF Accounted
<1> QED BY <1>1, <1>2, <1>3 DEF Watched, WatchInv

\* Every variable of np_single_proc keeps its type, whatever is typed.
THEOREM SingleProcTypes == Spec => []TypeOK
<1>1. DescriptorInv => TypeOK
  BY DEF DescriptorInv
<1> QED BY InitDescriptors, NextDescriptors, <1>1, PTL DEF Spec

\* Up to the second stray close no table names a number that was closed or
\* became something else: every socket and both ends of every pipe are what
\* their entries say.
THEOREM TablesNameTheirOwn == Spec => []EntriesValid
BY InitDescriptors, NextDescriptors, SoundEntries, PTL DEF Spec

\* Up to then every open descriptor is the server's own, is named by a table,
\* or was given up by a command or a departure that left it open.
THEOREM DescriptorsAccounted == Spec => []FdsAccounted
BY InitDescriptors, NextDescriptors, SoundFds, PTL DEF Spec

\* select() looks at every client that can be served, and at nobody else but the
\* bit a failed accept() set, and what it reported is still a client when the
\* loop comes to it; only two stray closes can take a watched client away.
THEOREM SelectWatchesClients == Spec => []Watched
BY InitDescriptors, NextDescriptors, SoundWatched, PTL DEF Spec
=============================================================================
