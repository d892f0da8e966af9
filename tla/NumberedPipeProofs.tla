------------------------ MODULE NumberedPipeProofs ------------------------
(***************************************************************************)
(* What NumberedPipe keeps for every list length, capacity and number of   *)
(* commands.  The descriptor bookkeeping of the shell and the question who *)
(* can keep whom from end of file need each other: a fresh pipe is not one *)
(* a running command reads because that command holds its read end, and a  *)
(* pipe of the list is not, because the shell still has its write end.     *)
(*                                                                         *)
(* The list implements the schedule of the shell's promise, the place of a *)
(* pipe in it being the lines until it is due.                             *)
(***************************************************************************)
EXTENDS NumberedPipe, FiniteSetTheorems, WellFoundedInduction, TLAPS

\* A nonempty set of naturals has a least element.
LEMMA LeastNatural ==
  ASSUME NEW S \in SUBSET Nat, S # {}
  PROVE  \E m \in S : \A x \in S : m <= x
<1> DEFINE Less == {p \in Nat \X Nat : p[1] < p[2]}
<1>1. IsWellFoundedOn(Less, Nat)
  BY NatLessThanWellFounded DEF OpToRel
<1>2. PICK m \in S : \A x \in S : <<x, m>> \notin Less
  <2> HIDE DEF Less
  <2> QED BY <1>1, WFMin
<1>3. ASSUME NEW x \in S PROVE m <= x
  <2>1. m \in Nat /\ x \in Nat /\ ~(x < m)
    <3>1. <<x, m>> \in Nat \X Nat => <<x, m>>[1] = x /\ <<x, m>>[2] = m
      OBVIOUS
    <3> QED BY <1>2, <3>1
  <2> QED BY <2>1
<1> QED BY <1>3

\* So has a bounded one a greatest.
LEMMA GreatestNatural ==
  ASSUME NEW n \in Nat, NEW S \in SUBSET (0 .. n), S # {}
  PROVE  \E m \in S : \A x \in S : x <= m
<1> DEFINE D == {n - x : x \in S}
<1>1. D \in SUBSET Nat /\ D # {}
  <2>1. \A x \in 0 .. n : n - x \in Nat
    OBVIOUS
  <2>2. PICK x \in S : TRUE
    OBVIOUS
  <2>3. n - x \in D
    OBVIOUS
  <2> QED BY <2>1, <2>3
<1>2. PICK d \in D : \A e \in D : d <= e
  BY <1>1, LeastNatural
<1>3. PICK m \in S : d = n - m
  OBVIOUS
<1>4. ASSUME NEW x \in S PROVE x <= m
  <2>1. n - m <= n - x
    BY <1>2, <1>3
  <2>2. m \in Int /\ x \in Int
    OBVIOUS
  <2> QED BY <2>1, <2>2
<1> QED BY <1>4

-----------------------------------------------------------------------------
(* The list of nodes *)

\* The nodes of the list are numbered from the one for this line.
LEMMA NodeFacts == 0 \in Node /\ LastNode \in Nat /\ \A c \in Command : c.len \in Node
<1>1. LastNode \in Nat /\ MaxLen \in Nat /\ 1 <= MaxLen /\ MaxLen <= LastNode
  BY RingAssumption
<1>2. ASSUME NEW c \in Command PROVE c.len \in 0 .. MaxLen
  <2>1. c.len \in 1 .. MaxLen \/ c.len = 0
    BY <1>2 DEF Command
  <2> QED BY <1>1, <2>1
<1> QED BY <1>1, <1>2 DEF Node

\* A command that is piped is aimed beyond the first node, and is never waited for.
LEMMA PipedCommand ==
  ASSUME NEW c \in Command
  PROVE  /\ c.opt = "pipe" => c.len \in 1 .. MaxLen
         /\ WaitsFor(c) => c.opt # "pipe"
BY DEF Command, WaitsFor

\* Moving the list on drops the first node's pipe and no other.
LEMMA ShiftPipes ==
  ASSUME NEW r \in [Node -> PipeOrNone],
         Distinct(r)
  PROVE  /\ NextNode(r) \in [Node -> PipeOrNone]
         /\ RingPipes(NextNode(r)) = RingPipes(r) \ {r[0]}
         /\ Distinct(NextNode(r))
<1>1. LastNode \in Nat /\ 0 \in Node
  BY NodeFacts
<1>2. \A i \in Node : i < LastNode => i + 1 \in Node /\ i + 1 # 0
  BY <1>1 DEF Node
<1>3. \A i \in Node : i # 0 => i - 1 \in Node /\ i - 1 < LastNode /\ (i - 1) + 1 = i
  BY <1>1 DEF Node
<1>4. \A i \in Node : NextNode(r)[i] = IF i < LastNode THEN r[i + 1] ELSE NoPipe
  BY DEF NextNode, ShiftRing
<1>5. NextNode(r) \in [Node -> PipeOrNone]
  BY <1>2 DEF NextNode, ShiftRing, PipeOrNone
<1>6. RingPipes(NextNode(r)) \subseteq RingPipes(r) \ {r[0]}
  BY <1>1, <1>2, <1>4 DEF RingPipes, Distinct
<1>7. RingPipes(r) \ {r[0]} \subseteq RingPipes(NextNode(r))
  <2> SUFFICES ASSUME NEW i \in Node, r[i] # NoPipe, r[i] # r[0]
               PROVE  r[i] \in RingPipes(NextNode(r))
    BY DEF RingPipes
  <2>1. i # 0 /\ i - 1 \in Node /\ i - 1 < LastNode /\ (i - 1) + 1 = i
    BY <1>3
  <2>2. NextNode(r)[i - 1] = r[i]
    BY <1>4, <2>1
  <2> QED BY <2>1, <2>2 DEF RingPipes
<1>8. ASSUME NEW i \in Node, NEW j \in Node,
             NextNode(r)[i] = NextNode(r)[j], NextNode(r)[i] # NoPipe
      PROVE  i = j
  <2>1. i < LastNode /\ j < LastNode /\ r[i + 1] = r[j + 1] /\ r[i + 1] # NoPipe
    BY <1>4, <1>8
  <2>2. i + 1 = j + 1
    BY <1>2, <2>1 DEF Distinct
  <2> QED BY <2>2 DEF Node
<1>9. Distinct(NextNode(r))
  BY <1>8 DEF Distinct
<1> QED BY <1>5, <1>6, <1>7, <1>9

-----------------------------------------------------------------------------
(* The inductive invariant *)

\* The state of every command, live or not, fits what the shell recorded of it.
ProcFacts ==
  \A q \in Pid :
    /\ proc[q].reads => proc[q].in # NoPipe
    /\ proc[q].left > 0 => proc[q].out # NoPipe
    /\ q > forks => proc[q].st # "running"
    /\ proc[q].st = "running" =>
         /\ proc[q].in # NoPipe => proc[q].in \in proc[q].R
         /\ proc[q].out # NoPipe => proc[q].out \in proc[q].W

IInv == /\ TypeOK /\ ProcFacts /\ FdsAccounted /\ OneNodePerPipe
        /\ ShellLetsReadersEnd /\ WaitsOnlyForOlder

\* Unborn is a process, and a process stays one when only its state changes.
LEMMA UnbornFacts == Unborn \in Process
<1>1. MaxOut \in Nat
  BY BoundAssumption
<1> QED BY <1>1 DEF Unborn, Process, PipeOrNone

\* A process that ends or is reaped keeps its pipes and what it was given.
LEMMA StateChange ==
  ASSUME NEW r \in Process, NEW s \in {"zombie", "reaped"}
  PROVE  /\ [r EXCEPT !.st = s] \in Process
         /\ [r EXCEPT !.st = s].st # "running"
         /\ [r EXCEPT !.st = s].reads = r.reads /\ [r EXCEPT !.st = s].left = r.left
         /\ [r EXCEPT !.st = s].in = r.in /\ [r EXCEPT !.st = s].out = r.out
BY DEF Process

LEMMA InitInv == Init => IInv
<1> SUFFICES ASSUME Init PROVE IInv
  OBVIOUS
<1>1. MaxForks \in Nat
  BY BoundAssumption
<1>2. Unborn \in Process
  BY UnbornFacts
<1>3. TypeOK
  <2>1. proc \in [Pid -> Process] /\ ring \in [Node -> PipeOrNone] /\ buf \in [Pipe -> Nat]
    BY <1>2 DEF Init, EmptyRing, PipeOrNone
  <2>2. forks \in 0 .. MaxForks
    BY <1>1 DEF Init
  <2> QED BY <2>1, <2>2 DEF Init, TypeOK
<1>4. ProcFacts
  BY DEF Init, ProcFacts, Unborn
<1>5. FdsAccounted /\ OneNodePerPipe
  BY DEF Init, FdsAccounted, OneNodePerPipe, Distinct, RingPipes, EmptyRing, Current
<1>6. ShellLetsReadersEnd /\ WaitsOnlyForOlder
  BY DEF Init, ShellLetsReadersEnd, WaitsOnlyForOlder, Running, Unborn
<1> QED BY <1>3, <1>4, <1>5, <1>6 DEF IInv

\* Aiming a command at a node adds at most one pipe to the list: one the
\* shell has both ends of already, or one nobody holds.
LEMMA AimFacts ==
  ASSUME IInv, NEW c \in Command, NEW p \in PipeOrNone, Target(c, p), waiting = 0
  PROVE  /\ Aimed(c, p) \in [Node -> PipeOrNone]
         /\ Aimed(c, p)[0] = ring[0]
         /\ RingPipes(Aimed(c, p)) = RingPipes(ring) \cup Some(p)
         /\ Distinct(Aimed(c, p))
         /\ Some(p) \subseteq Pipe
         /\ Some(p) \cap leaked = {}
         /\ p # NoPipe => p # ring[0]
         /\ \A q \in Running : proc[q].in # NoPipe => proc[q].in # p
<1>1. /\ ring \in [Node -> PipeOrNone]
      /\ c.len \in Node /\ 0 \in Node
      /\ Distinct(ring)
      /\ RingPipes(ring) \subseteq shellW /\ RingPipes(ring) \subseteq shellR
      /\ leaked \subseteq shellR /\ leaked \cap RingPipes(ring) = {}
  BY NodeFacts DEF IInv, TypeOK, OneNodePerPipe, FdsAccounted, Current
<1>2. ASSUME NEW q \in Running, proc[q].in # NoPipe
      PROVE  proc[q].in \in proc[q].R /\ proc[q].in \notin shellW
  BY <1>2 DEF IInv, ProcFacts, ShellLetsReadersEnd, Running
<1>3. CASE p = NoPipe
  BY <1>1, <1>3 DEF Aimed, Some
<1>4. CASE p # NoPipe
  <2>1. c.opt = "pipe" /\ c.len # 0 /\ p \in Pipe
    BY <1>4, PipedCommand, PipeAssumption DEF Target, PipeOrNone
  <2>2. Aimed(c, p) = [ring EXCEPT ![c.len] = p]
    BY <1>4 DEF Aimed
  <2>3. Aimed(c, p) \in [Node -> PipeOrNone] /\ Aimed(c, p)[0] = ring[0] /\ Some(p) = {p}
    BY <1>1, <1>4, <2>1, <2>2 DEF Some
  <2>4. CASE ring[c.len] # NoPipe
    <3>1. p = ring[c.len] /\ p \in RingPipes(ring) /\ Aimed(c, p) = ring
      BY <1>1, <2>1, <2>2, <2>4 DEF Target, RingPipes
    <3>2. p # ring[0]
      BY <1>1, <1>4, <2>1, <3>1 DEF Distinct
    <3> QED BY <1>1, <1>2, <2>1, <2>3, <3>1, <3>2
  <2>5. CASE ring[c.len] = NoPipe
    <3>1. p \notin shellR /\ \A q \in Running : p \notin proc[q].R
      BY <2>1, <2>5 DEF Target, Free, ReadOpen
    <3>2. \A i \in Node : ring[i] # p
      BY <1>1, <1>4, <3>1 DEF RingPipes
    <3>3. Distinct(Aimed(c, p))
      BY <1>1, <2>2, <3>2 DEF Distinct
    <3>4. RingPipes(Aimed(c, p)) = RingPipes(ring) \cup {p}
      BY <1>1, <1>4, <2>2, <2>5 DEF RingPipes
    <3> QED BY <1>1, <1>2, <2>1, <2>3, <3>1, <3>2, <3>3, <3>4
  <2> QED BY <2>4, <2>5
<1> QED BY <1>3, <1>4

-----------------------------------------------------------------------------
(* Steps of the commands, of the handler and of waitpid *)

\* Between forks the commands can only die or run on with what they hold.
ProcsRunOn ==
  \A x \in Pid :
    /\ proc'[x].st = "running" =>
         /\ proc[x].st = "running"
         /\ proc'[x].in = proc[x].in /\ proc'[x].out = proc[x].out
         /\ proc'[x].W = proc[x].W /\ proc'[x].R = proc[x].R
    /\ proc'[x].reads => proc'[x].in # NoPipe
    /\ proc'[x].left > 0 => proc'[x].out # NoPipe

\* Steps of the processes, and of the shell while it gives up write ends,
\* keep the facts of the processes.
LEMMA RunOnInv ==
  ASSUME IInv, ProcsRunOn, shellW' \subseteq shellW, forks' = forks
  PROVE  ProcFacts' /\ ShellLetsReadersEnd' /\ WaitsOnlyForOlder'
<1>1. Running' \subseteq Running
  BY DEF Running, ProcsRunOn
<1>2. \A x \in Running' : /\ proc'[x].in = proc[x].in /\ proc'[x].out = proc[x].out
                          /\ proc'[x].W = proc[x].W /\ proc'[x].R = proc[x].R
  BY DEF Running, ProcsRunOn
<1>3. ProcFacts'
  BY DEF IInv, ProcFacts, ProcsRunOn
<1>4. ShellLetsReadersEnd'
  BY <1>1, <1>2 DEF IInv, ShellLetsReadersEnd
<1>5. WaitsOnlyForOlder'
  BY <1>1, <1>2 DEF IInv, WaitsOnlyForOlder
<1> QED BY <1>3, <1>4, <1>5

\* A dying command keeps nothing.
LEMMA DieFacts ==
  ASSUME IInv, NEW q \in Pid, Die(q)
  PROVE  proc' \in [Pid -> Process] /\ ProcsRunOn
<1>1. [Unborn EXCEPT !.st = "zombie"].st # "running"
  BY DEF Unborn
<1>2. [Unborn EXCEPT !.st = "zombie"] \in Process
  BY UnbornFacts, StateChange
<1>3. proc \in [Pid -> Process]
  BY DEF IInv, TypeOK
<1>4. proc' \in [Pid -> Process]
  BY <1>2, <1>3 DEF Die
<1>5. \A x \in Pid : proc'[x] = IF x = q THEN [Unborn EXCEPT !.st = "zombie"] ELSE proc[x]
  BY <1>3 DEF Die
<1>6. ProcsRunOn
  BY <1>5 DEF ProcsRunOn, IInv, ProcFacts, Unborn
<1> QED BY <1>4, <1>6

\* One step of each kind keeps the invariant: of a process,
LEMMA ChildInv == ASSUME IInv, NEW q \in Pid, Child(q) PROVE IInv'
<1> USE DEF IInv
<1>1. /\ UNCHANGED <<ring, shellW, shellR, leaked, forks, waiting>>
      /\ proc \in [Pid -> Process] /\ buf \in [Pipe -> Nat] /\ sigchld \in BOOLEAN
  BY DEF Child, Write, Read, Exit, Die, TypeOK
<1>2. /\ proc' \in [Pid -> Process]
      /\ buf' \in [Pipe -> Nat]
      /\ sigchld' \in BOOLEAN
      /\ ProcsRunOn
  <2>1. CASE Write(q)
    <3>1. proc[q].out \in Pipe /\ proc[q].left \in 1 .. MaxOut
      BY <1>1, <2>1, BoundAssumption DEF Write, CanWrite, ProcFacts, Process, PipeOrNone
    <3>2. proc[q].left - 1 \in 0 .. MaxOut
      BY <3>1, BoundAssumption
    <3>3. proc' = [proc EXCEPT ![q].left = proc[q].left - 1] /\ sigchld' = sigchld
      BY <2>1 DEF Write
    <3>4. proc' \in [Pid -> Process]
      BY <1>1, <3>2, <3>3 DEF Process
    <3>5. buf' \in [Pipe -> Nat]
      BY <1>1, <2>1, <3>1 DEF Write
    <3>6. ProcsRunOn
      BY <1>1, <3>1, <3>3, PipeAssumption DEF ProcsRunOn, ProcFacts, Process
    <3> QED BY <1>1, <3>3, <3>4, <3>5, <3>6
  <2>2. CASE Exit(q)
    BY <1>1, <2>2, DieFacts DEF Exit, Die
  <2>3. CASE Read(q)
    <3>1. proc[q].in \in Pipe /\ buf[proc[q].in] > 0
      BY <1>1, <2>3 DEF Read, CanRead, ProcFacts, Process, PipeOrNone
    <3>2. buf[proc[q].in] - 1 \in Nat
      BY <1>1, <3>1
    <3>3. buf' \in [Pipe -> Nat]
      BY <1>1, <2>3, <3>1, <3>2 DEF Read
    <3>4. ProcsRunOn
      BY <2>3 DEF Read, ProcsRunOn, ProcFacts
    <3> QED BY <1>1, <2>3, <3>3, <3>4 DEF Read
  <2> QED BY <2>1, <2>2, <2>3 DEF Child
<1>3. TypeOK'
  BY <1>1, <1>2 DEF TypeOK
<1>4. FdsAccounted' /\ OneNodePerPipe'
  BY <1>1 DEF FdsAccounted, OneNodePerPipe, Current
<1> QED BY <1>1, <1>2, <1>3, <1>4, RunOnInv

\* of the SIGCHLD handler,
LEMMA HandlerInv == ASSUME IInv, Handler PROVE IInv'
<1> USE DEF IInv
<1>1. proc \in [Pid -> Process] /\ UNCHANGED <<ring, shellW, shellR, leaked, buf, forks, waiting>>
  BY DEF Handler, TypeOK
<1>2. \A x \in Pid : proc'[x] = IF proc[x].st = "zombie"
                                 THEN [proc[x] EXCEPT !.st = "reaped"] ELSE proc[x]
  BY DEF Handler, ReapAll, Zombies
<1>3. \A x \in Pid : proc'[x] \in Process
  BY <1>1, <1>2, StateChange
<1>4. proc' \in [Pid -> Process]
  BY <1>3 DEF Handler
<1>5. ProcsRunOn
  <2> SUFFICES ASSUME NEW x \in Pid
               PROVE  /\ proc'[x].st = "running" => proc'[x] = proc[x]
                      /\ proc'[x].reads = proc[x].reads /\ proc'[x].left = proc[x].left
                      /\ proc'[x].in = proc[x].in /\ proc'[x].out = proc[x].out
    BY DEF ProcsRunOn, ProcFacts
  <2>1. proc[x] \in Process
    BY <1>1
  <2>2. CASE proc[x].st = "zombie"
    <3>1. proc'[x] = [proc[x] EXCEPT !.st = "reaped"]
      BY <1>2, <2>2
    <3> QED BY <2>1, <3>1, StateChange
  <2>3. CASE ~(proc[x].st = "zombie")
    BY <1>2, <2>3
  <2> QED BY <2>2, <2>3
<1>6. TypeOK'
  BY <1>1, <1>4 DEF TypeOK, Handler
<1>7. FdsAccounted' /\ OneNodePerPipe'
  BY <1>1 DEF FdsAccounted, OneNodePerPipe, Current
<1> QED BY <1>1, <1>5, <1>6, <1>7, RunOnInv

\* of the shell that goes on after its wait,
LEMMA ResumeInv == ASSUME IInv, Resume PROVE IInv'
<1> USE DEF IInv
<1>1. /\ proc \in [Pid -> Process] /\ waiting \in Pid
      /\ ring \in [Node -> PipeOrNone] /\ Distinct(ring)
      /\ waiting' = 0 /\ UNCHANGED <<shellW, leaked, buf, forks, sigchld>>
  BY DEF Resume, TypeOK, OneNodePerPipe
<1>2. \A x \in Pid : proc'[x] = IF x = waiting THEN [proc[x] EXCEPT !.st = "reaped"]
                                               ELSE proc[x]
  BY <1>1 DEF Resume
<1>3. proc' \in [Pid -> Process]
  <2>1. \A x \in Pid : proc'[x] \in Process
    BY <1>1, <1>2, StateChange
  <2> QED BY <1>1, <2>1 DEF Resume
<1>4. ProcsRunOn
  <2> SUFFICES ASSUME NEW x \in Pid
               PROVE  /\ proc'[x].st = "running" => proc'[x] = proc[x]
                      /\ proc'[x].reads = proc[x].reads /\ proc'[x].left = proc[x].left
                      /\ proc'[x].in = proc[x].in /\ proc'[x].out = proc[x].out
    BY DEF ProcsRunOn, ProcFacts
  <2>1. proc[x] \in Process
    BY <1>1
  <2>2. CASE x = waiting
    <3>1. proc'[x] = [proc[x] EXCEPT !.st = "reaped"]
      BY <1>2, <2>2
    <3> QED BY <2>1, <3>1, StateChange
  <2>3. CASE ~(x = waiting)
    BY <1>2, <2>3
  <2> QED BY <2>2, <2>3
<1>5. ring' = NextNode(ring) /\ shellR' = shellR \ {ring[0]} /\ Current = Some(ring[0])
  BY <1>1 DEF Resume, CloseReadEnd, Current, Pid
<1>6. /\ ring' \in [Node -> PipeOrNone] /\ Distinct(ring')
      /\ RingPipes(ring') = RingPipes(ring) \ {ring[0]}
  BY <1>1, <1>5, ShiftPipes
<1>7. TypeOK'
  BY <1>1, <1>3, <1>5, <1>6 DEF TypeOK
<1>8. FdsAccounted'
  <2>1. /\ shellR = RingPipes(ring) \cup leaked
        /\ shellW = (RingPipes(ring) \ Some(ring[0])) \cup leaked
        /\ leaked \cap RingPipes(ring) = {}
    BY <1>5 DEF FdsAccounted
  <2>2. ring[0] \notin leaked
    BY <1>1, <2>1, NodeFacts, PipeAssumption DEF RingPipes, TypeOK
  <2>3. Current' = {} /\ NoPipe \notin RingPipes(ring)
    BY <1>1 DEF Current, RingPipes
  <2>4. shellR' = RingPipes(ring') \cup leaked'
    BY <1>1, <1>5, <1>6, <2>1, <2>2
  <2>5. shellW' = RingPipes(ring') \cup leaked'
    BY <1>1, <1>6, <2>1, <2>3 DEF Some
  <2> QED BY <1>1, <1>6, <2>1, <2>3, <2>4, <2>5 DEF FdsAccounted
<1>9. OneNodePerPipe'
  BY <1>6 DEF OneNodePerPipe
<1> QED BY <1>1, <1>4, <1>7, <1>8, <1>9, RunOnInv

-----------------------------------------------------------------------------
(* Steps of the shell *)

\* The shell opens at most the pipe of the command at hand: no command alive
\* already reads that one.
LEMMA OpenInv ==
  ASSUME IInv, NEW c \in Command, NEW p \in PipeOrNone, Target(c, p), waiting = 0,
         UNCHANGED <<proc, forks>>, shellW' \subseteq shellW \cup Some(p)
  PROVE  ProcFacts' /\ ShellLetsReadersEnd' /\ WaitsOnlyForOlder'
<1>1. \A q \in Running : proc[q].in # NoPipe => proc[q].in # p
  BY AimFacts
<1>2. Running' = Running
  BY DEF Running
<1>3. ProcFacts' /\ WaitsOnlyForOlder'
  BY <1>2 DEF IInv, ProcFacts, WaitsOnlyForOlder
<1>4. ShellLetsReadersEnd'
  BY <1>1, <1>2 DEF IInv, ShellLetsReadersEnd, Some
<1> QED BY <1>3, <1>4

\* (a pipe is empty when it is made)
LEMMA FilledFacts ==
  ASSUME IInv, NEW p PROVE Filled(p) \in [Pipe -> Nat]
BY DEF Filled, IInv, TypeOK

\* of a line that is a builtin,
LEMMA BuiltinInv ==
  ASSUME IInv, NEW c \in Command, NEW p \in PipeOrNone, Builtin(c, p)
  PROVE  IInv'
<1>1. /\ waiting = 0 /\ Target(c, p)
      /\ ring' = NextNode(Aimed(c, p))
      /\ shellW' = shellW \cup Some(p) /\ shellR' = shellR \cup Some(p)
      /\ leaked' = leaked \cup Some(ring[0])
      /\ buf' = Filled(p)
      /\ UNCHANGED <<proc, forks, waiting, sigchld>>
  BY DEF Builtin
<1>2. /\ Aimed(c, p) \in [Node -> PipeOrNone] /\ Aimed(c, p)[0] = ring[0]
      /\ RingPipes(Aimed(c, p)) = RingPipes(ring) \cup Some(p)
      /\ Distinct(Aimed(c, p))
      /\ Some(p) \subseteq Pipe /\ Some(p) \cap leaked = {}
  BY <1>1, AimFacts
<1>3. /\ ring' \in [Node -> PipeOrNone] /\ Distinct(ring')
      /\ RingPipes(ring') = (RingPipes(ring) \cup Some(p)) \ {ring[0]}
  BY <1>1, <1>2, ShiftPipes
<1>4. ring[0] \in PipeOrNone /\ (ring[0] # NoPipe => ring[0] \in RingPipes(ring))
  BY NodeFacts DEF IInv, TypeOK, RingPipes
<1>5. TypeOK'
  <2>1. Some(ring[0]) \subseteq Pipe
    BY <1>4 DEF Some, PipeOrNone
  <2> QED BY <1>1, <1>2, <1>3, <2>1, FilledFacts DEF IInv, TypeOK
<1>6. FdsAccounted'
  <2>1. /\ shellR = RingPipes(ring) \cup leaked /\ shellW = RingPipes(ring) \cup leaked
        /\ leaked \cap RingPipes(ring) = {}
    BY <1>1 DEF IInv, FdsAccounted, Current
  <2>2. Current' = {} /\ NoPipe \notin RingPipes(ring)
    BY <1>1 DEF Current, RingPipes
  <2> QED BY <1>1, <1>2, <1>3, <1>4, <2>1, <2>2 DEF FdsAccounted, Some
<1>7. OneNodePerPipe'
  BY <1>3 DEF OneNodePerPipe
<1>8. ProcFacts' /\ ShellLetsReadersEnd' /\ WaitsOnlyForOlder'
  BY <1>1, OpenInv
<1> QED BY <1>5, <1>6, <1>7, <1>8 DEF IInv

\* of a client that replaces the one before it,
LEMMA NextSessionInv ==
  ASSUME IInv, NEW c \in Command, NEW p \in PipeOrNone, NextSession(c, p)
  PROVE  IInv'
<1>1. /\ waiting = 0 /\ Target(c, p)
      /\ ring' = EmptyRing
      /\ shellW' = shellW \cup Some(p) /\ shellR' = shellR \cup Some(p)
      /\ leaked' = leaked \cup RingPipes(Aimed(c, p))
      /\ buf' = Filled(p)
      /\ UNCHANGED <<proc, forks, waiting, sigchld>>
  BY DEF NextSession
<1>2. /\ RingPipes(Aimed(c, p)) = RingPipes(ring) \cup Some(p)
      /\ Some(p) \subseteq Pipe
  BY <1>1, AimFacts
<1>3. ring' \in [Node -> PipeOrNone] /\ Distinct(ring') /\ RingPipes(ring') = {}
  BY <1>1 DEF EmptyRing, Distinct, RingPipes, PipeOrNone
<1>4. /\ shellR = RingPipes(ring) \cup leaked /\ shellW = RingPipes(ring) \cup leaked
  BY <1>1 DEF IInv, FdsAccounted, Current
<1>5. TypeOK'
  <2>1. RingPipes(ring) \subseteq Pipe
    BY <1>4 DEF IInv, TypeOK
  <2> QED BY <1>1, <1>2, <1>3, <2>1, FilledFacts DEF IInv, TypeOK
<1>6. FdsAccounted'
  BY <1>1, <1>2, <1>3, <1>4 DEF FdsAccounted, Current
<1>7. OneNodePerPipe'
  BY <1>3 DEF OneNodePerPipe
<1>8. ProcFacts' /\ ShellLetsReadersEnd' /\ WaitsOnlyForOlder'
  BY <1>1, OpenInv
<1> QED BY <1>5, <1>6, <1>7, <1>8 DEF IInv

\* and of a line that is run in a process.
LEMMA ExecInv ==
  ASSUME IInv, NEW c \in Command, NEW p \in PipeOrNone,
         NEW reads \in BOOLEAN, NEW left \in 0 .. MaxOut, Exec(c, p, reads, left)
  PROVE  IInv'
<1> DEFINE in == ring[0]
           q  == forks + 1
           new == [st |-> "running", in |-> in, out |-> p, left |-> left, reads |-> reads,
                   W |-> Inherited(shellW \cup Some(p), in), R |-> shellR \cup Some(p)]
<1>1. /\ waiting = 0 /\ Target(c, p) /\ forks < MaxForks
      /\ p = NoPipe => left = 0
      /\ in = NoPipe => ~reads
      /\ proc' = [proc EXCEPT ![q] = new]
      /\ forks' = q
      /\ shellW' = (shellW \cup Some(p)) \ {in}
      /\ buf' = Filled(p)
      /\ UNCHANGED <<leaked, sigchld>>
  BY DEF Exec, CloseWriteEnd
<1>2. IF WaitsFor(c)
      THEN waiting' = q /\ ring' = Aimed(c, p) /\ shellR' = shellR \cup Some(p)
      ELSE /\ waiting' = 0 /\ ring' = NextNode(Aimed(c, p))
           /\ shellR' = (shellR \cup Some(p)) \ {in}
  BY DEF Exec, CloseReadEnd
<1>3. /\ Aimed(c, p) \in [Node -> PipeOrNone] /\ Aimed(c, p)[0] = in
      /\ RingPipes(Aimed(c, p)) = RingPipes(ring) \cup Some(p)
      /\ Distinct(Aimed(c, p))
      /\ Some(p) \subseteq Pipe /\ Some(p) \cap leaked = {}
      /\ p # NoPipe => p # in
      /\ \A x \in Running : proc[x].in # NoPipe => proc[x].in # p
  BY <1>1, AimFacts
<1>4. /\ NextNode(Aimed(c, p)) \in [Node -> PipeOrNone]
      /\ Distinct(NextNode(Aimed(c, p)))
      /\ RingPipes(NextNode(Aimed(c, p))) = (RingPipes(ring) \cup Some(p)) \ {in}
  BY <1>3, ShiftPipes
<1>5. /\ shellR = RingPipes(ring) \cup leaked /\ shellW = RingPipes(ring) \cup leaked
      /\ leaked \cap RingPipes(ring) = {}
      /\ NoPipe \notin RingPipes(ring)
      /\ in \in PipeOrNone /\ (in # NoPipe => in \in RingPipes(ring))
      /\ in \notin leaked
  <2>1. /\ shellR = RingPipes(ring) \cup leaked /\ shellW = RingPipes(ring) \cup leaked
        /\ leaked \cap RingPipes(ring) = {} /\ leaked \subseteq Pipe
    BY <1>1 DEF IInv, FdsAccounted, Current, TypeOK
  <2>2. in \in PipeOrNone /\ (in # NoPipe => in \in RingPipes(ring))
    BY NodeFacts DEF IInv, TypeOK, RingPipes
  <2> QED BY <2>1, <2>2, PipeAssumption DEF RingPipes
<1>6. q \in Pid /\ q \in 0 .. MaxForks /\ q # 0 /\ forks \in Nat
  BY <1>1, BoundAssumption DEF IInv, TypeOK, Pid
<1>7. new \in Process
  <2>1. Inherited(shellW \cup Some(p), in) \in SUBSET Pipe /\ shellR \cup Some(p) \in SUBSET Pipe
    BY <1>3 DEF IInv, TypeOK, Inherited, CloseWriteEnd
  <2>2. in \in PipeOrNone
    BY <1>5
  <2> QED BY <2>1, <2>2 DEF Process
<1>8. /\ proc' \in [Pid -> Process]
      /\ proc'[q] = new
      /\ \A x \in Pid \ {q} : proc'[x] = proc[x]
  BY <1>1, <1>6, <1>7 DEF IInv, TypeOK
<1>9. TypeOK'
  <2>1. ring' \in [Node -> PipeOrNone] /\ waiting' \in {0} \cup Pid /\ shellR' \subseteq Pipe
    BY <1>2, <1>3, <1>4, <1>6 DEF IInv, TypeOK
  <2>2. buf' \in [Pipe -> Nat] /\ forks' \in 0 .. MaxForks /\ shellW' \subseteq Pipe
    BY <1>1, <1>3, <1>6, FilledFacts DEF IInv, TypeOK
  <2> QED BY <1>1, <1>8, <2>1, <2>2 DEF IInv, TypeOK
<1>10. FdsAccounted'
  <2>1. CASE WaitsFor(c)
    <3>1. p = NoPipe /\ Aimed(c, p) = ring
      BY <1>1, <2>1, PipedCommand DEF Target, Aimed
    <3>2. ring' = ring /\ waiting' # 0 /\ Current' = Some(in)
      BY <1>2, <1>6, <2>1, <3>1 DEF Current
    <3>3. shellR' = shellR /\ shellW' = shellW \ {in}
      BY <1>1, <1>2, <2>1, <3>1 DEF Some
    <3> QED BY <1>1, <1>5, <3>2, <3>3 DEF FdsAccounted, Some
  <2>2. CASE ~WaitsFor(c)
    <3>1. Current' = {}
      BY <1>2, <2>2 DEF Current
    <3>2. /\ shellR' = RingPipes(ring') \cup leaked'
          /\ shellW' = RingPipes(ring') \cup leaked'
          /\ leaked' \cap RingPipes(ring') = {}
      BY <1>1, <1>2, <1>3, <1>4, <1>5, <2>2
    <3> QED BY <3>1, <3>2 DEF FdsAccounted
  <2> QED BY <2>1, <2>2
<1>11. OneNodePerPipe'
  BY <1>2, <1>3, <1>4 DEF OneNodePerPipe
<1>12. Running' \subseteq Running \cup {q} /\ q \notin Running /\ \A x \in Running : x < q
  <2>1. Running' \subseteq Running \cup {q}
    BY <1>8 DEF Running
  <2>2. \A x \in Running : x \in Pid /\ x <= forks
    BY BoundAssumption, <1>6 DEF Running, Pid, IInv, ProcFacts
  <2> QED BY <1>6, <2>1, <2>2 DEF Pid
<1>13. ProcFacts'
  <2> SUFFICES ASSUME NEW x \in Pid
               PROVE  /\ proc'[x].reads => proc'[x].in # NoPipe
                      /\ proc'[x].left > 0 => proc'[x].out # NoPipe
                      /\ x > q => proc'[x].st # "running"
                      /\ proc'[x].st = "running" =>
                           /\ proc'[x].in # NoPipe => proc'[x].in \in proc'[x].R
                           /\ proc'[x].out # NoPipe => proc'[x].out \in proc'[x].W
    BY <1>1 DEF ProcFacts
  <2>1. CASE x = q
    <3>1. p # NoPipe => p \in Inherited(shellW \cup Some(p), in)
      BY <1>3 DEF Inherited, CloseWriteEnd, Some
    <3>2. in # NoPipe => in \in shellR \cup Some(p)
      BY <1>5
    <3> QED BY <1>1, <1>6, <1>8, <2>1, <3>1, <3>2
  <2>2. CASE x # q
    <3>1. x > q => x > forks
      BY <1>6 DEF Pid
    <3> QED BY <1>8, <2>2, <3>1 DEF IInv, ProcFacts
  <2> QED BY <2>1, <2>2
<1>14. ShellLetsReadersEnd'
  <2> SUFFICES ASSUME NEW x \in Running', proc'[x].in # NoPipe
               PROVE  proc'[x].in \notin shellW'
    BY DEF ShellLetsReadersEnd
  <2>1. CASE x = q
    BY <1>1, <1>8, <2>1
  <2>2. CASE x # q
    <3>1. x \in Running /\ proc'[x] = proc[x]
      BY <1>8, <1>12, <2>2 DEF Running
    <3> QED BY <1>1, <1>3, <3>1 DEF IInv, ShellLetsReadersEnd, Some
  <2> QED BY <2>1, <2>2
<1>15. WaitsOnlyForOlder'
  <2> SUFFICES ASSUME NEW x \in Running', NEW y \in Running',
                      proc'[x].in # NoPipe, proc'[x].in \in proc'[y].W
               PROVE  y < x
    BY DEF WaitsOnlyForOlder
  <2>1. proc'[q].W = (shellW \cup Some(p)) \ {in} /\ proc'[q].in = in
    BY <1>8 DEF Inherited, CloseWriteEnd
  <2>2. \A z \in Running' \ {q} : z \in Running /\ proc'[z] = proc[z]
    BY <1>8, <1>12 DEF Running
  <2>3. CASE y = q /\ x = q
    BY <2>1, <2>3
  <2>4. CASE y = q /\ x # q
    <3>1. proc[x].in \notin shellW /\ proc[x].in # p
      BY <1>3, <2>2, <2>4 DEF IInv, ShellLetsReadersEnd
    <3> QED BY <2>1, <2>2, <2>4, <3>1 DEF Some
  <2>5. CASE y # q /\ x = q
    BY <1>12, <2>2, <2>5
  <2>6. CASE y # q /\ x # q
    BY <2>2, <2>6 DEF IInv, WaitsOnlyForOlder
  <2> QED BY <2>3, <2>4, <2>5, <2>6
<1> QED BY <1>9, <1>10, <1>11, <1>13, <1>14, <1>15 DEF IInv

-----------------------------------------------------------------------------
(* The theorems *)

\* So does every step.
LEMMA NextInv == IInv /\ [Next]_vars => IInv'
<1> SUFFICES ASSUME IInv, [Next]_vars PROVE IInv'
  OBVIOUS
<1>1. CASE User
  <2>1. PICK c \in Command, p \in PipeOrNone :
          \/ Builtin(c, p)
          \/ NextSession(c, p)
          \/ \E reads \in BOOLEAN, left \in 0 .. MaxOut : Exec(c, p, reads, left)
    BY <1>1 DEF User
  <2> QED BY <2>1, BuiltinInv, NextSessionInv, ExecInv
<1>2. CASE Resume
  BY <1>2, ResumeInv
<1>3. CASE Handler
  BY <1>3, HandlerInv
<1>4. CASE \E q \in Pid : Child(q)
  BY <1>4, ChildInv
<1>5. CASE UNCHANGED vars
  BY <1>5 DEF vars, IInv, TypeOK, ProcFacts, FdsAccounted, Current, OneNodePerPipe,
              ShellLetsReadersEnd, WaitsOnlyForOlder, Running
<1> QED BY <1>1, <1>2, <1>3, <1>4, <1>5 DEF Next

LEMMA Invariance == Spec => []IInv
BY InitInv, NextInv, PTL DEF Spec

\* Every variable keeps its type.
THEOREM TypeCorrect == Spec => []TypeOK
<1>1. IInv => TypeOK
  BY DEF IInv
<1> QED BY Invariance, <1>1, PTL

\* The pipe ends the shell has open are those of its list and of the nodes it
\* gave up, and no two nodes share a pipe: the bookkeeping of shell() is exact.
THEOREM DescriptorsAccounted == Spec => [](FdsAccounted /\ OneNodePerPipe)
<1>1. IInv => FdsAccounted /\ OneNodePerPipe
  BY DEF IInv
<1> QED BY Invariance, <1>1, PTL

\* Neither the shell nor a younger command can keep a command from the end of
\* file it waits for: commands never wait for each other's end in a circle.
THEOREM NoCircularWait == Spec => [](ShellLetsReadersEnd /\ WaitsOnlyForOlder)
<1>1. IInv => ShellLetsReadersEnd /\ WaitsOnlyForOlder
  BY DEF IInv
<1> QED BY Invariance, <1>1, PTL

\* What a command to come will read is not read before its turn: the shell
\* still has the write end of every pipe in the list but the first node's, and
\* no command reads a pipe of which the shell has the write end.
THEOREM DataKept == Spec => NoEarlyRead
<1> DEFINE Kept == \A p \in RingPipes(ring) \ {ring[0]} : buf'[p] >= buf[p]
<1>1. IInv /\ [Next]_vars => [Kept]_vars
  <2> SUFFICES ASSUME IInv, Next, NEW p \in RingPipes(ring) \ {ring[0]}
               PROVE  buf'[p] >= buf[p]
    BY DEF vars
  <2>1. p \in Pipe /\ p \in shellW /\ buf \in [Pipe -> Nat]
    BY DEF IInv, TypeOK, FdsAccounted, Current, Some
  <2>2. ASSUME NEW x PROVE Filled(x)[p] = buf[p]
    BY <2>1 DEF Filled, Free, WriteOpen
  <2>3. CASE User
    <3>1. PICK c \in Command, x \in PipeOrNone :
            \/ Builtin(c, x) \/ NextSession(c, x)
            \/ \E reads \in BOOLEAN, left \in 0 .. MaxOut : Exec(c, x, reads, left)
      BY <2>3 DEF User
    <3>2. buf' = Filled(x)
      BY <3>1 DEF Builtin, NextSession, Exec
    <3> QED BY <2>1, <2>2, <3>2
  <2>4. CASE Resume \/ Handler
    BY <2>1, <2>4 DEF Resume, Handler
  <2>5. ASSUME NEW q \in Pid, Child(q) PROVE buf'[p] >= buf[p]
    <3>1. CASE Write(q)
      BY <2>1, <3>1 DEF Write
    <3>2. CASE Read(q)
      <4>1. proc[q].in # p
        BY <2>1, <3>2, PipeAssumption DEF Read, IInv, ShellLetsReadersEnd
      <4> QED BY <2>1, <3>2, <4>1 DEF Read
    <3>3. CASE Exit(q)
      BY <2>1, <3>3 DEF Exit
    <3> QED BY <2>5, <3>1, <3>2, <3>3 DEF Child
  <2> QED BY <2>3, <2>4, <2>5 DEF Next
<1> QED BY Invariance, <1>1, PTL DEF Spec, NoEarlyRead

-----------------------------------------------------------------------------
(* What a hang of the shell needs *)

\* The shell hangs only behind a command blocked on a full pipe that nothing
\* alive reads.  Follow a blocked writer to the command that reads its pipe:
\* that one is younger, cannot read on, so it is a blocked writer itself; the
\* youngest blocked writer has no such reader.  And there is a blocked writer:
\* the oldest command alive waits for nobody's end.
THEOREM HangNeedsUnreadPipe == Spec => []StallNeedsUnreadPipe
<1>1. ASSUME IInv, Stalled
      PROVE  \E q \in Running : /\ proc[q].left > 0
                                 /\ \A x \in Running : proc[x].in # proc[q].out
  <2> DEFINE Blocked == {q \in Running : proc[q].left > 0}
  <2>1. /\ Running \subseteq Pid /\ Blocked \subseteq Running
        /\ MaxForks \in Nat /\ Running \subseteq Nat /\ Running \subseteq 0 .. MaxForks
        /\ \A q \in Running : proc[q] \in Process
    <3>1. MaxForks \in Nat /\ Pid \subseteq Nat /\ Pid \subseteq 0 .. MaxForks
      BY BoundAssumption DEF Pid
    <3>2. Running \subseteq Pid
      BY DEF Running
    <3>3. \A q \in Running : proc[q] \in Process
      BY <1>1, <3>2 DEF IInv, TypeOK
    <3> QED BY <3>1, <3>2, <3>3
  <2>2. \A q \in Running : ~CanWrite(q) /\ ~CanRead(q) /\ ~CanExit(q)
    BY <1>1 DEF Stalled
  <2>3. \A q \in Blocked : proc[q].out \in Pipe /\ proc[q].out \in proc[q].W
    BY <1>1, <2>1 DEF IInv, ProcFacts, Process, PipeOrNone, Running
  <2>4. \A q \in Blocked : buf[proc[q].out] >= Capacity
    BY <1>1, <2>2, <2>3, BoundAssumption DEF CanWrite, IInv, TypeOK
  <2>5. \A q \in Running \ Blocked : proc[q].left = 0
    <3> SUFFICES ASSUME NEW q \in Running \ Blocked PROVE proc[q].left = 0
      OBVIOUS
    <3>1. ~(proc[q].left > 0)
      OBVIOUS
    <3>2. proc[q].left \in 0 .. MaxOut /\ MaxOut \in Nat
      BY <2>1, BoundAssumption DEF Process
    <3> QED BY <3>1, <3>2
  <2>6. Blocked # {}
    <3>1. waiting \in Running
      BY <1>1 DEF Stalled, IInv, TypeOK, Running
    <3>2. PICK o \in Running : \A x \in Running : o <= x
      BY <2>1, <3>1, LeastNatural
    <3> SUFFICES ASSUME o \notin Blocked PROVE FALSE
      OBVIOUS
    <3>3. proc[o].reads /\ ~AtEof(proc[o].in)
      BY <2>2, <2>5, <3>2 DEF CanExit
    <3>4. proc[o].in # NoPipe /\ proc[o].in \in Pipe
      BY <1>1, <2>1, <3>2, <3>3 DEF IInv, ProcFacts, Process, PipeOrNone
    <3>5. WriteOpen(proc[o].in)
      BY <1>1, <2>2, <3>2, <3>3, <3>4 DEF AtEof, CanRead, IInv, TypeOK
    <3>6. PICK x \in Running : proc[o].in \in proc[x].W
      BY <1>1, <3>2, <3>4, <3>5 DEF WriteOpen, IInv, ShellLetsReadersEnd
    <3>7. x < o
      BY <1>1, <3>2, <3>4, <3>6 DEF IInv, WaitsOnlyForOlder
    <3>8. o <= x /\ o \in Nat /\ x \in Nat
      BY <2>1, <3>2, <3>6
    <3> QED BY <3>7, <3>8
  <2>7. PICK m \in Blocked : \A x \in Blocked : x <= m
    BY <2>1, <2>6, GreatestNatural
  <2>8. ASSUME NEW x \in Running, proc[x].in = proc[m].out PROVE FALSE
    <3>1. m < x
      BY <1>1, <2>1, <2>3, <2>7, <2>8, PipeAssumption DEF IInv, WaitsOnlyForOlder
    <3>2. x \notin Blocked
      BY <2>1, <2>7, <3>1
    <3>3. proc[x].reads
      BY <2>2, <2>5, <2>8, <3>2 DEF CanExit
    <3>4. buf[proc[x].in] > 0
      BY <1>1, <2>3, <2>4, <2>7, <2>8, BoundAssumption DEF IInv, TypeOK
    <3> QED BY <2>2, <2>8, <3>3, <3>4 DEF CanRead
  <2> QED BY <2>7, <2>8
<1>2. IInv => StallNeedsUnreadPipe
  BY <1>1 DEF StallNeedsUnreadPipe
<1> QED BY Invariance, <1>2, PTL

-----------------------------------------------------------------------------
(* The list implements the schedule *)

\* The countdown that a list shows, a nodes of which have had their turn.
DueOf(r, a) ==
  [p \in Pipe |-> IF \E i \in a .. LastNode : r[i] = p
                  THEN (CHOOSE i \in Node : r[i] = p) - a ELSE -1]

\* A pipe's countdown is its place in the list.
LEMMA DuePlace ==
  ASSUME NEW r \in [Node -> PipeOrNone], Distinct(r), NEW a \in {0, 1}, NEW p \in Pipe
  PROVE  /\ \A i \in Node : i >= a /\ r[i] = p => DueOf(r, a)[p] = i - a
         /\ \/ DueOf(r, a)[p] = -1 /\ \A i \in Node : i >= a => r[i] # p
            \/ \E i \in Node : i >= a /\ r[i] = p
<1>1. \A i : i \in a .. LastNode <=> i \in Node /\ i >= a
  BY NodeFacts DEF Node
<1>2. ASSUME NEW i \in Node, i >= a, r[i] = p PROVE DueOf(r, a)[p] = i - a
  <2>1. \A j \in Node : r[j] = p => j = i
    BY <1>2, PipeAssumption DEF Distinct
  <2>2. (CHOOSE j \in Node : r[j] = p) = i
    BY <1>2, <2>1
  <2> QED BY <1>1, <1>2, <2>2 DEF DueOf
<1>3. CASE \A i \in Node : i >= a => r[i] # p
  <2>1. ~ \E i \in a .. LastNode : r[i] = p
    BY <1>1, <1>3
  <2> QED BY <1>2, <1>3, <2>1 DEF DueOf
<1> QED BY <1>2, <1>3

\* When the list moves on, or its first command gets its turn, every
\* countdown goes on by one.
LEMMA DueTicks ==
  ASSUME NEW r \in [Node -> PipeOrNone], Distinct(r)
  PROVE  /\ DueOf(NextNode(r), 0) = Schedule!Tick(DueOf(r, 0))
         /\ DueOf(r, 1) = Schedule!Tick(DueOf(r, 0))
<1>1. LastNode \in Nat /\ 0 \in Node /\ Node \subseteq Nat
  BY NodeFacts DEF Node
<1>2. \A i \in Node : i >= 0
  BY <1>1
<1>3. NextNode(r) \in [Node -> PipeOrNone] /\ Distinct(NextNode(r))
  BY ShiftPipes
<1>4. \A i \in Node : NextNode(r)[i] = IF i < LastNode THEN r[i + 1] ELSE NoPipe
  BY DEF NextNode, ShiftRing
<1>5. ASSUME NEW p \in Pipe
      PROVE  /\ DueOf(NextNode(r), 0)[p] = IF DueOf(r, 0)[p] > 0 THEN DueOf(r, 0)[p] - 1 ELSE -1
             /\ DueOf(r, 1)[p] = IF DueOf(r, 0)[p] > 0 THEN DueOf(r, 0)[p] - 1 ELSE -1
  <2>1. CASE \E i \in Node : i >= 1 /\ r[i] = p
    <3>1. PICK i \in Node : i >= 1 /\ r[i] = p
      BY <2>1
    <3>2. i - 1 \in Node /\ i - 1 < LastNode /\ (i - 1) + 1 = i /\ i - 1 >= 0 /\ i >= 0
      BY <3>1, <1>1 DEF Node
    <3>3. NextNode(r)[i - 1] = p
      BY <1>4, <3>1, <3>2
    <3>4. /\ DueOf(NextNode(r), 0)[p] = (i - 1) - 0
          /\ DueOf(r, 0)[p] = i - 0 /\ DueOf(r, 1)[p] = i - 1
      BY <1>3, <3>1, <3>2, <3>3, DuePlace
    <3> QED BY <1>1, <3>1, <3>4
  <2>2. CASE ~ \E i \in Node : i >= 1 /\ r[i] = p
    <3>1. \A i \in Node : NextNode(r)[i] # p
      <4> SUFFICES ASSUME NEW i \in Node, NextNode(r)[i] = p PROVE FALSE
        OBVIOUS
      <4>1. i < LastNode /\ r[i + 1] = p
        BY <1>4, PipeAssumption
      <4>2. i + 1 \in Node /\ i + 1 >= 1
        BY <1>1, <4>1 DEF Node
      <4> QED BY <2>2, <4>1, <4>2
    <3>2. DueOf(NextNode(r), 0)[p] = -1 /\ DueOf(r, 1)[p] = -1
      BY <1>3, <2>2, <3>1, DuePlace
    <3>3. DueOf(r, 0)[p] \in {0, -1}
      <4>1. CASE r[0] = p
        <5>1. DueOf(r, 0)[p] = 0 - 0
          BY <1>1, <1>2, <4>1, DuePlace
        <5> QED BY <5>1
      <4>2. CASE r[0] # p
        <5>1. \A i \in Node : i = 0 \/ i >= 1
          BY <1>1
        <5>2. \A i \in Node : r[i] # p
          BY <2>2, <4>2, <5>1
        <5> QED BY <5>2, DuePlace
      <4> QED BY <4>1, <4>2
    <3> QED BY <3>2, <3>3
  <2> QED BY <2>1, <2>2
<1>6. /\ DueOf(NextNode(r), 0) = [x \in Pipe |-> DueOf(NextNode(r), 0)[x]]
      /\ DueOf(r, 1) = [x \in Pipe |-> DueOf(r, 1)[x]]
  BY DEF DueOf
<1>7. Schedule!Tick(DueOf(r, 0)) =
        [x \in Pipe |-> IF DueOf(r, 0)[x] > 0 THEN DueOf(r, 0)[x] - 1 ELSE -1]
  BY DEF Schedule!Tick, Schedule!Never
<1> QED BY <1>5, <1>6, <1>7

\* What the schedule sees of the commands.
LEMMA WiredFacts ==
  ASSUME NEW q \in Pid
  PROVE  /\ q \in Running => Wired[q] = [in |-> proc[q].in, out |-> proc[q].out]
         /\ q \notin Running => Wired[q] = [in |-> NoPipe, out |-> NoPipe]
BY DEF Wired

\* Aiming a command is the schedule's: the pipe is the one that is due there
\* already, or one that nothing uses.
LEMMA AimSchedule ==
  ASSUME IInv, NEW c \in Command, NEW p \in PipeOrNone, Target(c, p), waiting = 0
  PROVE  /\ p = NoPipe => DueOf(Aimed(c, p), 0) = Due
         /\ p # NoPipe => /\ c.len \in 1 .. MaxLen /\ p \in Pipe
                          /\ Schedule!Aim(c.len, p)
                          /\ DueOf(Aimed(c, p), 0) = [Due EXCEPT ![p] = c.len]
<1>1. Due = DueOf(ring, 0)
  BY DEF Due, DueOf, Ahead
<1>2. CASE p = NoPipe
  BY <1>1, <1>2 DEF Aimed
<1>3. CASE p # NoPipe
  <2>1. c.opt = "pipe" /\ c.len \in 1 .. MaxLen /\ p \in Pipe /\ c.len \in Node
    BY <1>3, PipedCommand, NodeFacts DEF Target, PipeOrNone
  <2>2. Node \subseteq Nat /\ \A i \in Node : i >= 0 /\ i - 0 = i
    BY DEF Node
  <2>3. ring \in [Node -> PipeOrNone] /\ Distinct(ring)
    BY DEF IInv, TypeOK, OneNodePerPipe
  <2>4. Aimed(c, p) \in [Node -> PipeOrNone] /\ Distinct(Aimed(c, p))
    BY AimFacts
  <2>5. Aimed(c, p) = [ring EXCEPT ![c.len] = p]
    BY <1>3 DEF Aimed
  <2>6. ring[c.len] # p => ring[c.len] = NoPipe
    BY <1>3, <2>1 DEF Target
  <2>7. DueOf(Aimed(c, p), 0)[p] = c.len
    <3>1. Aimed(c, p)[c.len] = p
      BY <2>1, <2>3, <2>5
    <3>2. c.len >= 0 /\ c.len - 0 = c.len
      BY <2>1, <2>2
    <3> QED BY <2>1, <2>4, <3>1, <3>2, DuePlace
  <2>8. ASSUME NEW x \in Pipe, x # p PROVE DueOf(Aimed(c, p), 0)[x] = DueOf(ring, 0)[x]
    <3>1. \A i \in Node : Aimed(c, p)[i] = x <=> ring[i] = x
      BY <2>1, <2>3, <2>5, <2>6, <2>8, PipeAssumption
    <3>2. CASE \E i \in Node : ring[i] = x
      <4>1. PICK i \in Node : ring[i] = x
        BY <3>2
      <4>2. DueOf(ring, 0)[x] = i - 0 /\ DueOf(Aimed(c, p), 0)[x] = i - 0
        BY <2>2, <2>3, <2>4, <3>1, <4>1, DuePlace
      <4> QED BY <4>2
    <3>3. CASE \A i \in Node : ring[i] # x
      BY <2>3, <2>4, <3>1, <3>3, DuePlace
    <3> QED BY <3>2, <3>3
  <2>9. DueOf(Aimed(c, p), 0) = [Due EXCEPT ![p] = c.len]
    BY <1>1, <2>1, <2>7, <2>8 DEF DueOf
  <2>10. Schedule!Aim(c.len, p)
    <3>1. CASE ring[c.len] # NoPipe
      <4>1. p = ring[c.len]
        BY <2>1, <3>1 DEF Target
      <4>2. Due[p] = c.len
        BY <1>1, <2>1, <2>2, <2>3, <4>1, DuePlace
      <4> QED BY <2>1, <4>2 DEF Schedule!Aim
    <3>2. CASE ring[c.len] = NoPipe
      <4>1. p \notin shellR /\ \A q \in Running : p \notin proc[q].W /\ p \notin proc[q].R
        BY <2>1, <3>2 DEF Target, Free, WriteOpen, ReadOpen
      <4>2. \A i \in Node : ring[i] # p
        BY <1>3, <4>1 DEF IInv, FdsAccounted, RingPipes
      <4>3. Due[p] = -1
        BY <1>1, <2>1, <2>3, <4>2, DuePlace
      <4>4. ASSUME NEW q \in Pid PROVE p # Wired[q].in /\ p # Wired[q].out
        <5>1. CASE q \in Running
          <6>1. Wired[q] = [in |-> proc[q].in, out |-> proc[q].out]
            BY <5>1, WiredFacts
          <6>2. /\ proc[q].in # NoPipe => proc[q].in \in proc[q].R
                /\ proc[q].out # NoPipe => proc[q].out \in proc[q].W
            BY <5>1 DEF IInv, ProcFacts, Running
          <6>3. p # proc[q].in /\ p # proc[q].out
            BY <1>3, <4>1, <5>1, <6>2
          <6> QED BY <6>1, <6>3
        <5>2. CASE q \notin Running
          <6>1. Wired[q] = [in |-> NoPipe, out |-> NoPipe]
            BY <5>2, WiredFacts
          <6> QED BY <1>3, <6>1
        <5> QED BY <5>1, <5>2
      <4>5. ASSUME NEW x \in Pipe, Due[x] = c.len PROVE FALSE
        <5>1. c.len # -1
          BY <2>1, RingAssumption
        <5>2. PICK i \in Node : ring[i] = x
          BY <1>1, <2>3, <4>5, <5>1, DuePlace
        <5>3. i = c.len
          BY <1>1, <2>2, <2>3, <4>5, <5>2, DuePlace
        <5> QED BY <3>2, <5>2, <5>3, PipeAssumption
      <4> QED BY <4>3, <4>4, <4>5 DEF Schedule!Aim, Schedule!Unused, Schedule!Never
    <3> QED BY <3>1, <3>2
  <2> QED BY <1>3, <2>1, <2>9, <2>10
<1> QED BY <1>2, <1>3

\* Whose turn it is: the command gets the pipe of the first node.
LEMMA TurnSchedule ==
  ASSUME IInv, waiting = 0
  PROVE  ring[0] \in PipeOrNone /\ Schedule!Turn(ring[0])
<1>1. /\ ring \in [Node -> PipeOrNone] /\ Distinct(ring) /\ 0 \in Node
      /\ Due = DueOf(ring, 0)
  BY NodeFacts DEF IInv, TypeOK, OneNodePerPipe, Due, DueOf, Ahead
<1>2. \A i \in Node : i >= 0 /\ i - 0 = i /\ i # -1
  BY DEF Node
<1>3. ASSUME NEW x \in Pipe PROVE Due[x] = 0 <=> ring[0] = x
  <2>1. ring[0] = x => Due[x] = 0
    BY <1>1, <1>2, DuePlace
  <2>2. ASSUME Due[x] = 0 PROVE ring[0] = x
    <3>1. PICK i \in Node : ring[i] = x
      BY <1>1, <2>2, DuePlace
    <3>2. i = 0
      BY <1>1, <1>2, <2>2, <3>1, DuePlace
    <3> QED BY <3>1, <3>2
  <2> QED BY <2>1, <2>2
<1>4. ring[0] \in PipeOrNone
  BY <1>1
<1>5. (\E x \in Pipe : Due[x] = 0) => ring[0] \in Pipe /\ Due[ring[0]] = 0
  BY <1>3
<1>6. ~(\E x \in Pipe : Due[x] = 0) => ring[0] = NoPipe
  BY <1>3, <1>4 DEF PipeOrNone
<1> QED BY <1>4, <1>5, <1>6 DEF Schedule!Turn

\* Each step of the shell is one of the schedule's.
LEMMA BuiltinSchedule ==
  ASSUME IInv, NEW c \in Command, NEW p \in PipeOrNone, Builtin(c, p)
  PROVE  Schedule!Skip
<1>1. /\ waiting = 0 /\ Target(c, p) /\ ring' = NextNode(Aimed(c, p)) /\ UNCHANGED <<proc, waiting>>
  BY DEF Builtin
<1>2. Aimed(c, p) \in [Node -> PipeOrNone] /\ Distinct(Aimed(c, p))
  BY <1>1, AimFacts
<1>3. Due' = Schedule!Tick(DueOf(Aimed(c, p), 0))
  <2>1. Due' = DueOf(ring', 0)
    BY <1>1 DEF Due, DueOf, Ahead
  <2> QED BY <1>1, <1>2, <2>1, DueTicks
<1>4. UNCHANGED Wired
  BY <1>1 DEF Wired, Running
<1>5. \/ Due' = Schedule!Tick(Due)
      \/ \E len \in 1 .. MaxLen, x \in Pipe :
           Schedule!Aim(len, x) /\ Due' = Schedule!Tick([Due EXCEPT ![x] = len])
  <2>1. CASE p = NoPipe
    <3>1. DueOf(Aimed(c, p), 0) = Due
      BY <1>1, <2>1, AimSchedule
    <3> QED BY <1>3, <3>1
  <2>2. CASE p # NoPipe
    <3>1. /\ c.len \in 1 .. MaxLen /\ p \in Pipe /\ Schedule!Aim(c.len, p)
          /\ DueOf(Aimed(c, p), 0) = [Due EXCEPT ![p] = c.len]
      BY <1>1, <2>2, AimSchedule
    <3> QED BY <1>3, <3>1
  <2> QED BY <2>1, <2>2
<1> QED BY <1>4, <1>5 DEF Schedule!Skip

\* A process runs with the input that has come due, as scheduled.
LEMMA ExecSchedule ==
  ASSUME IInv, NEW c \in Command, NEW p \in PipeOrNone,
         NEW reads \in BOOLEAN, NEW left \in 0 .. MaxOut, Exec(c, p, reads, left)
  PROVE  Schedule!Run(forks + 1, ring[0]) /\ forks + 1 \in Pid /\ ring[0] \in PipeOrNone
<1> DEFINE q == forks + 1
<1>1. /\ waiting = 0 /\ Target(c, p) /\ forks < MaxForks
      /\ ring' = (IF WaitsFor(c) THEN Aimed(c, p) ELSE NextNode(Aimed(c, p)))
      /\ waiting' = (IF WaitsFor(c) THEN q ELSE 0)
  BY DEF Exec
<1>2. q \in Pid /\ q # 0 /\ forks \in Nat /\ q > forks
  BY <1>1, BoundAssumption DEF IInv, TypeOK, Pid
<1>3. /\ \A x \in Pid \ {q} : proc'[x] = proc[x]
      /\ proc'[q].st = "running" /\ proc'[q].in = ring[0] /\ proc'[q].out = p
  BY <1>2 DEF Exec, IInv, TypeOK
<1> HIDE DEF q
<1>4. Aimed(c, p) \in [Node -> PipeOrNone] /\ Distinct(Aimed(c, p))
  BY <1>1, AimFacts
<1>5. Due' = Schedule!Tick(DueOf(Aimed(c, p), 0))
  <2>1. Due' = DueOf(ring', IF waiting' = 0 THEN 0 ELSE 1)
    BY DEF Due, DueOf, Ahead
  <2>2. CASE WaitsFor(c)
    <3>1. Due' = DueOf(Aimed(c, p), 1)
      BY <1>1, <1>2, <2>1, <2>2
    <3> QED BY <1>4, <3>1, DueTicks
  <2>3. CASE ~WaitsFor(c)
    <3>1. Due' = DueOf(NextNode(Aimed(c, p)), 0)
      BY <1>1, <2>1, <2>3
    <3> QED BY <1>4, <3>1, DueTicks
  <2> QED BY <2>2, <2>3
<1>6. q \notin Running
  BY <1>2 DEF q, IInv, ProcFacts, Running
<1>7. Wired[q] = Schedule!Idle
  BY <1>2, <1>6, WiredFacts DEF Schedule!Idle
<1>8. Wired' = [Wired EXCEPT ![q] = [in |-> ring[0], out |-> p]]
  <2>1. \A x \in Pid : Wired'[x] = IF x = q THEN [in |-> ring[0], out |-> p] ELSE Wired[x]
    BY <1>3 DEF Wired, Running
  <2>2. Wired = [x \in Pid |-> Wired[x]] /\ Wired' = [x \in Pid |-> Wired'[x]]
    BY DEF Wired
  <2> HIDE DEF q
  <2> QED BY <2>1, <2>2
<1>9. ring[0] \in PipeOrNone /\ Schedule!Turn(ring[0])
  BY <1>1, TurnSchedule
<1>10. CASE p = NoPipe
  <2>1. DueOf(Aimed(c, p), 0) = Due
    BY <1>1, <1>10, AimSchedule
  <2> QED BY <1>2, <1>5, <1>7, <1>8, <1>9, <1>10, <2>1 DEF Schedule!Run, q
<1>11. CASE p # NoPipe
  <2>1. /\ c.len \in 1 .. MaxLen /\ p \in Pipe /\ Schedule!Aim(c.len, p)
        /\ DueOf(Aimed(c, p), 0) = [Due EXCEPT ![p] = c.len]
    BY <1>1, <1>11, AimSchedule
  <2> QED BY <1>2, <1>5, <1>7, <1>8, <1>9, <2>1 DEF Schedule!Run, q
<1> QED BY <1>10, <1>11

\* Whoever is waited for or reaped, no line comes due by it.
LEMMA ResumeSchedule == ASSUME IInv, Resume PROVE UNCHANGED <<Due, Wired>>
<1>1. /\ waiting \in Pid /\ waiting # 0 /\ proc \in [Pid -> Process]
      /\ ring \in [Node -> PipeOrNone] /\ Distinct(ring)
      /\ ring' = NextNode(ring) /\ waiting' = 0
      /\ proc[waiting].st \in {"zombie", "reaped"}
      /\ proc' = [proc EXCEPT ![waiting].st = "reaped"]
  BY DEF Resume, IInv, TypeOK, OneNodePerPipe
<1>2. Due = DueOf(ring, 1) /\ Due' = DueOf(ring', 0)
  BY <1>1 DEF Due, DueOf, Ahead
<1>3. UNCHANGED Due
  BY <1>1, <1>2, DueTicks
<1>4. \A x \in Pid : x # waiting => proc'[x] = proc[x]
  BY <1>1
<1>5. proc'[waiting].st = "reaped"
  BY <1>1 DEF Process
<1>6. Running' = Running /\ waiting \notin Running
  BY <1>1, <1>4, <1>5 DEF Running
<1>7. UNCHANGED Wired
  BY <1>4, <1>6 DEF Wired
<1> QED BY <1>3, <1>7

\* What the commands and the handler do is a command's end, or nothing the
\* schedule sees.
LEMMA ChildSchedule ==
  ASSUME IInv, NEW q \in Pid, Child(q)
  PROVE  UNCHANGED <<Due, Wired>> \/ Schedule!Finish(q)
<1>1. UNCHANGED Due
  <2>1. UNCHANGED <<ring, waiting>>
    BY DEF Child, Write, Read, Exit, Die
  <2> QED BY <2>1 DEF Due, Ahead
<1>2. CASE Write(q) \/ Read(q)
  <2>1. /\ \A x \in Pid : proc'[x].st = proc[x].st /\ proc'[x].in = proc[x].in
                          /\ proc'[x].out = proc[x].out
    BY <1>2 DEF Write, Read, IInv, TypeOK, Process
  <2>2. Running' = Running
    BY <2>1 DEF Running
  <2>3. UNCHANGED Wired
    BY <2>1, <2>2 DEF Wired
  <2> QED BY <1>1, <2>3
<1>3. CASE Exit(q)
  <2>1. /\ \A x \in Pid : x # q => proc'[x] = proc[x]
        /\ proc'[q].st = "zombie"
    BY <1>3 DEF Exit, Die, IInv, TypeOK
  <2>2. \A x \in Pid : x \in Running' <=> x \in Running /\ x # q
    BY <1>3, <2>1 DEF Running, Exit
  <2>3. Wired' = [Wired EXCEPT ![q] = Schedule!Idle]
    <3>1. \A x \in Pid : Wired'[x] = IF x = q THEN Schedule!Idle ELSE Wired[x]
      BY <2>1, <2>2 DEF Wired, Schedule!Idle
    <3>2. Wired = [x \in Pid |-> Wired[x]] /\ Wired' = [x \in Pid |-> Wired'[x]]
      BY DEF Wired
    <3> QED BY <3>1, <3>2
  <2> QED BY <1>1, <2>3 DEF Schedule!Finish
<1> QED BY <1>2, <1>3 DEF Child

\* Nor by a signal.
LEMMA HandlerSchedule == ASSUME IInv, Handler PROVE UNCHANGED <<Due, Wired>>
<1>1. /\ UNCHANGED <<ring, waiting>>
      /\ \A q \in Pid : proc'[q] = IF q \in Zombies
                                   THEN [proc[q] EXCEPT !.st = "reaped"] ELSE proc[q]
  BY DEF Handler, ReapAll
<1>2. \A q \in Pid : q \in Zombies => [proc[q] EXCEPT !.st = "reaped"].st = "reaped"
  BY DEF IInv, TypeOK, Process
<1>3. \A q \in Pid : (q \in Running' <=> q \in Running) /\ (q \in Running => proc'[q] = proc[q])
  BY <1>1, <1>2 DEF Running, Zombies
<1>4. Running' = Running
  BY <1>3 DEF Running
<1> QED BY <1>1, <1>3, <1>4 DEF Due, Ahead, Wired

\* The list of nodes in shell() is the schedule that numbered pipes promise:
\* a command reads exactly the output aimed at it, across built-in commands,
\* waits, reaped children and new sessions.
THEOREM ListKeepsSchedule == Spec => ImplementsSchedule
<1>1. Init => Schedule!Init
  <2> SUFFICES ASSUME Init PROVE Schedule!Init
    OBVIOUS
  <2>1. \A p \in Pipe : Due[p] = -1
    BY PipeAssumption DEF Init, Due, EmptyRing, Ahead, Node
  <2>2. \A q \in Pid : Wired[q] = Schedule!Idle
    BY DEF Init, Wired, Running, Unborn, Schedule!Idle
  <2>3. Due = [p \in Pipe |-> Due[p]] /\ Wired = [q \in Pid |-> Wired[q]]
    BY DEF Due, Wired
  <2> QED BY <2>1, <2>2, <2>3 DEF Schedule!Init, Schedule!Never
<1>2. IInv /\ [Next]_vars => [Schedule!Next]_<<Due, Wired>>
  <2> SUFFICES ASSUME IInv, [Next]_vars PROVE Schedule!Next \/ UNCHANGED <<Due, Wired>>
    OBVIOUS
  <2>1. ASSUME NEW c \in Command, NEW p \in PipeOrNone, Builtin(c, p) PROVE Schedule!Next
    BY <2>1, BuiltinSchedule DEF Schedule!Next
  <2>2. ASSUME NEW c \in Command, NEW p \in PipeOrNone, NextSession(c, p) PROVE Schedule!Restart
    <3>1. ring' = EmptyRing /\ UNCHANGED <<proc, waiting>>
      BY <2>2 DEF NextSession
    <3>2. Due' = [x \in Pipe |-> -1]
      BY <3>1, PipeAssumption DEF Due, EmptyRing, Ahead, Node
    <3>3. UNCHANGED Wired
      BY <3>1 DEF Wired, Running
    <3> QED BY <3>2, <3>3 DEF Schedule!Restart, Schedule!Never
  <2>3. ASSUME NEW c \in Command, NEW p \in PipeOrNone,
               NEW reads \in BOOLEAN, NEW left \in 0 .. MaxOut, Exec(c, p, reads, left)
        PROVE  Schedule!Next
    BY <2>3, ExecSchedule DEF Schedule!Next, PipeOrNone
  <2>4. CASE User
    BY <2>1, <2>2, <2>3, <2>4 DEF User, Schedule!Next
  <2>5. CASE Resume \/ Handler
    BY <2>5, ResumeSchedule, HandlerSchedule
  <2>6. CASE \E q \in Pid : Child(q)
    BY <2>6, ChildSchedule DEF Schedule!Next
  <2>7. CASE UNCHANGED vars
    BY <2>7 DEF vars, Due, Ahead, Wired, Running
  <2> QED BY <2>4, <2>5, <2>6, <2>7 DEF Next
<1> QED BY <1>1, <1>2, Invariance, PTL DEF Spec, ImplementsSchedule, Schedule!Spec, Schedule!vars

-----------------------------------------------------------------------------
(* The state halves of PromptReturns and ZombiesReaped                     *)

(* What has been written, each unit the k-th last of the command that      *)
(* wrote it; no pipe can hold more than that.                              *)
Done == {e \in Pid \X (1 .. MaxOut) : e[1] <= forks /\ proc[e[1]].left < e[2]}
Roomed == \A p \in Pipe : buf[p] <= Cardinality(Done)

\* There are no more units than all commands may write.
LEMMA AllUnits ==
  /\ IsFiniteSet(Pid \X (1 .. MaxOut))
  /\ Cardinality(Pid \X (1 .. MaxOut)) = MaxForks * MaxOut
<1>1. ASSUME NEW n \in Nat PROVE IsFiniteSet(1 .. n) /\ Cardinality(1 .. n) = n
  <2>1. IsFiniteSet(1 .. n) /\ Cardinality(1 .. n) = IF 1 > n THEN 0 ELSE n - 1 + 1
    BY FS_Interval
  <2> QED BY <2>1
<1>2. /\ IsFiniteSet(Pid) /\ Cardinality(Pid) = MaxForks
      /\ IsFiniteSet(1 .. MaxOut) /\ Cardinality(1 .. MaxOut) = MaxOut
  BY <1>1, BoundAssumption DEF Pid
<1> QED BY <1>2, FS_Product

\* A set of units is finite, and a larger one has no fewer.
LEMMA DoneFacts ==
  ASSUME NEW S \in SUBSET (Pid \X (1 .. MaxOut)), NEW T \in SUBSET (Pid \X (1 .. MaxOut))
  PROVE  /\ Cardinality(S) \in Nat
         /\ S \subseteq T => Cardinality(S) <= Cardinality(T)
         /\ \A e \in T \ S : S \subseteq T => Cardinality(S) + 1 <= Cardinality(T)
<1>1. IsFiniteSet(S) /\ IsFiniteSet(T)
  BY AllUnits, FS_Subset
<1>2. Cardinality(S) \in Nat /\ Cardinality(T) \in Nat
  BY <1>1, FS_CardinalityType
<1>3. S \subseteq T => Cardinality(S) <= Cardinality(T)
  BY <1>1, FS_Subset
<1>4. ASSUME NEW e \in T \ S, S \subseteq T PROVE Cardinality(S) + 1 <= Cardinality(T)
  <2>1. Cardinality(T \ {e}) = Cardinality(T) - 1 /\ IsFiniteSet(T \ {e})
    BY <1>1, FS_RemoveElement
  <2>2. S \subseteq T \ {e}
    BY <1>4
  <2>3. Cardinality(S) <= Cardinality(T \ {e})
    BY <2>1, <2>2, FS_Subset
  <2> QED BY <1>2, <2>1, <2>3
<1> QED BY <1>2, <1>3, <1>4

\* A step that fills no pipe and takes back nothing that was written.
LEMMA NothingWritten ==
  ASSUME IInv, IInv', Roomed,
         \A p \in Pipe : buf'[p] <= buf[p],
         forks <= forks',
         \A q \in Pid : q <= forks => proc'[q].left <= proc[q].left
  PROVE  Roomed'
<1>1. Done \subseteq Done'
  <2> SUFFICES ASSUME NEW q \in Pid, NEW k \in 1 .. MaxOut, q <= forks, proc[q].left < k
               PROVE  q <= forks' /\ proc'[q].left < k
    BY DEF Done
  <2>1. proc[q].left \in Int /\ proc'[q].left \in Int
    BY DEF IInv, TypeOK, Process
  <2>2. forks \in Int /\ forks' \in Int /\ q \in Int
    BY DEF IInv, TypeOK, Pid
  <2> QED BY <2>1, <2>2
<1>2. Cardinality(Done) \in Nat /\ Cardinality(Done') \in Nat /\ Cardinality(Done) <= Cardinality(Done')
  <2>1. Done \in SUBSET (Pid \X (1 .. MaxOut)) /\ Done' \in SUBSET (Pid \X (1 .. MaxOut))
    BY DEF Done
  <2> QED BY <1>1, <2>1, DoneFacts
<1>3. \A p \in Pipe : buf[p] \in Nat /\ buf'[p] \in Nat
  BY DEF IInv, TypeOK
<1> HIDE DEF Done
<1> QED BY <1>2, <1>3 DEF Roomed

\* A unit that is written adds to one pipe, and to what was written.
LEMMA UnitWritten ==
  ASSUME IInv, Roomed, NEW q \in Pid, Write(q)
  PROVE  Roomed'
<1> DEFINE e == <<q, proc[q].left>>
<1>1. /\ proc \in [Pid -> Process] /\ buf \in [Pipe -> Nat] /\ forks' = forks
      /\ proc[q].left \in 1 .. MaxOut /\ q <= forks /\ proc[q].out \in Pipe
  <2>1. proc[q].left \in 0 .. MaxOut /\ proc[q].left > 0 /\ MaxOut \in Nat
    BY BoundAssumption DEF Write, CanWrite, IInv, TypeOK, Process
  <2>2. forks \in Int /\ q \in Int /\ ~(q > forks)
    BY DEF IInv, TypeOK, ProcFacts, Write, Running, Pid
  <2> QED BY <2>1, <2>2 DEF Write, CanWrite, IInv, TypeOK, ProcFacts, Process, PipeOrNone
<1>2. /\ proc'[q].left = proc[q].left - 1 /\ \A x \in Pid : x # q => proc'[x] = proc[x]
      /\ \A p \in Pipe : buf'[p] = IF p = proc[q].out THEN buf[p] + 1 ELSE buf[p]
  <2>1. proc' = [proc EXCEPT ![q].left = proc[q].left - 1]
    BY DEF Write
  <2>2. proc'[q].left = proc[q].left - 1
    BY <1>1, <2>1 DEF Process
  <2> QED BY <1>1, <2>1, <2>2 DEF Write
<1>3. e \in Pid \X (1 .. MaxOut) /\ e[1] = q /\ e[2] = proc[q].left
  BY <1>1
<1>4. e \in Done' /\ e \notin Done
  BY <1>1, <1>2, <1>3 DEF Done
<1>5. Done \subseteq Done'
  <2> SUFFICES ASSUME NEW x \in Pid, NEW k \in 1 .. MaxOut, x <= forks, proc[x].left < k
               PROVE  x <= forks' /\ proc'[x].left < k
    BY DEF Done
  <2> QED BY <1>1, <1>2
<1>6. Cardinality(Done) \in Nat /\ Cardinality(Done) + 1 <= Cardinality(Done')
  <2>1. Done \in SUBSET (Pid \X (1 .. MaxOut)) /\ Done' \in SUBSET (Pid \X (1 .. MaxOut))
    BY DEF Done
  <2> HIDE DEF e
  <2> QED BY <1>4, <1>5, <2>1, DoneFacts
<1>7. Cardinality(Done') \in Nat
  <2>1. Done' \in SUBSET (Pid \X (1 .. MaxOut))
    BY DEF Done
  <2> QED BY <2>1, DoneFacts
<1> HIDE DEF Done
<1> QED BY <1>1, <1>2, <1>6, <1>7 DEF Roomed

\* So no pipe ever holds more than was written to all of them.
LEMMA StepRoomed == IInv /\ IInv' /\ Roomed /\ [Next]_vars => Roomed'
<1> SUFFICES ASSUME IInv, IInv', Roomed, [Next]_vars PROVE Roomed'
  OBVIOUS
<1>1. /\ buf \in [Pipe -> Nat] /\ forks \in Nat /\ proc \in [Pid -> Process]
      /\ \A q \in Pid : proc[q].left \in Nat
  BY DEF IInv, TypeOK, Process
<1>2. \A p : \A x \in Pipe : Filled(p)[x] <= buf[x]
  BY <1>1 DEF Filled
<1>3. CASE User
  <2>1. PICK c \in Command, p \in PipeOrNone :
          \/ Builtin(c, p)
          \/ NextSession(c, p)
          \/ \E reads \in BOOLEAN, left \in 0 .. MaxOut : Exec(c, p, reads, left)
    BY <1>3 DEF User
  <2>2. buf' = Filled(p)
    BY <2>1 DEF Builtin, NextSession, Exec
  <2>3. CASE Builtin(c, p) \/ NextSession(c, p)
    <3>1. UNCHANGED <<proc, forks>>
      BY <2>3 DEF Builtin, NextSession
    <3> QED BY <1>1, <1>2, <2>2, <3>1, NothingWritten
  <2>4. ASSUME NEW reads \in BOOLEAN, NEW left \in 0 .. MaxOut, Exec(c, p, reads, left)
        PROVE  Roomed'
    <3>1. forks' = forks + 1 /\ \E r : proc' = [proc EXCEPT ![forks + 1] = r]
      BY <2>4 DEF Exec
    <3>2. \A q \in Pid : q <= forks => proc'[q] = proc[q]
      BY <1>1, <3>1 DEF Pid
    <3> QED BY <1>1, <1>2, <2>2, <3>1, <3>2, NothingWritten
  <2> QED BY <2>1, <2>3, <2>4
<1>4. CASE Resume
  <2>1. \A q \in Pid : proc'[q].left = proc[q].left
    <3>1. waiting \in Pid /\ proc' = [proc EXCEPT ![waiting].st = "reaped"]
      BY <1>4 DEF Resume, IInv, TypeOK
    <3>2. [proc[waiting] EXCEPT !.st = "reaped"].left = proc[waiting].left
      BY <1>1, <3>1, StateChange
    <3> QED BY <1>1, <3>1, <3>2
  <2>2. UNCHANGED <<buf, forks>>
    BY <1>4 DEF Resume
  <2> QED BY <1>1, <2>1, <2>2, NothingWritten
<1>5. CASE Handler
  <2>1. \A q \in Pid : proc'[q].left = proc[q].left
    <3>1. \A q \in Pid : [proc[q] EXCEPT !.st = "reaped"].left = proc[q].left
      BY <1>1, StateChange
    <3> QED BY <1>5, <3>1 DEF Handler
  <2>2. UNCHANGED <<buf, forks>>
    BY <1>5 DEF Handler
  <2> QED BY <1>1, <2>1, <2>2, NothingWritten
<1>6. ASSUME NEW q \in Pid, Child(q) PROVE Roomed'
  <2>1. CASE Write(q)
    BY <2>1, UnitWritten
  <2>2. CASE Read(q)
    <3>1. /\ proc[q].in \in Pipe /\ UNCHANGED <<proc, forks>>
          /\ buf' = [buf EXCEPT ![proc[q].in] = buf[proc[q].in] - 1]
      BY <2>2 DEF Read, CanRead, IInv, ProcFacts, TypeOK, Process, PipeOrNone
    <3>2. \A p \in Pipe : buf'[p] <= buf[p]
      BY <1>1, <3>1
    <3> QED BY <1>1, <3>1, <3>2, NothingWritten
  <2>3. CASE Exit(q)
    <3>1. /\ proc[q].left = 0 /\ UNCHANGED <<buf, forks>>
          /\ proc' = [proc EXCEPT ![q] = [Unborn EXCEPT !.st = "zombie"]]
      BY <2>3 DEF Exit, CanExit, Die
    <3>2. [Unborn EXCEPT !.st = "zombie"].left = 0
      BY DEF Unborn
    <3>3. \A x \in Pid : proc'[x].left = proc[x].left
      BY <1>1, <3>1, <3>2
    <3> QED BY <1>1, <3>1, <3>3, NothingWritten
  <2> QED BY <1>6, <2>1, <2>2, <2>3 DEF Child
<1>7. CASE UNCHANGED vars
  BY <1>1, <1>7, NothingWritten DEF vars
<1> QED BY <1>3, <1>4, <1>5, <1>6, <1>7 DEF Next

\* If a pipe can hold all that the commands of a shell write, the shell never
\* hangs: while it waits, it can be woken or some command can run on.  (A pipe
\* that is too small is what StallNeedsUnreadPipe is about.)
THEOREM LargePipesNeverStall == MaxForks * MaxOut <= Capacity => (Spec => []~Stalled)
<1> SUFFICES ASSUME MaxForks * MaxOut <= Capacity PROVE Spec => []~Stalled
  OBVIOUS
<1>1. Init => Roomed
  <2> SUFFICES ASSUME Init PROVE Roomed
    OBVIOUS
  <2>1. Done \in SUBSET (Pid \X (1 .. MaxOut))
    BY DEF Done
  <2>2. Cardinality(Done) \in Nat
    BY <2>1, DoneFacts
  <2>3. \A p \in Pipe : buf[p] = 0
    BY DEF Init
  <2> HIDE DEF Done
  <2> QED BY <2>2, <2>3 DEF Roomed
<1>2. IInv /\ Roomed /\ StallNeedsUnreadPipe => ~Stalled
  <2> SUFFICES ASSUME IInv, Roomed, NEW q \in Running, proc[q].left > 0, ~CanWrite(q) PROVE FALSE
    BY DEF StallNeedsUnreadPipe, Stalled
  <2> DEFINE e == <<q, proc[q].left>>
             All == Pid \X (1 .. MaxOut)
  <2>1. q \in Pid /\ proc[q].left \in 1 .. MaxOut /\ proc[q].out \in Pipe
    <3>1. q \in Pid /\ proc[q] \in Process /\ MaxOut \in Nat
      BY BoundAssumption DEF Running, IInv, TypeOK
    <3>2. proc[q].left \in 1 .. MaxOut
      BY <3>1 DEF Process
    <3> QED BY <3>1, <3>2 DEF IInv, ProcFacts, Process, PipeOrNone
  <2>2. e \in All /\ e \notin Done /\ Done \in SUBSET All
    BY <2>1 DEF Done
  <2>3. buf[proc[q].out] \in Nat /\ buf[proc[q].out] >= Capacity
    BY <2>1, BoundAssumption DEF CanWrite, IInv, TypeOK
  <2>4. Cardinality(Done) \in Nat /\ Cardinality(Done) + 1 <= MaxForks * MaxOut
    <3>1. All \in SUBSET All
      OBVIOUS
    <3> HIDE DEF e
    <3> QED BY <2>2, <3>1, DoneFacts, AllUnits
  <2>5. buf[proc[q].out] <= Cardinality(Done)
    BY <2>1 DEF Roomed
  <2> DEFINE b == buf[proc[q].out]
             d == Cardinality(Done)
             m == MaxForks * MaxOut
  <2>6. b \in Nat /\ b >= Capacity /\ d \in Nat /\ d + 1 <= m /\ m <= Capacity /\ b <= d
        /\ Capacity \in Nat /\ m \in Nat
    BY <2>3, <2>4, <2>5, BoundAssumption
  <2> HIDE DEF b, d, m
  <2> QED BY <2>6
<1> QED BY <1>1, <1>2, StepRoomed, Invariance, HangNeedsUnreadPipe, PTL DEF Spec

\* As long as a dead command was not reaped, a SIGCHLD is pending: the handler,
\* once it runs, leaves none.
ZombiesAnnounced == Zombies # {} => sigchld
THEOREM NoZombieForgotten == Spec => []ZombiesAnnounced
<1>1. Init => ZombiesAnnounced
  BY DEF Init, ZombiesAnnounced, Zombies, Unborn
<1>2. IInv /\ ZombiesAnnounced /\ [Next]_vars => ZombiesAnnounced'
  <2> SUFFICES ASSUME IInv, ZombiesAnnounced, [Next]_vars PROVE ZombiesAnnounced'
    OBVIOUS
  <2>1. proc \in [Pid -> Process]
    BY DEF IInv, TypeOK
  <2>2. ASSUME UNCHANGED sigchld, \A q \in Pid : proc'[q].st = "zombie" => proc[q].st = "zombie"
        PROVE  ZombiesAnnounced'
    BY <2>2 DEF ZombiesAnnounced, Zombies
  <2>3. CASE User
    <3>1. PICK c \in Command, p \in PipeOrNone :
            \/ Builtin(c, p)
            \/ NextSession(c, p)
            \/ \E reads \in BOOLEAN, left \in 0 .. MaxOut : Exec(c, p, reads, left)
      BY <2>3 DEF User
    <3>2. /\ UNCHANGED sigchld
          /\ proc' = proc \/ \E q, r : r.st = "running" /\ proc' = [proc EXCEPT ![q] = r]
      BY <3>1 DEF Builtin, NextSession, Exec
    <3>3. \A q \in Pid : proc'[q].st = "zombie" => proc[q].st = "zombie"
      BY <2>1, <3>2
    <3> QED BY <2>2, <3>2, <3>3
  <2>4. CASE Resume
    <3>1. waiting \in Pid /\ proc' = [proc EXCEPT ![waiting].st = "reaped"] /\ UNCHANGED sigchld
      BY <2>4 DEF Resume, IInv, TypeOK
    <3>2. proc'[waiting].st = "reaped" /\ \A q \in Pid : q # waiting => proc'[q] = proc[q]
      BY <2>1, <3>1 DEF Process
    <3> QED BY <2>2, <3>1, <3>2
  <2>5. CASE Handler
    <3>1. \A q \in Pid : [proc[q] EXCEPT !.st = "reaped"].st = "reaped"
      BY <2>1 DEF Process
    <3> QED BY <2>5, <3>1 DEF Handler, ReapAll, Zombies, ZombiesAnnounced
  <2>6. ASSUME NEW q \in Pid, Child(q) PROVE ZombiesAnnounced'
    <3>1. CASE Write(q)
      <4>1. proc' = [proc EXCEPT ![q].left = proc[q].left - 1] /\ UNCHANGED sigchld
        BY <3>1 DEF Write
      <4>2. proc'[q].st = proc[q].st /\ \A x \in Pid : x # q => proc'[x] = proc[x]
        BY <2>1, <4>1 DEF Process
      <4> QED BY <2>2, <4>1, <4>2
    <3>2. CASE Read(q)
      BY <2>2, <3>2 DEF Read
    <3>3. CASE Exit(q)
      BY <3>3 DEF Exit, Die, ZombiesAnnounced
    <3> QED BY <2>6, <3>1, <3>2, <3>3 DEF Child
  <2>7. CASE UNCHANGED vars
    BY <2>2, <2>7 DEF vars
  <2> QED BY <2>3, <2>4, <2>5, <2>6, <2>7 DEF Next
<1> QED BY <1>1, <1>2, Invariance, PTL DEF Spec
=============================================================================
