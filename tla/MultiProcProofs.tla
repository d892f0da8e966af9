-------------------------- MODULE MultiProcProofs --------------------------
(***************************************************************************)
(* The processes of np_multi_proc over their unlocked table, for any       *)
(* number of slots and of processes: slots, names and buffers first, from  *)
(* what the program counters say (IInv), then the marks of the user pipes. *)
(* These are about two processes and a FIFO: a pipe goes through stages,   *)
(* and its marks and its ends agree in each of them (OnePipe).  The last   *)
(* part is about the pid that a signal is sent to (Signed).                *)
(***************************************************************************)
EXTENDS MultiProc, WellFoundedInduction, TLAPS

(* What the program counters say of the processes: which of them have a    *)
(* slot, have set their handlers, and own what their slot holds.           *)
Forked == \A p \in Proc : p > forked => pc[p] = "none"
Placed == \A p \in Proc : pc[p] \notin {"none", "scan"} \cup Dead => slot[p] \in Row
Armed == \A p \in Proc : pc[p] \in Serving \cup Leaving => p \in armed
Pids == \A j \in Row, p \in Proc : pid[j] = p => slot[p] = j /\ pc[p] \notin {"none", "scan"}
HasPid(p) == pid[slot[p]] = p \/ (Overrun /\ pid[slot[p]] = None)
Owners ==
  \A p \in Using \ clashed :
    /\ pc[p] # "pid" => HasPid(p)
    /\ LoggedIn(p) => taken[slot[p]]
    /\ \A q \in Using : slot[q] = slot[p] => q = p
Keeping(p) == pc[p] \in {"fill", "arm"} \cup Serving \cup Leaving \cup {"gone", "mute"}
Kept == \A i \in Row : taken[i] => \E p \in Proc : slot[p] = i /\ Keeping(p)
Control == Forked /\ Placed /\ Armed /\ Pids /\ Owners /\ Kept

(* What a command or a change of name is about.  The process of the slot   *)
(* after the table has no pipes.                                           *)
Jobs ==
  \A p \in Proc :
    /\ pc[p] \in {"name", "open"} \/ job[p].recv # "no" => job[p].from \in Slot
    /\ pc[p] \in {"mark", "mark2"} => job[p].to \in Slot
    /\ pc[p] = "rename" => job[p].nick \in Name
    /\ job[p].from # None \/ job[p].to # None =>
         slot[p] \in Slot /\ pc[p] \notin {"none", "scan"}

-----------------------------------------------------------------------------
(* The scans from the first slot on.                                       *)
LEMMA LowestNat ==
  ASSUME NEW S \in SUBSET Nat, S # {}
  PROVE  Lowest(S) \in S /\ \A j \in S : Lowest(S) <= j
<1> DEFINE Less == {p \in Nat \X Nat : p[1] < p[2]}
<1>1. S \in SUBSET Nat /\ IsWellFoundedOn(Less, Nat)
  BY NatLessThanWellFounded DEF OpToRel
<1>2. PICK m \in S : \A x \in S : <<x, m>> \notin Less
  <2> HIDE DEF Less
  <2> QED BY <1>1, WFMin
<1>3. ASSUME NEW x \in S PROVE m <= x
  <2>1. m \in Nat /\ x \in Nat /\ ~(x < m)
    <3>1. <<x, m>> \in Nat \X Nat => <<x, m>>[1] = x /\ <<x, m>>[2] = m
      OBVIOUS
    <3>2. m \in Nat /\ x \in Nat
      BY <1>1
    <3> QED BY <1>2, <3>1, <3>2
  <2> QED BY <2>1
<1> QED BY <1>3 DEF Lowest

LEMMA LowestIn ==
  ASSUME NEW S \in SUBSET Slot, S # {}
  PROVE  Lowest(S) \in S /\ \A j \in S : Lowest(S) <= j
  BY LowestNat DEF Slot

(* A newcomer always finds a slot: the one after the table is none that    *)
(* the table's ids speak of.                                               *)
LEMMA FreeSlot ==
  Lowest(FreeSlots) \in Row /\ (Lowest(FreeSlots) \in Slot => ~taken[Lowest(FreeSlots)])
<1>1. Past \in Row /\ Past \notin Slot /\ Row \subseteq Nat
  BY SizeAssumption DEF Past, Row, Slot
<1>2. Past \in FreeSlots /\ FreeSlots \in SUBSET Nat
  BY <1>1 DEF FreeSlots
<1>3. Lowest(FreeSlots) \in FreeSlots
  BY <1>2, LowestNat
<1> QED BY <1>3 DEF FreeSlots

(* The lowest of one slot is that slot.                                    *)
LEMMA LowestOne ==
  ASSUME NEW i \in Slot
  PROVE  Lowest({i}) = i
  BY LowestIn

-----------------------------------------------------------------------------
(* Types *)

Next3 == {"prompt", "clear", "fork", "clean"}

(* What the proofs use of the assumptions on the constants.                *)
LEMMA Consts ==
  /\ None \notin Row /\ None \notin Slot /\ None \notin Proc /\ Server \notin Proc
  /\ Slot \subseteq Nat /\ Proc \subseteq Nat
  /\ Slot \subseteq Row /\ Row = Slot \cup {Past} /\ Past \notin Slot
  BY SizeAssumption DEF None, Slot, Row, Past, Proc, Server

(* A process between two commands has a job too, the empty one.            *)
LEMMA NoJobType == NoJob \in Job
  BY DEF NoJob, Job

(* A change of one field of one job.                                       *)
LEMMA JobTypes ==
  ASSUME NEW f \in [Proc -> Job], NEW p \in Proc
  PROVE  /\ \A n \in Name : [f EXCEPT ![p].nick = n] \in [Proc -> Job]
         /\ \A r \in {"ok", "bad"} : [f EXCEPT ![p].recv = r] \in [Proc -> Job]
         /\ [f EXCEPT ![p].to = None] \in [Proc -> Job]
<1>1. f[p] \in Job
  OBVIOUS
<1>2. /\ \A n \in Name : [f[p] EXCEPT !.nick = n] \in Job
      /\ \A r \in {"ok", "bad"} : [f[p] EXCEPT !.recv = r] \in Job
      /\ [f[p] EXCEPT !.to = None] \in Job
  BY <1>1 DEF Job
<1>3. \A j \in Job : [f EXCEPT ![p] = j] \in [Proc -> Job]
  OBVIOUS
<1> QED BY <1>2, <1>3

(* Goto() and Broadcast() leave the other processes where they are.        *)
LEMMA GotoTypes ==
  ASSUME pc \in [Proc -> Place], NEW p \in Proc, NEW v \in Place, Goto(p, v)
  PROVE  /\ pc' \in [Proc -> Place] /\ pc'[p] = v
         /\ \A q \in Proc : q # p => pc'[q] = pc[q]
  BY DEF Goto

LEMMA BroadcastTypes ==
  ASSUME pc \in [Proc -> Place], todo \in [Proc -> SUBSET Slot], then \in [Proc -> Next3],
         NEW p \in Proc, NEW S \in SUBSET Slot, NEW v \in Next3, Broadcast(p, S, v)
  PROVE  /\ pc' \in [Proc -> Place] /\ pc'[p] = "cast"
         /\ todo' \in [Proc -> SUBSET Slot] /\ then' \in [Proc -> Next3] /\ then'[p] = v
         /\ \A q \in Proc : q # p => /\ pc'[q] = pc[q] /\ then'[q] = then[q]
                                     /\ todo'[q] = todo[q]
<1>1. "cast" \in Place
  BY DEF Place, Serving
<1> HIDE DEF Place, Next3
<1> QED BY <1>1 DEF Broadcast, Goto

(* The phases of a process are made of places of the program.              *)
LEMMA Places ==
  /\ Starting \subseteq Place /\ Serving \subseteq Place /\ Leaving \subseteq Place
  /\ {"none", "accept"} \cup Dead \subseteq Place /\ Next3 \subseteq Place
  BY DEF Place, Next3, Serving, Leaving

(* A process that is killed is dead.                                       *)
LEMMA KilledDead == \A p : Killed(p) \in Dead
  BY DEF Killed, Dead

(* Login.                                                                  *)
LEMMA LoginTypes ==
  ASSUME TypeOK, NEW p \in Proc,
         Connect(Server) \/ (\E a \in Proc : Connect(a)) \/ Scan(p) \/ SetPid(p) \/ SetId(p) \/ Fill(p) \/ Arm(p)
  PROVE  TypeOK'
<1> USE DEF TypeOK, table, fifos, mail
<1>1. ASSUME NEW a \in {Server} \cup Proc, Connect(a) PROVE TypeOK'
  <2>1. forked + 1 \in Proc /\ forked + 1 \in 0 .. MaxProc
    BY <1>1, SizeAssumption DEF Connect, Proc
  <2>2. pc' \in [Proc -> Place]
    BY <1>1, <2>1 DEF Connect, Goto, Place, Starting
  <2>3. armed' \subseteq Proc /\ forked' \in 0 .. MaxProc
    BY <1>1, <2>1 DEF Connect
  <2> QED BY <1>1, <2>2, <2>3 DEF Connect
<1>2. CASE Scan(p)
  <2>1. Lowest(FreeSlots) \in Row
    BY FreeSlot
  <2>3. slot' \in [Proc -> Row \cup {None}]
    BY <1>2, <2>1 DEF Scan
  <2>4. clashed' \subseteq Proc
    BY <1>2 DEF Scan, Using
  <2>5. pc' \in [Proc -> Place]
    BY <1>2 DEF Scan, Goto, Place, Starting
  <2> QED BY <1>2, <2>3, <2>4, <2>5 DEF Scan
<1>3. CASE SetPid(p)
  <2>1. pc' \in [Proc -> Place]
    BY <1>3 DEF SetPid, Goto, Place, Starting
  <2> QED BY <1>3, <2>1 DEF SetPid, NewPid
<1>4. CASE SetId(p)
  <2>1. pc' \in [Proc -> Place]
    BY <1>4 DEF SetId, Goto, Place, Starting
  <2> QED BY <1>4, <2>1 DEF SetId
<1>5. CASE Fill(p)
  <2>1. pc' \in [Proc -> Place]
    BY <1>5 DEF Fill, Goto, Place, Starting
  <2> QED BY <1>5, <2>1 DEF Fill
<1>6. CASE Arm(p)
  <2>1. /\ pc' \in [Proc -> Place] /\ todo' \in [Proc -> SUBSET Slot]
        /\ then' \in [Proc -> Next3]
    BY <1>6, BroadcastTypes DEF Arm, Next3
  <2> QED BY <1>6, <2>1 DEF Arm, Next3
<1> QED BY <1>1, <1>2, <1>3, <1>4, <1>5, <1>6

(* Messages, and commands without user pipes.                              *)
LEMMA MessageTypes ==
  ASSUME TypeOK, NEW p \in Proc,
         \/ Post(p) \/ Kill(p) \/ (\E k \in Kind : Handle(k, p))
         \/ Yell(p) \/ (\E j \in Slot : Tell(p, j)) \/ (\E n \in Name : ChooseName(p, n)) \/ Rename(p)
  PROVE  TypeOK'
<1> USE DEF TypeOK, table, fifos, mail
<1>1. CASE Post(p)
  <2>1. KindOf(p) \in Kind
    BY DEF KindOf, Kind
  <2>2. then[p] \in Place /\ "kill" \in Place
    BY Places DEF Next3, Serving
  <2>3. CASE todo[p] = {}
    <3>1. pc' \in [Proc -> Place]
      BY <1>1, <2>2, <2>3 DEF Post, Goto
    <3> QED BY <1>1, <2>3, <3>1 DEF Post
  <2>4. CASE todo[p] # {}
    <3>1. Lowest(todo[p]) \in Slot
      BY <2>4, LowestIn
    <3>2. pc' \in [Proc -> Place]
      BY <1>1, <2>2, <2>4 DEF Post, Goto
    <3>3. todo' \in [Proc -> SUBSET Slot]
      BY <1>1, <2>4 DEF Post
    <3>4. unseen' \subseteq Kind \X Slot
      BY <1>1, <2>1, <2>4, <3>1 DEF Post
    <3> QED BY <1>1, <3>2, <3>3, <3>4 DEF Post
  <2> QED BY <2>3, <2>4
<1>2. CASE Kill(p)
  <2>1. KindOf(p) \in Kind /\ "cast" \in Place /\ \A q : Killed(q) \in Place
    BY Places, KilledDead DEF KindOf, Kind, Serving
  <2>2. todo' \in [Proc -> SUBSET Slot]
    BY <1>2 DEF Kill
  <2>3. pending' \subseteq Kind \X Proc
    BY <1>2, <2>1 DEF Kill
  <2>4. pc' \in [Proc -> Place]
    BY <1>2, <2>1 DEF Kill
  <2>5. up' \in BOOLEAN
    BY <1>2 DEF Kill
  <2> QED BY <1>2, <2>2, <2>3, <2>4, <2>5 DEF Kill
<1>3. ASSUME NEW k \in Kind, Handle(k, p) PROVE TypeOK'
  BY <1>3 DEF Handle
<1>4. ASSUME Yell(p) \/ \E j \in Slot : Tell(p, j) PROVE TypeOK'
  <2>1. PICK S \in SUBSET Slot : Broadcast(p, S, "prompt")
    BY <1>4 DEF Yell, Tell
  <2>2. /\ pc' \in [Proc -> Place] /\ todo' \in [Proc -> SUBSET Slot]
        /\ then' \in [Proc -> Next3]
    BY <2>1, BroadcastTypes DEF Next3
  <2> QED BY <1>4, <2>2 DEF Yell, Tell, Next3
<1>5. ASSUME NEW n \in Name, ChooseName(p, n) PROVE TypeOK'
  <2>1. pc' \in [Proc -> Place]
    BY <1>5 DEF ChooseName, Goto, Place, Serving
  <2>2. job' \in [Proc -> Job]
    BY <1>5, JobTypes DEF ChooseName
  <2>3. raced' \subseteq Proc
    BY <1>5 DEF ChooseName
  <2> QED BY <1>5, <2>1, <2>2, <2>3 DEF ChooseName
<1>6. CASE Rename(p)
  <2>1. /\ pc' \in [Proc -> Place] /\ todo' \in [Proc -> SUBSET Slot]
        /\ then' \in [Proc -> Next3]
    BY <1>6, BroadcastTypes DEF Rename, Next3
  <2>2. name' \in [Row -> Name \cup {NoName}]
    BY <1>6 DEF Rename, Job
  <2>3. job' \in [Proc -> Job]
    BY <1>6, NoJobType DEF Rename
  <2> QED BY <1>6, <2>1, <2>2, <2>3 DEF Rename, Next3
<1> QED BY <1>1, <1>2, <1>3, <1>4, <1>5, <1>6

(* Commands with user pipes.                                               *)
Execs(p) ==
  \E from, to \in Slot \cup {None}, waits \in BOOLEAN : Exec(p, from, to, waits)

(* What a line with a user pipe does to the processes.                     *)
LEMMA ExecMoves ==
  ASSUME TypeOK, NEW p \in Proc, Execs(p)
  PROVE  /\ pc[p] = "prompt" /\ (Goto(p, "name") \/ Goto(p, "send"))
         /\ \A q \in Proc : q # p => job'[q] = job[q]
         /\ UNCHANGED <<taken, pid, name, writeTo, readFrom, up, forked, slot, todo, then, armed,
                       writers, readers, crossed, torn, pending, unseen, clashed, raced>>
  BY DEF TypeOK, Execs, Exec, table, fifos, mail

LEMMA ExecTypes ==
  ASSUME TypeOK, NEW p \in Proc, NEW from \in Slot \cup {None}, NEW to \in Slot \cup {None},
         NEW waits \in BOOLEAN, Exec(p, from, to, waits)
  PROVE  TypeOK'
<1> USE DEF TypeOK, table, fifos, mail
<1>1. pc' \in [Proc -> Place]
  <2>1. "name" \in Place /\ "send" \in Place
    BY Places DEF Serving
  <2> QED BY <2>1 DEF Exec, Goto
<1>2. job' \in [Proc -> Job]
  <2>1. PICK f \in {from, None} :
          job' = [job EXCEPT ![p] = [NoJob EXCEPT !.from = f, !.to = to, !.waits = waits]]
    BY DEF Exec
  <2>2. [NoJob EXCEPT !.from = f, !.to = to, !.waits = waits] \in Job
    BY <2>1 DEF NoJob, Job
  <2> QED BY <2>1, <2>2
<1> QED BY <1>1, <1>2 DEF Exec

LEMMA ReceiveTypes ==
  ASSUME TypeOK, Jobs, Placed, NEW p \in Proc, Execs(p) \/ Open(p) \/ Clear(p)
  PROVE  TypeOK'
<1> USE DEF TypeOK, table, fifos, mail
<1>1. CASE Execs(p)
  BY <1>1, ExecTypes DEF Execs
<1>2. CASE Open(p)
  <2>1. /\ pc' \in [Proc -> Place] /\ todo' \in [Proc -> SUBSET Slot]
        /\ then' \in [Proc -> Next3]
    BY <1>2, BroadcastTypes DEF Open, Next3
  <2>2. job[p].from \in Slot /\ slot[p] \in Slot
    BY <1>2, Consts DEF Open, Jobs
  <2>3. job' \in [Proc -> Job]
    BY <1>2, JobTypes DEF Open
  <2>4. writers' \subseteq Writer
    <3>1. Released(job[p].from, slot[p]) \subseteq Writer
      BY DEF Released, Writer
    <3> QED BY <1>2, <3>1 DEF Open
  <2>5. crossed' \subseteq Slot \X Slot
    BY <1>2, <2>2 DEF Open
  <2> QED BY <1>2, <2>1, <2>3, <2>4, <2>5 DEF Open, Next3
<1>3. CASE Clear(p)
  <2>1. pc' \in [Proc -> Place]
    BY <1>3 DEF Clear, Goto, Place, Serving
  <2> QED BY <1>3, <2>1 DEF Clear, ClearedMark
<1> QED BY <1>1, <1>2, <1>3

LEMMA NameFifoTypes ==
  ASSUME TypeOK, NEW p \in Proc, NameFifo(p)
  PROVE  TypeOK'
<1> USE DEF TypeOK, table, fifos, mail
<1>1. CASE taken[job[p].from]
  <2>1. pc' \in [Proc -> Place]
    BY <1>1 DEF NameFifo, Goto, Place, Serving
  <2> QED BY <1>1, <2>1 DEF NameFifo
<1>2. CASE ~taken[job[p].from]
  <2>1. /\ pc' \in [Proc -> Place] /\ todo' \in [Proc -> SUBSET Slot]
        /\ then' \in [Proc -> Next3]
    BY <1>2, BroadcastTypes DEF NameFifo, Next3
  <2>2. job' = [job EXCEPT ![p].recv = "bad"]
    BY <1>2 DEF NameFifo
  <2>3. job' \in [Proc -> Job]
    BY <2>2, JobTypes
  <2> QED BY <1>2, <2>1, <2>3 DEF NameFifo, Next3
<1> QED BY <1>1, <1>2

(* The later steps of a command keep the types.                            *)
LEMMA SendTypes ==
  ASSUME TypeOK, Jobs, Placed, NEW p \in Proc,
         Send(p) \/ Mark(p) \/ Mark2(p) \/ Fork(p) \/ Wait(p) \/ Unmark(p)
  PROVE  TypeOK'
<1> USE DEF TypeOK, table, fifos, mail
<1>1. CASE Send(p)
  <2>1. pc' \in [Proc -> Place]
    BY <1>1 DEF Send, Goto, Place, Serving
  <2>2. job' \in [Proc -> Job]
    <3>1. job' \in {job, [job EXCEPT ![p].to = None]}
      BY <1>1 DEF Send
    <3>2. [job EXCEPT ![p].to = None] \in [Proc -> Job]
      BY JobTypes
    <3> QED BY <3>1, <3>2
  <2> QED BY <1>1, <2>1, <2>2 DEF Send
<1>2. CASE Mark(p)
  <2>1. pc' \in [Proc -> Place]
    BY <1>2 DEF Mark, Goto, Place, Serving
  <2>2. writeTo' \subseteq Slot \X Slot
    BY <1>2, Consts DEF Mark, Jobs
  <2> QED BY <1>2, <2>1, <2>2 DEF Mark
<1>3. CASE Mark2(p)
  <2>1. /\ pc' \in [Proc -> Place] /\ todo' \in [Proc -> SUBSET Slot]
        /\ then' \in [Proc -> Next3]
    BY <1>3, BroadcastTypes DEF Mark2, Next3
  <2>2. readFrom' \subseteq Slot \X Slot
    BY <1>3, Consts DEF Mark2, Jobs
  <2> QED BY <1>3, <2>1, <2>2 DEF Mark2, Next3
<1>4. CASE Fork(p)
  <2>1. pc' \in [Proc -> Place]
    <3>1. "wait" \in Place /\ "unmark" \in Place
      BY Places DEF Serving
    <3> QED BY <1>4, <3>1 DEF Fork, Goto
  <2>2. writers' \subseteq Writer
    <3>1. job[p].to # None => [by |-> p, to |-> job[p].to, st |-> "new"] \in Writer
      BY DEF Job, Writer
    <3> QED BY <1>4, <3>1 DEF Fork
  <2>3. readers' \subseteq Reader
    <3>1. job[p].recv = "ok" =>
            [by |-> p, from |-> job[p].from, waited |-> job[p].waits] \in Reader
      BY DEF Jobs, Job, Reader
    <3> QED BY <1>4, <3>1 DEF Fork
  <2>4. job' \in [Proc -> Job]
    BY <1>4, JobTypes DEF Fork
  <2> QED BY <1>4, <2>1, <2>2, <2>3, <2>4 DEF Fork
<1>5. CASE Wait(p)
  <2>1. pc' \in [Proc -> Place]
    BY <1>5 DEF Wait, Goto, Place, Serving
  <2> QED BY <1>5, <2>1 DEF Wait
<1>6. CASE Unmark(p)
  <2>1. pc' \in [Proc -> Place]
    BY <1>6 DEF Unmark, Goto, Place, Serving
  <2>2. job' \in [Proc -> Job]
    BY <1>6, NoJobType DEF Unmark
  <2>3. readFrom' \subseteq Slot \X Slot
    BY <1>6 DEF Unmark, Unmarked
  <2> QED BY <1>6, <2>1, <2>2, <2>3 DEF Unmark
<1> QED BY <1>1, <1>2, <1>3, <1>4, <1>5, <1>6

(* The commands themselves.                                                *)
LEMMA FifoTypes ==
  ASSUME TypeOK, Jobs,
         \/ \E x \in writers : WriterOpens(x) \/ WriterEnds(x)
         \/ \E x \in readers : ReaderEnds(x)
  PROVE  TypeOK'
<1> USE DEF TypeOK, table, fifos, mail
<1>1. ASSUME NEW x \in writers, WriterOpens(x) PROVE TypeOK'
  <2>1. x \in Writer
    OBVIOUS
  <2>2. [x EXCEPT !.st = "writing"] \in Writer /\ [x EXCEPT !.st = "waiting"] \in Writer
    BY <2>1 DEF Writer
  <2>3. writers' \subseteq Writer
    BY <1>1, <2>2 DEF WriterOpens
  <2>4. HasReader(slot[x.by], x.to) => slot[x.by] \in Slot
    BY DEF HasReader, Running, Jobs, Reader
  <2>5. crossed' \subseteq Slot \X Slot
    <3>1. x.to \in Slot
      BY <2>1 DEF Writer
    <3> QED BY <1>1, <2>4, <3>1 DEF WriterOpens
  <2> QED BY <1>1, <2>3, <2>5 DEF WriterOpens
<1>2. ASSUME NEW x \in writers, WriterEnds(x) PROVE TypeOK'
  BY <1>2 DEF WriterEnds
<1>3. ASSUME NEW x \in readers, ReaderEnds(x) PROVE TypeOK'
  BY <1>3 DEF ReaderEnds
<1> QED BY <1>1, <1>2, <1>3

(* Logout.                                                                 *)
LEMMA LogoutTypes ==
  ASSUME TypeOK, NEW p \in Proc, Leave(p) \/ Clean(p) \/ HangUp(p) \/ Vanish(p) \/ Wipe(p)
  PROVE  TypeOK'
<1> USE DEF TypeOK, table, fifos, mail
<1>1. CASE Leave(p)
  <2>1. /\ pc' \in [Proc -> Place] /\ todo' \in [Proc -> SUBSET Slot]
        /\ then' \in [Proc -> Next3]
    BY <1>1, BroadcastTypes DEF Leave, Next3
  <2>2. taken' \in [Row -> BOOLEAN]
    BY <1>1 DEF Leave
  <2> QED BY <1>1, <2>1, <2>2 DEF Leave, Next3
<1>2. CASE Clean(p)
  <2>1. pc' \in [Proc -> Place]
    BY <1>2 DEF Clean, Goto, Place, Leaving
  <2>2. pid' \in [Row -> Proc \cup {None}]
    BY <1>2 DEF Clean
  <2> QED BY <1>2, <2>1, <2>2 DEF Clean
<1>3. CASE HangUp(p)
  <2>1. pc' \in [Proc -> Place]
    BY <1>3 DEF HangUp, Goto, Place, Leaving
  <2> QED BY <1>3, <2>1 DEF HangUp
<1>4. CASE Wipe(p)
  <2>1. pc' \in [Proc -> Place]
    BY <1>4 DEF Wipe, Goto, Place
  <2> QED BY <1>4, <2>1 DEF Wipe, FreedSlot
<1>5. CASE Vanish(p)
  <2>1. pc' \in [Proc -> Place]
    BY <1>5, Places, KilledDead DEF Vanish, Goto
  <2> QED BY <1>5, <2>1 DEF Vanish
<1> QED BY <1>1, <1>2, <1>3, <1>4, <1>5

(* Every step keeps the types.                                             *)
LEMMA TypeStep == TypeOK /\ Jobs /\ Placed /\ [Next]_vars => TypeOK'
<1> SUFFICES ASSUME TypeOK, Jobs, Placed, [Next]_vars PROVE TypeOK'
  OBVIOUS
<1>1. ASSUME NEW a \in {Server} \cup Proc, Connect(a) PROVE TypeOK'
  <2>1. MaxProc # 0
    BY <1>1, SizeAssumption DEF Connect, TypeOK
  <2>2. 1 \in Proc
    BY <2>1, SizeAssumption DEF Proc
  <2> QED BY <1>1, <2>2, LoginTypes
<1>2. ASSUME NEW p \in Proc, Step(p) PROVE TypeOK'
  BY <1>2, LoginTypes, MessageTypes, ReceiveTypes, NameFifoTypes, SendTypes, LogoutTypes DEF Step
<1>3. ASSUME NEW p \in Proc, Client(p) PROVE TypeOK'
  BY <1>3, MessageTypes, ReceiveTypes, LogoutTypes DEF Client, Execs
<1>4. ASSUME NEW p \in Proc, NEW k \in Kind, Handle(k, p) PROVE TypeOK'
  BY <1>4, MessageTypes
<1>5. ASSUME \/ \E x \in writers : WriterOpens(x) \/ WriterEnds(x)
             \/ \E x \in readers : ReaderEnds(x)
      PROVE  TypeOK'
  BY <1>5, FifoTypes
<1>6. CASE UNCHANGED vars
  BY <1>6 DEF vars, table, fifos, mail, TypeOK
<1> QED BY <1>1, <1>2, <1>3, <1>4, <1>5, <1>6 DEF Next

-----------------------------------------------------------------------------
(* Steps that change the state of one process and of no slot *)

(* The other processes stay as they are.                                   *)
Local(p) ==
  \A q \in Proc : q # p => /\ pc'[q] = pc[q] /\ then'[q] = then[q] /\ todo'[q] = todo[q]
                           /\ job'[q] = job[q] /\ slot'[q] = slot[q]

(* The process stays with its slot, and does not become a client's.        *)
Quiet(p) ==
  /\ pc[p] \in {"fill", "arm", "clean"} \cup Serving
  /\ pc'[p] \in {"fill", "arm"} \cup Serving \cup Leaving
  /\ LoggedIn(p)' => LoggedIn(p)
  /\ pc'[p] \in Serving \cup Leaving => p \in armed'
  /\ armed \subseteq armed'
  /\ \A j \in Row : pid'[j] = pid[j] \/ (pid'[j] = None /\ Overrun')
  /\ UNCHANGED <<taken, forked, slot, clashed>>

(* The two ways of finding the FIFO's name.                                *)
NameFound(p) == NameFifo(p) /\ taken[job[p].from]
NameLost(p) == NameFifo(p) /\ ~taken[job[p].from]

(* Once lost, pids may be lost for good: the slot after the table is not   *)
(* given back, and who has had it keeps it in mind.                        *)
LEMMA OverrunKept ==
  ASSUME NEW p \in Proc,
         \A q \in Proc \ {p} : (pc'[q] = pc[q] \/ pc'[q] \in Dead) /\ slot'[q] = slot[q],
         \/ pc[p] \notin {"wipe", "accept"} \cup Dead
         \/ pc'[p] \in {"accept"} \cup Dead /\ slot'[p] = slot[p]
  PROVE  Overrun => Overrun'
<1> SUFFICES ASSUME NEW q \in Proc, slot[q] = Past, pc[q] \in {"wipe", "accept"} \cup Dead
             PROVE  Overrun'
  BY DEF Overrun
<1>1. pc'[q] \in {"wipe", "accept"} \cup Dead /\ slot'[q] = slot[q]
  BY DEF Dead
<1>2. Past' = Past
  BY DEF Past
<1> QED BY <1>1, <1>2 DEF Overrun

(* The loop of a broadcast, and what ends with one.                        *)
LEMMA CastMoves ==
  ASSUME TypeOK, NEW p \in Proc, NEW S \in SUBSET Slot, NEW v \in Next3, Broadcast(p, S, v)
  PROVE  /\ pc'[p] = "cast" /\ then'[p] = v
         /\ \A q \in Proc : q # p => /\ pc'[q] = pc[q] /\ then'[q] = then[q]
                                     /\ todo'[q] = todo[q]
  BY BroadcastTypes DEF TypeOK, Next3

(* How a step moves its own process and no other.                          *)
LEMMA GotoMoves ==
  ASSUME TypeOK, NEW p \in Proc, NEW v, Goto(p, v)
  PROVE  pc'[p] = v /\ \A q \in Proc : q # p => pc'[q] = pc[q]
  BY DEF TypeOK, Goto

(* Steps of one process about itself: no slot, pid or other process        *)
(* changes.                                                                *)
LEMMA CastQuiet ==
  ASSUME TypeOK, Armed, NEW p \in Proc,
         \/ Arm(p) \/ Yell(p) \/ (\E j \in Slot : Tell(p, j)) \/ Rename(p)
         \/ NameLost(p) \/ Open(p) \/ Mark2(p)
  PROVE  /\ Local(p) /\ Quiet(p)
         /\ pc[p] \notin {"fill", "kill"} /\ pc'[p] \notin {"kill", "rename"}
         /\ UNCHANGED <<pid, pending, unseen>>
<1>1. PICK S \in SUBSET Slot, v \in {"prompt", "clear", "fork"} : Broadcast(p, S, v)
  BY DEF Arm, Yell, Tell, Rename, NameLost, NameFifo, Open, Mark2
<1>2. /\ pc'[p] = "cast" /\ then'[p] = v
      /\ \A q \in Proc : q # p => /\ pc'[q] = pc[q] /\ then'[q] = then[q]
                                  /\ todo'[q] = todo[q]
  BY <1>1, CastMoves DEF Next3
<1>3. /\ pc[p] \in {"arm", "prompt", "rename", "name", "open", "mark2"}
      /\ UNCHANGED <<taken, pid, forked, slot, clashed, pending, unseen>>
  BY DEF Arm, Yell, Tell, Rename, NameLost, NameFifo, Open, Mark2, table, mail
<1>4. \A q \in Proc : q # p => job'[q] = job[q]
  BY DEF TypeOK, Arm, Yell, Tell, Rename, NameLost, NameFifo, Open, Mark2
<1>5. armed' = armed \cup {p}
  <2>1. CASE Arm(p)
    BY <2>1 DEF Arm
  <2>2. CASE ~Arm(p)
    <3>1. p \in armed
      BY <2>2 DEF Yell, Tell, Rename, NameLost, NameFifo, Open, Mark2, Armed, Serving
    <3> QED BY <2>2, <3>1 DEF Yell, Tell, Rename, NameLost, NameFifo, Open, Mark2
  <2> QED BY <2>1, <2>2
<1>6. LoggedIn(p)
  BY <1>3 DEF LoggedIn, Serving, Casting
<1>7. Local(p)
  BY <1>2, <1>3, <1>4 DEF Local
<1>8. Quiet(p)
  BY <1>2, <1>3, <1>5, <1>6 DEF Quiet, Serving
<1> QED BY <1>2, <1>3, <1>7, <1>8

(* So are these.                                                           *)
LEMMA GotoQuiet ==
  ASSUME TypeOK, Armed, NEW p \in Proc,
         \/ Fill(p) \/ NameFound(p) \/ Clear(p) \/ Send(p) \/ Mark(p) \/ Fork(p) \/ Wait(p)
         \/ Unmark(p) \/ HangUp(p) \/ Clean(p) \/ (\E n \in Name : ChooseName(p, n))
         \/ Execs(p)
  PROVE  /\ Local(p) /\ Quiet(p)
         /\ pc[p] # "kill" /\ pc'[p] # "kill"
         /\ pc[p] = "fill" => Fill(p)
         /\ pc'[p] = "rename" => \E n \in Name : ChooseName(p, n)
         /\ UNCHANGED <<pending, unseen>>
<1> DEFINE Froms == {"fill", "name", "clear", "send", "mark", "fork", "wait", "unmark", "prompt",
                     "clean"}
           Tos == {"arm", "name", "open", "send", "mark", "mark2", "fork", "wait", "unmark",
                   "prompt", "wipe"}
<1>1. PICK v \in Tos \cup {"rename"} : Goto(p, v)
  <2>1. CASE Execs(p)
    <3>1. Goto(p, "name") \/ Goto(p, "send")
      BY <2>1, ExecMoves
    <3> QED BY <3>1
  <2>2. CASE \E n \in Name : ChooseName(p, n)
    BY <2>2 DEF ChooseName
  <2>3. CASE Send(p)
    <3>1. Goto(p, "mark") \/ Goto(p, "fork")
      BY <2>3 DEF Send
    <3> QED BY <3>1
  <2>4. CASE Fork(p)
    <3>1. Goto(p, "wait") \/ Goto(p, "unmark")
      BY <2>4 DEF Fork
    <3> QED BY <3>1
  <2>5. CASE Fill(p) \/ Clear(p) \/ Mark(p) \/ Wait(p) \/ Unmark(p) \/ HangUp(p) \/ Clean(p)
    BY <2>5 DEF Fill, Clear, Mark, Wait, Unmark, HangUp, Clean
  <2>6. CASE NameFound(p)
    BY <2>6 DEF NameFound, NameFifo
  <2> QED BY <2>1, <2>2, <2>3, <2>4, <2>5, <2>6
<1>2. pc'[p] = v /\ \A q \in Proc : q # p => pc'[q] = pc[q]
  BY <1>1, GotoMoves
<1>3. /\ UNCHANGED <<taken, forked, slot, clashed, pending, unseen, then, todo, armed>>
      /\ \A q \in Proc : q # p => job'[q] = job[q]
  <2>1. CASE Execs(p)
    BY <2>1, ExecMoves
  <2>2. CASE ~Execs(p)
    BY <2>2 DEF TypeOK, Fill, NameFound, NameFifo, Clear, Send, Mark, Fork, Wait, Unmark, HangUp, Clean, ChooseName, table, mail
  <2> QED BY <2>1, <2>2
<1>4. pc[p] \in Froms
  <2>1. CASE Execs(p)
    BY <2>1, ExecMoves
  <2>2. CASE ~Execs(p)
    BY <2>2 DEF Fill, NameFound, NameFifo, Clear, Send, Mark, Fork, Wait, Unmark, HangUp, Clean, ChooseName
  <2> QED BY <2>1, <2>2
<1>5. pc[p] = "fill" => Fill(p)
  <2>1. CASE Execs(p)
    BY <2>1, ExecMoves
  <2>2. CASE ~Execs(p)
    BY <2>2 DEF NameFound, NameFifo, Clear, Send, Mark, Fork, Wait, Unmark, HangUp, Clean, ChooseName
  <2> QED BY <2>1, <2>2
<1>6. LoggedIn(p)' => LoggedIn(p)
  <2>1. CASE pc[p] = "clean"
    <3>1. Clean(p)
      <4>1. CASE Execs(p)
        BY <2>1, <4>1, ExecMoves
      <4>2. CASE ~Execs(p)
        BY <2>1, <4>2 DEF Fill, NameFound, NameFifo, Clear, Send, Mark, Fork, Wait, Unmark, HangUp, Clean, ChooseName
      <4> QED BY <4>1, <4>2
    <3>2. pc'[p] = "wipe"
      BY <3>1, GotoMoves DEF Clean
    <3> QED BY <3>2 DEF LoggedIn, Serving
  <2>2. CASE pc[p] # "clean"
    BY <1>4, <2>2 DEF LoggedIn, Serving, Casting
  <2> QED BY <2>1, <2>2
<1>7. pc'[p] \in Serving \cup Leaving => p \in armed'
  <2>1. CASE pc[p] = "fill"
    <3>1. pc'[p] = "arm"
      BY <1>5, <2>1, GotoMoves DEF Fill
    <3> QED BY <3>1 DEF Serving, Leaving
  <2>2. CASE pc[p] # "fill"
    BY <1>3, <1>4, <2>2 DEF Armed, Serving, Leaving
  <2> QED BY <2>1, <2>2
<1>8. Local(p)
  BY <1>2, <1>3 DEF Local
<1>9. Quiet(p)
  <2>1. ASSUME NEW j \in Row PROVE pid'[j] = pid[j] \/ (pid'[j] = None /\ Overrun')
    <3>1. CASE Clean(p)
      <4>1. pc'[p] = "wipe" /\ slot'[p] = slot[p] /\ Past' = Past
        BY <3>1, GotoMoves DEF Clean, Past
      <4>2. slot[p] = Past => Overrun'
        BY <4>1 DEF Overrun
      <4>3. slot[p] # Past => pid' = pid
        BY <3>1 DEF Clean
      <4>4. slot[p] = Past => pid'[j] \in {pid[j], None}
        BY <3>1 DEF Clean
      <4> QED BY <4>2, <4>3, <4>4
    <3>2. CASE Execs(p)
      BY <3>2, ExecMoves
    <3>3. CASE ~Clean(p) /\ ~Execs(p)
      BY <3>3 DEF Fill, NameFound, NameFifo, Clear, Send, Mark, Fork, Wait, Unmark, HangUp, ChooseName, table
    <3> QED BY <3>1, <3>2, <3>3
  <2> QED BY <2>1, <1>2, <1>3, <1>4, <1>6, <1>7 DEF Quiet, Serving, Leaving
<1>10. pc'[p] = "rename" => \E n \in Name : ChooseName(p, n)
  <2> SUFFICES ASSUME pc'[p] = "rename", ~\E n \in Name : ChooseName(p, n) PROVE FALSE
    OBVIOUS
  <2>1. CASE Execs(p)
    <3>1. Goto(p, "name") \/ Goto(p, "send")
      BY <2>1, ExecMoves
    <3> QED BY <3>1, GotoMoves
  <2>2. CASE Send(p)
    <3>1. Goto(p, "mark") \/ Goto(p, "fork")
      BY <2>2 DEF Send
    <3> QED BY <3>1, GotoMoves
  <2>3. CASE Fork(p)
    <3>1. Goto(p, "wait") \/ Goto(p, "unmark")
      BY <2>3 DEF Fork
    <3> QED BY <3>1, GotoMoves
  <2>4. CASE Fill(p) \/ Clear(p) \/ Mark(p) \/ Wait(p) \/ Unmark(p) \/ HangUp(p) \/ Clean(p)
    BY <2>4, GotoMoves DEF Fill, Clear, Mark, Wait, Unmark, HangUp, Clean
  <2>5. CASE NameFound(p)
    BY <2>5, GotoMoves DEF NameFound, NameFifo
  <2> QED BY <2>1, <2>2, <2>3, <2>4, <2>5
<1> QED BY <1>2, <1>3, <1>4, <1>5, <1>8, <1>9, <1>10

(* Posting is quiet too; so is killing a process that has its handlers.    *)
LEMMA PostQuiet ==
  ASSUME TypeOK, Armed, NEW p \in Proc, Post(p)
  PROVE  /\ Quiet(p) /\ pc[p] = "cast" /\ pc'[p] \in {"cast", "kill"} \cup Next3
         /\ \A q \in Proc : q # p => pc'[q] = pc[q] /\ todo'[q] = todo[q]
         /\ UNCHANGED <<pid, then, job, slot>>
<1>1. /\ pc[p] = "cast" /\ UNCHANGED <<taken, pid, forked, slot, clashed, then, armed, job>>
      /\ pc' = pc \/ Goto(p, then[p]) \/ Goto(p, "kill")
  BY DEF Post, table
<1>2. /\ pc'[p] \in {"cast", then[p], "kill"}
      /\ \A q \in Proc : q # p => pc'[q] = pc[q]
  BY <1>1, GotoMoves
<1>3. then[p] \in Next3
  BY DEF TypeOK, Next3
<1>4. \A q \in Proc : q # p => todo'[q] = todo[q]
  BY DEF TypeOK, Post
<1>5. p \in armed
  BY <1>1 DEF Armed, Serving
<1>6. LoggedIn(p)' => LoggedIn(p)
  BY <1>1, <1>2, <1>3 DEF LoggedIn, Casting, Next3, Serving
<1>7. Quiet(p)
  BY <1>1, <1>2, <1>3, <1>5, <1>6 DEF Quiet, Next3, Serving, Leaving
<1> QED BY <1>1, <1>2, <1>3, <1>4, <1>7

(* What such a step leaves of the control invariant: all of it.            *)
LEMMA QuietControl ==
  ASSUME Control, NEW p \in Proc, Quiet(p),
         \A q \in Proc : q # p => pc'[q] = pc[q] /\ then'[q] = then[q]
  PROVE  Control' /\ (Overrun => Overrun')
<1>1. /\ pc[p] \notin {"none", "scan", "pid", "accept", "wipe"} \cup Dead
      /\ pc'[p] \notin {"none", "scan", "pid", "accept"} \cup Dead
      /\ p \in Using /\ p \in Using'
  BY DEF Quiet, Using, Starting, Serving, Leaving, Dead
<1>2. UNCHANGED <<taken, forked, slot, clashed>>
  BY DEF Quiet
<1>a. Overrun => Overrun'
  BY <1>1, <1>2, OverrunKept
<1>b. Row' = Row /\ Dead' = Dead
  BY DEF Row, Dead, Past
<1>3. Using' = Using
  BY <1>1 DEF Using
<1>4. Forked'
  BY <1>1, <1>2 DEF Control, Forked
<1>5. Placed'
  BY <1>1, <1>2 DEF Control, Placed
<1>6. Armed'
  BY DEF Control, Armed, Quiet
<1>7. Pids'
  <2> SUFFICES ASSUME NEW j \in Row, NEW q \in Proc, pid'[j] = q
               PROVE  slot[q] = j /\ pc'[q] \notin {"none", "scan"}
    BY <1>2 DEF Pids
  <2>1. pid[j] = q
    BY Consts DEF Quiet
  <2> QED BY <1>1, <2>1 DEF Control, Pids
<1>8. Owners'
  <2>1. \A q \in Proc : LoggedIn(q)' => LoggedIn(q)
    <3> TAKE q \in Proc
    <3>1. CASE q = p
      BY <3>1 DEF Quiet
    <3>2. CASE q # p
      BY <3>2 DEF LoggedIn, Casting
    <3> QED BY <3>1, <3>2
  <2>2. Using \subseteq Proc
    BY DEF Using
  <2> SUFFICES ASSUME NEW r \in Using \ clashed
               PROVE  /\ pc'[r] # "pid" => HasPid(r)'
                      /\ LoggedIn(r)' => taken[slot[r]]
                      /\ \A q \in Using : slot[q] = slot[r] => q = r
    BY <1>2, <1>3 DEF Owners
  <2>3. pc'[r] # "pid" => pc[r] # "pid"
    BY <1>1, <2>2
  <2>4. slot[r] \in Row
    BY <2>2 DEF Control, Placed, Using, Starting, Serving, Leaving, Dead
  <2>5. HasPid(r) => HasPid(r)'
    BY <1>2, <1>a, <2>4 DEF HasPid, Quiet
  <2> QED BY <2>1, <2>2, <2>3, <2>5 DEF Control, Owners
<1>9. Kept'
  <2> SUFFICES ASSUME NEW i \in Row, taken[i]
               PROVE  \E r \in Proc : slot[r] = i /\ Keeping(r)'
    BY <1>2 DEF Kept
  <2>1. PICK r \in Proc : slot[r] = i /\ Keeping(r)
    BY DEF Control, Kept
  <2>2. Keeping(r)'
    BY <2>1 DEF Keeping, Quiet
  <2> QED BY <2>1, <2>2
<1> QED BY <1>4, <1>5, <1>6, <1>7, <1>8, <1>9, <1>a DEF Control

(* A step that changes no process.                                         *)
LEMMA StillControl ==
  ASSUME Control, UNCHANGED <<pc, then, armed, taken, pid, forked, slot, clashed>>
  PROVE  Control' /\ (Overrun => Overrun')
<1>1. Overrun' <=> Overrun
  BY DEF Overrun, Past
<1>2. \A p \in Proc : HasPid(p)' <=> HasPid(p)
  BY <1>1 DEF HasPid
<1>3. Owners'
  BY <1>2 DEF Control, Owners, Using, LoggedIn, Casting
<1>4. Kept'
  BY DEF Control, Kept, Keeping
<1>5. Forked' /\ Placed' /\ Armed' /\ Pids'
  BY DEF Control, Forked, Placed, Armed, Pids
<1> QED BY <1>1, <1>3, <1>4, <1>5 DEF Control

-----------------------------------------------------------------------------
(* Steps that change the ownership of a slot *)

(* A new process has no slot yet.                                          *)
LEMMA ConnectControl ==
  ASSUME TypeOK, Control, NEW a \in {Server} \cup Proc, Connect(a)
  PROVE  Control' /\ (Overrun => Overrun')
<1> DEFINE p == forked + 1
<1>1. /\ p \in Proc /\ forked' = p /\ Goto(p, "scan") /\ armed \subseteq armed'
      /\ UNCHANGED <<taken, pid, slot, clashed, then>>
  <2>1. forked < MaxProc /\ forked \in 0 .. MaxProc
    BY DEF Connect, TypeOK
  <2>2. p \in Proc
    BY <2>1, SizeAssumption DEF Proc
  <2> QED BY <2>2 DEF Connect, table
<1>2. pc'[p] = "scan" /\ \A q \in Proc : q # p => pc'[q] = pc[q]
  BY <1>1, GotoMoves
<1>3. pc[p] = "none"
  <2>1. p > forked
    BY DEF TypeOK
  <2> QED BY <1>1, <2>1 DEF Control, Forked
<1>4. \A q \in Proc : q > p => q > forked
  BY Consts DEF TypeOK
<1> HIDE DEF p
<1>5. Using' = Using /\ p \notin Using
  BY <1>1, <1>2, <1>3 DEF Using, Starting, Serving, Leaving
<1>6. Forked'
  <2> SUFFICES ASSUME NEW q \in Proc, q > p PROVE pc'[q] = "none"
    BY <1>1 DEF Forked
  <2>1. q # p
    BY Consts, <1>1
  <2> QED BY <1>2, <1>4, <2>1 DEF Control, Forked
<1>7. Placed'
  BY <1>1, <1>2 DEF Control, Placed
<1>8. Armed'
  <2> SUFFICES ASSUME NEW q \in Proc, pc'[q] \in Serving \cup Leaving PROVE q \in armed'
    BY DEF Armed
  <2>1. q # p
    BY <1>2 DEF Serving, Leaving
  <2> QED BY <1>1, <1>2, <2>1 DEF Control, Armed
<1>9. Pids'
  BY <1>1, <1>2, <1>3 DEF Control, Pids
<1>12. Overrun => Overrun'
  BY <1>1, <1>2, <1>3, OverrunKept DEF Dead
<1>10. Owners'
  <2> SUFFICES ASSUME NEW r \in Using \ clashed
               PROVE  /\ pc'[r] # "pid" => HasPid(r)'
                      /\ LoggedIn(r)' => taken[slot[r]]
                      /\ \A q \in Using : slot[q] = slot[r] => q = r
    BY <1>1, <1>5 DEF Owners
  <2>1. r \in Proc /\ r # p
    BY <1>5 DEF Using
  <2>2. pc'[r] = pc[r] /\ (LoggedIn(r)' <=> LoggedIn(r))
    BY <1>1, <1>2, <2>1 DEF LoggedIn, Casting
  <2>3. HasPid(r) => HasPid(r)'
    BY <1>1, <1>12 DEF HasPid
  <2> QED BY <2>2, <2>3 DEF Control, Owners
<1>11. Kept'
  <2> SUFFICES ASSUME NEW i \in Row, taken[i]
               PROVE  \E r \in Proc : slot[r] = i /\ Keeping(r)'
    BY <1>1 DEF Kept
  <2>1. PICK r \in Proc : slot[r] = i /\ Keeping(r)
    BY DEF Control, Kept
  <2>2. Keeping(r)'
    BY <1>2, <1>3, <2>1 DEF Keeping, Serving, Leaving
  <2> QED BY <2>1, <2>2
<1> QED BY <1>6, <1>7, <1>8, <1>9, <1>10, <1>11, <1>12 DEF Control

(* Two processes that find the same slot have clashed.                     *)
LEMMA ScanControl ==
  ASSUME TypeOK, Control, NEW p \in Proc, Scan(p)
  PROVE  Control' /\ (Overrun => Overrun')
<1> DEFINE i == Lowest(FreeSlots)
           others == {q \in Using : slot[q] = i}
<1>1. /\ pc[p] = "scan" /\ slot' = [slot EXCEPT ![p] = i]
      /\ clashed' = IF others = {} THEN clashed ELSE clashed \cup others \cup {p}
      /\ Goto(p, "pid") /\ UNCHANGED <<taken, pid, forked, then, armed>>
  BY DEF Scan, table
<1>2. i \in Row
  BY FreeSlot
<1>3. pc'[p] = "pid" /\ \A q \in Proc : q # p => pc'[q] = pc[q]
  BY <1>1, GotoMoves
<1> HIDE DEF i
<1>4. slot'[p] = i /\ \A q \in Proc : q # p => slot'[q] = slot[q]
  BY <1>1 DEF TypeOK
<1>13. Overrun => Overrun'
  BY <1>1, <1>3, <1>4, OverrunKept DEF Dead
<1>5. Using' = Using \cup {p} /\ p \notin Using
  BY <1>1, <1>3 DEF Using, Starting, Serving, Leaving
<1>6. clashed \subseteq clashed'
  BY <1>1
<1>7. Forked'
  BY <1>1, <1>3 DEF Control, Forked
<1>8. Placed'
  BY <1>2, <1>3, <1>4 DEF Control, Placed
<1>9. Armed'
  <2> SUFFICES ASSUME NEW q \in Proc, pc'[q] \in Serving \cup Leaving PROVE q \in armed'
    BY DEF Armed
  <2>1. q # p
    BY <1>3 DEF Serving, Leaving
  <2> QED BY <1>1, <1>3, <2>1 DEF Control, Armed
<1>10. Pids'
  BY <1>1, <1>3, <1>4 DEF Control, Pids
<1>11. Owners'
  <2>1. \A q \in Using : q \in Proc /\ q # p
    BY <1>5 DEF Using
  <2> SUFFICES ASSUME NEW r \in (Using \cup {p}) \ clashed'
               PROVE  /\ pc'[r] # "pid" => HasPid(r)'
                      /\ LoggedIn(r)' => taken[slot'[r]]
                      /\ \A q \in Using \cup {p} : slot'[q] = slot'[r] => q = r
    BY <1>1, <1>5 DEF Owners
  <2>2. CASE r = p
    <3>1. others = {}
      BY <1>1, <2>2
    <3>2. \A q \in Using : slot'[q] # i
      BY <1>4, <2>1, <3>1
    <3>3. ~LoggedIn(p)'
      BY <1>3 DEF LoggedIn, Serving
    <3> QED BY <1>3, <1>4, <2>2, <3>2, <3>3
  <2>3. CASE r # p
    <3>1. r \in Using /\ r \notin clashed /\ slot'[r] = slot[r] /\ pc'[r] = pc[r]
      BY <1>3, <1>4, <1>6, <2>1, <2>3
    <3>2. LoggedIn(r)' <=> LoggedIn(r)
      BY <1>1, <3>1 DEF LoggedIn, Casting
    <3>3. slot[r] # i
      BY <1>1, <3>1
    <3>4. \A q \in Using : slot'[q] = slot'[r] => q = r
      BY <1>4, <2>1, <3>1 DEF Control, Owners
    <3>5. HasPid(r) => HasPid(r)'
      BY <1>1, <1>13, <3>1 DEF HasPid
    <3> QED BY <1>4, <3>1, <3>2, <3>3, <3>4, <3>5 DEF Control, Owners
  <2> QED BY <2>2, <2>3
<1>12. Kept'
  <2> SUFFICES ASSUME NEW j \in Row, taken[j]
               PROVE  \E r \in Proc : slot'[r] = j /\ Keeping(r)'
    BY <1>1 DEF Kept
  <2>1. PICK r \in Proc : slot[r] = j /\ Keeping(r)
    BY DEF Control, Kept
  <2>2. r # p
    BY <1>1, <2>1 DEF Keeping, Serving, Leaving
  <2> QED BY <1>3, <1>4, <2>1, <2>2 DEF Keeping
<1> QED BY <1>7, <1>8, <1>9, <1>10, <1>11, <1>12, <1>13 DEF Control

(* The slot gets its process's pid, then its id.                           *)
LEMMA SetPidControl ==
  ASSUME TypeOK, Control, NEW p \in Proc, SetPid(p)
  PROVE  Control' /\ (Overrun => Overrun')
<1>1. /\ pc[p] = "pid" /\ Goto(p, "id")
      /\ UNCHANGED <<taken, forked, slot, clashed, then, armed>>
      /\ pid' = [pid EXCEPT ![slot[p]] = p]
  BY DEF SetPid, NewPid
<1>2. pc'[p] = "id" /\ \A q \in Proc : q # p => pc'[q] = pc[q]
  BY <1>1, GotoMoves
<1>3. Using' = Using /\ p \in Using
  BY <1>1, <1>2 DEF Using, Starting, Serving, Leaving
<1>4. slot[p] \in Row
  BY <1>1 DEF Control, Placed, Dead
<1>12. Overrun => Overrun'
  BY <1>1, <1>2, OverrunKept DEF Dead
<1>5. /\ pid'[slot[p]] = p
      /\ \A j \in Row : j # slot[p] => pid'[j] = pid[j]
  BY <1>1, <1>4 DEF TypeOK
<1>6. Forked'
  BY <1>1, <1>2 DEF Control, Forked
<1>7. Placed'
  BY <1>1, <1>2 DEF Control, Placed, Dead
<1>8. Armed'
  <2> SUFFICES ASSUME NEW q \in Proc, pc'[q] \in Serving \cup Leaving PROVE q \in armed'
    BY DEF Armed
  <2>1. q # p
    BY <1>2 DEF Serving, Leaving
  <2> QED BY <1>1, <1>2, <2>1 DEF Control, Armed
<1>9. Pids'
  <2> SUFFICES ASSUME NEW j \in Row, NEW q \in Proc, pid'[j] = q
               PROVE  slot[q] = j /\ pc'[q] \notin {"none", "scan"}
    BY <1>1 DEF Pids
  <2>1. CASE j = slot[p]
    BY <1>2, <1>5, <2>1
  <2>2. CASE j # slot[p]
    BY <1>2, <1>5, <2>2 DEF Control, Pids
  <2> QED BY <2>1, <2>2
<1>10. Owners'
  <2> SUFFICES ASSUME NEW r \in Using \ clashed
               PROVE  /\ pc'[r] # "pid" => HasPid(r)'
                      /\ LoggedIn(r)' => taken[slot[r]]
                      /\ \A q \in Using : slot[q] = slot[r] => q = r
    BY <1>1, <1>3 DEF Owners
  <2>1. r \in Proc /\ pc[r] \notin {"none", "scan"} \cup Dead
    BY DEF Using, Starting, Serving, Leaving, Dead
  <2>2. \A q \in Using : slot[q] = slot[r] => q = r
    BY DEF Control, Owners
  <2>3. CASE r = p
    BY <1>2, <1>5, <2>2, <2>3, <1>1 DEF LoggedIn, Serving, HasPid
  <2>4. CASE r # p
    <3>1. pc'[r] = pc[r] /\ (LoggedIn(r)' <=> LoggedIn(r))
      BY <1>1, <1>2, <2>1, <2>4 DEF LoggedIn, Casting
    <3>2. slot[r] # slot[p] /\ slot[r] \in Row
      BY <1>3, <2>1, <2>2, <2>4 DEF Control, Placed
    <3>3. HasPid(r) => HasPid(r)'
      BY <1>1, <1>2, <1>5, <1>12, <3>2 DEF HasPid
    <3> QED BY <1>1, <1>5, <2>2, <3>1, <3>2, <3>3 DEF Control, Owners
  <2> QED BY <2>3, <2>4
<1>11. Kept'
  <2> SUFFICES ASSUME NEW i \in Row, taken[i]
               PROVE  \E r \in Proc : slot[r] = i /\ Keeping(r)'
    BY <1>1 DEF Kept
  <2>1. PICK r \in Proc : slot[r] = i /\ Keeping(r)
    BY DEF Control, Kept
  <2>2. r # p
    BY <1>1, <2>1 DEF Keeping, Serving, Leaving
  <2> QED BY <1>2, <2>1, <2>2 DEF Keeping
<1> QED BY <1>6, <1>7, <1>8, <1>9, <1>10, <1>11, <1>12 DEF Control

(* A newcomer marks the slot it has found as taken.                        *)
LEMMA SetIdControl ==
  ASSUME TypeOK, Control, NEW p \in Proc, SetId(p)
  PROVE  Control' /\ (Overrun => Overrun')
<1>1. /\ pc[p] = "id" /\ Goto(p, "fill")
      /\ UNCHANGED <<pid, forked, slot, clashed, then, armed>>
      /\ taken' = [taken EXCEPT ![slot[p]] = TRUE]
  BY DEF SetId
<1>2. pc'[p] = "fill" /\ \A q \in Proc : q # p => pc'[q] = pc[q]
  BY <1>1, GotoMoves
<1>3. Using' = Using /\ p \in Using
  BY <1>1, <1>2 DEF Using, Starting, Serving, Leaving
<1>4. slot[p] \in Row
  BY <1>1 DEF Control, Placed, Dead
<1>12. Overrun => Overrun'
  BY <1>1, <1>2, OverrunKept DEF Dead
<1>5. /\ taken'[slot[p]]
      /\ \A j \in Row : j # slot[p] => taken'[j] = taken[j]
  BY <1>1, <1>4 DEF TypeOK
<1>6. Forked'
  BY <1>1, <1>2 DEF Control, Forked
<1>7. Placed'
  BY <1>1, <1>2 DEF Control, Placed, Dead
<1>8. Armed'
  <2> SUFFICES ASSUME NEW q \in Proc, pc'[q] \in Serving \cup Leaving PROVE q \in armed'
    BY DEF Armed
  <2>1. q # p
    BY <1>2 DEF Serving, Leaving
  <2> QED BY <1>1, <1>2, <2>1 DEF Control, Armed
<1>9. Pids'
  BY <1>1, <1>2 DEF Control, Pids
<1>10. Owners'
  <2> SUFFICES ASSUME NEW r \in Using \ clashed
               PROVE  /\ pc'[r] # "pid" => HasPid(r)'
                      /\ LoggedIn(r)' => taken'[slot[r]]
                      /\ \A q \in Using : slot[q] = slot[r] => q = r
    BY <1>1, <1>3 DEF Owners
  <2>1. r \in Proc /\ pc[r] \notin {"none", "scan"} \cup Dead
    BY DEF Using, Starting, Serving, Leaving, Dead
  <2>2. \A q \in Using : slot[q] = slot[r] => q = r
    BY DEF Control, Owners
  <2>3. CASE r = p
    <3>1. HasPid(p) => HasPid(p)'
      BY <1>1, <1>12 DEF HasPid
    <3> QED BY <1>1, <1>5, <2>2, <2>3, <3>1 DEF Control, Owners
  <2>4. CASE r # p
    <3>1. pc'[r] = pc[r] /\ (LoggedIn(r)' <=> LoggedIn(r))
      BY <1>1, <1>2, <2>1, <2>4 DEF LoggedIn, Casting
    <3>2. slot[r] # slot[p] /\ slot[r] \in Row
      BY <1>3, <2>1, <2>2, <2>4 DEF Control, Placed
    <3>3. HasPid(r) => HasPid(r)'
      BY <1>1, <1>2, <1>5, <1>12, <3>2 DEF HasPid
    <3> QED BY <1>1, <1>5, <2>2, <3>1, <3>2, <3>3 DEF Control, Owners
  <2> QED BY <2>3, <2>4
<1>11. Kept'
  <2> SUFFICES ASSUME NEW i \in Row, taken'[i]
               PROVE  \E r \in Proc : slot[r] = i /\ Keeping(r)'
    BY <1>1 DEF Kept
  <2>1. CASE i = slot[p]
    BY <1>2, <2>1 DEF Keeping
  <2>2. CASE i # slot[p]
    <3>1. PICK r \in Proc : slot[r] = i /\ Keeping(r)
      BY <1>5, <2>2 DEF Control, Kept
    <3>2. r # p
      BY <1>1, <3>1 DEF Keeping, Serving, Leaving
    <3> QED BY <1>2, <3>1, <3>2 DEF Keeping
  <2> QED BY <2>1, <2>2
<1> QED BY <1>6, <1>7, <1>8, <1>9, <1>10, <1>11, <1>12 DEF Control

(* A client that leaves frees the slot, and its process does so again.     *)
LEMMA FreeControl ==
  ASSUME TypeOK, Control, NEW p \in Proc, Leave(p) \/ Wipe(p)
  PROVE  Control' /\ (Overrun => Overrun')
<1>1. /\ p \in Using /\ pc[p] \in {"prompt", "wipe"} /\ pc'[p] \in {"cast", "accept"}
      /\ pc[p] = "wipe" => pc'[p] = "accept"
      /\ ~LoggedIn(p)' /\ p \in armed
      /\ \A q \in Proc : q # p => pc'[q] = pc[q] /\ then'[q] = then[q]
  <2>1. CASE Leave(p)
    <3>1. Broadcast(p, Slot \ {slot[p]}, "clean") /\ pc[p] = "prompt"
      BY <2>1 DEF Leave
    <3>2. /\ pc'[p] = "cast" /\ then'[p] = "clean"
          /\ \A q \in Proc : q # p => pc'[q] = pc[q] /\ then'[q] = then[q]
      BY <3>1, CastMoves DEF Next3
    <3>3. ~LoggedIn(p)'
      BY <3>2 DEF LoggedIn, Casting
    <3>4. p \in armed /\ p \in Using
      BY <3>1 DEF Control, Armed, Using, Serving
    <3> QED BY <3>1, <3>2, <3>3, <3>4
  <2>2. CASE Wipe(p)
    <3>1. Goto(p, "accept") /\ pc[p] = "wipe" /\ UNCHANGED then
      BY <2>2 DEF Wipe
    <3>2. pc'[p] = "accept" /\ \A q \in Proc : q # p => pc'[q] = pc[q]
      BY <3>1, GotoMoves
    <3>3. ~LoggedIn(p)'
      BY <3>2 DEF LoggedIn, Serving
    <3>4. p \in armed /\ p \in Using
      BY <3>1 DEF Control, Armed, Using, Leaving
    <3> QED BY <3>1, <3>2, <3>3, <3>4
  <2> QED BY <2>1, <2>2
<1>2. /\ UNCHANGED <<pid, forked, slot, clashed, armed>>
      /\ taken' = [taken EXCEPT ![slot[p]] = FALSE]
  BY DEF Leave, Wipe, FreedSlot
<1>3. Using' \subseteq Using /\ Using \ {p} \subseteq Using'
  BY <1>1 DEF Using, Starting, Serving, Leaving
<1>4. slot[p] \in Row
  BY <1>1 DEF Control, Placed, Dead
<1>12. Overrun => Overrun'
  BY <1>1, <1>2, OverrunKept DEF Dead
<1>5. /\ ~taken'[slot[p]]
      /\ \A j \in Row : j # slot[p] => taken'[j] = taken[j]
  BY <1>2, <1>4 DEF TypeOK
<1>6. Forked'
  BY <1>1, <1>2 DEF Control, Forked
<1>7. Placed'
  BY <1>1, <1>2 DEF Control, Placed, Dead
<1>8. Armed'
  BY <1>1, <1>2 DEF Control, Armed
<1>9. Pids'
  BY <1>1, <1>2 DEF Control, Pids
<1>10. Owners'
  <2> SUFFICES ASSUME NEW r \in Using \ clashed
               PROVE  /\ pc'[r] # "pid" => HasPid(r)'
                      /\ LoggedIn(r)' => taken'[slot[r]]
                      /\ \A q \in Using : slot[q] = slot[r] => q = r
    BY <1>2, <1>3 DEF Owners
  <2>1. r \in Proc /\ pc[r] \notin {"none", "scan"} \cup Dead
    BY DEF Using, Starting, Serving, Leaving, Dead
  <2>2. \A q \in Using : slot[q] = slot[r] => q = r
    BY DEF Control, Owners
  <2>3. CASE r = p
    <3>1. HasPid(p) => HasPid(p)'
      BY <1>2, <1>12 DEF HasPid
    <3> QED BY <1>1, <2>2, <2>3, <3>1 DEF Control, Owners
  <2>4. CASE r # p
    <3>1. pc'[r] = pc[r] /\ (LoggedIn(r)' <=> LoggedIn(r))
      BY <1>1, <2>1, <2>4 DEF LoggedIn, Casting
    <3>2. slot[r] # slot[p] /\ slot[r] \in Row
      BY <1>1, <2>1, <2>2, <2>4 DEF Control, Placed
    <3>3. HasPid(r) => HasPid(r)'
      BY <1>1, <1>2, <1>5, <1>12, <3>2 DEF HasPid
    <3> QED BY <1>1, <1>5, <2>2, <3>1, <3>2, <3>3 DEF Control, Owners
  <2> QED BY <2>3, <2>4
<1>11. Kept'
  <2> SUFFICES ASSUME NEW i \in Row, taken'[i]
               PROVE  \E r \in Proc : slot[r] = i /\ Keeping(r)'
    BY <1>2 DEF Kept
  <2>1. i # slot[p] /\ taken[i]
    BY <1>5
  <2>2. PICK r \in Proc : slot[r] = i /\ Keeping(r)
    BY <2>1 DEF Control, Kept
  <2>3. r # p
    BY <2>1, <2>2
  <2> QED BY <1>1, <2>2, <2>3 DEF Keeping
<1> QED BY <1>6, <1>7, <1>8, <1>9, <1>10, <1>11, <1>12 DEF Control

-----------------------------------------------------------------------------
(* Steps that kill *)

(* A message that kills: a slot was found for it.                          *)
Posting == \A p \in Proc : pc[p] = "kill" => todo[p] # {}

(* The process that a signal goes to, if the slot has its pid.             *)
Victim(p) == pid[Lowest(todo[p])]
Fell(r) == pc[r] \notin {"none"} \cup Dead /\ pc'[r] = Killed(r)

(* The signal reaches the process whose pid stands in the slot, and ends   *)
(* it when it has no handler yet; a lost pid stands for everybody else.    *)
LEMMA KillMoves ==
  ASSUME TypeOK, Control, Posting, NEW p \in Proc, Kill(p)
  PROVE  /\ pc[p] = "kill" /\ pc'[p] = "cast" /\ p \in armed
         /\ Lowest(todo[p]) \in todo[p] /\ Lowest(todo[p]) \in Slot
         /\ \A r \in Proc \ {p} : /\ todo'[r] = todo[r]
                                  /\ pc'[r] = pc[r] \/ (r \notin armed /\ Fell(r))
         /\ \A r \in Running : Victim(p) = r =>
              IF r \in armed THEN <<KindOf(p), r>> \in pending' ELSE Fell(r)
         /\ pending \subseteq pending'
         /\ UNCHANGED <<taken, pid, name, forked, slot, clashed, raced, then, armed, job, unseen>>
<1> DEFINE j == Lowest(todo[p])
           hit == Hit(p, pid[j])
<1>1. /\ pc[p] = "kill" /\ todo' = [todo EXCEPT ![p] = @ \ {j}]
      /\ pending' = pending \cup {<<KindOf(p), q>> : q \in hit \cap armed}
      /\ pc' = [q \in Proc |-> IF q = p THEN "cast"
                               ELSE IF q \in hit \ armed THEN Killed(q) ELSE pc[q]]
      /\ UNCHANGED <<taken, pid, name, forked, slot, clashed, raced, then, armed, job, unseen>>
  BY DEF Kill, table
<1>2. j \in todo[p] /\ j \in Slot
  <2>1. todo[p] \in SUBSET Slot /\ todo[p] # {}
    BY <1>1 DEF TypeOK, Posting
  <2> QED BY <2>1, LowestIn
<1>3. hit \subseteq Running /\ \A r \in Running : pid[j] = r => r \in hit
  BY Consts DEF Hit, Running
<1>4. p \in armed
  BY <1>1 DEF Control, Armed, Serving
<1>5. \A r \in Proc : r # p => todo'[r] = todo[r]
  BY <1>1 DEF TypeOK
<1>6. pid[j] = Victim(p) /\ j = Lowest(todo[p])
  BY DEF Victim
<1> HIDE DEF hit, j
<1>7. \A r \in hit \ armed : Fell(r)
  BY <1>1, <1>3, <1>4 DEF Fell, Running
<1>8. \A r \in Proc \ {p} : pc'[r] = pc[r] \/ (r \notin armed /\ Fell(r))
  BY <1>1, <1>7
<1>9. ASSUME NEW r \in Running, Victim(p) = r
      PROVE  IF r \in armed THEN <<KindOf(p), r>> \in pending' ELSE Fell(r)
  BY <1>1, <1>3, <1>6, <1>7, <1>9
<1> QED BY <1>1, <1>2, <1>4, <1>5, <1>6, <1>8, <1>9

(* What a write to a client that has gone does.                            *)
LEMMA VanishMoves ==
  ASSUME TypeOK, NEW p \in Proc, Vanish(p)
  PROVE  /\ Fell(p) /\ \A q \in Proc : q # p => pc'[q] = pc[q]
         /\ pending' = {x \in pending : x[2] # p}
         /\ UNCHANGED <<taken, pid, name, forked, slot, clashed, raced, todo, then, armed, job,
                       unseen>>
<1>1. /\ Goto(p, Killed(p)) /\ pending' = {x \in pending : x[2] # p}
      /\ UNCHANGED <<taken, pid, name, forked, slot, clashed, raced, todo, then, armed, job,
                    unseen>>
  BY DEF Vanish, table
<1>2. pc'[p] = Killed(p) /\ \A q \in Proc : q # p => pc'[q] = pc[q]
  BY <1>1, GotoMoves
<1>3. pc[p] \notin {"none"} \cup Dead
  BY DEF Vanish, Writes, Running, Dead
<1> QED BY <1>1, <1>2, <1>3 DEF Fell

(* Those that are killed keep the slots they had marked as theirs.         *)
LEMMA FallControl ==
  ASSUME Control,
         \A r \in Proc : pc'[r] = pc[r] \/ Fell(r) \/ (pc[r] = "kill" /\ pc'[r] = "cast"),
         UNCHANGED <<taken, pid, forked, slot, clashed, then, armed>>
  PROVE  Control' /\ (Overrun => Overrun')
<1>1. \A r \in Proc : Fell(r) => pc'[r] \in Dead
  BY KilledDead DEF Fell
<1>2. Overrun => Overrun'
  <2> SUFFICES ASSUME NEW q \in Proc, slot[q] = Past, pc[q] \in {"wipe", "accept"} \cup Dead
               PROVE  Overrun'
    BY DEF Overrun
  <2>1. pc'[q] \in {"wipe", "accept"} \cup Dead /\ Past' = Past
    BY <1>1 DEF Dead, Past
  <2> QED BY <2>1 DEF Overrun
<1>3. Forked' /\ Placed'
  BY <1>1 DEF Control, Forked, Placed, Fell, Dead
<1>4. Armed'
  <2> SUFFICES ASSUME NEW r \in Proc, pc'[r] \in Serving \cup Leaving PROVE r \in armed
    BY DEF Armed
  <2>1. pc[r] \in Serving \cup Leaving
    BY <1>1 DEF Serving, Leaving, Dead
  <2> QED BY <2>1 DEF Control, Armed
<1>5. Pids'
  BY <1>1 DEF Control, Pids, Dead
<1>6. Owners'
  <2> SUFFICES ASSUME NEW r \in Using' \ clashed
               PROVE  /\ pc'[r] # "pid" => HasPid(r)'
                      /\ LoggedIn(r)' => taken[slot[r]]
                      /\ \A q \in Using' : slot[q] = slot[r] => q = r
    BY DEF Owners
  <2>1. Using' \subseteq Using
    BY <1>1 DEF Using, Starting, Serving, Leaving, Dead
  <2>2. r \in Proc /\ (pc'[r] = pc[r] \/ (pc[r] = "kill" /\ pc'[r] = "cast"))
    BY <1>1 DEF Using, Starting, Serving, Leaving, Dead
  <2>3. LoggedIn(r)' => LoggedIn(r)
    BY <2>2 DEF LoggedIn, Casting, Serving
  <2>4. HasPid(r) => HasPid(r)'
    BY <1>2 DEF HasPid
  <2> QED BY <2>1, <2>2, <2>3, <2>4 DEF Control, Owners
<1>7. Kept'
  <2> SUFFICES ASSUME NEW i \in Row, taken[i]
               PROVE  \E r \in Proc : slot[r] = i /\ Keeping(r)'
    BY DEF Kept
  <2>1. PICK r \in Proc : slot[r] = i /\ Keeping(r)
    BY DEF Control, Kept
  <2>2. Keeping(r)'
    BY <2>1 DEF Keeping, Fell, Killed, Serving, Leaving, Dead
  <2> QED BY <2>1, <2>2
<1> QED BY <1>2, <1>3, <1>4, <1>5, <1>6, <1>7 DEF Control

-----------------------------------------------------------------------------
(* The steps by what they do to the processes *)

CastStep(p) ==
  \/ Arm(p) \/ Yell(p) \/ (\E j \in Slot : Tell(p, j)) \/ Rename(p)
  \/ NameLost(p) \/ Open(p) \/ Mark2(p)
GotoStep(p) ==
  \/ Fill(p) \/ NameFound(p) \/ Clear(p) \/ Send(p) \/ Mark(p) \/ Fork(p) \/ Wait(p) \/ Unmark(p)
  \/ HangUp(p) \/ Clean(p) \/ (\E n \in Name : ChooseName(p, n))
  \/ Execs(p)
Still ==
  UNCHANGED <<taken, pid, name, forked, pc, slot, job, todo, then, armed, pending, unseen,
              clashed, raced>>

(* Every step is one of these.                                             *)
LEMMA Steps ==
  ASSUME [Next]_vars
  PROVE  \/ \E a \in {Server} \cup Proc : Connect(a)
         \/ \E p \in Proc : \/ Scan(p) \/ SetPid(p) \/ SetId(p)
                            \/ CastStep(p) \/ GotoStep(p)
                            \/ Post(p) \/ Kill(p) \/ Vanish(p) \/ Leave(p) \/ Wipe(p)
                            \/ \E k \in Kind : Handle(k, p)
         \/ Still
<1>1. CASE \E x \in writers : WriterOpens(x) \/ WriterEnds(x)
  BY <1>1 DEF WriterOpens, WriterEnds, Still, table, mail
<1>2. CASE \E x \in readers : ReaderEnds(x)
  BY <1>2 DEF ReaderEnds, Still, table, mail
<1>3. CASE UNCHANGED vars
  BY <1>3 DEF vars, Still, table, mail
<1>4. ASSUME NEW p \in Proc, Step(p) \/ Client(p)
      PROVE  \/ Scan(p) \/ SetPid(p) \/ SetId(p)
             \/ CastStep(p) \/ GotoStep(p)
             \/ Post(p) \/ Kill(p) \/ Vanish(p) \/ Leave(p) \/ Wipe(p)
  BY <1>4 DEF Step, Client, CastStep, GotoStep, Execs, NameFound, NameLost
<1> QED BY <1>1, <1>2, <1>3, <1>4 DEF Next

(* Every step keeps what is known of the processes.                        *)
LEMMA ControlStep ==
  ASSUME TypeOK, Control, Posting, [Next]_vars
  PROVE  Control' /\ (Overrun => Overrun')
<1> DEFINE Goal == Control' /\ (Overrun => Overrun')
<1>1. ASSUME NEW p \in Proc, CastStep(p) PROVE Goal
  <2>1. Local(p) /\ Quiet(p)
    BY <1>1, CastQuiet DEF CastStep, Control
  <2> QED BY <2>1, QuietControl DEF Local
<1>2. ASSUME NEW p \in Proc, GotoStep(p) PROVE Goal
  <2>1. Local(p) /\ Quiet(p)
    BY <1>2, GotoQuiet DEF GotoStep, Control
  <2> QED BY <2>1, QuietControl DEF Local
<1>3. ASSUME NEW p \in Proc, Post(p) PROVE Goal
  <2>1. Quiet(p) /\ UNCHANGED then /\ \A q \in Proc : q # p => pc'[q] = pc[q]
    BY <1>3, PostQuiet DEF Control
  <2> QED BY <2>1, QuietControl
<1>4. ASSUME NEW p \in Proc, NEW k \in Kind, Handle(k, p) PROVE Goal
  BY <1>4, StillControl DEF Handle, table
<1>5. ASSUME Still PROVE Goal
  BY <1>5, StillControl DEF Still
<1>6. ASSUME NEW p \in Proc, Kill(p) PROVE Goal
  <2>1. /\ \A r \in Proc : pc'[r] = pc[r] \/ Fell(r) \/ (pc[r] = "kill" /\ pc'[r] = "cast")
        /\ UNCHANGED <<taken, pid, forked, slot, clashed, then, armed>>
    BY <1>6, KillMoves
  <2> QED BY <2>1, FallControl
<1>7. ASSUME NEW p \in Proc, Vanish(p) PROVE Goal
  <2>1. /\ \A r \in Proc : pc'[r] = pc[r] \/ Fell(r) \/ (pc[r] = "kill" /\ pc'[r] = "cast")
        /\ UNCHANGED <<taken, pid, forked, slot, clashed, then, armed>>
    BY <1>7, VanishMoves
  <2> QED BY <2>1, FallControl
<1>8. ASSUME NEW a \in {Server} \cup Proc, Connect(a) PROVE Goal
  BY <1>8, ConnectControl
<1>9. ASSUME NEW p \in Proc, Scan(p) \/ SetPid(p) \/ SetId(p) \/ Leave(p) \/ Wipe(p) PROVE Goal
  BY <1>9, ScanControl, SetPidControl, SetIdControl, FreeControl
<1> QED BY <1>1, <1>2, <1>3, <1>4, <1>5, <1>6, <1>7, <1>8, <1>9, Steps

(* A message that kills still has slots to go.                             *)
LEMMA PostingStep ==
  ASSUME TypeOK, Control, Posting, [Next]_vars
  PROVE  Posting'
<1>1. ASSUME NEW p \in Proc, CastStep(p) \/ GotoStep(p) PROVE Posting'
  <2>1. Local(p) /\ pc'[p] # "kill"
    BY <1>1, CastQuiet, GotoQuiet DEF CastStep, GotoStep, Control
  <2> QED BY <2>1 DEF Posting, Local
<1>2. ASSUME NEW p \in Proc, Post(p) PROVE Posting'
  <2>1. \A q \in Proc : q # p => pc'[q] = pc[q] /\ todo'[q] = todo[q]
    BY <1>2, PostQuiet DEF Control
  <2>2. pc'[p] = "kill" => todo'[p] # {}
    <3>1. CASE todo[p] = {}
      <4>1. pc'[p] = then[p] /\ then[p] \in Next3
        BY <1>2, <3>1, GotoMoves DEF Post, TypeOK, Next3
      <4> QED BY <4>1 DEF Next3
    <3>2. CASE todo[p] # {} /\ ~taken[Lowest(todo[p])]
      BY <1>2, <3>2 DEF Post
    <3>3. CASE todo[p] # {} /\ taken[Lowest(todo[p])]
      BY <1>2, <3>3 DEF Post
    <3> QED BY <3>1, <3>2, <3>3
  <2> QED BY <2>1, <2>2 DEF Posting
<1>3. ASSUME NEW p \in Proc, Kill(p) PROVE Posting'
  <2>1. \A q \in Proc : pc'[q] = "kill" => q # p /\ pc[q] = "kill" /\ todo'[q] = todo[q]
    BY <1>3, KillMoves DEF Fell, Killed
  <2> QED BY <2>1 DEF Posting
<1>8. ASSUME NEW p \in Proc, Vanish(p) PROVE Posting'
  <2>1. \A q \in Proc : pc'[q] = "kill" => pc[q] = "kill" /\ todo'[q] = todo[q]
    BY <1>8, VanishMoves DEF Fell, Killed
  <2> QED BY <2>1 DEF Posting
<1>4. ASSUME NEW p \in Proc, Leave(p) PROVE Posting'
  <2>1. /\ pc'[p] # "kill"
        /\ \A q \in Proc : q # p => pc'[q] = pc[q] /\ todo'[q] = todo[q]
    BY <1>4, CastMoves DEF Leave, Next3
  <2> QED BY <2>1 DEF Posting
<1>5. ASSUME NEW p \in Proc, Scan(p) \/ SetPid(p) \/ SetId(p) \/ Wipe(p) PROVE Posting'
  <2>1. UNCHANGED todo /\ \E v \in {"pid", "id", "fill", "accept"} : Goto(p, v)
    BY <1>5 DEF Scan, SetPid, SetId, Wipe
  <2>2. pc'[p] # "kill" /\ \A q \in Proc : q # p => pc'[q] = pc[q]
    BY <2>1, GotoMoves
  <2> QED BY <2>1, <2>2 DEF Posting
<1>6. ASSUME NEW a \in {Server} \cup Proc, Connect(a) PROVE Posting'
  <2>1. UNCHANGED todo /\ pc' = [pc EXCEPT ![forked + 1] = "scan"]
    BY <1>6 DEF Connect, Goto
  <2>2. \A q \in Proc : pc'[q] = "kill" => pc[q] = "kill"
    BY <2>1 DEF TypeOK
  <2> QED BY <2>1, <2>2 DEF Posting
<1>7. ASSUME Still \/ (\E p \in Proc, k \in Kind : Handle(k, p)) PROVE Posting'
  BY <1>7 DEF Still, Handle, Posting
<1> QED BY <1>1, <1>2, <1>3, <1>4, <1>5, <1>6, <1>7, <1>8, Steps

(* What a process may be doing needs what its command has.                 *)
JobOf(p) ==
  /\ pc[p] \in {"name", "open"} \/ job[p].recv # "no" => job[p].from \in Slot
  /\ pc[p] \in {"mark", "mark2"} => job[p].to \in Slot
  /\ pc[p] = "rename" => job[p].nick \in Name
  /\ job[p].from # None \/ job[p].to # None => slot[p] \in Slot

(* A process that is told to broadcast keeps in its job what it needs      *)
(* later.                                                                  *)
LEMMA JobsCast ==
  ASSUME TypeOK, Jobs, NEW p \in Proc, CastStep(p)
  PROVE  JobOf(p)'
<1>1. pc'[p] = "cast"
  BY CastMoves DEF CastStep, Arm, Yell, Tell, Rename, NameLost, NameFifo, Open, Mark2, Next3
<1>2. /\ job'[p].recv # "no" => job'[p].from \in Slot
      /\ job'[p].from # None \/ job'[p].to # None => slot[p] \in Slot
  <2>1. CASE Rename(p)
    <3>1. job'[p] = NoJob
      BY <2>1 DEF Rename, TypeOK
    <3> QED BY <3>1 DEF NoJob
  <2>2. CASE Open(p) \/ NameLost(p)
    <3>1. /\ \E r \in {"ok", "bad"} : job' = [job EXCEPT ![p].recv = r]
          /\ pc[p] \in {"name", "open"}
      BY <2>2 DEF Open, NameLost, NameFifo
    <3>2. job'[p].from = job[p].from /\ job'[p].to = job[p].to
      BY <3>1 DEF TypeOK, Job
    <3> QED BY <3>1, <3>2 DEF Jobs
  <2>3. CASE ~Rename(p) /\ ~Open(p) /\ ~NameLost(p)
    <3>1. UNCHANGED job
      BY <2>3 DEF CastStep, Arm, Yell, Tell, Mark2
    <3> QED BY <3>1 DEF Jobs
  <2> QED BY <2>1, <2>2, <2>3
<1>3. UNCHANGED slot
  BY DEF CastStep, Arm, Yell, Tell, Rename, NameLost, NameFifo, Open, Mark2
<1> QED BY <1>1, <1>2, <1>3 DEF JobOf

(* So does one that goes on with its command.                              *)
LEMMA JobsGoto ==
  ASSUME TypeOK, Jobs, NEW p \in Proc, GotoStep(p)
  PROVE  JobOf(p)'
<1>1. CASE Execs(p)
  <2>1. PICK from \in Slot \cup {None}, to \in Slot \cup {None}, waits \in BOOLEAN :
          Exec(p, from, to, waits)
    BY <1>1 DEF Execs
  <2> DEFINE receives == from # None /\ taken[from] /\ <<from, slot[p]>> \in writeTo
  <2>2. job' = [job EXCEPT ![p] = [NoJob EXCEPT !.from = IF receives THEN from ELSE None,
                                                !.to = to, !.waits = waits]]
    BY <2>1 DEF Exec
  <2>3. Goto(p, IF receives THEN "name" ELSE "send") /\ UNCHANGED slot
    BY <2>1 DEF Exec
  <2>4. /\ job'[p].from = IF receives THEN from ELSE None
        /\ job'[p].recv = "no"
    BY <2>2 DEF TypeOK, NoJob
  <2>5. pc'[p] = IF receives THEN "name" ELSE "send"
    BY <2>3, GotoMoves
  <2>6. receives => from \in Slot
    OBVIOUS
  <2>7. slot[p] \in Slot
    BY <2>1, TypedAssumption DEF Exec
  <2> HIDE DEF receives
  <2> QED BY <2>3, <2>4, <2>5, <2>6, <2>7 DEF JobOf
<1>2. CASE \E n \in Name : ChooseName(p, n)
  <2>1. PICK n \in Name : ChooseName(p, n)
    BY <1>2
  <2>2. job' = [job EXCEPT ![p].nick = n] /\ Goto(p, "rename") /\ UNCHANGED slot
    BY <2>1 DEF ChooseName
  <2>3. /\ job'[p].nick = n /\ job'[p].recv = job[p].recv /\ job'[p].from = job[p].from
        /\ job'[p].to = job[p].to
    BY <2>2 DEF TypeOK, Job
  <2> QED BY <2>2, <2>3, GotoMoves DEF JobOf, Jobs
<1>3. CASE Send(p)
  <2>1. CASE Sends(p)
    <3>1. UNCHANGED <<job, slot>> /\ pc'[p] = "mark" /\ job[p].to \in Slot
      BY <1>3, <2>1, GotoMoves DEF Send, Sends, TypeOK, Job
    <3> QED BY <3>1 DEF JobOf, Jobs
  <2>2. CASE ~Sends(p)
    <3>1. pc'[p] = "fork" /\ job' = [job EXCEPT ![p].to = None] /\ UNCHANGED slot
      BY <1>3, <2>2, GotoMoves DEF Send
    <3>2. job'[p].recv = job[p].recv /\ job'[p].from = job[p].from /\ job'[p].to = None
      BY <3>1 DEF TypeOK, Job
    <3> QED BY <3>1, <3>2 DEF JobOf, Jobs
  <2> QED BY <2>1, <2>2
<1>4. CASE Unmark(p)
  <2>1. job'[p] = NoJob /\ pc'[p] = "prompt"
    BY <1>4, GotoMoves DEF Unmark, TypeOK
  <2> QED BY <2>1 DEF JobOf, NoJob
<1>5. CASE Mark(p)
  <2>1. UNCHANGED <<job, slot>> /\ pc[p] = "mark" /\ pc'[p] = "mark2"
    BY <1>5, GotoMoves DEF Mark
  <2> QED BY <2>1 DEF JobOf, Jobs
<1>6. CASE Fork(p)
  <2>1. Goto(p, "wait") \/ Goto(p, "unmark")
    BY <1>6 DEF Fork
  <2>2. /\ job' = [job EXCEPT ![p].to = None] /\ UNCHANGED slot
        /\ pc'[p] \in {"wait", "unmark"}
    BY <1>6, <2>1, GotoMoves DEF Fork
  <2>3. job'[p].recv = job[p].recv /\ job'[p].from = job[p].from /\ job'[p].to = None
    BY <2>2 DEF TypeOK, Job
  <2> QED BY <2>2, <2>3 DEF JobOf, Jobs
<1>7. CASE Fill(p) \/ Clear(p) \/ Wait(p) \/ HangUp(p) \/ Clean(p)
  <2>1. UNCHANGED <<job, slot>> /\ pc'[p] \in {"arm", "send", "unmark", "wipe"}
    BY <1>7, GotoMoves DEF Fill, Clear, Wait, HangUp, Clean
  <2> QED BY <2>1 DEF JobOf, Jobs
<1>8. CASE NameFound(p)
  <2>1. UNCHANGED <<job, slot>> /\ pc[p] = "name" /\ pc'[p] = "open"
    BY <1>8, GotoMoves DEF NameFound, NameFifo
  <2> QED BY <2>1 DEF JobOf, Jobs
<1> QED BY <1>1, <1>2, <1>3, <1>4, <1>5, <1>6, <1>7, <1>8 DEF GotoStep

(* Every step keeps the jobs.                                              *)
LEMMA JobsStep ==
  ASSUME TypeOK, Control, Posting, Jobs, [Next]_vars
  PROVE  Jobs'
<1>1. ASSUME NEW p \in Proc, CastStep(p) \/ GotoStep(p) PROVE Jobs'
  <2>1. Local(p) /\ JobOf(p)' /\ Quiet(p)
    BY <1>1, CastQuiet, GotoQuiet, JobsCast, JobsGoto DEF CastStep, GotoStep, Control
  <2>2. pc'[p] \notin {"none", "scan"}
    BY <2>1 DEF Quiet, Serving, Leaving
  <2> QED BY <2>1, <2>2 DEF Jobs, Local, JobOf
<1>2. ASSUME UNCHANGED job,
             \A q \in Proc :
               /\ pc'[q] \in {pc[q], "scan", "pid", "id", "fill", "cast", "kill", "prompt",
                              "clear", "fork", "clean", "accept"} \cup Dead
               /\ pc'[q] = "scan" => pc[q] \in {"none", "scan"}
               /\ slot'[q] = slot[q] \/ pc[q] = "scan"
      PROVE  Jobs'
  BY <1>2 DEF Jobs, Dead
<1>3. ASSUME NEW p \in Proc, Post(p) PROVE Jobs'
  BY <1>2, <1>3, PostQuiet DEF Control, Next3
<1>4. ASSUME NEW p \in Proc, Kill(p) \/ Vanish(p) PROVE Jobs'
  <2>1. \A q \in Proc : Fell(q) => pc'[q] \in Dead
    BY KilledDead DEF Fell
  <2> QED BY <1>2, <1>4, <2>1, KillMoves, VanishMoves DEF Dead
<1>5. ASSUME NEW p \in Proc, Leave(p) PROVE Jobs'
  <2>1. UNCHANGED <<job, slot>> /\ pc'[p] = "cast" /\ \A q \in Proc : q # p => pc'[q] = pc[q]
    BY <1>5, CastMoves DEF Leave, Next3
  <2> QED BY <1>2, <2>1
<1>6. ASSUME NEW p \in Proc, Scan(p) \/ SetPid(p) \/ SetId(p) \/ Wipe(p) PROVE Jobs'
  <2>1. UNCHANGED job /\ \E v \in {"pid", "id", "fill", "accept"} : Goto(p, v)
    BY <1>6 DEF Scan, SetPid, SetId, Wipe
  <2>2. \A q \in Proc : slot'[q] = slot[q] \/ pc[q] = "scan"
    BY <1>6 DEF TypeOK, Scan, SetPid, SetId, Wipe
  <2> QED BY <1>2, <2>1, <2>2, GotoMoves
<1>7. ASSUME NEW a \in {Server} \cup Proc, Connect(a) PROVE Jobs'
  <2>1. UNCHANGED <<job, slot>> /\ pc' = [pc EXCEPT ![forked + 1] = "scan"]
    BY <1>7 DEF Connect, Goto
  <2>2. forked \in Nat
    BY DEF TypeOK
  <2>3. \A q \in Proc : pc'[q] = pc[q] \/ (pc'[q] = "scan" /\ pc[q] = "none")
    BY <2>1, <2>2 DEF TypeOK, Control, Forked
  <2> QED BY <1>2, <2>1, <2>3
<1>8. ASSUME Still \/ (\E p \in Proc, k \in Kind : Handle(k, p)) PROVE Jobs'
  BY <1>2, <1>8 DEF Still, Handle
<1> QED BY <1>1, <1>3, <1>4, <1>5, <1>6, <1>7, <1>8, Steps

-----------------------------------------------------------------------------
(* The invariant of the processes.                                         *)
IInv == TypeOK /\ Control /\ Posting /\ Jobs

LEMMA IInvInit == Init => IInv
<1> SUFFICES ASSUME Init PROVE IInv
  OBVIOUS
<1>1. TypeOK
  <2>1. 0 \in 0 .. MaxProc
    BY SizeAssumption
  <2>2. "none" \in Place /\ "prompt" \in Next3
    BY Places DEF Next3
  <2>3. /\ taken \in [Row -> BOOLEAN] /\ pid \in [Row -> Proc \cup {None}]
        /\ name \in [Row -> Name \cup {NoName}] /\ pc \in [Proc -> Place]
        /\ slot \in [Proc -> Row \cup {None}]
    BY <2>2 DEF Init
  <2>4. job \in [Proc -> Job] /\ todo \in [Proc -> SUBSET Slot] /\ then \in [Proc -> Next3]
    BY <2>2, NoJobType DEF Init
  <2> QED BY <2>1, <2>3, <2>4 DEF Init, TypeOK, Next3
<1>2. \A p \in Proc : pc[p] = "none" /\ p \notin Using
  BY DEF Init, Using, Starting, Serving, Leaving
<1>3. Control
  <2>1. Forked /\ Placed /\ Armed
    BY <1>2 DEF Forked, Placed, Armed, Serving, Leaving
  <2>2. Pids
    <3> SUFFICES ASSUME NEW j \in Row, NEW p \in Proc, pid[j] = p PROVE FALSE
      BY DEF Pids
    <3> QED BY Consts DEF Init
  <2>3. Owners
    BY <1>2 DEF Owners, Using
  <2>4. Kept
    BY DEF Init, Kept
  <2> QED BY <2>1, <2>2, <2>3, <2>4 DEF Control
<1>4. Posting
  BY <1>2 DEF Posting
<1>5. Jobs
  BY DEF Init, Jobs, NoJob
<1> QED BY <1>1, <1>3, <1>4, <1>5 DEF IInv

LEMMA IInvStep == IInv /\ [Next]_vars => IInv'
<1> SUFFICES ASSUME IInv, [Next]_vars PROVE IInv'
  OBVIOUS
<1>1. TypeOK'
  BY TypeStep DEF IInv, Control
<1>2. Control' /\ Posting' /\ Jobs'
  BY ControlStep, PostingStep, JobsStep DEF IInv
<1> QED BY <1>1, <1>2 DEF IInv

LEMMA IInvHolds == Spec => []IInv
  BY IInvInit, IInvStep, PTL DEF Spec

(* What a signal or a broken connection does to the processes: some fall.  *)
Falls(r) == pc'[r] \in {pc[r]} \cup Dead
LEMMA FallMoves ==
  ASSUME IInv, NEW p \in Proc, Kill(p) \/ Vanish(p)
  PROVE  /\ \A r \in Proc : Falls(r) \/ (r = p /\ pc[r] = "kill" /\ pc'[r] = "cast")
         /\ UNCHANGED <<taken, pid, name, writeTo, readFrom, forked, slot, clashed, raced, then,
                       armed, job, writers, readers, crossed, torn, unseen>>
<1>1. \A r \in Proc : Fell(r) => pc'[r] \in Dead
  BY KilledDead DEF Fell
<1>2. UNCHANGED <<writeTo, readFrom, writers, readers, crossed, torn>>
  BY DEF Kill, Vanish, table, fifos
<1>3. CASE Kill(p)
  BY <1>1, <1>2, <1>3, KillMoves DEF IInv, Falls
<1>4. CASE Vanish(p)
  BY <1>1, <1>2, <1>4, VanishMoves DEF IInv, Falls
<1> QED BY <1>3, <1>4

(* A client whose process found its slot alone is the one in it.           *)
LEMMA PlaceOwned ==
  ASSUME IInv, NEW p \in Proc \ clashed, LoggedIn(p)
  PROVE  HasPid(p) /\ taken[slot[p]] /\ slot[p] \in Row
<1>1. p \in Using /\ pc[p] \notin {"pid", "none", "scan"} \cup Dead
  BY DEF LoggedIn, Using, Starting, Serving, Dead
<1> QED BY <1>1 DEF IInv, Control, Owners, Placed

(* The table, the processes and the commands keep their types, for any     *)
(* number of slots and of connections.                                     *)
THEOREM MultiProcTypes == Spec => []TypeOK
<1>1. IInv => TypeOK
  BY DEF IInv
<1> QED BY <1>1, IInvHolds, PTL

(* No slot stays taken by nobody when its client leaves: what main() does  *)
(* after multi_shell frees it.  The processes that were killed while they  *)
(* held one are named: by a message before they had their handlers, or by  *)
(* a write to a client that had gone.                                      *)
THEOREM SlotsAreFreed == Spec => []NoGhosts
<1>1. IInv => NoGhosts
  <2> SUFFICES ASSUME IInv, NEW i \in Slot, taken[i]
               PROVE  \E p \in Proc : slot[p] = i /\ (p \in Using \/ pc[p] \in {"gone", "mute"})
    BY DEF NoGhosts
  <2>1. PICK p \in Proc : slot[p] = i /\ Keeping(p)
    BY Consts DEF IInv, Control, Kept
  <2> QED BY <2>1 DEF Keeping, Using, Starting
<1> QED BY <1>1, IInvHolds, PTL

(* Without a lock, a client still keeps its slot and the slot its pid, as  *)
(* long as no two processes have found the same slot and no client of the  *)
(* slot after the table has left.                                          *)
THEOREM PlacesKept == Spec => []PlaceKept
<1>1. IInv => PlaceKept
  BY PlaceOwned DEF PlaceKept, HasPid
<1> QED BY <1>1, IInvHolds, PTL

-----------------------------------------------------------------------------
(* The last message in a buffer *)

Awaited(k, p) ==
  \/ <<k, p>> \in pending
  \/ \E q \in Proc : /\ pc[q] \in {"kill", "mute"}
                     /\ KindOf(q) = k /\ Lowest(todo[q]) = slot[p]

(* A client that has a text to be shown.                                   *)
Waiting(k, p) == LoggedIn(p) /\ pid[slot[p]] = p /\ <<k, slot[p]>> \in unseen

(* A step that delivers nothing, and keeps those that are about to signal. *)
LEMMA ShownFrame ==
  ASSUME LastMessageShown, clashed \subseteq clashed', unseen' \subseteq unseen,
         \A r \in Proc \ clashed' : LoggedIn(r)' =>
           /\ slot'[r] = slot[r]
           /\ \A k \in Kind : <<k, r>> \in pending => <<k, r>> \in pending'
           /\ \/ LoggedIn(r) /\ (pid'[slot[r]] = r => pid[slot[r]] = r)
              \/ \A k \in Kind : <<k, slot[r]>> \notin unseen',
         \A r \in Proc : pc[r] \in {"kill", "mute"} =>
           pc'[r] \in {"kill", "mute"} /\ then'[r] = then[r] /\ todo'[r] = todo[r]
  PROVE  LastMessageShown'
<1> SUFFICES ASSUME NEW k \in Kind, NEW p \in Proc \ clashed', Waiting(k, p)'
             PROVE  Awaited(k, p)'
  BY DEF LastMessageShown, Awaited, Waiting
<1>1. p \in Proc \ clashed /\ Waiting(k, p) /\ slot'[p] = slot[p] /\ LoggedIn(p)'
  BY DEF Waiting
<1>2. Awaited(k, p)
  BY <1>1 DEF LastMessageShown, Awaited, Waiting
<1>3. CASE <<k, p>> \in pending
  BY <1>1, <1>3 DEF Awaited
<1>4. CASE <<k, p>> \notin pending
  <2>1. PICK q \in Proc : /\ pc[q] \in {"kill", "mute"}
                          /\ KindOf(q) = k /\ Lowest(todo[q]) = slot[p]
    BY <1>2, <1>4 DEF Awaited
  <2>2. pc'[q] \in {"kill", "mute"} /\ KindOf(q)' = k /\ Lowest(todo'[q]) = slot'[p]
    BY <1>1, <2>1 DEF KindOf
  <2> QED BY <2>2 DEF Awaited, Lowest
<1> QED BY <1>3, <1>4

(* A text is in a buffer before the signal is sent.                        *)
LEMMA ShownPost ==
  ASSUME IInv, LastMessageShown, NEW p \in Proc, Post(p)
  PROVE  LastMessageShown'
<1> DEFINE j == Lowest(todo[p])
<1>1. /\ Quiet(p) /\ pc[p] = "cast" /\ UNCHANGED <<pid, then, slot, clashed, pending>>
      /\ \A q \in Proc : q # p => pc'[q] = pc[q] /\ todo'[q] = todo[q]
  BY PostQuiet DEF IInv, Control, Post
<1>2. \A r \in Proc : LoggedIn(r)' => LoggedIn(r)
  BY <1>1 DEF Quiet, LoggedIn, Casting
<1>3. CASE todo[p] # {} /\ taken[j]
  <2>1. unseen' = unseen \cup {<<KindOf(p), j>>} /\ pc'[p] = "kill" /\ UNCHANGED todo
    BY <1>3, GotoMoves DEF Post, IInv
  <2> SUFFICES ASSUME NEW k \in Kind, NEW r \in Proc \ clashed', Waiting(k, r)'
               PROVE  Awaited(k, r)'
    BY DEF LastMessageShown, Awaited, Waiting
  <2>2. CASE <<k, slot[r]>> \in unseen
    <3>1. Awaited(k, r)
      BY <1>1, <1>2, <2>2 DEF LastMessageShown, Awaited, Waiting
    <3>2. \A q \in Proc : pc[q] \in {"kill", "mute"} => pc'[q] = pc[q] /\ KindOf(q)' = KindOf(q)
      BY <1>1 DEF KindOf
    <3> QED BY <1>1, <2>1, <3>1, <3>2 DEF Awaited, Lowest
  <2>3. CASE <<k, slot[r]>> \notin unseen
    <3>1. k = KindOf(p) /\ slot[r] = j
      BY <1>1, <2>1, <2>3 DEF Waiting
    <3>2. KindOf(p)' = k /\ Lowest(todo'[p]) = slot'[r]
      BY <1>1, <2>1, <3>1 DEF KindOf
    <3> QED BY <2>1, <3>2 DEF Awaited, Lowest
  <2> QED BY <2>2, <2>3
<1>4. CASE ~(todo[p] # {} /\ taken[j])
  <2>1. UNCHANGED unseen
    BY <1>4 DEF Post
  <2> QED BY <1>1, <1>2, <2>1, ShownFrame
<1> QED BY <1>3, <1>4

(* The signal goes to the process whose pid the slot has, or ends it.      *)
LEMMA ShownKill ==
  ASSUME IInv, LastMessageShown, NEW p \in Proc, Kill(p)
  PROVE  LastMessageShown'
<1>1. /\ pc[p] = "kill" /\ pc'[p] = "cast"
      /\ \A r \in Proc \ {p} : todo'[r] = todo[r] /\ (pc'[r] = pc[r] \/ Fell(r))
      /\ \A r \in Running : Victim(p) = r =>
           IF r \in armed THEN <<KindOf(p), r>> \in pending' ELSE Fell(r)
      /\ pending \subseteq pending'
      /\ UNCHANGED <<pid, slot, clashed, then, armed, unseen>>
  BY KillMoves DEF IInv
<1>4. \A r \in Proc : LoggedIn(r)' => LoggedIn(r) /\ r \in Running /\ ~Fell(r)
  <2> SUFFICES ASSUME NEW r \in Proc, LoggedIn(r)'
               PROVE  LoggedIn(r) /\ r \in Running /\ ~Fell(r)
    OBVIOUS
  <2>1. pc'[r] \notin {"none"} \cup Dead
    BY DEF LoggedIn, Serving, Dead
  <2>2. ~Fell(r)
    BY <2>1, KilledDead DEF Fell
  <2>3. pc'[r] = pc[r] \/ (pc[r] = "kill" /\ pc'[r] = "cast")
    BY <1>1, <2>2
  <2>4. r \in Running
    BY <2>1, <2>3 DEF Running, Dead
  <2> QED BY <1>1, <2>2, <2>3, <2>4 DEF LoggedIn, Casting, Serving
<1> SUFFICES ASSUME NEW k \in Kind, NEW r \in Proc \ clashed', Waiting(k, r)'
             PROVE  Awaited(k, r)'
  BY DEF LastMessageShown, Awaited, Waiting
<1>5. /\ LoggedIn(r) /\ r \in Running /\ ~Fell(r)
      /\ Awaited(k, r) /\ pid[slot[r]] = r
  BY <1>1, <1>4 DEF LastMessageShown, Awaited, Waiting
<1>6. CASE <<k, r>> \in pending
  BY <1>1, <1>6 DEF Awaited
<1>7. CASE <<k, r>> \notin pending
  <2>1. PICK q \in Proc : /\ pc[q] \in {"kill", "mute"}
                          /\ KindOf(q) = k /\ Lowest(todo[q]) = slot[r]
    BY <1>5, <1>7 DEF Awaited
  <2>2. CASE q = p
    <3>1. Victim(p) = r /\ k = KindOf(p)
      BY <1>5, <2>1, <2>2 DEF Victim
    <3>2. <<k, r>> \in pending'
      BY <1>1, <1>5, <3>1
    <3> QED BY <3>2 DEF Awaited
  <2>3. CASE q # p
    <3>1. pc'[q] \in {"kill", "mute"} /\ todo'[q] = todo[q] /\ KindOf(q)' = k
      BY <1>1, <2>1, <2>3 DEF KindOf, Fell, Killed, Dead
    <3> QED BY <1>1, <2>1, <3>1 DEF Awaited, Lowest
  <2> QED BY <2>2, <2>3
<1> QED BY <1>6, <1>7

(* A handler finds its own slot, and no other.                             *)
LEMMA ShownHandle ==
  ASSUME IInv, LastMessageShown, NEW h \in Kind, NEW q \in Proc, Handle(h, q)
  PROVE  LastMessageShown'
<1>1. /\ pending' = pending \ {<<h, q>>} /\ unseen' = unseen \ Shown(h, q)
      /\ UNCHANGED <<pc, pid, slot, todo, then, clashed>>
  BY DEF Handle, table
<1> SUFFICES ASSUME NEW k \in Kind, NEW r \in Proc \ clashed', Waiting(k, r)'
             PROVE  Awaited(k, r)'
  BY DEF LastMessageShown, Awaited, Waiting
<1>2. LoggedIn(r)
  BY <1>1 DEF LoggedIn, Casting, Waiting
<1>3. Awaited(k, r)
  BY <1>1, <1>2 DEF LastMessageShown, Awaited, Waiting
<1>4. k # h \/ r # q
  <2> SUFFICES ASSUME k = h, r = q PROVE FALSE
    OBVIOUS
  <2>1. pid[slot[r]] = r /\ <<k, slot[r]>> \in unseen /\ <<k, slot[r]>> \notin Shown(h, q)
    BY <1>1 DEF Waiting
  <2>2. slot[r] \in Slot
    BY <2>1 DEF IInv, TypeOK
  <2>3. Mine(q) = {slot[r]}
    <3>1. \A j \in Slot : pid[j] = q => slot[q] = j
      BY Consts DEF IInv, Control, Pids
    <3> QED BY <2>1, <2>2, <3>1 DEF Mine
  <2>4. Shown(h, q) = {<<k, slot[r]>>}
    BY <2>2, <2>3, LowestOne DEF Shown
  <2> QED BY <2>1, <2>4
<1>5. CASE <<k, r>> \in pending
  <2>1. <<k, r>> # <<h, q>>
    BY <1>4
  <2> QED BY <1>1, <1>5, <2>1 DEF Awaited
<1>6. CASE <<k, r>> \notin pending
  <2>1. PICK s \in Proc : /\ pc[s] \in {"kill", "mute"}
                          /\ KindOf(s) = k /\ Lowest(todo[s]) = slot[r]
    BY <1>3, <1>6 DEF Awaited
  <2>2. pc'[s] \in {"kill", "mute"} /\ KindOf(s)' = k /\ Lowest(todo'[s]) = slot'[r]
    BY <1>1, <2>1 DEF KindOf
  <2> QED BY <2>2 DEF Awaited, Lowest
<1> QED BY <1>5, <1>6

(* Every step keeps the last text shown or announced.                      *)
LEMMA ShownStep ==
  ASSUME IInv, LastMessageShown, [Next]_vars
  PROVE  LastMessageShown'
<1>1. ASSUME NEW p \in Proc, CastStep(p) \/ GotoStep(p) PROVE LastMessageShown'
  <2>1. /\ Local(p) /\ Quiet(p) /\ pc[p] # "kill" /\ UNCHANGED <<pending, unseen>>
    BY <1>1, CastQuiet, GotoQuiet DEF CastStep, GotoStep, IInv, Control
  <2>2. UNCHANGED <<slot, clashed>> /\ pc[p] \notin {"kill", "mute"}
    BY <2>1 DEF Quiet, Serving
  <2>3. \A r \in Proc : LoggedIn(r)' => LoggedIn(r)
    BY <2>1 DEF Local, Quiet, LoggedIn, Casting
  <2>4. \A r \in Proc : pc[r] \in {"kill", "mute"} =>
          pc'[r] = pc[r] /\ then'[r] = then[r] /\ todo'[r] = todo[r]
    BY <2>1, <2>2 DEF Local
  <2>5. \A r \in Proc : LoggedIn(r) => (pid'[slot[r]] = r => pid[slot[r]] = r)
    <3> SUFFICES ASSUME NEW r \in Proc, LoggedIn(r), pid'[slot[r]] = r PROVE pid[slot[r]] = r
      OBVIOUS
    <3>1. slot[r] \in Row
      BY DEF IInv, Control, Placed, LoggedIn, Serving, Dead
    <3> QED BY <2>1, <3>1, Consts DEF Quiet
  <2> QED BY <2>1, <2>2, <2>3, <2>4, <2>5, ShownFrame
<1>2. ASSUME NEW p \in Proc, Leave(p) PROVE LastMessageShown'
  <2>1. /\ pc[p] = "prompt" /\ pc'[p] = "cast" /\ then'[p] = "clean"
        /\ \A q \in Proc : q # p => pc'[q] = pc[q] /\ then'[q] = then[q] /\ todo'[q] = todo[q]
        /\ UNCHANGED <<pid, slot, clashed, pending, unseen>>
    BY <1>2, CastMoves DEF Leave, IInv, Next3, mail
  <2>2. \A r \in Proc : LoggedIn(r)' => LoggedIn(r)
    BY <2>1 DEF LoggedIn, Casting
  <2> QED BY <2>1, <2>2, ShownFrame
<1>3. ASSUME NEW p \in Proc, SetPid(p) \/ Wipe(p) \/ Scan(p) PROVE LastMessageShown'
  <2>1. /\ pc[p] \notin {"kill", "mute"} /\ pc'[p] \in {"id", "accept", "pid"}
        /\ \A q \in Proc : q # p => pc'[q] = pc[q]
        /\ UNCHANGED <<todo, then, pending, unseen>> /\ clashed \subseteq clashed'
    BY <1>3, GotoMoves DEF SetPid, Wipe, Scan, IInv, mail
  <2>2. \A r \in Proc : LoggedIn(r)' => LoggedIn(r) /\ r # p
    BY <2>1 DEF LoggedIn, Casting, Serving
  <2>3. \A r \in Proc : r # p => slot'[r] = slot[r]
    BY <1>3 DEF SetPid, Wipe, Scan, IInv, TypeOK
  <2>4. ASSUME NEW r \in Proc, r # p, LoggedIn(r), pid'[slot[r]] = r PROVE pid[slot[r]] = r
    <3>1. slot[r] \in Row
      BY <2>4 DEF IInv, Control, Placed, LoggedIn, Serving, Dead
    <3>2. pid' = pid \/ pid' = [pid EXCEPT ![slot[p]] = p]
      BY <1>3 DEF SetPid, NewPid, Wipe, Scan, table
    <3> QED BY <2>4, <3>1, <3>2 DEF IInv, TypeOK
  <2> QED BY <2>1, <2>2, <2>3, <2>4, ShownFrame
<1>4. ASSUME NEW p \in Proc, SetId(p) PROVE LastMessageShown'
  <2>1. /\ pc[p] = "id" /\ \A q \in Proc : q # p => pc'[q] = pc[q]
        /\ UNCHANGED <<pid, slot, clashed, todo, then, pending>>
        /\ unseen' = {x \in unseen : x[2] # slot[p]}
    BY <1>4, GotoMoves DEF SetId, IInv
  <2>2. \A r \in Proc : LoggedIn(r)' => LoggedIn(r) \/ r = p
    BY <2>1 DEF LoggedIn, Casting
  <2>3. \A k \in Kind : <<k, slot[p]>> \notin unseen'
    BY <2>1
  <2> QED BY <2>1, <2>2, <2>3, ShownFrame
<1>5. ASSUME NEW a \in {Server} \cup Proc, Connect(a) PROVE LastMessageShown'
  <2>1. /\ pc' = [pc EXCEPT ![forked + 1] = "scan"] /\ forked + 1 \in Proc
        /\ UNCHANGED <<pid, slot, clashed, todo, then, pending, unseen>>
    BY <1>5, SizeAssumption DEF Connect, Goto, table, mail, IInv, TypeOK, Proc
  <2>2. pc[forked + 1] = "none"
    <3>1. forked + 1 > forked
      BY DEF IInv, TypeOK
    <3> QED BY <2>1, <3>1 DEF IInv, Control, Forked
  <2>3. \A r \in Proc : pc'[r] = "scan" \/ pc'[r] = pc[r]
    BY <2>1 DEF IInv, TypeOK
  <2>4. \A r \in Proc : pc[r] \in {"kill", "mute"} => pc'[r] = pc[r]
    BY <2>1, <2>2 DEF IInv, TypeOK
  <2>5. \A r \in Proc : LoggedIn(r)' => LoggedIn(r)
    BY <2>1, <2>3 DEF LoggedIn, Casting, Serving
  <2> QED BY <2>1, <2>4, <2>5, ShownFrame
<1>6. CASE Still
  <2>1. \A r \in Proc : LoggedIn(r)' => LoggedIn(r)
    BY <1>6 DEF Still, LoggedIn, Casting
  <2> QED BY <1>6, <2>1, ShownFrame DEF Still
<1>7. ASSUME NEW p \in Proc, Vanish(p) PROVE LastMessageShown'
  <2>1. /\ Fell(p) /\ \A q \in Proc : q # p => pc'[q] = pc[q]
        /\ pending' = {x \in pending : x[2] # p}
        /\ UNCHANGED <<pid, slot, clashed, todo, then, unseen>>
    BY <1>7, VanishMoves DEF IInv
  <2>2. \A r \in Proc : LoggedIn(r)' => LoggedIn(r) /\ r # p
    BY <2>1, KilledDead DEF LoggedIn, Casting, Serving, Fell, Dead
  <2>3. \A r \in Proc : pc[r] \in {"kill", "mute"} => pc'[r] \in {"kill", "mute"}
    BY <2>1 DEF Fell, Killed, Dead
  <2> QED BY <2>1, <2>2, <2>3, ShownFrame
<1> QED BY <1>1, <1>2, <1>3, <1>4, <1>5, <1>6, <1>7, Steps, ShownPost, ShownKill, ShownHandle

(* The text and its signal are two steps, the handlers run at any time,    *)
(* and the signals coalesce; the last text put in a client's buffer is     *)
(* shown all the same, or a signal for it is on its way.                   *)
THEOREM LastMessageIsShown == Spec => []LastMessageShown
<1>1. Init => LastMessageShown
  BY DEF Init, LastMessageShown
<1>2. IInv /\ LastMessageShown /\ [Next]_vars => LastMessageShown'
  BY ShownStep
<1> QED BY <1>1, <1>2, IInvHolds, PTL DEF Spec

-----------------------------------------------------------------------------
(* Nicknames *)

(* Two processes that are about to take one name race for it, and so do    *)
(* one that is about to take a name and a client that has it by then.      *)
Rivals ==
  \A p, q \in Proc :
    p # q /\ pc[p] = "rename" /\ pc[q] = "rename" /\ job[p].nick = job[q].nick =>
      {p, q} \subseteq raced
LateRivals ==
  \A p, q \in Proc \ clashed :
    p # q /\ pc[p] = "rename" /\ Settled(q) /\ name[slot[q]] = job[p].nick =>
      {p, q} \subseteq raced
Names == Rivals /\ LateRivals /\ UniqueNames

(* A step that changes no name, and chooses none.                          *)
LEMMA NamesFrame ==
  ASSUME Names, UNCHANGED name, raced \subseteq raced', clashed \subseteq clashed',
         \A r \in Proc : pc'[r] = "rename" => pc[r] = "rename" /\ job'[r] = job[r],
         \A r \in Proc \ clashed' : Settled(r)' => Settled(r) /\ slot'[r] = slot[r]
  PROVE  Names'
<1>1. Rivals'
  <2> SUFFICES ASSUME NEW p \in Proc, NEW q \in Proc, p # q,
                      pc'[p] = "rename", pc'[q] = "rename", job'[p].nick = job'[q].nick
               PROVE  {p, q} \subseteq raced'
    BY DEF Rivals
  <2> QED BY DEF Names, Rivals
<1>2. LateRivals'
  <2> SUFFICES ASSUME NEW p \in Proc \ clashed', NEW q \in Proc \ clashed', p # q,
                      pc'[p] = "rename", Settled(q)', name'[slot'[q]] = job'[p].nick
               PROVE  {p, q} \subseteq raced'
    BY DEF LateRivals
  <2>1. pc[p] = "rename" /\ Settled(q) /\ name[slot[q]] = job[p].nick
    OBVIOUS
  <2> QED BY <2>1 DEF Names, LateRivals
<1>3. UniqueNames'
  <2> SUFFICES ASSUME NEW p \in Proc \ clashed', NEW q \in Proc \ clashed', p # q,
                      Settled(p)', Settled(q)', name'[slot'[p]] = name'[slot'[q]],
                      name'[slot'[p]] # NoName
               PROVE  {p, q} \subseteq raced'
    BY DEF UniqueNames
  <2>1. Settled(p) /\ Settled(q) /\ name[slot[p]] = name[slot[q]] /\ name[slot[p]] # NoName
    OBVIOUS
  <2> QED BY <2>1 DEF Names, UniqueNames
<1> QED BY <1>1, <1>2, <1>3 DEF Names

(* The slot of a client that found it alone is written by no other.        *)
LEMMA OwnSlot ==
  ASSUME IInv, NEW p \in Using, NEW q \in Proc \ clashed, LoggedIn(q), p # q
  PROVE  slot[p] # slot[q]
<1>1. q \in Using
  BY DEF LoggedIn, Using, Starting, Serving
<1> QED BY <1>1 DEF IInv, Control, Owners

(* A new client has no name.                                               *)
LEMMA NamesFill ==
  ASSUME IInv, Names, NEW p \in Proc, Fill(p)
  PROVE  Names'
<1>1. /\ pc[p] = "fill" /\ pc'[p] = "arm" /\ \A q \in Proc : q # p => pc'[q] = pc[q]
      /\ name' = [name EXCEPT ![slot[p]] = NoName]
      /\ UNCHANGED <<job, slot, then, clashed, raced>>
  BY GotoMoves DEF Fill, IInv
<1>2. p \in Using /\ slot[p] \in Row
  BY <1>1 DEF Using, Starting, IInv, Control, Placed, Dead
<1>3. name'[slot[p]] = NoName /\ \A i \in Row : i # slot[p] => name'[i] = name[i]
  BY <1>1, <1>2 DEF IInv, TypeOK
<1>4. \A q \in Proc \ clashed : q # p /\ Settled(q)' => Settled(q) /\ name'[slot[q]] = name[slot[q]]
  <2> SUFFICES ASSUME NEW q \in Proc \ clashed, q # p, Settled(q)'
               PROVE  Settled(q) /\ name'[slot[q]] = name[slot[q]]
    OBVIOUS
  <2>1. Settled(q) /\ LoggedIn(q)
    BY <1>1 DEF Settled, LoggedIn, Casting
  <2>2. slot[p] # slot[q] /\ slot[q] \in Row
    BY <1>2, <2>1, OwnSlot, PlaceOwned
  <2> QED BY <1>3, <2>1, <2>2
<1>5. Rivals'
  <2>1. \A r \in Proc : pc'[r] = "rename" => pc[r] = "rename"
    BY <1>1
  <2> QED BY <1>1, <2>1 DEF Names, Rivals
<1>6. LateRivals'
  <2> SUFFICES ASSUME NEW r \in Proc \ clashed, NEW q \in Proc \ clashed, r # q,
                      pc'[r] = "rename", Settled(q)', name'[slot[q]] = job[r].nick
               PROVE  {r, q} \subseteq raced
    BY <1>1 DEF LateRivals
  <2>1. pc[r] = "rename" /\ job[r].nick \in Name
    BY <1>1 DEF IInv, Jobs
  <2>2. q # p
    BY <1>3, <2>1, NameAssumption
  <2> QED BY <1>4, <2>1, <2>2 DEF Names, LateRivals
<1>7. UniqueNames'
  <2> SUFFICES ASSUME NEW r \in Proc \ clashed, NEW q \in Proc \ clashed, r # q,
                      Settled(r)', Settled(q)', name'[slot[r]] = name'[slot[q]],
                      name'[slot[r]] # NoName
               PROVE  {r, q} \subseteq raced
    BY <1>1 DEF UniqueNames
  <2>1. q # p /\ r # p
    BY <1>3
  <2> QED BY <1>4, <2>1 DEF Names, UniqueNames
<1> QED BY <1>5, <1>6, <1>7 DEF Names

(* A name is chosen when no slot that is taken has it.                     *)
LEMMA NamesChoose ==
  ASSUME IInv, Names, NEW p \in Proc, NEW n \in Name, ChooseName(p, n)
  PROVE  Names'
<1> DEFINE rivals == {q \in Proc : pc[q] = "rename" /\ job[q].nick = n}
<1>1. /\ pc[p] = "prompt" /\ pc'[p] = "rename" /\ \A q \in Proc : q # p => pc'[q] = pc[q]
      /\ NameIsFree(n) /\ job' = [job EXCEPT ![p].nick = n]
      /\ raced' = IF rivals = {} THEN raced ELSE raced \cup rivals \cup {p}
      /\ UNCHANGED <<name, taken, slot, then, clashed>>
  BY GotoMoves DEF ChooseName, IInv, table
<1>2. job'[p].nick = n /\ \A q \in Proc : q # p => job'[q] = job[q]
  BY <1>1 DEF IInv, TypeOK, Job
<1>3. raced \subseteq raced'
  BY <1>1
<1>4. \A q \in Proc : q \in rivals => q \in raced' /\ p \in raced'
  BY <1>1
<1>5. \A q \in Proc : Settled(q)' => Settled(q)
  BY <1>1 DEF Settled, LoggedIn, Casting, Serving
<1>6. \A q \in Proc : q # p /\ pc'[q] = "rename" /\ job'[q].nick = n => q \in rivals
  BY <1>1, <1>2
<1> HIDE DEF rivals
<1>7. Rivals'
  <2> SUFFICES ASSUME NEW r \in Proc, NEW q \in Proc, r # q,
                      pc'[r] = "rename", pc'[q] = "rename", job'[r].nick = job'[q].nick
               PROVE  {r, q} \subseteq raced'
    BY DEF Rivals
  <2>1. CASE r = p \/ q = p
    BY <1>2, <1>4, <1>6, <2>1
  <2>2. CASE r # p /\ q # p
    BY <1>1, <1>2, <1>3, <2>2 DEF Names, Rivals
  <2> QED BY <2>1, <2>2
<1>8. LateRivals'
  <2> SUFFICES ASSUME NEW r \in Proc \ clashed, NEW q \in Proc \ clashed, r # q,
                      pc'[r] = "rename", Settled(q)', name[slot[q]] = job'[r].nick
               PROVE  {r, q} \subseteq raced'
    BY <1>1 DEF LateRivals
  <2>1. Settled(q) /\ taken[slot[q]] /\ slot[q] \in Slot
    BY <1>5, PlaceOwned, Consts DEF Settled
  <2>2. r # p
    BY <1>1, <1>2, <2>1 DEF NameIsFree
  <2> QED BY <1>1, <1>2, <1>3, <2>1, <2>2 DEF Names, LateRivals
<1>9. UniqueNames'
  <2> SUFFICES ASSUME NEW r \in Proc \ clashed, NEW q \in Proc \ clashed, r # q,
                      Settled(r)', Settled(q)', name[slot[r]] = name[slot[q]],
                      name[slot[r]] # NoName
               PROVE  {r, q} \subseteq raced'
    BY <1>1 DEF UniqueNames
  <2> QED BY <1>3, <1>5 DEF Names, UniqueNames
<1> QED BY <1>7, <1>8, <1>9 DEF Names

(* By the time it is set, those that have it are known to be rivals.       *)
LEMMA NamesRename ==
  ASSUME IInv, Names, NEW p \in Proc, Rename(p)
  PROVE  Names'
<1> DEFINE n == job[p].nick
<1>1. /\ pc[p] = "rename" /\ pc'[p] = "cast" /\ \A q \in Proc : q # p => pc'[q] = pc[q] /\ then'[q] = then[q]
      /\ name' = [name EXCEPT ![slot[p]] = n] /\ job' = [job EXCEPT ![p] = NoJob]
      /\ UNCHANGED <<slot, clashed, raced>>
  BY CastMoves DEF Rename, IInv, Next3
<1>2. p \in Using /\ slot[p] \in Row
  BY <1>1 DEF Using, Serving, IInv, Control, Placed, Dead
<1>3. name'[slot[p]] = n /\ \A i \in Row : i # slot[p] => name'[i] = name[i]
  BY <1>1, <1>2 DEF IInv, TypeOK
<1>4. \A q \in Proc \ clashed : q # p /\ Settled(q)' => Settled(q) /\ name'[slot[q]] = name[slot[q]]
  <2> SUFFICES ASSUME NEW q \in Proc \ clashed, q # p, Settled(q)'
               PROVE  Settled(q) /\ name'[slot[q]] = name[slot[q]]
    OBVIOUS
  <2>1. Settled(q) /\ LoggedIn(q)
    BY <1>1 DEF Settled, LoggedIn, Casting
  <2>2. slot[p] # slot[q] /\ slot[q] \in Row
    BY <1>2, <2>1, OwnSlot, PlaceOwned
  <2> QED BY <1>3, <2>1, <2>2
<1>5. \A r \in Proc : pc'[r] = "rename" => r # p /\ pc[r] = "rename" /\ job'[r] = job[r]
  BY <1>1 DEF IInv, TypeOK
<1> HIDE DEF n
<1>6. Rivals'
  BY <1>1, <1>5 DEF Names, Rivals
<1>7. LateRivals'
  <2> SUFFICES ASSUME NEW r \in Proc \ clashed, NEW q \in Proc \ clashed, r # q,
                      pc'[r] = "rename", Settled(q)', name'[slot[q]] = job'[r].nick
               PROVE  {r, q} \subseteq raced
    BY <1>1 DEF LateRivals
  <2>1. r # p /\ pc[r] = "rename" /\ job'[r] = job[r]
    BY <1>5
  <2>2. CASE q = p
    <3>1. job[r].nick = job[p].nick
      BY <1>3, <2>1, <2>2 DEF n
    <3> QED BY <1>1, <2>1, <2>2, <3>1 DEF Names, Rivals
  <2>3. CASE q # p
    BY <1>4, <2>1, <2>3 DEF Names, LateRivals
  <2> QED BY <2>2, <2>3
<1>8. UniqueNames'
  <2>1. \A q \in Proc \ clashed : p # q /\ p \notin clashed /\ Settled(q)' /\ name'[slot[q]] = n =>
          {p, q} \subseteq raced
    BY <1>1, <1>4 DEF Names, LateRivals, n
  <2> SUFFICES ASSUME NEW r \in Proc \ clashed, NEW q \in Proc \ clashed, r # q,
                      Settled(r)', Settled(q)', name'[slot[r]] = name'[slot[q]],
                      name'[slot[r]] # NoName
               PROVE  {r, q} \subseteq raced
    BY <1>1 DEF UniqueNames
  <2>2. CASE r = p
    BY <1>3, <2>1, <2>2
  <2>3. CASE q = p
    BY <1>3, <2>1, <2>3
  <2>4. CASE r # p /\ q # p
    BY <1>4, <2>4 DEF Names, UniqueNames
  <2> QED BY <2>2, <2>3, <2>4
<1> QED BY <1>6, <1>7, <1>8 DEF Names

(* Every step keeps the names apart.                                       *)
LEMMA NamesStep ==
  ASSUME IInv, Names, [Next]_vars
  PROVE  Names'
<1>1. ASSUME NEW p \in Proc, CastStep(p), ~Rename(p) PROVE Names'
  <2>1. /\ Local(p) /\ Quiet(p) /\ pc[p] # "fill" /\ pc'[p] # "rename"
    BY <1>1, CastQuiet DEF CastStep, IInv, Control
  <2>2. UNCHANGED <<name, raced>>
    BY <1>1 DEF CastStep, Arm, Yell, Tell, NameLost, NameFifo, Open, Mark2, table
  <2>3. \A r \in Proc : Settled(r)' => Settled(r)
    BY <2>1 DEF Local, Quiet, Settled, LoggedIn, Casting
  <2> QED BY <2>1, <2>2, <2>3, NamesFrame DEF Local, Quiet
<1>2. ASSUME NEW p \in Proc, GotoStep(p), ~Fill(p), ~\E n \in Name : ChooseName(p, n) PROVE Names'
  <2>1. Local(p) /\ Quiet(p) /\ pc[p] # "fill" /\ pc'[p] # "rename"
    BY <1>2, GotoQuiet DEF GotoStep, IInv, Control
  <2>2. UNCHANGED <<name, raced>>
    <3>1. CASE Execs(p)
      BY <3>1, ExecMoves DEF IInv
    <3>2. CASE ~Execs(p)
      BY <1>2, <3>2 DEF GotoStep, NameFound, NameFifo, Clear, Send, Mark, Fork, Wait, Unmark, HangUp, Clean,
                       table
    <3> QED BY <3>1, <3>2
  <2>3. \A r \in Proc : Settled(r)' => Settled(r)
    BY <2>1 DEF Local, Quiet, Settled, LoggedIn, Casting
  <2> QED BY <2>1, <2>2, <2>3, NamesFrame DEF Local, Quiet
<1>3. ASSUME NEW p \in Proc, Leave(p) PROVE Names'
  <2>1. /\ pc[p] = "prompt" /\ pc'[p] = "cast" /\ then'[p] = "clean"
        /\ \A q \in Proc : q # p => pc'[q] = pc[q] /\ then'[q] = then[q]
        /\ UNCHANGED <<slot, clashed, raced, name, job>>
    BY <1>3, CastMoves DEF Leave, IInv, Next3
  <2>2. \A r \in Proc : Settled(r)' => Settled(r)
    BY <2>1 DEF Settled, LoggedIn, Casting
  <2> QED BY <2>1, <2>2, NamesFrame
<1>4. ASSUME NEW p \in Proc, SetPid(p) \/ SetId(p) \/ Wipe(p) \/ Scan(p) PROVE Names'
  <2>1. /\ pc'[p] \in {"id", "fill", "accept", "pid"}
        /\ \A q \in Proc : q # p => pc'[q] = pc[q]
        /\ UNCHANGED <<then, raced, name, job>> /\ clashed \subseteq clashed'
    BY <1>4, GotoMoves DEF SetPid, SetId, Wipe, Scan, IInv, table
  <2>3. \A r \in Proc : r # p => slot'[r] = slot[r]
    BY <1>4 DEF SetPid, SetId, Wipe, Scan, IInv, TypeOK
  <2>2. \A r \in Proc : Settled(r)' => Settled(r) /\ r # p
    BY <2>1, <2>3 DEF Settled, LoggedIn, Casting, Serving, Past
  <2> QED BY <2>1, <2>2, <2>3, NamesFrame
<1>5. ASSUME NEW a \in {Server} \cup Proc, Connect(a) PROVE Names'
  <2>1. /\ pc' = [pc EXCEPT ![forked + 1] = "scan"]
        /\ UNCHANGED <<slot, clashed, raced, name, job, then>>
    BY <1>5 DEF Connect, Goto, table
  <2>2. \A r \in Proc : pc'[r] = "scan" \/ pc'[r] = pc[r]
    BY <2>1 DEF IInv, TypeOK
  <2>3. \A r \in Proc : Settled(r)' => Settled(r)
    BY <2>1, <2>2 DEF Settled, LoggedIn, Casting, Serving
  <2> QED BY <2>1, <2>2, <2>3, NamesFrame
<1>6. ASSUME NEW p \in Proc, Post(p) PROVE Names'
  <2>1. /\ Quiet(p) /\ pc[p] = "cast" /\ pc'[p] \in {"cast", "kill"} \cup Next3
        /\ \A q \in Proc : q # p => pc'[q] = pc[q]
        /\ UNCHANGED <<then, job, slot, name, raced>>
    BY <1>6, PostQuiet DEF IInv, Control, Post, table
  <2>2. \A r \in Proc : Settled(r)' => Settled(r)
    BY <2>1 DEF Quiet, Settled, LoggedIn, Casting
  <2>3. \A r \in Proc : pc'[r] = "rename" => pc[r] = "rename"
    BY <2>1 DEF Next3
  <2> QED BY <2>1, <2>2, <2>3, NamesFrame DEF Quiet
<1>7. ASSUME NEW p \in Proc, Kill(p) \/ Vanish(p) PROVE Names'
  <2>1. /\ \A r \in Proc : pc'[r] \in {pc[r]} \cup Dead \/ (pc[r] = "kill" /\ pc'[r] = "cast")
        /\ UNCHANGED <<slot, clashed, raced, name, job, then>>
    BY <1>7, FallMoves DEF Falls
  <2>2. \A r \in Proc : Settled(r)' => Settled(r)
    BY <2>1 DEF Settled, LoggedIn, Casting, Serving, Dead
  <2>3. \A r \in Proc : pc'[r] = "rename" => pc[r] = "rename"
    BY <2>1 DEF Dead
  <2> QED BY <2>1, <2>2, <2>3, NamesFrame
<1>8. ASSUME Still \/ (\E p \in Proc, k \in Kind : Handle(k, p)) PROVE Names'
  <2>1. UNCHANGED <<pc, slot, clashed, raced, name, job, then>>
    BY <1>8 DEF Still, Handle, table
  <2>2. \A r \in Proc : Settled(r)' => Settled(r)
    BY <2>1 DEF Settled, LoggedIn, Casting
  <2> QED BY <2>1, <2>2, NamesFrame
<1>9. ASSUME NEW p \in Proc, CastStep(p) PROVE Names'
  BY <1>1, <1>9, NamesRename
<1>10. ASSUME NEW p \in Proc, GotoStep(p) PROVE Names'
  BY <1>2, <1>10, NamesFill, NamesChoose
<1> QED BY <1>3, <1>4, <1>5, <1>6, <1>7, <1>8, <1>9, <1>10, Steps

(* The check of a nickname and its use are two steps, so two clients can   *)
(* end with one; but then both were between those steps at once.           *)
THEOREM NamesAreUnique == Spec => []UniqueNames
<1>1. Init => Names
  <2> SUFFICES ASSUME Init PROVE Names
    OBVIOUS
  <2>1. \A p \in Proc : pc[p] # "rename" /\ ~Settled(p)
    BY DEF Init, Settled, LoggedIn, Serving
  <2> QED BY <2>1 DEF Names, Rivals, LateRivals, UniqueNames
<1>2. IInv /\ Names /\ [Next]_vars => Names'
  BY NamesStep
<1>3. Names => UniqueNames
  BY DEF Names
<1> QED BY <1>1, <1>2, <1>3, IInvHolds, PTL DEF Spec

-----------------------------------------------------------------------------
(* What stays: a process keeps the slot it has found                       *)

Scanned(p) == pc[p] \notin {"none", "scan"}
Entered(p) == pc[p] \notin {"none", "scan", "pid", "id"}
Was(s) == \E p \in Proc : slot[p] = s /\ Entered(p)
Sent(p) == pc[p] = "fork" \/ (Casting(p) /\ then[p] = "fork")

(* A process that has found a slot keeps it, and those past their login    *)
(* stay so.                                                                *)
LEMMA Onward ==
  ASSUME IInv, [Next]_vars, NEW r \in Proc
  PROVE  /\ Scanned(r) => Scanned(r)' /\ slot'[r] = slot[r]
         /\ Entered(r) => Entered(r)'
<1>1. ASSUME UNCHANGED slot, NEW p \in Proc, Entered(p)', \A q \in Proc : q # p => pc'[q] = pc[q]
      PROVE  /\ Scanned(r) => Scanned(r)' /\ slot'[r] = slot[r]
             /\ Entered(r) => Entered(r)'
  BY <1>1 DEF Scanned, Entered
<1>2. ASSUME NEW p \in Proc, CastStep(p) \/ GotoStep(p) \/ Post(p) \/ Leave(p)
      PROVE  /\ Scanned(r) => Scanned(r)' /\ slot'[r] = slot[r]
             /\ Entered(r) => Entered(r)'
  <2>1. ASSUME Quiet(p) PROVE UNCHANGED slot /\ Entered(p)'
    BY <2>1, SMTT(30) DEF Quiet, Entered, Starting, Serving, Leaving
  <2>2. CASE CastStep(p) \/ GotoStep(p)
    BY <1>1, <2>1, <2>2, CastQuiet, GotoQuiet DEF CastStep, GotoStep, Local, IInv, Control
  <2>3. CASE Post(p)
    BY <1>1, <2>1, <2>3, PostQuiet DEF IInv, Control
  <2>4. CASE Leave(p)
    <3>1. UNCHANGED slot /\ Broadcast(p, Slot \ {slot[p]}, "clean")
      BY <2>4 DEF Leave
    <3>2. pc'[p] = "cast" /\ \A q \in Proc : q # p => pc'[q] = pc[q]
      BY <3>1, CastMoves DEF IInv, Next3
    <3> QED BY <1>1, <3>1, <3>2 DEF Entered
  <2> QED BY <1>2, <2>2, <2>3, <2>4
<1>3. ASSUME NEW p \in Proc, Kill(p) \/ Vanish(p)
      PROVE  /\ Scanned(r) => Scanned(r)' /\ slot'[r] = slot[r]
             /\ Entered(r) => Entered(r)'
  <2>1. UNCHANGED slot /\ (pc'[r] \in {pc[r]} \cup Dead \/ (pc[r] = "kill" /\ pc'[r] = "cast"))
    BY <1>3, FallMoves DEF Falls
  <2> QED BY <2>1 DEF Scanned, Entered, Dead
<1>4. ASSUME NEW p \in Proc, Scan(p) \/ SetPid(p) \/ SetId(p) \/ Wipe(p)
      PROVE  /\ Scanned(r) => Scanned(r)' /\ slot'[r] = slot[r]
             /\ Entered(r) => Entered(r)'
  <2>1. \A q \in Proc : q # p => pc'[q] = pc[q] /\ slot'[q] = slot[q]
    BY <1>4, GotoMoves DEF Scan, SetPid, SetId, Wipe, IInv, TypeOK
  <2>2. CASE r # p
    BY <2>1, <2>2 DEF Scanned, Entered
  <2>3. CASE r = p
    <3>1. CASE Scan(p)
      BY <2>3, <3>1 DEF Scan, Scanned, Entered
    <3>2. CASE SetPid(p)
      BY <2>3, <3>2, GotoMoves DEF SetPid, IInv, Scanned, Entered
    <3>3. CASE SetId(p)
      BY <2>3, <3>3, GotoMoves DEF SetId, IInv, Scanned, Entered
    <3>4. CASE Wipe(p)
      BY <2>3, <3>4, GotoMoves DEF Wipe, IInv, Scanned, Entered
    <3> QED BY <1>4, <3>1, <3>2, <3>3, <3>4
  <2> QED BY <2>2, <2>3
<1>5. ASSUME NEW a \in {Server} \cup Proc, Connect(a)
      PROVE  /\ Scanned(r) => Scanned(r)' /\ slot'[r] = slot[r]
             /\ Entered(r) => Entered(r)'
  <2>1. /\ pc' = [pc EXCEPT ![forked + 1] = "scan"] /\ forked + 1 \in Proc /\ UNCHANGED slot
    BY <1>5, SizeAssumption DEF Connect, Goto, IInv, TypeOK, Proc
  <2>2. pc[forked + 1] = "none"
    <3>1. forked + 1 > forked
      BY DEF IInv, TypeOK
    <3> QED BY <2>1, <3>1 DEF IInv, Control, Forked
  <2>3. r # forked + 1 => pc'[r] = pc[r]
    BY <2>1 DEF IInv, TypeOK
  <2> QED BY <2>1, <2>2, <2>3 DEF Scanned, Entered
<1>6. ASSUME Still \/ (\E p \in Proc, k \in Kind : Handle(k, p))
      PROVE  /\ Scanned(r) => Scanned(r)' /\ slot'[r] = slot[r]
             /\ Entered(r) => Entered(r)'
  BY <1>6 DEF Still, Handle, Scanned, Entered
<1> QED BY <1>2, <1>3, <1>4, <1>5, <1>6, Steps

(* A slot that has been somebody's has been so ever since.                 *)
LEMMA WasOnward ==
  ASSUME IInv, [Next]_vars, NEW s, Was(s)
  PROVE  Was(s)'
<1>1. PICK p \in Proc : slot[p] = s /\ Entered(p)
  BY DEF Was
<1>2. Scanned(p)
  BY <1>1 DEF Scanned, Entered
<1>3. slot'[p] = s /\ Entered(p)'
  BY <1>1, <1>2, Onward
<1> QED BY <1>3 DEF Was

(* A process's command is its own.                                         *)
LEMMA OwnJob ==
  ASSUME IInv, [Next]_vars, NEW r \in Proc
  PROVE  job'[r] = job[r] \/ CastStep(r) \/ GotoStep(r)
<1>1. ASSUME NEW p \in Proc, CastStep(p) \/ GotoStep(p)
      PROVE  job'[r] = job[r] \/ CastStep(r) \/ GotoStep(r)
  <2>1. Local(p)
    BY <1>1, CastQuiet, GotoQuiet DEF CastStep, GotoStep, IInv, Control
  <2> QED BY <1>1, <2>1 DEF Local
<1>2. ASSUME UNCHANGED job PROVE job'[r] = job[r]
  BY <1>2
<1>3. ASSUME NEW p \in Proc,
             \/ Scan(p) \/ SetPid(p) \/ SetId(p) \/ Post(p) \/ Kill(p) \/ Vanish(p) \/ Leave(p)
             \/ Wipe(p) \/ \E k \in Kind : Handle(k, p)
      PROVE  UNCHANGED job
  BY <1>3 DEF Scan, SetPid, SetId, Post, Kill, Vanish, Leave, Wipe, Handle
<1>4. ASSUME NEW a \in {Server} \cup Proc, Connect(a) PROVE UNCHANGED job
  BY <1>4 DEF Connect
<1>5. CASE Still
  BY <1>5 DEF Still
<1> QED BY <1>1, <1>2, <1>3, <1>4, <1>5, Steps

(* Before its login a process has no slot, and no command.                 *)
Fresh == \A p \in Proc : /\ ~Scanned(p) => slot[p] = None
                         /\ ~Entered(p) => job[p] = NoJob

(* Every step keeps those before their login without slot and command.     *)
LEMMA FreshStep ==
  ASSUME IInv, Fresh, [Next]_vars
  PROVE  Fresh'
<1> SUFFICES ASSUME NEW r \in Proc
             PROVE  /\ ~Scanned(r)' => slot'[r] = None
                    /\ ~Entered(r)' => job'[r] = NoJob
  BY DEF Fresh
<1>1. ~Scanned(r)' => slot'[r] = slot[r]
  <2>1. ASSUME Scan(r) PROVE Scanned(r)'
    <3>1. pc'[r] = "pid"
      BY <2>1, GotoMoves DEF Scan, IInv
    <3> QED BY <3>1 DEF Scanned
  <2>2. ASSUME NEW p \in Proc, Scan(p), p # r PROVE slot'[r] = slot[r]
    BY <2>2 DEF Scan, IInv, TypeOK
  <2>3. ASSUME NEW p \in Proc, CastStep(p) \/ GotoStep(p) PROVE UNCHANGED slot
    BY <2>3, CastQuiet, GotoQuiet DEF CastStep, GotoStep, Quiet, IInv, Control
  <2>4. ASSUME NEW p \in Proc,
               \/ SetPid(p) \/ SetId(p) \/ Post(p) \/ Kill(p) \/ Vanish(p) \/ Leave(p) \/ Wipe(p)
               \/ \E k \in Kind : Handle(k, p)
        PROVE  UNCHANGED slot
    BY <2>4 DEF SetPid, SetId, Post, Kill, Vanish, Leave, Wipe, Handle
  <2>5. ASSUME NEW a \in {Server} \cup Proc, Connect(a) PROVE UNCHANGED slot
    BY <2>5 DEF Connect
  <2>6. CASE Still
    BY <2>6 DEF Still
  <2>7. CASE UNCHANGED slot
    BY <2>7
  <2> QED BY <2>1, <2>2, <2>3, <2>4, <2>5, <2>6, <2>7, Steps
<1>2. ~Scanned(r)' => slot'[r] = None
  BY <1>1, Onward DEF Fresh
<1>3. ~Entered(r)' => job'[r] = NoJob
  <2>1. CASE job'[r] = job[r]
    BY <2>1, Onward DEF Fresh
  <2>2. CASE CastStep(r) \/ GotoStep(r)
    <3>1. Quiet(r)
      BY <2>2, CastQuiet, GotoQuiet DEF CastStep, GotoStep, IInv, Control
    <3>2. Entered(r)'
      BY <3>1 DEF Quiet, Entered, Starting, Serving, Leaving
    <3> QED BY <3>2
  <2> QED BY <2>1, <2>2, OwnJob
<1> QED BY <1>2, <1>3

(* Those that clashed share a slot.                                        *)
Clashes ==
  \A p \in clashed : Scanned(p) /\ \E q \in Proc \ {p} : slot[q] = slot[p] /\ Scanned(q)

(* Every step keeps the clashed together.                                  *)
LEMMA ClashesStep ==
  ASSUME IInv, Clashes, [Next]_vars
  PROVE  Clashes'
<1>1. ASSUME NEW p \in Proc, Scanned(p), NEW q \in Proc, q # p, slot[q] = slot[p], Scanned(q)
      PROVE  Scanned(p)' /\ \E s \in Proc \ {p} : slot'[s] = slot'[p] /\ Scanned(s)'
  BY <1>1, Onward
<1>2. ASSUME NEW p \in Proc, Scan(p) PROVE Clashes'
  <2> DEFINE i == Lowest(FreeSlots)
             others == {q \in Using : slot[q] = i}
  <2>1. /\ slot' = [slot EXCEPT ![p] = i] /\ Goto(p, "pid") /\ pc[p] = "scan"
        /\ clashed' = IF others = {} THEN clashed ELSE clashed \cup others \cup {p}
    BY <1>2 DEF Scan
  <2>2. pc'[p] = "pid" /\ \A q \in Proc : q # p => pc'[q] = pc[q]
    BY <2>1, GotoMoves DEF IInv
  <2> HIDE DEF i
  <2>3. slot'[p] = i /\ \A q \in Proc : q # p => slot'[q] = slot[q]
    BY <2>1 DEF IInv, TypeOK
  <2>4. \A q \in others : q \in Proc /\ q # p /\ slot'[q] = i /\ Scanned(q)'
    <3> SUFFICES ASSUME NEW q \in others PROVE q \in Proc /\ q # p /\ slot'[q] = i /\ Scanned(q)'
      OBVIOUS
    <3>1. q \in Using /\ slot[q] = i
      OBVIOUS
    <3>2. q \in Proc /\ pc[q] \notin {"none", "scan"}
      BY <3>1 DEF Using, Starting, Serving, Leaving
    <3> QED BY <2>1, <2>2, <2>3, <3>1, <3>2 DEF Scanned
  <2>5. Scanned(p)'
    BY <2>2 DEF Scanned
  <2> SUFFICES ASSUME NEW r \in clashed'
               PROVE  Scanned(r)' /\ \E s \in Proc \ {r} : slot'[s] = slot'[r] /\ Scanned(s)'
    BY DEF Clashes
  <2> HIDE DEF others
  <2>6. CASE r \in clashed
    <3>1. r \in Proc
      BY <2>6 DEF IInv, TypeOK
    <3>2. PICK s \in Proc \ {r} : slot[s] = slot[r] /\ Scanned(s)
      BY <2>6 DEF Clashes
    <3> QED BY <1>1, <2>6, <3>1, <3>2 DEF Clashes
  <2>7. CASE r \notin clashed
    <3>1. others # {} /\ (r \in others \/ r = p)
      BY <2>1, <2>7
    <3>2. PICK o \in others : TRUE
      BY <3>1
    <3>3. CASE r = p
      BY <2>3, <2>4, <2>5, <3>2, <3>3
    <3>4. CASE r \in others
      BY <2>3, <2>4, <2>5, <3>4
    <3> QED BY <3>1, <3>3, <3>4
  <2> QED BY <2>6, <2>7
<1>3. ASSUME UNCHANGED clashed PROVE Clashes'
  <2> SUFFICES ASSUME NEW r \in clashed
               PROVE  Scanned(r)' /\ \E s \in Proc \ {r} : slot'[s] = slot'[r] /\ Scanned(s)'
    BY <1>3 DEF Clashes
  <2>1. r \in Proc /\ Scanned(r)
    BY DEF IInv, TypeOK, Clashes
  <2>2. PICK s \in Proc \ {r} : slot[s] = slot[r] /\ Scanned(s)
    BY DEF Clashes
  <2> QED BY <1>1, <2>1, <2>2
<1>4. ASSUME NEW p \in Proc, CastStep(p) \/ GotoStep(p) PROVE UNCHANGED clashed
  BY <1>4, CastQuiet, GotoQuiet DEF CastStep, GotoStep, Quiet, IInv, Control
<1>5. ASSUME NEW p \in Proc,
             \/ SetPid(p) \/ SetId(p) \/ Post(p) \/ Kill(p) \/ Vanish(p) \/ Leave(p) \/ Wipe(p)
             \/ \E k \in Kind : Handle(k, p)
      PROVE  UNCHANGED clashed
  BY <1>5 DEF SetPid, SetId, Post, Kill, Vanish, Leave, Wipe, Handle
<1>6. ASSUME NEW a \in {Server} \cup Proc, Connect(a) PROVE UNCHANGED clashed
  BY <1>6 DEF Connect
<1>7. ASSUME Still PROVE UNCHANGED clashed
  BY <1>7 DEF Still
<1> QED BY <1>2, <1>3, <1>4, <1>5, <1>6, <1>7, Steps

-----------------------------------------------------------------------------
(* What a process knows of the pipe it receives from                       *)

(* It has an answer from the FIFO from its open() on, until it is done or  *)
(* killed.                                                                 *)
Fetching(p) ==
  \/ pc[p] \in {"clear", "send", "mark", "mark2", "fork", "wait", "unmark"}
  \/ Casting(p) /\ then[p] \in {"clear", "fork"}
IdleOf(p) ==
  /\ job[p].recv # "no" => (Fetching(p) \/ pc[p] \in Dead)
  /\ pc[p] = "clear" \/ (Casting(p) /\ then[p] = "clear") => job[p].recv # "no"
Idle == \A p \in Proc : IdleOf(p)

(* Broadcasting for a command it keeps the command's answer.               *)
LEMMA IdleCast ==
  ASSUME IInv, Idle, NEW p \in Proc, CastStep(p)
  PROVE  IdleOf(p)'
<1>1. CASE Open(p) \/ NameLost(p)
  <2>1. pc'[p] = "cast" /\ then'[p] = "clear"
    BY <1>1, CastMoves DEF Open, NameLost, NameFifo, IInv, Next3
  <2>2. \E r \in {"ok", "bad"} : job' = [job EXCEPT ![p].recv = r]
    BY <1>1 DEF Open, NameLost, NameFifo
  <2>3. job'[p].recv # "no"
    BY <2>2 DEF IInv, TypeOK, Job
  <2> QED BY <2>1, <2>3 DEF IdleOf, Fetching, Casting
<1>2. CASE Mark2(p)
  <2>1. pc'[p] = "cast" /\ then'[p] = "fork"
    BY <1>2, CastMoves DEF Mark2, IInv, Next3
  <2> QED BY <2>1 DEF IdleOf, Fetching, Casting
<1>3. CASE Rename(p)
  <2>1. pc'[p] = "cast" /\ then'[p] = "prompt" /\ job'[p] = NoJob
    BY <1>3, CastMoves DEF Rename, IInv, Next3, TypeOK
  <2> QED BY <2>1 DEF IdleOf, NoJob, Casting
<1>4. CASE Arm(p) \/ Yell(p) \/ (\E j \in Slot : Tell(p, j))
  <2>1. pc'[p] = "cast" /\ then'[p] = "prompt" /\ UNCHANGED job /\ pc[p] \in {"arm", "prompt"}
    BY <1>4, CastMoves DEF Arm, Yell, Tell, IInv, Next3
  <2>2. job[p].recv = "no"
    BY <2>1 DEF Idle, IdleOf, Fetching, Casting, Dead
  <2> QED BY <2>1, <2>2 DEF IdleOf, Casting
<1> QED BY <1>1, <1>2, <1>3, <1>4 DEF CastStep

(* Going on with the command it keeps it until Unmark.                     *)
LEMMA IdleGoto ==
  ASSUME IInv, Idle, NEW p \in Proc, GotoStep(p)
  PROVE  IdleOf(p)'
<1>1. CASE Execs(p)
  <2>1. PICK from \in Slot \cup {None}, to \in Slot \cup {None}, waits \in BOOLEAN :
          Exec(p, from, to, waits)
    BY <1>1 DEF Execs
  <2>2. \E f \in {from, None} :
          job' = [job EXCEPT ![p] = [NoJob EXCEPT !.from = f, !.to = to, !.waits = waits]]
    BY <2>1 DEF Exec
  <2>3. job'[p].recv = "no"
    BY <2>2 DEF IInv, TypeOK, NoJob
  <2>4. pc'[p] \in {"name", "send"}
    BY <1>1, ExecMoves, GotoMoves DEF IInv
  <2> QED BY <2>3, <2>4 DEF IdleOf, Casting
<1>8. CASE NameFound(p)
  <2>1. pc[p] = "name" /\ pc'[p] = "open" /\ UNCHANGED job
    BY <1>8, GotoMoves DEF NameFound, NameFifo, IInv
  <2>2. job[p].recv = "no"
    BY <2>1 DEF Idle, IdleOf, Fetching, Casting, Dead
  <2> QED BY <2>1, <2>2 DEF IdleOf, Casting
<1>2. CASE \E n \in Name : ChooseName(p, n)
  <2>1. PICK n \in Name : ChooseName(p, n)
    BY <1>2
  <2>2. job'[p].recv = job[p].recv /\ pc[p] = "prompt" /\ pc'[p] = "rename"
    BY <2>1, GotoMoves DEF ChooseName, IInv, TypeOK, Job
  <2>3. job[p].recv = "no"
    BY <2>2 DEF Idle, IdleOf, Fetching, Casting, Dead
  <2> QED BY <2>2, <2>3 DEF IdleOf, Casting
<1>3. CASE Send(p)
  <2>1. Goto(p, "mark") \/ Goto(p, "fork")
    BY <1>3 DEF Send
  <2>2. pc'[p] \in {"mark", "fork"}
    BY <2>1, GotoMoves DEF IInv
  <2> QED BY <2>2 DEF IdleOf, Fetching, Casting
<1>4. CASE Unmark(p)
  <2>1. job'[p] = NoJob /\ pc'[p] = "prompt"
    BY <1>4, GotoMoves DEF Unmark, IInv, TypeOK
  <2> QED BY <2>1 DEF IdleOf, NoJob, Casting
<1>5. CASE Fork(p)
  <2>1. Goto(p, "wait") \/ Goto(p, "unmark")
    BY <1>5 DEF Fork
  <2>2. pc'[p] \in {"wait", "unmark"}
    BY <2>1, GotoMoves DEF IInv
  <2> QED BY <2>2 DEF IdleOf, Fetching, Casting
<1>6. CASE Clear(p) \/ Mark(p) \/ Wait(p)
  <2>1. pc'[p] \in {"send", "mark2", "unmark"}
    BY <1>6, GotoMoves DEF Clear, Mark, Wait, IInv
  <2> QED BY <2>1 DEF IdleOf, Fetching, Casting
<1>7. CASE Fill(p) \/ HangUp(p) \/ Clean(p)
  <2>1. pc'[p] \in {"arm", "wipe"} /\ UNCHANGED job /\ pc[p] \in {"fill", "prompt", "clean"}
    BY <1>7, GotoMoves DEF Fill, HangUp, Clean, IInv
  <2>2. job[p].recv = "no"
    BY <2>1 DEF Idle, IdleOf, Fetching, Casting, Dead
  <2> QED BY <2>1, <2>2 DEF IdleOf, Casting
<1> QED BY <1>1, <1>2, <1>3, <1>4, <1>5, <1>6, <1>7, <1>8 DEF GotoStep

(* So does every step.                                                     *)
LEMMA IdleStep ==
  ASSUME IInv, Idle, [Next]_vars
  PROVE  Idle'
<1>1. ASSUME NEW p \in Proc, CastStep(p) \/ GotoStep(p) PROVE Idle'
  <2>1. Local(p)
    BY <1>1, CastQuiet, GotoQuiet DEF CastStep, GotoStep, IInv, Control
  <2>2. IdleOf(p)'
    BY <1>1, IdleCast, IdleGoto
  <2> QED BY <2>1, <2>2 DEF Local, Idle, IdleOf, Fetching, Casting
<1>2. ASSUME NEW p \in Proc, Post(p) PROVE Idle'
  <2>1. /\ pc[p] = "cast" /\ UNCHANGED <<then, job>>
        /\ \A q \in Proc : q # p => pc'[q] = pc[q]
    BY <1>2, PostQuiet DEF IInv, Control
  <2>2. pc'[p] \in {"cast", "kill", then[p]} /\ then[p] \in Next3
    <3>1. pc' = pc \/ Goto(p, then[p]) \/ Goto(p, "kill")
      BY <1>2 DEF Post
    <3> QED BY <2>1, <3>1, GotoMoves DEF IInv, TypeOK, Next3
  <2>3. IdleOf(p)'
    BY <2>1, <2>2 DEF Idle, IdleOf, Fetching, Casting, Next3, Dead
  <2> QED BY <2>1, <2>3 DEF Idle, IdleOf, Fetching, Casting
<1>3. ASSUME NEW p \in Proc, Kill(p) \/ Vanish(p) PROVE Idle'
  <2>1. /\ \A r \in Proc : pc'[r] \in {pc[r]} \cup Dead \/ (pc[r] = "kill" /\ pc'[r] = "cast")
        /\ UNCHANGED <<then, job>>
    BY <1>3, FallMoves DEF Falls
  <2> QED BY <2>1 DEF Idle, IdleOf, Fetching, Casting, Dead
<1>4. ASSUME NEW p \in Proc, Leave(p) PROVE Idle'
  <2>1. /\ pc[p] = "prompt" /\ pc'[p] = "cast" /\ then'[p] = "clean" /\ UNCHANGED job
        /\ \A q \in Proc : q # p => pc'[q] = pc[q] /\ then'[q] = then[q]
    BY <1>4, CastMoves DEF Leave, IInv, Next3
  <2>2. job[p].recv = "no"
    BY <2>1 DEF Idle, IdleOf, Fetching, Casting, Dead
  <2> QED BY <2>1, <2>2 DEF Idle, IdleOf, Fetching, Casting
<1>5. ASSUME NEW p \in Proc, SetPid(p) \/ SetId(p) \/ Wipe(p) \/ Scan(p) PROVE Idle'
  <2>1. /\ pc[p] \in {"pid", "id", "wipe", "scan"} /\ pc'[p] \in {"id", "fill", "accept", "pid"}
        /\ \A q \in Proc : q # p => pc'[q] = pc[q]
        /\ UNCHANGED <<then, job>>
    BY <1>5, GotoMoves DEF SetPid, SetId, Wipe, Scan, IInv
  <2>2. job[p].recv = "no"
    BY <2>1 DEF Idle, IdleOf, Fetching, Casting, Dead
  <2> QED BY <2>1, <2>2 DEF Idle, IdleOf, Fetching, Casting
<1>6. ASSUME NEW a \in {Server} \cup Proc, Connect(a) PROVE Idle'
  <2>1. /\ pc' = [pc EXCEPT ![forked + 1] = "scan"] /\ forked + 1 \in Proc
        /\ UNCHANGED <<job, then>>
    BY <1>6, SizeAssumption DEF Connect, Goto, IInv, TypeOK, Proc
  <2>2. pc[forked + 1] = "none"
    <3>1. forked + 1 > forked
      BY DEF IInv, TypeOK
    <3> QED BY <2>1, <3>1 DEF IInv, Control, Forked
  <2>3. job[forked + 1].recv = "no"
    BY <2>1, <2>2 DEF Idle, IdleOf, Fetching, Casting, Dead
  <2>4. \A r \in Proc : pc'[r] = IF r = forked + 1 THEN "scan" ELSE pc[r]
    BY <2>1 DEF IInv, TypeOK
  <2> QED BY <2>1, <2>3, <2>4 DEF Idle, IdleOf, Fetching, Casting
<1>7. ASSUME Still \/ (\E p \in Proc, k \in Kind : Handle(k, p)) PROVE Idle'
  BY <1>7 DEF Still, Handle, Idle, IdleOf, Fetching, Casting
<1> QED BY <1>1, <1>2, <1>3, <1>4, <1>5, <1>6, <1>7, Steps

-----------------------------------------------------------------------------
(* What is in the table and the FIFOs is of slots that were somebody's     *)

TakenWas == \A s \in Slot : taken[s] => Was(s)
MarksWas == \A x \in writeTo \cup readFrom : Was(x[1]) /\ Was(x[2])
FromWas == \A p \in Proc : job[p].from # None => Was(job[p].from)
ToWas == \A p \in Proc :
           (pc[p] \in {"mark", "mark2"} \/ Sent(p)) /\ job[p].to # None => Was(job[p].to)
WritersWas == \A w \in writers : Was(w.to) /\ Entered(w.by)
Traces == TakenWas /\ MarksWas /\ FromWas /\ ToWas /\ WritersWas

(* Who writes the table and the FIFOs.                                     *)
LEMMA TableWriters ==
  ASSUME IInv, [Next]_vars
  PROVE  /\ UNCHANGED taken \/ \E p \in Proc : SetId(p) \/ Leave(p) \/ Wipe(p)
         /\ \/ UNCHANGED <<writeTo, readFrom>>
            \/ \E p \in Proc : Fill(p) \/ Clear(p) \/ Mark(p) \/ Mark2(p) \/ Unmark(p) \/ Clean(p)
         /\ \/ UNCHANGED writers
            \/ \E p \in Proc : Open(p) \/ Fork(p)
            \/ \E x \in writers : WriterOpens(x) \/ WriterEnds(x)
<1>1. ASSUME NEW a \in {Server} \cup Proc, Connect(a) PROVE UNCHANGED <<table, fifos>>
  BY <1>1 DEF Connect
<1>2. ASSUME NEW p \in Proc, Step(p)
      PROVE  /\ UNCHANGED taken \/ SetId(p) \/ Wipe(p)
             /\ \/ UNCHANGED <<writeTo, readFrom>>
                \/ Fill(p) \/ Clear(p) \/ Mark(p) \/ Mark2(p) \/ Unmark(p) \/ Clean(p)
             /\ UNCHANGED writers \/ Open(p) \/ Fork(p)
  <2>1. CASE \/ Scan(p) \/ SetPid(p) \/ SetId(p) \/ Fill(p) \/ Arm(p)
             \/ Post(p) \/ Kill(p) \/ Rename(p)
    BY <2>1 DEF Scan, SetPid, SetId, Arm, Post, Kill, Rename, table, fifos, Fill
  <2>2. CASE \/ NameFifo(p) \/ Open(p) \/ Clear(p) \/ Send(p) \/ Mark(p) \/ Mark2(p)
    BY <2>2 DEF NameFifo, Open, Clear, Send, Mark, Mark2, table, fifos
  <2>3. CASE Fork(p) \/ Wait(p) \/ Unmark(p) \/ Clean(p) \/ Wipe(p)
    BY <2>3 DEF Fork, Wait, Unmark, Clean, Wipe, table, fifos
  <2> QED BY <1>2, <2>1, <2>2, <2>3 DEF Step
<1>3. ASSUME NEW p \in Proc, Client(p), ~Leave(p) PROVE UNCHANGED <<table, fifos>>
  <2>1. CASE Execs(p)
    BY <2>1, ExecMoves DEF IInv, table, fifos
  <2>2. CASE \/ HangUp(p) \/ Vanish(p) \/ Yell(p)
             \/ (\E j \in Slot : Tell(p, j)) \/ (\E n \in Name : ChooseName(p, n))
    BY <2>2 DEF HangUp, Vanish, Yell, Tell, ChooseName
  <2> QED BY <1>3, <2>1, <2>2 DEF Client, Execs
<1>4. ASSUME NEW p \in Proc, Leave(p) PROVE UNCHANGED <<writeTo, readFrom, writers>>
  BY <1>4 DEF Leave, fifos
<1>5. ASSUME NEW p \in Proc, NEW k \in Kind, Handle(k, p) PROVE UNCHANGED <<table, fifos>>
  BY <1>5 DEF Handle
<1>6. ASSUME NEW x, WriterOpens(x) \/ WriterEnds(x) PROVE UNCHANGED table
  BY <1>6 DEF WriterOpens, WriterEnds
<1>7. ASSUME NEW x, ReaderEnds(x) PROVE UNCHANGED <<table, writers>>
  BY <1>7 DEF ReaderEnds
<1>8. CASE UNCHANGED vars
  BY <1>8 DEF vars, table, fifos
<1>9. CASE \E a \in {Server} \cup Proc : Connect(a)
  BY <1>1, <1>9 DEF table, fifos
<1>10. CASE \E p \in Proc : Step(p)
  BY <1>2, <1>10
<1>11. CASE \E p \in Proc : Client(p)
  BY <1>3, <1>4, <1>11 DEF table, fifos
<1>12. CASE \E p \in Proc, k \in Kind : Handle(k, p)
  BY <1>5, <1>12 DEF table, fifos
<1>13. CASE \E x \in writers : WriterOpens(x) \/ WriterEnds(x)
  BY <1>6, <1>13 DEF table
<1>14. CASE \E x \in readers : ReaderEnds(x)
  BY <1>7, <1>14 DEF table
<1> QED BY <1>8, <1>9, <1>10, <1>11, <1>12, <1>13, <1>14 DEF Next

(* Every step keeps that of the slots taken,                               *)
LEMMA TakenWasStep ==
  ASSUME IInv, Traces, [Next]_vars
  PROVE  TakenWas'
<1> SUFFICES ASSUME NEW s \in Slot, taken'[s] PROVE Was(s)'
  BY DEF TakenWas
<1>1. CASE taken[s]
  BY <1>1, WasOnward DEF Traces, TakenWas
<1>2. CASE ~taken[s]
  <2>1. ASSUME NEW p \in Proc, Leave(p) \/ Wipe(p) PROVE taken[s]
    BY <2>1, Consts DEF Leave, Wipe, FreedSlot, IInv, TypeOK
  <2>2. PICK p \in Proc : SetId(p)
    BY <1>2, <2>1, TableWriters
  <2>3. /\ slot' = slot /\ pc'[p] = "fill" /\ taken' = [taken EXCEPT ![slot[p]] = TRUE]
    BY <2>2, GotoMoves DEF SetId, IInv
  <2>4. s = slot[p]
    BY <1>2, <2>3 DEF IInv, TypeOK
  <2> QED BY <2>3, <2>4 DEF Was, Entered
<1> QED BY <1>1, <1>2

(* of the marks,                                                           *)
LEMMA MarksWasStep ==
  ASSUME IInv, Traces, [Next]_vars
  PROVE  MarksWas'
<1> SUFFICES ASSUME NEW x \in writeTo' \cup readFrom' PROVE Was(x[1])' /\ Was(x[2])'
  BY DEF MarksWas
<1>1. CASE x \in writeTo \cup readFrom
  BY <1>1, WasOnward DEF Traces, MarksWas
<1>2. CASE x \notin writeTo \cup readFrom
  <2>1. ASSUME NEW p \in Proc, Fill(p) \/ Clear(p) \/ Unmark(p) \/ Clean(p)
        PROVE  x \in writeTo \cup readFrom
    BY <2>1 DEF Fill, Clear, ClearedMark, Unmark, Unmarked, Clean
  <2>2. PICK p \in Proc : Mark(p) \/ Mark2(p)
    BY <1>2, <2>1, TableWriters
  <2>3. x = <<slot[p], job[p].to>> /\ pc[p] \in {"mark", "mark2"}
    BY <1>2, <2>2 DEF Mark, Mark2
  <2>4. Was(slot[p])
    BY <2>3 DEF Was, Entered
  <2>5. Was(job[p].to)
    <3>1. job[p].to \in Slot /\ None \notin Slot
      BY <2>3, Consts DEF IInv, Jobs
    <3> QED BY <2>3, <3>1 DEF Traces, ToWas
  <2> QED BY <2>3, <2>4, <2>5, WasOnward
<1> QED BY <1>1, <1>2

(* of the slots commands read from,                                        *)
LEMMA FromWasStep ==
  ASSUME IInv, Traces, [Next]_vars
  PROVE  FromWas'
<1> SUFFICES ASSUME NEW p \in Proc, NEW f, job'[p].from = f, f # None PROVE Was(f)'
  BY DEF FromWas, Was
<1>1. CASE job[p].from = f
  BY <1>1, WasOnward DEF Traces, FromWas
<1>2. CASE job[p].from # f
  <2>1. CASE CastStep(p)
    <3>1. ASSUME Arm(p) \/ Yell(p) \/ (\E j \in Slot : Tell(p, j)) \/ Mark2(p) PROVE UNCHANGED job
      BY <3>1 DEF Arm, Yell, Tell, Mark2
    <3>2. ASSUME Open(p) \/ NameLost(p) PROVE job'[p].from = job[p].from
      <4>1. \E r \in {"ok", "bad"} : job' = [job EXCEPT ![p].recv = r]
        BY <3>2 DEF Open, NameLost, NameFifo
      <4> QED BY <4>1 DEF IInv, TypeOK, Job
    <3>3. ASSUME Rename(p) PROVE job'[p].from = None
      BY <3>3 DEF Rename, NoJob, IInv, TypeOK
    <3> QED BY <1>2, <2>1, <3>1, <3>2, <3>3 DEF CastStep
  <2>2. CASE GotoStep(p)
    <3>1. CASE Execs(p)
      <4>1. PICK from \in Slot \cup {None}, to \in Slot \cup {None}, waits \in BOOLEAN :
              Exec(p, from, to, waits)
        BY <3>1 DEF Execs
      <4> DEFINE receives == from # None /\ taken[from] /\ <<from, slot[p]>> \in writeTo
      <4>2. job' = [job EXCEPT ![p] = [NoJob EXCEPT !.from = IF receives THEN from ELSE None,
                                                    !.to = to, !.waits = waits]]
        BY <4>1 DEF Exec
      <4>3. job'[p].from = IF receives THEN from ELSE None
        BY <4>2 DEF IInv, TypeOK, NoJob
      <4>4. job'[p].from = from /\ from \in Slot /\ taken[from]
        BY <4>3
      <4> QED BY <4>4, WasOnward DEF Traces, TakenWas
    <3>2. CASE \E n \in Name : ChooseName(p, n)
      <4>1. PICK n \in Name : ChooseName(p, n)
        BY <3>2
      <4>2. job'[p].from = job[p].from
        BY <4>1 DEF ChooseName, IInv, TypeOK, Job
      <4> QED BY <1>2, <4>2
    <3>3. ASSUME Send(p) \/ Fork(p) PROVE job'[p].from = job[p].from
      <4>1. job' = job \/ job' = [job EXCEPT ![p].to = None]
        BY <3>3 DEF Send, Fork
      <4> QED BY <4>1 DEF IInv, TypeOK, Job
    <3>4. ASSUME Unmark(p) PROVE job'[p].from = None
      BY <3>4 DEF Unmark, NoJob, IInv, TypeOK
    <3>5. ASSUME Fill(p) \/ NameFound(p) \/ Clear(p) \/ Mark(p) \/ Wait(p) \/ HangUp(p) \/ Clean(p)
          PROVE  UNCHANGED job
      BY <3>5 DEF Fill, NameFound, NameFifo, Clear, Mark, Wait, HangUp, Clean
    <3> QED BY <1>2, <2>2, <3>1, <3>2, <3>3, <3>4, <3>5 DEF GotoStep
  <2>3. CASE job'[p] = job[p]
    BY <1>2, <2>3
  <2> QED BY <2>1, <2>2, <2>3, OwnJob
<1> QED BY <1>1, <1>2

(* and of the commands that hold a FIFO.                                   *)
LEMMA WritersWasStep ==
  ASSUME IInv, Traces, [Next]_vars
  PROVE  WritersWas'
<1> SUFFICES ASSUME NEW w \in writers' PROVE Was(w.to)' /\ Entered(w.by)'
  BY DEF WritersWas
<1>1. ASSUME NEW v \in writers, v.to = w.to, v.by = w.by PROVE Was(w.to)' /\ Entered(w.by)'
  <2>1. Was(w.to) /\ Entered(w.by) /\ w.by \in Proc
    BY <1>1 DEF Traces, WritersWas, IInv, TypeOK, Writer
  <2> QED BY <2>1, Onward, WasOnward
<1>2. ASSUME NEW p \in Proc, Open(p) PROVE \E v \in writers : v.to = w.to /\ v.by = w.by
  <2>1. CASE w \in writers
    BY <2>1
  <2>2. CASE w \notin writers
    <3>1. w \in Released(job[p].from, slot[p])
      BY <1>2, <2>2 DEF Open
    <3>2. PICK v \in writers : w = [v EXCEPT !.st = "writing"]
      BY <2>2, <3>1 DEF Released
    <3>3. v \in Writer
      BY DEF IInv, TypeOK
    <3>4. w.to = v.to /\ w.by = v.by
      BY <3>2, <3>3 DEF Writer
    <3> QED BY <3>4
  <2> QED BY <2>1, <2>2
<1>3. ASSUME NEW p \in Proc, Fork(p), w \notin writers PROVE Was(w.to)' /\ Entered(w.by)'
  <2>1. w = [by |-> p, to |-> job[p].to, st |-> "new"] /\ job[p].to # None /\ pc[p] = "fork"
    BY <1>3 DEF Fork
  <2>2. Was(job[p].to) /\ Entered(p)
    BY <2>1 DEF Traces, ToWas, Sent, Entered
  <2>3. w.to = job[p].to /\ w.by = p
    BY <2>1
  <2> QED BY <2>2, <2>3, Onward, WasOnward
<1>4. ASSUME NEW x \in writers, WriterOpens(x) \/ WriterEnds(x)
      PROVE  \E v \in writers : v.to = w.to /\ v.by = w.by
  <2>1. x \in Writer
    BY DEF IInv, TypeOK
  <2>2. w \in writers \/ w = [x EXCEPT !.st = "writing"] \/ w = [x EXCEPT !.st = "waiting"]
    BY <1>4 DEF WriterOpens, WriterEnds
  <2> QED BY <2>1, <2>2 DEF Writer
<1>5. CASE w \in writers
  BY <1>1, <1>5
<1> QED BY <1>1, <1>2, <1>3, <1>4, <1>5, TableWriters

-----------------------------------------------------------------------------
(* The steps of a process that are about its pipes                         *)

Cleared(p) ==
  \/ pc[p] \in {"send", "mark", "mark2", "fork", "wait", "unmark"}
  \/ Casting(p) /\ then[p] = "fork"

(* A step of which the process's pipes take no notice.                     *)
Calm(p) ==
  /\ pc'[p] = "mark2" <=> pc[p] = "mark2"
  /\ pc'[p] = "mark" => pc[p] = "mark"
  /\ Sent(p)' => Sent(p)
  /\ pc'[p] \in {"mark", "mark2"} \/ Sent(p)' => job'[p].to = job[p].to
  /\ job'[p].recv = job[p].recv
  /\ job[p].recv # "no" => job'[p].from = job[p].from
  /\ job[p].recv = "ok" /\ Cleared(p)' => Cleared(p)
  /\ pc'[p] = "fill" => pc[p] = "fill"

(* Of the steps that broadcast, only these three are not calm,             *)
LEMMA CalmCast ==
  ASSUME IInv, Idle, NEW p \in Proc, CastStep(p), ~NameLost(p), ~Open(p), ~Mark2(p)
  PROVE  Calm(p)
<1>1. /\ pc'[p] = "cast" /\ then'[p] = "prompt" /\ pc[p] \in {"arm", "prompt", "rename"}
  BY CastMoves DEF CastStep, Arm, Yell, Tell, Rename, IInv, Next3
<1>2. job[p].recv = "no"
  BY <1>1 DEF Idle, IdleOf, Fetching, Casting, Dead
<1>3. job'[p].recv = "no"
  <2>1. CASE Rename(p)
    BY <2>1 DEF Rename, NoJob, IInv, TypeOK
  <2>2. CASE ~Rename(p)
    BY <1>2, <2>2 DEF CastStep, Arm, Yell, Tell
  <2> QED BY <2>1, <2>2
<1> QED BY <1>1, <1>2, <1>3 DEF Calm, Sent, Cleared, Casting

(* of a command's others only these four,                                  *)
LEMMA CalmGoto ==
  ASSUME IInv, Idle, NEW p \in Proc, GotoStep(p), ~Clear(p), ~Send(p), ~Mark(p), ~Unmark(p)
  PROVE  Calm(p)
<1>1. CASE Execs(p)
  <2>1. PICK from \in Slot \cup {None}, to \in Slot \cup {None}, waits \in BOOLEAN :
          Exec(p, from, to, waits)
    BY <1>1 DEF Execs
  <2>2. \E f \in {from, None} :
          job' = [job EXCEPT ![p] = [NoJob EXCEPT !.from = f, !.to = to, !.waits = waits]]
    BY <2>1 DEF Exec
  <2>3. job'[p].recv = "no"
    BY <2>2 DEF IInv, TypeOK, NoJob
  <2>4. pc[p] = "prompt" /\ (Goto(p, "name") \/ Goto(p, "send"))
    BY <1>1, ExecMoves DEF IInv
  <2>5. pc'[p] \in {"name", "send"}
    BY <2>4, GotoMoves DEF IInv
  <2>6. job[p].recv = "no"
    BY <2>4 DEF Idle, IdleOf, Fetching, Casting, Dead
  <2> QED BY <2>3, <2>4, <2>5, <2>6 DEF Calm, Sent, Casting
<1>2. CASE \E n \in Name : ChooseName(p, n)
  <2>1. PICK n \in Name : ChooseName(p, n)
    BY <1>2
  <2>2. /\ job'[p].recv = job[p].recv /\ job'[p].from = job[p].from
        /\ pc[p] = "prompt" /\ pc'[p] = "rename"
    BY <2>1, GotoMoves DEF ChooseName, IInv, TypeOK, Job
  <2> QED BY <2>2 DEF Calm, Sent, Cleared, Casting
<1>3. CASE Fork(p)
  <2>1. /\ pc[p] = "fork" /\ (Goto(p, "wait") \/ Goto(p, "unmark"))
        /\ job' = [job EXCEPT ![p].to = None]
    BY <1>3 DEF Fork
  <2>2. pc'[p] \in {"wait", "unmark"}
    BY <2>1, GotoMoves DEF IInv
  <2>3. job'[p].recv = job[p].recv /\ job'[p].from = job[p].from
    BY <2>1 DEF IInv, TypeOK, Job
  <2> QED BY <2>1, <2>2, <2>3 DEF Calm, Sent, Cleared, Casting
<1>4. CASE Wait(p)
  <2>1. pc[p] = "wait" /\ pc'[p] = "unmark" /\ UNCHANGED job
    BY <1>4, GotoMoves DEF Wait, IInv
  <2> QED BY <2>1 DEF Calm, Sent, Cleared, Casting
<1>5. CASE Fill(p) \/ HangUp(p) \/ Clean(p)
  <2>1. pc'[p] \in {"arm", "wipe"} /\ UNCHANGED job /\ pc[p] \in {"fill", "prompt", "clean"}
    BY <1>5, GotoMoves DEF Fill, HangUp, Clean, IInv
  <2> QED BY <2>1 DEF Calm, Sent, Cleared, Casting
<1>6. CASE NameFound(p)
  <2>1. pc[p] = "name" /\ pc'[p] = "open" /\ UNCHANGED job
    BY <1>6, GotoMoves DEF NameFound, NameFifo, IInv
  <2> QED BY <2>1 DEF Calm, Sent, Cleared, Casting
<1> QED BY <1>1, <1>2, <1>3, <1>4, <1>5, <1>6 DEF GotoStep

(* and of all steps only these eight, and those that kill the process.     *)
LEMMA CalmStep ==
  ASSUME IInv, Idle, [Next]_vars, NEW r \in Proc
  PROVE  \/ Calm(r) \/ pc'[r] \in Dead
         \/ SetId(r) \/ NameLost(r) \/ Open(r) \/ Clear(r) \/ Send(r) \/ Mark(r) \/ Mark2(r) \/ Unmark(r)
<1>1. ASSUME pc'[r] = pc[r], then'[r] = then[r], job'[r] = job[r] PROVE Calm(r)
  BY <1>1 DEF Calm, Sent, Cleared, Casting
<1>2. ASSUME NEW p \in Proc, CastStep(p) \/ GotoStep(p), r # p PROVE Calm(r)
  <2>1. Local(p)
    BY <1>2, CastQuiet, GotoQuiet DEF CastStep, GotoStep, IInv, Control
  <2> QED BY <1>1, <1>2, <2>1 DEF Local
<1>3. ASSUME NEW p \in Proc, Post(p) PROVE Calm(r)
  <2>1. /\ pc[p] = "cast" /\ UNCHANGED <<then, job>>
        /\ \A q \in Proc : q # p => pc'[q] = pc[q]
    BY <1>3, PostQuiet DEF IInv, Control
  <2>2. pc'[p] \in {"cast", "kill", then[p]} /\ then[p] \in Next3
    <3>1. pc' = pc \/ Goto(p, then[p]) \/ Goto(p, "kill")
      BY <1>3 DEF Post
    <3> QED BY <2>1, <3>1, GotoMoves DEF IInv, TypeOK, Next3
  <2>3. Calm(p)
    BY <2>1, <2>2 DEF Calm, Sent, Cleared, Casting, Next3
  <2> QED BY <1>1, <2>1, <2>3
<1>4. ASSUME NEW p \in Proc, Kill(p) \/ Vanish(p) PROVE Calm(r) \/ pc'[r] \in Dead
  <2>1. /\ pc'[r] \in {pc[r]} \cup Dead \/ (pc[r] = "kill" /\ pc'[r] = "cast")
        /\ UNCHANGED <<then, job>>
    BY <1>4, FallMoves DEF Falls
  <2>2. ASSUME pc[r] = "kill", pc'[r] = "cast" PROVE Calm(r)
    BY <2>1, <2>2 DEF Calm, Sent, Cleared, Casting
  <2> QED BY <1>1, <2>1, <2>2
<1>5. ASSUME NEW p \in Proc, Leave(p) PROVE Calm(r)
  <2>1. /\ pc[p] = "prompt" /\ pc'[p] = "cast" /\ then'[p] = "clean" /\ UNCHANGED job
        /\ \A q \in Proc : q # p => pc'[q] = pc[q] /\ then'[q] = then[q]
    BY <1>5, CastMoves DEF Leave, IInv, Next3
  <2>2. Calm(p)
    BY <2>1 DEF Calm, Sent, Cleared, Casting
  <2> QED BY <1>1, <2>1, <2>2
<1>6. ASSUME NEW p \in Proc, SetPid(p) \/ Wipe(p) \/ Scan(p) \/ SetId(p), ~SetId(r) PROVE Calm(r)
  <2>1. /\ \A q \in Proc : q # p => pc'[q] = pc[q]
        /\ UNCHANGED <<then, job>>
    BY <1>6, GotoMoves DEF SetPid, SetId, Wipe, Scan, IInv
  <2>2. CASE r = p
    <3>1. pc[p] \in {"pid", "wipe", "scan"} /\ pc'[p] \in {"id", "accept", "pid"}
      BY <1>6, <2>2, GotoMoves DEF SetPid, Wipe, Scan, IInv
    <3> QED BY <2>1, <2>2, <3>1 DEF Calm, Sent, Cleared, Casting
  <2> QED BY <1>1, <2>1, <2>2
<1>7. ASSUME NEW a \in {Server} \cup Proc, Connect(a) PROVE Calm(r)
  <2>1. /\ pc' = [pc EXCEPT ![forked + 1] = "scan"] /\ forked + 1 \in Proc
        /\ UNCHANGED <<job, then>>
    BY <1>7, SizeAssumption DEF Connect, Goto, IInv, TypeOK, Proc
  <2>2. pc[forked + 1] = "none"
    <3>1. forked + 1 > forked
      BY DEF IInv, TypeOK
    <3> QED BY <2>1, <3>1 DEF IInv, Control, Forked
  <2>3. \A q \in Proc : pc'[q] = IF q = forked + 1 THEN "scan" ELSE pc[q]
    BY <2>1 DEF IInv, TypeOK
  <2> QED BY <2>1, <2>2, <2>3 DEF Calm, Sent, Cleared, Casting
<1>8. ASSUME Still \/ (\E p \in Proc, k \in Kind : Handle(k, p)) PROVE Calm(r)
  BY <1>1, <1>8 DEF Still, Handle
<1> QED BY <1>2, <1>3, <1>4, <1>5, <1>6, <1>7, <1>8, Steps, CalmCast, CalmGoto

(* Every step keeps it of the slots commands write to.                     *)
LEMMA ToWasStep ==
  ASSUME IInv, Idle, Traces, [Next]_vars
  PROVE  ToWas'
<1> SUFFICES ASSUME NEW p \in Proc, pc'[p] \in {"mark", "mark2"} \/ Sent(p)',
                    NEW t, job'[p].to = t, t # None
             PROVE  Was(t)'
  BY DEF ToWas, Was
<1>1. ASSUME pc[p] \in {"mark", "mark2"} \/ Sent(p), job[p].to = t PROVE Was(t)'
  BY <1>1, WasOnward DEF Traces, ToWas
<1>2. CASE Calm(p)
  BY <1>1, <1>2 DEF Calm
<1>3. CASE SetId(p) \/ Clear(p) \/ Unmark(p)
  <2>1. pc'[p] \in {"fill", "send", "prompt"}
    BY <1>3, GotoMoves DEF SetId, Clear, Unmark, IInv
  <2> QED BY <2>1 DEF Sent, Casting
<1>4. CASE Open(p) \/ NameLost(p)
  <2>1. pc'[p] = "cast" /\ then'[p] = "clear"
    BY <1>4, CastMoves DEF Open, NameLost, NameFifo, IInv, Next3
  <2> QED BY <2>1 DEF Sent
<1>7. CASE pc'[p] \in Dead
  BY <1>7 DEF Sent, Casting, Dead
<1>5. CASE Mark(p) \/ Mark2(p)
  BY <1>1, <1>5 DEF Mark, Mark2
<1>6. CASE Send(p)
  <2>1. CASE Sends(p)
    <3>1. UNCHANGED job /\ taken[job[p].to] /\ job[p].to \in Slot
      BY <1>6, <2>1 DEF Send, Sends, IInv, TypeOK, Job
    <3> QED BY <3>1, WasOnward DEF Traces, TakenWas
  <2>2. CASE ~Sends(p)
    <3>1. job' = [job EXCEPT ![p].to = None]
      BY <1>6, <2>2 DEF Send
    <3>2. t = None
      BY <3>1 DEF IInv, TypeOK, Job
    <3> QED BY <3>2
  <2> QED BY <2>1, <2>2
<1> QED BY <1>2, <1>3, <1>4, <1>5, <1>6, <1>7, CalmStep

(* Every step keeps all of them.                                           *)
LEMMA TracesStep ==
  ASSUME IInv, Idle, Traces, [Next]_vars
  PROVE  Traces'
  BY TakenWasStep, MarksWasStep, FromWasStep, ToWasStep, WritersWasStep DEF Traces

-----------------------------------------------------------------------------
(* One user pipe *)

Wr(p, q) == <<slot[p], slot[q]>> \in writeTo
Rd(p, q) == <<slot[p], slot[q]>> \in readFrom
Marking(p, q) == pc[p] = "mark" /\ job[p].to = slot[q]
SentTo(p, q) == Sent(p) /\ job[p].to = slot[q]
Held(p, q) == {w \in writers : On(w, slot[p], slot[q]) /\ w.st # "writing"}

(* A pipe goes from marking over sending to a command that holds its FIFO, *)
(* and from there to a receiver that clears its two marks.                 *)
OnePipe(p, q) ==
  /\ Wr(p, q) => Rd(p, q) \/ Sending(p, q)
  /\ Rd(p, q) => Wr(p, q) \/ Receiving(q, p)
  /\ Marking(p, q) \/ Sending(p, q) => ~Rd(p, q)
  /\ Sending(p, q) \/ SentTo(p, q) \/ Held(p, q) # {} => Wr(p, q)
  /\ SentTo(p, q) \/ Held(p, q) # {} \/ Receiving(q, p) => Rd(p, q)
  /\ Marking(p, q) \/ Sending(p, q) \/ SentTo(p, q) \/ Receiving(q, p) => Held(p, q) = {}
  /\ Receiving(q, p) => ~SentTo(p, q)
  /\ Receiving(q, p) /\ Cleared(q) => ~Wr(p, q)
  /\ pc[p] = "fill" => ~Wr(p, q) /\ ~Rd(p, q)
  /\ \A v, w \in Held(p, q) : v = w
  /\ job[q].recv = "bad" => job[q].from # slot[p]

Live(p, q) ==
  Pair(p, q) /\ ~Overwritten(slot[q]) /\ <<slot[p], slot[q]>> \notin torn \cup crossed
Pipes == \A p, q \in Proc : Live(p, q) => OnePipe(p, q)

(* The only client of its slot has it to itself.                           *)
LEMMA FirstAlone ==
  ASSUME IInv, Clashes, NEW p \in Proc, First(p), LoggedIn(p)
  PROVE  slot[p] \in Row /\ taken[slot[p]]
<1>1. p \notin clashed
  BY DEF Clashes, First
<1> QED BY <1>1, PlaceOwned

(* Only the reset of its slot's id makes a process a client's.             *)
LEMMA LoggedInBack ==
  ASSUME IInv, [Next]_vars, NEW r \in Proc, LoggedIn(r)'
  PROVE  LoggedIn(r) \/ SetId(r)
<1>1. ASSUME NEW p \in Proc, CastStep(p) \/ GotoStep(p) PROVE LoggedIn(r)
  <2>1. Local(p) /\ Quiet(p)
    BY <1>1, CastQuiet, GotoQuiet DEF CastStep, GotoStep, IInv, Control
  <2> QED BY <2>1 DEF Local, Quiet, LoggedIn, Casting
<1>2. ASSUME NEW p \in Proc, Post(p) PROVE LoggedIn(r)
  <2>1. Quiet(p) /\ UNCHANGED then /\ \A q \in Proc : q # p => pc'[q] = pc[q]
    BY <1>2, PostQuiet DEF IInv, Control
  <2> QED BY <2>1 DEF Quiet, LoggedIn, Casting
<1>3. ASSUME NEW p \in Proc, Kill(p) \/ Vanish(p) PROVE LoggedIn(r)
  <2>1. /\ pc'[r] \in {pc[r]} \cup Dead \/ (pc[r] = "kill" /\ pc'[r] = "cast")
        /\ UNCHANGED then
    BY <1>3, FallMoves DEF Falls
  <2> QED BY <2>1 DEF LoggedIn, Casting, Serving, Dead
<1>4. ASSUME NEW p \in Proc, Leave(p) PROVE LoggedIn(r)
  <2>1. /\ pc'[p] = "cast" /\ then'[p] = "clean"
        /\ \A q \in Proc : q # p => pc'[q] = pc[q] /\ then'[q] = then[q]
    BY <1>4, CastMoves DEF Leave, IInv, Next3
  <2> QED BY <2>1 DEF LoggedIn, Casting
<1>5. ASSUME NEW p \in Proc, SetPid(p) \/ SetId(p) \/ Wipe(p) \/ Scan(p) PROVE LoggedIn(r) \/ SetId(r)
  <2>1. /\ \A q \in Proc : q # p => pc'[q] = pc[q]
        /\ UNCHANGED then /\ (pc'[p] \in {"id", "accept", "pid"} \/ SetId(p))
    BY <1>5, GotoMoves DEF SetPid, SetId, Wipe, Scan, IInv
  <2> QED BY <2>1 DEF LoggedIn, Casting, Serving
<1>6. ASSUME NEW a \in {Server} \cup Proc, Connect(a) PROVE LoggedIn(r)
  <2>1. /\ pc' = [pc EXCEPT ![forked + 1] = "scan"] /\ UNCHANGED then
    BY <1>6 DEF Connect, Goto
  <2>2. pc'[r] \in {pc[r], "scan"}
    BY <2>1 DEF IInv, TypeOK
  <2> QED BY <2>1, <2>2 DEF LoggedIn, Casting, Serving
<1>7. ASSUME Still \/ (\E p \in Proc, k \in Kind : Handle(k, p)) PROVE LoggedIn(r)
  BY <1>7 DEF Still, Handle, LoggedIn, Casting
<1> QED BY <1>1, <1>2, <1>3, <1>4, <1>5, <1>6, <1>7, Steps

(* What went wrong with a FIFO stays noted.                                *)
LEMMA NotesGrow ==
  ASSUME IInv, [Next]_vars
  PROVE  torn \subseteq torn' /\ crossed \subseteq crossed'
<1>1. ASSUME NEW a \in {Server} \cup Proc, Connect(a) PROVE UNCHANGED <<torn, crossed>>
  BY <1>1 DEF Connect, fifos
<1>2. ASSUME NEW p \in Proc, Step(p) PROVE torn \subseteq torn' /\ crossed \subseteq crossed'
  <2>1. CASE Fill(p) \/ Open(p)
    BY <2>1 DEF Fill, Open
  <2>2. CASE \/ Scan(p) \/ SetPid(p) \/ SetId(p) \/ Arm(p) \/ Post(p) \/ Kill(p) \/ Rename(p)
             \/ NameFifo(p) \/ Clear(p) \/ Send(p)
    BY <2>2 DEF Scan, SetPid, SetId, Arm, Post, Kill, Rename, NameFifo, Clear, Send, fifos
  <2>3. CASE Mark(p) \/ Mark2(p) \/ Fork(p) \/ Wait(p) \/ Unmark(p) \/ Clean(p) \/ Wipe(p)
    BY <2>3 DEF Mark, Mark2, Fork, Wait, Unmark, Clean, Wipe, fifos
  <2> QED BY <1>2, <2>1, <2>2, <2>3 DEF Step
<1>3. ASSUME NEW p \in Proc, Client(p) PROVE UNCHANGED <<torn, crossed>>
  <2>1. CASE Execs(p)
    BY <2>1, ExecMoves DEF IInv
  <2>2. CASE \/ Leave(p) \/ HangUp(p) \/ Vanish(p) \/ Yell(p)
             \/ (\E j \in Slot : Tell(p, j)) \/ (\E n \in Name : ChooseName(p, n))
    BY <2>2 DEF Leave, HangUp, Vanish, Yell, Tell, ChooseName, fifos
  <2> QED BY <1>3, <2>1, <2>2 DEF Client, Execs
<1>4. ASSUME NEW p \in Proc, NEW k \in Kind, Handle(k, p) PROVE UNCHANGED <<torn, crossed>>
  BY <1>4 DEF Handle, fifos
<1>5. ASSUME NEW x, WriterOpens(x) \/ WriterEnds(x) \/ ReaderEnds(x)
      PROVE  torn \subseteq torn' /\ crossed \subseteq crossed'
  BY <1>5 DEF WriterOpens, WriterEnds, ReaderEnds
<1>6. CASE UNCHANGED vars
  BY <1>6 DEF vars, fifos
<1> QED BY <1>1, <1>2, <1>3, <1>4, <1>5, <1>6 DEF Next

(* The first client of a slot has been that since its login,               *)
LEMMA FirstBack ==
  ASSUME IInv, Fresh, [Next]_vars, NEW r \in Proc, LoggedIn(r)', First(r)'
  PROVE  /\ LoggedIn(r) \/ SetId(r)
         /\ slot'[r] = slot[r] /\ First(r)
<1>1. LoggedIn(r) \/ SetId(r)
  BY LoggedInBack
<1>2. pc[r] \notin {"none", "scan"} \cup Dead
  BY <1>1 DEF LoggedIn, SetId, Serving, Dead
<1>3. slot'[r] = slot[r] /\ slot[r] \in Row
  BY <1>2, Onward DEF Scanned, IInv, Control, Placed
<1>4. ASSUME NEW s \in Proc, s # r PROVE slot[s] # slot[r]
  <2>1. CASE Scanned(s)
    BY <1>3, <1>4, <2>1, Onward DEF First
  <2>2. CASE ~Scanned(s)
    BY <1>3, <2>2, Consts DEF Fresh
  <2> QED BY <2>1, <2>2
<1> QED BY <1>1, <1>3, <1>4 DEF First

(* and a pair of them a pair since the later of the two.                   *)
LEMMA LiveBack ==
  ASSUME IInv, Fresh, [Next]_vars, NEW p \in Proc, NEW q \in Proc, Live(p, q)'
  PROVE  /\ Live(p, q) \/ SetId(p) \/ SetId(q)
         /\ First(p) /\ First(q) /\ slot'[p] = slot[p] /\ slot'[q] = slot[q]
<1>1. \A r \in {p, q} : (LoggedIn(r) \/ SetId(r)) /\ slot'[r] = slot[r] /\ First(r)
  BY FirstBack DEF Live, Pair
<1>2. <<slot[p], slot[q]>> \notin torn \cup crossed
  BY <1>1, NotesGrow DEF Live
<1>3. ~Overwritten(slot[q])
  <2>1. Overrun => Overrun'
    BY ControlStep DEF IInv
  <2> QED BY <1>1, <2>1 DEF Live, Overwritten
<1> QED BY <1>1, <1>2, <1>3 DEF Live, Pair

(* Nothing is left in the table or the FIFOs for a client that is new.     *)
LEMMA PipeNew ==
  ASSUME IInv, Fresh, Traces, NEW p \in Proc, NEW q \in Proc, First(p), First(q),
         Live(p, q)', SetId(p) \/ SetId(q)
  PROVE  OnePipe(p, q)'
<1>1. /\ UNCHANGED <<slot, job, then, writeTo, readFrom, writers>>
      /\ \A a \in {p, q} : SetId(a) => pc[a] = "id" /\ pc'[a] = "fill" /\ slot[a] \in Row
      /\ \A a \in {p, q} : ~SetId(a) => pc'[a] = pc[a]
  BY GotoMoves DEF SetId, IInv, Control, Placed, Dead, fifos
<1>2. \A a \in {p, q} : SetId(a) => ~Was(slot[a]) /\ slot[a] # None
  <2> SUFFICES ASSUME NEW a \in {p, q}, SetId(a), Was(slot[a]) PROVE FALSE
    BY <1>1, Consts
  <2>1. PICK r \in Proc : slot[r] = slot[a] /\ Entered(r)
    BY DEF Was
  <2>2. r = a
    BY <2>1 DEF First
  <2> QED BY <1>1, <2>1, <2>2 DEF Entered
<1>3. ~Was(slot[p]) \/ ~Was(slot[q])
  BY <1>2
<1>4. ~Wr(p, q)' /\ ~Rd(p, q)'
  BY <1>1, <1>3 DEF Wr, Rd, Traces, MarksWas
<1>5. Held(p, q)' = {}
  <2> SUFFICES ASSUME NEW w \in Held(p, q)' PROVE FALSE
    OBVIOUS
  <2>1. w \in writers /\ slot[w.by] = slot[p] /\ w.to = slot[q]
    BY <1>1 DEF Held, On
  <2>2. Was(w.to) /\ Entered(w.by) /\ w.by \in Proc
    BY <2>1 DEF Traces, WritersWas, IInv, TypeOK, Writer
  <2> QED BY <1>3, <2>1, <2>2 DEF Was
<1>6. CASE SetId(p)
  <2>1. pc'[p] = "fill"
    BY <1>1, <1>6
  <2>2. ~Marking(p, q)' /\ ~Sending(p, q)' /\ ~SentTo(p, q)'
    BY <2>1 DEF Marking, Sending, SentTo, Sent, Casting
  <2>3. job[q].from # slot[p]
    BY <1>2, <1>6 DEF Traces, FromWas
  <2>4. ~Receiving(q, p)' /\ job'[q].from # slot'[p]
    BY <1>1, <2>3 DEF Receiving
  <2> QED BY <1>4, <1>5, <2>2, <2>4 DEF OnePipe
<1>7. CASE SetId(q)
  <2>1. pc'[q] = "fill" /\ pc[q] = "id"
    BY <1>1, <1>7
  <2>2. job[q].recv = "no"
    BY <2>1 DEF Fresh, Entered, NoJob
  <2>3. ~Receiving(q, p)' /\ job'[q].recv # "bad"
    BY <1>1, <2>2 DEF Receiving
  <2>4. ~Marking(p, q)' /\ ~Sending(p, q)' /\ ~SentTo(p, q)'
    <3>1. CASE p = q
      BY <2>1, <3>1 DEF Marking, Sending, SentTo, Sent, Casting
    <3>2. CASE SetId(p)
      BY <1>1, <3>2 DEF Marking, Sending, SentTo, Sent, Casting
    <3>3. CASE ~SetId(p)
      <4>1. pc'[p] = pc[p] /\ UNCHANGED <<then, job, slot>>
        BY <1>1, <3>3
      <4>2. (pc[p] \in {"mark", "mark2"} \/ Sent(p)) => job[p].to # slot[q]
        BY <1>2, <1>7 DEF Traces, ToWas
      <4> QED BY <4>1, <4>2 DEF Marking, Sending, SentTo, Sent, Casting
    <3> QED BY <3>1, <3>2, <3>3
  <2> QED BY <1>4, <1>5, <2>3, <2>4 DEF OnePipe
<1> QED BY <1>6, <1>7

(* A step of which neither process's pipes take notice, and that leaves    *)
(* the marks of this one alone.                                            *)
LEMMA PipeFrame ==
  ASSUME NEW p \in Proc, NEW q \in Proc, OnePipe(p, q), Calm(p), Calm(q), TypeOK,
         slot'[p] = slot[p], slot'[q] = slot[q],
         Wr(p, q)' <=> Wr(p, q), Rd(p, q)' <=> Rd(p, q), Held(p, q)' \subseteq Held(p, q)
  PROVE  OnePipe(p, q)'
<1>1. /\ Marking(p, q)' => Marking(p, q)
      /\ Sending(p, q)' <=> Sending(p, q)
      /\ SentTo(p, q)' => SentTo(p, q)
  <2>1. pc'[p] = "mark2" => job'[p].to = job[p].to
    BY DEF Calm
  <2>2. pc[p] = "mark2" => pc'[p] = "mark2"
    BY DEF Calm
  <2> QED BY <2>1, <2>2 DEF Calm, Marking, Sending, SentTo
<1>2. /\ Receiving(q, p)' <=> Receiving(q, p)
      /\ job'[q].recv = "bad" => job[q].recv = "bad" /\ job'[q].from = job[q].from
  BY DEF Calm, Receiving
<1>3. Receiving(q, p)' /\ Cleared(q)' => Cleared(q)
  BY <1>2 DEF Calm, Receiving
<1>4. pc'[p] = "fill" => pc[p] = "fill"
  BY DEF Calm
<1>5. \A v, w \in Held(p, q)' : v = w
  BY DEF OnePipe
<1>6. Held(p, q)' # {} => Held(p, q) # {}
  OBVIOUS
<1>7. Held(p, q) = {} => Held(p, q)' = {}
  OBVIOUS
<1>8. job'[q].recv = "bad" => job'[q].from # slot'[p]
  BY <1>2 DEF OnePipe
<1> QED BY <1>1, <1>2, <1>3, <1>4, <1>5, <1>6, <1>7, <1>8 DEF OnePipe

(* What a FIFO holds changes with its writers only.                        *)
LEMMA HeldStays ==
  ASSUME IInv, Traces, [Next]_vars, NEW p \in Proc, NEW q \in Proc,
         slot'[p] = slot[p], slot'[q] = slot[q], UNCHANGED writers
  PROVE  Held(p, q)' = Held(p, q)
<1>1. \A w \in writers : slot'[w.by] = slot[w.by]
  <2> SUFFICES ASSUME NEW w \in writers PROVE slot'[w.by] = slot[w.by]
    OBVIOUS
  <2>1. w.by \in Proc /\ Entered(w.by)
    BY DEF IInv, TypeOK, Writer, Traces, WritersWas
  <2> QED BY <2>1, Onward DEF Entered, Scanned
<1> QED BY <1>1 DEF Held, On

(* The steps that change the marks of a pipe, or who waits for it, for the *)
(* pair that they are about and for all others.                            *)
LEMMA PipeFill ==
  ASSUME IInv, Traces, [Next]_vars, NEW p \in Proc, NEW q \in Proc, NEW a \in Proc,
         Live(p, q), OnePipe(p, q), Live(p, q)', Fill(a)
  PROVE  OnePipe(p, q)'
<1>1. /\ pc[a] = "fill" /\ pc'[a] = "arm" /\ \A r \in Proc : r # a => pc'[r] = pc[r]
      /\ writeTo' = {x \in writeTo : x[1] # slot[a]}
      /\ readFrom' = {x \in readFrom : x[2] # slot[a]}
      /\ torn' = torn \cup {x \in readFrom : x[2] = slot[a]}
      /\ UNCHANGED <<slot, job, then, writers>>
  BY GotoMoves DEF Fill, IInv
<1>2. (a # p => slot[a] # slot[p]) /\ (a # q => slot[a] # slot[q])
  BY DEF Live, Pair, First
<1>3. Held(p, q)' = Held(p, q)
  BY <1>1, HeldStays
<1>4. Wr(p, q)' <=> Wr(p, q) /\ a # p
  BY <1>1, <1>2 DEF Wr
<1>5. ~(a = q /\ Rd(p, q))
  BY <1>1 DEF Rd, Live
<1>6. Rd(p, q)' <=> Rd(p, q)
  BY <1>1, <1>2, <1>5 DEF Rd
<1>7. CASE a = p
  <2>1. ~Wr(p, q) /\ ~Rd(p, q)
    BY <1>1, <1>7 DEF OnePipe
  <2>2. Held(p, q) = {} /\ ~Receiving(q, p)
    BY <2>1 DEF OnePipe
  <2>3. ~Marking(p, q)' /\ ~Sending(p, q)' /\ ~SentTo(p, q)'
    BY <1>1, <1>7 DEF Marking, Sending, SentTo, Sent, Casting
  <2>4. ~Receiving(q, p)' /\ (job'[q].recv = "bad" => job'[q].from # slot'[p])
    BY <1>1, <2>2 DEF Receiving, OnePipe
  <2> QED BY <1>3, <1>4, <1>6, <2>1, <2>2, <2>3, <2>4 DEF OnePipe
<1>8. CASE a # p
  <2>1. \A r \in Proc : Calm(r)
    BY <1>1 DEF Calm, Sent, Cleared, Casting
  <2> QED BY <1>1, <1>3, <1>4, <1>6, <1>8, <2>1, PipeFrame DEF IInv
<1> QED BY <1>7, <1>8

(* The receiver takes back the mark of the sender once it has the FIFO.    *)
LEMMA PipeClear ==
  ASSUME IInv, Idle, Traces, [Next]_vars, NEW p \in Proc, NEW q \in Proc, NEW a \in Proc,
         Live(p, q), OnePipe(p, q), Clear(a)
  PROVE  OnePipe(p, q)'
<1>1. /\ pc[a] = "clear" /\ pc'[a] = "send" /\ \A r \in Proc : r # a => pc'[r] = pc[r]
      /\ writeTo' = writeTo \ {<<job[a].from, slot[a]>>}
      /\ UNCHANGED <<slot, job, then, writers, readFrom>>
  BY GotoMoves DEF Clear, ClearedMark, IInv, fifos
<1>2. a # q => slot[a] # slot[q]
  BY DEF Live, Pair, First
<1>3. Held(p, q)' = Held(p, q)
  BY <1>1, HeldStays
<1>4. job[a].recv \in {"ok", "bad"}
  BY <1>1 DEF Idle, IdleOf, IInv, TypeOK, Job
<1>5. Wr(p, q)' <=> Wr(p, q) /\ ~(a = q /\ job[q].from = slot[p])
  BY <1>1, <1>2 DEF Wr
<1>6. Rd(p, q)' <=> Rd(p, q)
  BY <1>1 DEF Rd
<1>7. a = q /\ job[q].from = slot[p] => Receiving(q, p)
  BY <1>4 DEF Receiving, OnePipe
<1>8. Wr(p, q)' <=> Wr(p, q) /\ ~(a = q /\ Receiving(q, p))
  BY <1>5, <1>7 DEF Receiving
<1>9. /\ Marking(p, q)' <=> Marking(p, q)
      /\ Sending(p, q)' <=> Sending(p, q)
      /\ SentTo(p, q)' <=> SentTo(p, q)
      /\ Receiving(q, p)' <=> Receiving(q, p)
      /\ pc'[p] = "fill" => pc[p] = "fill"
      /\ job'[q].recv = "bad" => job'[q].from # slot'[p]
  BY <1>1 DEF Marking, Sending, SentTo, Sent, Receiving, Casting, OnePipe
<1>10. Cleared(q)' => Cleared(q) \/ a = q
  BY <1>1 DEF Cleared, Casting
<1> QED BY <1>3, <1>6, <1>8, <1>9, <1>10 DEF OnePipe

(* A command goes on to mark its pipe only if there is none to that slot.  *)
LEMMA PipeSend ==
  ASSUME IInv, Traces, [Next]_vars, NEW p \in Proc, NEW q \in Proc, NEW a \in Proc,
         Live(p, q), OnePipe(p, q), Send(a)
  PROVE  OnePipe(p, q)'
<1>1. /\ pc[a] = "send" /\ pc'[a] = (IF Sends(a) THEN "mark" ELSE "fork")
      /\ \A r \in Proc : r # a => pc'[r] = pc[r]
      /\ UNCHANGED <<slot, then, writers, readFrom, writeTo>>
  <2>1. Goto(a, IF Sends(a) THEN "mark" ELSE "fork")
    BY DEF Send
  <2> QED BY <2>1, GotoMoves DEF Send, IInv, table, fifos
<1>2. /\ job'[a].recv = job[a].recv /\ job'[a].from = job[a].from
      /\ job'[a].to = IF Sends(a) THEN job[a].to ELSE None
      /\ \A r \in Proc : r # a => job'[r] = job[r]
  <2>1. CASE Sends(a)
    BY <2>1 DEF Send
  <2>2. CASE ~Sends(a)
    <3>1. job' = [job EXCEPT ![a].to = None]
      BY <2>2 DEF Send
    <3> QED BY <2>2, <3>1 DEF IInv, TypeOK, Job
  <2> QED BY <2>1, <2>2
<1>3. Held(p, q)' = Held(p, q) /\ (Wr(p, q)' <=> Wr(p, q)) /\ (Rd(p, q)' <=> Rd(p, q))
  BY <1>1, HeldStays DEF Wr, Rd
<1>4. Marking(p, q)' => Marking(p, q) \/ ~Rd(p, q)
  <2> SUFFICES ASSUME Marking(p, q)', ~Marking(p, q) PROVE ~Rd(p, q)
    OBVIOUS
  <2>1. a = p /\ Sends(p) /\ job[p].to = slot[q]
    BY <1>1, <1>2 DEF Marking
  <2> QED BY <2>1 DEF Sends, Rd
<1>5. slot[q] # None
  BY Consts DEF Live, Pair, LoggedIn, Serving, Dead, IInv, Control, Placed
<1>6. /\ Sending(p, q)' <=> Sending(p, q)
      /\ SentTo(p, q)' => SentTo(p, q)
  <2>1. CASE a = p
    BY <1>1, <1>2, <1>5, <2>1 DEF Sending, SentTo, Sent, Casting
  <2>2. CASE a # p
    BY <1>1, <1>2, <2>2 DEF Sending, SentTo, Sent, Casting
  <2> QED BY <2>1, <2>2
<1>7. /\ Receiving(q, p)' <=> Receiving(q, p)
      /\ pc'[p] = "fill" => pc[p] = "fill"
      /\ job'[q].recv = "bad" => job'[q].from # slot'[p]
  <2>1. job'[q].recv = job[q].recv /\ job'[q].from = job[q].from
    BY <1>2
  <2> QED BY <1>1, <2>1 DEF Receiving, OnePipe
<1>8. Cleared(q)' => Cleared(q)
  BY <1>1 DEF Cleared, Casting
<1>9. Marking(p, q)' => ~Rd(p, q) /\ Held(p, q) = {}
  BY <1>4 DEF OnePipe
<1> QED BY <1>3, <1>6, <1>7, <1>8, <1>9 DEF OnePipe

(* It makes its own mark first,                                            *)
LEMMA PipeMark ==
  ASSUME IInv, Traces, [Next]_vars, NEW p \in Proc, NEW q \in Proc, NEW a \in Proc,
         Live(p, q), OnePipe(p, q), Mark(a)
  PROVE  OnePipe(p, q)'
<1>1. /\ pc[a] = "mark" /\ pc'[a] = "mark2" /\ \A r \in Proc : r # a => pc'[r] = pc[r]
      /\ writeTo' = writeTo \cup {<<slot[a], job[a].to>>}
      /\ UNCHANGED <<slot, job, then, writers, readFrom>>
  BY GotoMoves DEF Mark, IInv, fifos
<1>2. a # p => slot[a] # slot[p]
  BY DEF Live, Pair, First
<1>3. Held(p, q)' = Held(p, q) /\ (Rd(p, q)' <=> Rd(p, q))
  BY <1>1, HeldStays DEF Rd
<1>4. Wr(p, q)' <=> Wr(p, q) \/ (a = p /\ Marking(p, q))
  BY <1>1, <1>2 DEF Wr, Marking
<1>5. /\ Marking(p, q)' => Marking(p, q)
      /\ Sending(p, q)' <=> Sending(p, q) \/ (a = p /\ Marking(p, q))
      /\ SentTo(p, q)' <=> SentTo(p, q)
      /\ Receiving(q, p)' <=> Receiving(q, p)
      /\ pc'[p] = "fill" => pc[p] = "fill" /\ a # p
      /\ job'[q].recv = "bad" => job'[q].from # slot'[p]
  BY <1>1 DEF Marking, Sending, SentTo, Sent, Receiving, Casting, OnePipe
<1>6. Cleared(q)' => Cleared(q)
  BY <1>1 DEF Cleared, Casting
<1> QED BY <1>3, <1>4, <1>5, <1>6 DEF OnePipe

(* then the receiver's, and both agree from here on.                       *)
LEMMA PipeMark2 ==
  ASSUME IInv, Traces, [Next]_vars, NEW p \in Proc, NEW q \in Proc, NEW a \in Proc,
         Live(p, q), OnePipe(p, q), Mark2(a)
  PROVE  OnePipe(p, q)'
<1>1. /\ pc[a] = "mark2" /\ pc'[a] = "cast" /\ then'[a] = "fork"
      /\ \A r \in Proc : r # a => pc'[r] = pc[r] /\ then'[r] = then[r]
      /\ readFrom' = readFrom \cup {<<slot[a], job[a].to>>}
      /\ UNCHANGED <<slot, job, writers, writeTo>>
  BY CastMoves DEF Mark2, IInv, Next3, fifos
<1>2. a # p => slot[a] # slot[p]
  BY DEF Live, Pair, First
<1>3. Held(p, q)' = Held(p, q) /\ (Wr(p, q)' <=> Wr(p, q))
  BY <1>1, HeldStays DEF Wr
<1>4. Rd(p, q)' <=> Rd(p, q) \/ (a = p /\ Sending(p, q))
  BY <1>1, <1>2 DEF Rd, Sending
<1>5. /\ Marking(p, q)' <=> Marking(p, q)
      /\ Sending(p, q)' <=> Sending(p, q) /\ a # p
      /\ SentTo(p, q)' <=> SentTo(p, q) \/ (a = p /\ Sending(p, q))
      /\ Receiving(q, p)' <=> Receiving(q, p)
      /\ pc'[p] = "fill" => pc[p] = "fill"
      /\ job'[q].recv = "bad" => job'[q].from # slot'[p]
      /\ a = p => ~Marking(p, q)
  BY <1>1 DEF Marking, Sending, SentTo, Sent, Receiving, Casting, OnePipe
<1>6. Cleared(q)' => Cleared(q)
  BY <1>1 DEF Cleared, Casting
<1>7. pc'[p] = "fill" => a # p
  BY <1>1
<1> QED BY <1>3, <1>4, <1>5, <1>6, <1>7 DEF OnePipe

(* The command it forks has the FIFO to open.                              *)
LEMMA PipeFork ==
  ASSUME IInv, Idle, Traces, [Next]_vars, NEW p \in Proc, NEW q \in Proc, NEW a \in Proc,
         Live(p, q), OnePipe(p, q), Fork(a)
  PROVE  OnePipe(p, q)'
<1> DEFINE new == [by |-> a, to |-> job[a].to, st |-> "new"]
<1>1. /\ pc[a] = "fork" /\ pc'[a] \in {"wait", "unmark"} /\ \A r \in Proc : r # a => pc'[r] = pc[r]
      /\ UNCHANGED <<slot, then, writeTo, readFrom>>
  <2>1. Goto(a, IF job[a].waits THEN "wait" ELSE "unmark")
    BY DEF Fork
  <2> QED BY <2>1, GotoMoves DEF Fork, IInv, table
<1>8. /\ job'[a].recv = job[a].recv /\ job'[a].from = job[a].from
      /\ \A r \in Proc : r # a => job'[r] = job[r]
  BY DEF Fork, IInv, TypeOK, Job
<1>2. writers' = IF job[a].to = None THEN writers ELSE writers \cup {new}
  BY DEF Fork
<1>3. new.by = a /\ new.to = job[a].to /\ new.st = "new"
  OBVIOUS
<1> HIDE DEF new
<1>4. (Wr(p, q)' <=> Wr(p, q)) /\ (Rd(p, q)' <=> Rd(p, q))
  BY <1>1 DEF Wr, Rd
<1>5. On(new, slot[p], slot[q]) <=> a = p /\ job[p].to = slot[q]
  BY <1>3 DEF On, Live, Pair, First
<1>6. CASE a = p /\ job[p].to = slot[q]
  <2>1. SentTo(p, q)
    BY <1>1, <1>6 DEF SentTo, Sent
  <2>2. Wr(p, q) /\ Rd(p, q) /\ Held(p, q) = {} /\ ~Receiving(q, p)
    BY <2>1 DEF OnePipe
  <2>3. \A w \in Held(p, q)' : w = new
    BY <1>1, <1>2, <2>2 DEF Held, On
  <2>4. ~Marking(p, q)' /\ ~Sending(p, q)' /\ ~SentTo(p, q)' /\ pc'[p] # "fill"
    BY <1>1, <1>6 DEF Marking, Sending, SentTo, Sent, Casting
  <2>5. ~Receiving(q, p)' /\ (job'[q].recv = "bad" => job'[q].from # slot'[p])
    <3>1. job'[q].recv = job[q].recv /\ job'[q].from = job[q].from
      BY <1>8
    <3> QED BY <1>1, <2>2, <3>1 DEF Receiving, OnePipe
  <2> QED BY <1>4, <2>2, <2>3, <2>4, <2>5 DEF OnePipe
<1>7. CASE ~(a = p /\ job[p].to = slot[q])
  <2>1. Held(p, q)' \subseteq Held(p, q)
    BY <1>1, <1>2, <1>5, <1>7 DEF Held, On
  <2>2. \A r \in Proc : Calm(r)
    BY <1>1, <1>8 DEF Calm, Sent, Cleared, Casting
  <2> QED BY <1>1, <1>4, <2>1, <2>2, PipeFrame DEF IInv
<1> QED BY <1>6, <1>7

(* The receiver takes back its own mark when the command is over.          *)
LEMMA PipeUnmark ==
  ASSUME IInv, Traces, [Next]_vars, NEW p \in Proc, NEW q \in Proc, NEW a \in Proc,
         Live(p, q), OnePipe(p, q), Unmark(a)
  PROVE  OnePipe(p, q)'
<1>1. /\ pc[a] = "unmark" /\ pc'[a] = "prompt" /\ \A r \in Proc : r # a => pc'[r] = pc[r]
      /\ readFrom' = IF job[a].recv = "no" THEN readFrom
                     ELSE readFrom \ {<<job[a].from, slot[a]>>}
      /\ job'[a] = NoJob /\ \A r \in Proc : r # a => job'[r] = job[r]
      /\ UNCHANGED <<slot, then, writers, writeTo>>
  BY GotoMoves DEF Unmark, Unmarked, IInv, TypeOK, fifos
<1>2. job'[a].recv = "no"
  BY <1>1 DEF NoJob
<1>3. a # q => slot[a] # slot[q]
  BY DEF Live, Pair, First
<1>4. Held(p, q)' = Held(p, q) /\ (Wr(p, q)' <=> Wr(p, q))
  BY <1>1, HeldStays DEF Wr
<1>5. Rd(p, q)' <=> Rd(p, q) /\ ~(a = q /\ Receiving(q, p))
  <2>1. job[q].recv \in {"no", "ok", "bad"}
    BY DEF IInv, TypeOK, Job
  <2> QED BY <1>1, <1>3, <2>1 DEF Rd, Receiving, OnePipe
<1>6. /\ Marking(p, q)' => Marking(p, q)
      /\ Sending(p, q)' <=> Sending(p, q)
      /\ SentTo(p, q)' <=> SentTo(p, q)
      /\ pc'[p] = "fill" => pc[p] = "fill"
  BY <1>1 DEF Marking, Sending, SentTo, Sent, Casting
<1>7. /\ Receiving(q, p)' <=> Receiving(q, p) /\ a # q
      /\ job'[q].recv = "bad" => job'[q].from # slot'[p]
  BY <1>1, <1>2 DEF Receiving, OnePipe
<1>8. (Cleared(q)' => Cleared(q)) /\ Cleared(a)
  BY <1>1 DEF Cleared, Casting
<1>9. CASE a = q /\ Receiving(q, p)
  <2>1. ~Wr(p, q)
    BY <1>8, <1>9 DEF OnePipe
  <2>2. Held(p, q) = {} /\ ~Sending(p, q) /\ ~SentTo(p, q)
    BY <2>1 DEF OnePipe
  <2> QED BY <1>4, <1>5, <1>6, <1>7, <1>9, <2>1, <2>2 DEF OnePipe
<1>10. CASE ~(a = q /\ Receiving(q, p))
  <2>1. (Rd(p, q)' <=> Rd(p, q)) /\ (Receiving(q, p)' <=> Receiving(q, p))
    BY <1>5, <1>7, <1>10
  <2> QED BY <1>4, <1>6, <1>7, <1>8, <2>1 DEF OnePipe
<1> QED BY <1>9, <1>10

(* One that leaves takes back the senders' marks of the pipes to it and    *)
(* the receivers' of those from it.                                        *)
LEMMA PipeClean ==
  ASSUME IInv, Traces, [Next]_vars, NEW p \in Proc, NEW q \in Proc, NEW a \in Proc,
         Live(p, q), OnePipe(p, q), Live(p, q)', Clean(a)
  PROVE  OnePipe(p, q)'
<1>1. /\ pc[a] = "clean" /\ pc'[a] = "wipe" /\ \A r \in Proc : r # a => pc'[r] = pc[r]
      /\ writeTo' = {x \in writeTo : ~(taken[x[1]] /\ x[2] = IF slot[a] = Past THEN 0 ELSE slot[a])}
      /\ readFrom' = {x \in readFrom : ~(taken[x[2]] /\ x[1] = slot[a])}
      /\ UNCHANGED <<slot, job, then, writers>>
  BY GotoMoves DEF Clean, IInv, fifos
<1>2. a # p /\ a # q
  BY <1>1 DEF Live, Pair, LoggedIn, Serving
<1>3. slot[a] # slot[p] /\ slot[a] # slot[q]
  BY <1>2 DEF Live, Pair, First
<1>7. slot[a] = Past => slot[q] # 0
  <2>1. slot[a] = Past => Overrun'
    BY <1>1 DEF Overrun, Past
  <2> QED BY <1>1, <2>1 DEF Live, Overwritten
<1>4. (Wr(p, q)' <=> Wr(p, q)) /\ (Rd(p, q)' <=> Rd(p, q))
  BY <1>1, <1>3, <1>7 DEF Wr, Rd
<1>5. Held(p, q)' = Held(p, q)
  BY <1>1, HeldStays
<1>6. \A r \in Proc : Calm(r)
  BY <1>1 DEF Calm, Sent, Cleared, Casting
<1> QED BY <1>1, <1>4, <1>5, <1>6, PipeFrame DEF IInv

(* The receiver opens the FIFO of a pipe that has both marks.              *)
LEMMA PipeOpen ==
  ASSUME IInv, Clashes, Idle, Traces, NEW p \in Proc, NEW q \in Proc, NEW a \in Proc,
         Live(p, q), OnePipe(p, q), Live(p, q)', Open(a)
  PROVE  OnePipe(p, q)'
<1> DEFINE i == job[a].from
<1>1. /\ pc[a] = "open" /\ pc'[a] = "cast" /\ then'[a] = "clear"
      /\ \A r \in Proc : r # a => pc'[r] = pc[r] /\ then'[r] = then[r]
      /\ UNCHANGED <<slot, writeTo, readFrom>>
  BY CastMoves DEF Open, IInv, Next3, table
<1>2. /\ Met(i, slot[a])
      /\ writers' = Released(i, slot[a])
      /\ crossed' = IF \E x \in writers : On(x, i, slot[a]) /\ x.st = "writing"
                    THEN crossed \cup {<<i, slot[a]>>} ELSE crossed
      /\ job' = [job EXCEPT ![a].recv = "ok"]
  BY DEF Open
<1>3. /\ job'[a].from = i /\ job'[a].to = job[a].to
      /\ \A r \in Proc : r # a => job'[r] = job[r]
  BY <1>2 DEF IInv, TypeOK, Job
<1>4. job[a].recv = "no"
  BY <1>1 DEF Idle, IdleOf, Fetching, Casting, Dead
<1>5. a # q => slot[a] # slot[q]
  BY DEF Live, Pair, First
<1>6. (Wr(p, q)' <=> Wr(p, q)) /\ (Rd(p, q)' <=> Rd(p, q))
  BY <1>1 DEF Wr, Rd
<1>7. /\ Marking(p, q)' => Marking(p, q)
      /\ Sending(p, q)' <=> Sending(p, q)
      /\ SentTo(p, q)' <=> SentTo(p, q)
      /\ pc'[p] = "fill" => pc[p] = "fill"
  BY <1>1, <1>3 DEF Marking, Sending, SentTo, Sent, Casting
<1>8. \A x \in writers : [x EXCEPT !.st = "writing"].st = "writing"
  BY DEF IInv, TypeOK, Writer
<1>9. Held(p, q)' \subseteq Held(p, q)
  <2> SUFFICES ASSUME NEW w \in Held(p, q)', w \notin writers PROVE FALSE
    BY <1>1 DEF Held, On
  <2>1. w \in Released(i, slot[a]) /\ w.st # "writing"
    BY <1>2 DEF Held
  <2> QED BY <1>8, <2>1 DEF Released
<1>10. CASE a = q /\ i = slot[p]
  <2>2. /\ Met(slot[p], slot[q]) /\ writers' = Released(slot[p], slot[q])
        /\ crossed' = IF \E x \in writers : On(x, slot[p], slot[q]) /\ x.st = "writing"
                      THEN crossed \cup {<<slot[p], slot[q]>>} ELSE crossed
        /\ job' = [job EXCEPT ![q].recv = "ok"]
    BY <1>2, <1>10
  <2>3. \A x \in writers : ~(On(x, slot[p], slot[q]) /\ x.st = "writing")
    BY <1>1, <2>2 DEF Live
  <2>4. PICK v \in writers : On(v, slot[p], slot[q]) /\ v.st # "new"
    BY <2>2 DEF Met
  <2>5. v \in Held(p, q) /\ v.st = "waiting"
    BY <2>3, <2>4 DEF Held, IInv, TypeOK, Writer
  <2>6. Held(p, q)' = {}
    <3> SUFFICES ASSUME NEW w \in Held(p, q)' PROVE FALSE
      OBVIOUS
    <3>1. w \in Held(p, q)
      BY <1>9
    <3>2. w = v
      BY <2>5, <3>1 DEF OnePipe
    <3>3. v \in Released(slot[p], slot[q])
      BY <2>2, <3>2 DEF Held
    <3>4. PICK x \in writers :
            v = IF On(x, slot[p], slot[q]) /\ x.st = "waiting" THEN [x EXCEPT !.st = "writing"] ELSE x
      BY <3>3 DEF Released
    <3> QED BY <1>8, <2>4, <2>5, <3>4
  <2>7. Wr(p, q) /\ Rd(p, q) /\ ~Marking(p, q) /\ ~Sending(p, q) /\ ~SentTo(p, q)
    BY <2>5 DEF OnePipe
  <2>8. ~Cleared(q)' /\ job'[q].recv = "ok"
    BY <1>1, <1>10, <2>2 DEF Cleared, Casting, IInv, TypeOK, Job
  <2> QED BY <1>6, <1>7, <2>6, <2>7, <2>8 DEF OnePipe
<1>11. CASE ~(a = q /\ i = slot[p])
  <2>1. /\ Receiving(q, p)' <=> Receiving(q, p)
        /\ job'[q].recv = "bad" => job'[q].from # slot'[p]
    BY <1>1, <1>3, <1>4, <1>11 DEF Receiving, OnePipe
  <2>2. Receiving(q, p) => (Cleared(q)' => Cleared(q))
    BY <1>1, <1>4 DEF Receiving, Cleared, Casting
  <2>3. (Held(p, q)' # {} => Held(p, q) # {}) /\ \A v, w \in Held(p, q)' : v = w
    BY <1>9 DEF OnePipe
  <2> QED BY <1>6, <1>7, <2>1, <2>2, <2>3 DEF OnePipe
<1> QED BY <1>10, <1>11

(* One that finds no sender any more does not meet one that is there.      *)
LEMMA PipeName ==
  ASSUME IInv, Clashes, Traces, [Next]_vars, NEW p \in Proc, NEW q \in Proc, NEW a \in Proc,
         Live(p, q), OnePipe(p, q), NameLost(a)
  PROVE  OnePipe(p, q)'
<1>1. /\ pc[a] = "name" /\ pc'[a] = "cast" /\ then'[a] = "clear" /\ ~taken[job[a].from]
      /\ \A r \in Proc : r # a => pc'[r] = pc[r] /\ then'[r] = then[r]
      /\ job' = [job EXCEPT ![a].recv = "bad"]
      /\ UNCHANGED <<slot, writeTo, readFrom, writers>>
  BY CastMoves DEF NameLost, NameFifo, IInv, Next3, table, fifos
<1>2. /\ job'[a].from = job[a].from /\ job'[a].to = job[a].to /\ job'[a].recv = "bad"
      /\ \A r \in Proc : r # a => job'[r] = job[r]
  BY <1>1 DEF IInv, TypeOK, Job
<1>3. taken[slot[p]]
  BY FirstAlone DEF Live, Pair
<1>4. (Wr(p, q)' <=> Wr(p, q)) /\ (Rd(p, q)' <=> Rd(p, q)) /\ Held(p, q)' = Held(p, q)
  BY <1>1, HeldStays DEF Wr, Rd
<1>5. /\ Marking(p, q)' => Marking(p, q)
      /\ Sending(p, q)' <=> Sending(p, q)
      /\ SentTo(p, q)' => SentTo(p, q)
      /\ pc'[p] = "fill" => pc[p] = "fill"
  <2>1. CASE a = p
    BY <1>1, <1>2, <2>1 DEF Marking, Sending, SentTo, Sent, Casting
  <2>2. CASE a # p
    BY <1>1, <1>2, <2>2 DEF Marking, Sending, SentTo, Sent, Casting
  <2> QED BY <2>1, <2>2
<1>6. CASE a = q
  <2>1. ~Receiving(q, p)' /\ job'[q].from # slot'[p]
    BY <1>1, <1>2, <1>3, <1>6 DEF Receiving
  <2>2. ~Receiving(q, p)
    BY <1>1, <1>3, <1>6 DEF Receiving
  <2> QED BY <1>4, <1>5, <2>1, <2>2 DEF OnePipe
<1>7. CASE a # q
  <2>1. job'[q] = job[q] /\ (Cleared(q)' <=> Cleared(q)) /\ slot'[p] = slot[p]
    BY <1>1, <1>2, <1>7 DEF Cleared, Casting
  <2>2. Receiving(q, p)' <=> Receiving(q, p)
    BY <2>1 DEF Receiving
  <2> QED BY <1>4, <1>5, <2>1, <2>2 DEF OnePipe
<1> QED BY <1>6, <1>7

(* A command that opens its FIFO, or ends, leaves the marks as they are.   *)
LEMMA PipeWriter ==
  ASSUME IInv, NEW p \in Proc, NEW q \in Proc, NEW x \in writers, OnePipe(p, q),
         WriterOpens(x) \/ WriterEnds(x)
  PROVE  OnePipe(p, q)'
<1>1. UNCHANGED <<pc, slot, job, then, writeTo, readFrom>>
  BY DEF WriterOpens, WriterEnds, table
<1>2. /\ [x EXCEPT !.st = "writing"].st = "writing"
      /\ [x EXCEPT !.st = "waiting"].by = x.by /\ [x EXCEPT !.st = "waiting"].to = x.to
  BY DEF IInv, TypeOK, Writer
<1>3. /\ Held(p, q) = {} => Held(p, q)' = {}
      /\ \A v, w \in Held(p, q)' : v = w
  <2>1. CASE writers' \subseteq writers \cup {[x EXCEPT !.st = "writing"]}
    <3>1. Held(p, q)' \subseteq Held(p, q)
      BY <1>1, <1>2, <2>1 DEF Held, On
    <3> QED BY <3>1 DEF OnePipe
  <2>2. CASE /\ x.st = "new"
             /\ writers' = (writers \ {x}) \cup {[x EXCEPT !.st = "waiting"]}
    <3>1. CASE On(x, slot[p], slot[q])
      <4>1. x \in Held(p, q)
        BY <2>2, <3>1 DEF Held
      <4>2. \A w \in Held(p, q)' : w \in Held(p, q) \ {x} \/ w = [x EXCEPT !.st = "waiting"]
        BY <1>1, <2>2 DEF Held, On
      <4>3. \A w \in Held(p, q) : w = x
        BY <4>1 DEF OnePipe
      <4> QED BY <4>1, <4>2, <4>3
    <3>2. CASE ~On(x, slot[p], slot[q])
      <4>1. Held(p, q)' \subseteq Held(p, q)
        BY <1>1, <1>2, <2>2, <3>2 DEF Held, On
      <4> QED BY <4>1 DEF OnePipe
    <3> QED BY <3>1, <3>2
  <2>3. CASE WriterEnds(x)
    BY <2>1, <2>3 DEF WriterEnds
  <2>4. CASE WriterOpens(x)
    BY <2>1, <2>2, <2>4 DEF WriterOpens
  <2> QED BY <2>3, <2>4
<1>4. /\ Marking(p, q)' <=> Marking(p, q)
      /\ Sending(p, q)' <=> Sending(p, q)
      /\ SentTo(p, q)' <=> SentTo(p, q)
      /\ Receiving(q, p)' <=> Receiving(q, p)
      /\ Cleared(q)' <=> Cleared(q)
      /\ Wr(p, q)' <=> Wr(p, q)
      /\ Rd(p, q)' <=> Rd(p, q)
  BY <1>1 DEF Marking, Sending, SentTo, Sent, Receiving, Cleared, Casting, Wr, Rd
<1>5. (Held(p, q)' # {} => Held(p, q) # {})
  BY <1>3
<1> QED BY <1>1, <1>3, <1>4, <1>5 DEF OnePipe

(* Each step keeps every pipe in order.                                    *)
LEMMA PipesStep ==
  ASSUME IInv, Fresh, Clashes, Idle, Traces, Pipes, [Next]_vars
  PROVE  Pipes'
<1> SUFFICES ASSUME NEW p \in Proc, NEW q \in Proc, Live(p, q)' PROVE OnePipe(p, q)'
  BY DEF Pipes
<1>1. /\ Live(p, q) \/ SetId(p) \/ SetId(q)
      /\ First(p) /\ First(q) /\ slot'[p] = slot[p] /\ slot'[q] = slot[q]
  BY LiveBack
<1>2. CASE SetId(p) \/ SetId(q)
  BY <1>1, <1>2, PipeNew
<1>3. CASE Live(p, q) /\ ~SetId(p) /\ ~SetId(q)
  <2>1. OnePipe(p, q)
    BY <1>3 DEF Pipes
  <2>2. ASSUME NEW a \in Proc, \/ Fill(a) \/ Clear(a) \/ Send(a) \/ Mark(a) \/ Mark2(a)
                               \/ Fork(a) \/ Unmark(a) \/ Clean(a) \/ NameLost(a) \/ Open(a)
        PROVE  OnePipe(p, q)'
    BY <1>3, <2>1, <2>2, PipeFill, PipeClear, PipeSend, PipeMark, PipeMark2, PipeFork,
       PipeUnmark, PipeClean, PipeName, PipeOpen
  <2>3. ASSUME NEW x \in writers, WriterOpens(x) \/ WriterEnds(x) PROVE OnePipe(p, q)'
    BY <2>1, <2>3, PipeWriter
  <2>4. CASE /\ ~ \E a \in Proc : \/ Fill(a) \/ Clear(a) \/ Send(a) \/ Mark(a) \/ Mark2(a)
                                  \/ Fork(a) \/ Unmark(a) \/ Clean(a) \/ NameLost(a) \/ Open(a)
             /\ ~ \E x \in writers : WriterOpens(x) \/ WriterEnds(x)
    <3>1. UNCHANGED <<writeTo, readFrom, writers>>
      BY <2>4, TableWriters
    <3>2. Calm(p) /\ Calm(q)
      <4>1. pc'[p] \notin Dead /\ pc'[q] \notin Dead
        BY DEF Live, Pair, LoggedIn, Serving, Dead
      <4> QED BY <1>3, <2>4, <4>1, CalmStep
    <3>3. Held(p, q)' = Held(p, q)
      BY <1>1, <3>1, HeldStays
    <3>4. (Wr(p, q)' <=> Wr(p, q)) /\ (Rd(p, q)' <=> Rd(p, q))
      BY <1>1, <3>1 DEF Wr, Rd
    <3> QED BY <1>1, <2>1, <3>2, <3>3, <3>4, PipeFrame DEF IInv
  <2> QED BY <2>2, <2>3, <2>4
<1> QED BY <1>1, <1>2, <1>3

(* All of it together is inductive.                                        *)
PInv == IInv /\ Fresh /\ Clashes /\ Idle /\ Traces /\ Pipes

LEMMA PInvHolds == Spec => []PInv
<1>1. Init => PInv
  <2> SUFFICES ASSUME Init PROVE PInv
    OBVIOUS
  <2>1. \A p \in Proc : /\ pc[p] = "none" /\ slot[p] = None /\ job[p] = NoJob
                        /\ then[p] = "prompt"
    BY DEF Init
  <2>2. \A p \in Proc : ~Casting(p) /\ ~LoggedIn(p) /\ ~Sent(p)
    BY <2>1 DEF Casting, LoggedIn, Sent, Serving
  <2>3. Fresh /\ Idle /\ Pipes
    <3>1. \A p \in Proc : ~Entered(p) /\ job[p].recv = "no"
      BY <2>1 DEF Entered, NoJob
    <3>2. Fresh
      BY <2>1 DEF Fresh, Scanned
    <3>3. Idle
      BY <2>1, <2>2, <3>1 DEF Idle, IdleOf
    <3>4. Pipes
      BY <2>2 DEF Pipes, Live, Pair
    <3> QED BY <3>2, <3>3, <3>4
  <2>4. Clashes
    BY <2>2 DEF Clashes, Init
  <2>5. Traces
    BY <2>1, <2>2, Consts DEF Traces, TakenWas, MarksWas, FromWas, ToWas, WritersWas, Init, NoJob
  <2> QED BY <2>3, <2>4, <2>5, IInvInit DEF PInv
<1>2. PInv /\ [Next]_vars => PInv'
  BY IInvStep, FreshStep, ClashesStep, IdleStep, TracesStep, PipesStep DEF PInv
<1> QED BY <1>1, <1>2, PTL DEF Spec

(* The marks of a pipe differ only while its sender is between setting     *)
(* its two and its receiver between taking its two back (pipe_write_to     *)
(* and pipe_read_from of multi_shell.cpp), for the first clients of the    *)
(* two slots, unless the pipe was made before its receiver had reset its   *)
(* row, its FIFO was open from an earlier command, or a client of the slot *)
(* after the table has left and the pipe is to the first slot.             *)
THEOREM MarksOfAPipeAgree == Spec => []MarksAgree
<1>1. PInv => MarksAgree
  BY DEF PInv, Pipes, Live, OnePipe, Wr, Rd, MarksAgree
<1> QED BY <1>1, PInvHolds, PTL

-----------------------------------------------------------------------------
(* What a receiver waits for                                               *)

(* A slot's client has a pipe under way from when it marks it up to the    *)
(* meeting of the FIFO's two ends, or it was killed with the pipe still to *)
(* make; and its receiver, let through, takes the sender's mark back       *)
(* before anything else.                                                   *)
Lost(p, q) == pc[p] \in Dead /\ job[p].to = slot[q]
UnderWay(i, q) ==
  \E p \in Proc :
    slot[p] = i /\ (Sending(p, q) \/ SentTo(p, q) \/ Held(p, q) # {} \/ Lost(p, q))
Answered(i, q) == job[q].recv = "ok" /\ job[q].from = i /\ ~Cleared(q)
Marked(i, q) == <<i, slot[q]>> \in writeTo
Awaiting(i, q) == pc[q] \in {"name", "open"} /\ job[q].from = i

(* So a sender's mark means one of the two, whoever has been in the        *)
(* sender's slot, and a receiver that waits has one to wait for.           *)
Unmixed(i, q) == First(q) /\ LoggedIn(q) /\ <<i, slot[q]>> \notin crossed
Feeds ==
  \A i \in Slot, q \in Proc : Unmixed(i, q) =>
    /\ Marked(i, q) => UnderWay(i, q) \/ Answered(i, q)
    /\ Awaiting(i, q) => UnderWay(i, q)

(* A process comes to open() only with the command it has just read.       *)
Opening(r) == pc[r] \in {"name", "open"}
LEMMA OpenBack ==
  ASSUME IInv, [Next]_vars, NEW r \in Proc, Opening(r)'
  PROVE  (Opening(r) /\ job'[r] = job[r]) \/ Execs(r)
<1> USE DEF Opening
<1>1. ASSUME CastStep(r) PROVE FALSE
  BY <1>1, CastMoves DEF CastStep, Arm, Yell, Tell, Rename, NameLost, NameFifo, Open, Mark2, IInv,
                         Next3
<1>4. CASE NameFound(r)
  BY <1>4 DEF NameFound, NameFifo
<1>2. ASSUME GotoStep(r), ~NameFound(r)
      PROVE  Execs(r)
  <2>1. ASSUME Fork(r) PROVE FALSE
    <3>1. Goto(r, "wait") \/ Goto(r, "unmark")
      BY <2>1 DEF Fork
    <3> QED BY <3>1, GotoMoves DEF IInv
  <2>2. ASSUME Send(r) PROVE FALSE
    <3>1. Goto(r, "mark") \/ Goto(r, "fork")
      BY <2>2 DEF Send
    <3> QED BY <3>1, GotoMoves DEF IInv
  <2>3. ASSUME Fill(r) \/ Clear(r) \/ Mark(r) \/ Wait(r) PROVE FALSE
    BY <2>3, GotoMoves DEF Fill, Clear, Mark, Wait, IInv
  <2>4. ASSUME Unmark(r) \/ HangUp(r) \/ Clean(r) \/ (\E n \in Name : ChooseName(r, n)) PROVE FALSE
    BY <2>4, GotoMoves DEF Unmark, HangUp, Clean, ChooseName, IInv
  <2> QED BY <1>2, <2>1, <2>2, <2>3, <2>4 DEF GotoStep
<1>3. CASE ~CastStep(r) /\ ~GotoStep(r)
  <2>1. job'[r] = job[r]
    BY <1>3, OwnJob
  <2>2. ASSUME NEW p \in Proc, CastStep(p) \/ GotoStep(p) PROVE Opening(r)
    <3>1. Local(p) /\ r # p
      BY <1>3, <2>2, CastQuiet, GotoQuiet DEF CastStep, GotoStep, IInv, Control
    <3> QED BY <3>1 DEF Local
  <2>3. ASSUME NEW p \in Proc, Post(p) PROVE Opening(r)
    <3>1. pc' = pc \/ Goto(p, then[p]) \/ Goto(p, "kill")
      BY <2>3 DEF Post
    <3>2. then[p] \notin {"name", "open"}
      BY DEF IInv, TypeOK
    <3> QED BY <3>1, <3>2, GotoMoves DEF IInv
  <2>4. ASSUME NEW p \in Proc, Kill(p) \/ Vanish(p) PROVE Opening(r)
    BY <2>4, FallMoves DEF Falls, Dead
  <2>5. ASSUME NEW p \in Proc, Scan(p) \/ SetPid(p) \/ SetId(p) \/ Wipe(p) PROVE Opening(r)
    BY <2>5, GotoMoves DEF Scan, SetPid, SetId, Wipe, IInv
  <2>6. ASSUME NEW p \in Proc, Leave(p) PROVE Opening(r)
    BY <2>6, CastMoves DEF Leave, IInv, Next3
  <2>7. ASSUME NEW a \in {Server} \cup Proc, Connect(a) PROVE Opening(r)
    BY <2>7 DEF Connect, Goto, IInv, TypeOK
  <2>8. ASSUME Still \/ (\E p \in Proc, k \in Kind : Handle(k, p)) PROVE Opening(r)
    BY <2>8 DEF Still, Handle
  <2> QED BY <2>1, <2>2, <2>3, <2>4, <2>5, <2>6, <2>7, <2>8, Steps
<1> QED BY <1>1, <1>2, <1>3, <1>4

(* One that was killed stays so, with the command it had.                  *)
LEMMA DeadStay ==
  ASSUME IInv, [Next]_vars, NEW r \in Proc
  PROVE  /\ pc[r] \in Dead => pc'[r] \in Dead
         /\ pc'[r] \in Dead => job'[r] = job[r]
<1>1. ASSUME CastStep(r) \/ GotoStep(r) PROVE pc[r] \notin Dead /\ pc'[r] \notin Dead
  <2>1. Quiet(r)
    BY <1>1, CastQuiet, GotoQuiet DEF CastStep, GotoStep, IInv, Control
  <2> QED BY <2>1 DEF Quiet, Serving, Leaving, Dead
<1>2. ASSUME pc'[r] = pc[r] PROVE pc[r] \in Dead => pc'[r] \in Dead
  BY <1>2
<1>3. ASSUME NEW p \in Proc, CastStep(p) \/ GotoStep(p) PROVE pc[r] \in Dead => pc'[r] \in Dead
  <2>1. Local(p)
    BY <1>3, CastQuiet, GotoQuiet DEF CastStep, GotoStep, IInv, Control
  <2> QED BY <1>1, <1>3, <2>1 DEF Local
<1>4. ASSUME NEW p \in Proc, Post(p) PROVE pc[r] \in Dead => pc'[r] \in Dead
  <2>1. pc[p] = "cast" /\ \A q \in Proc : q # p => pc'[q] = pc[q]
    BY <1>4, PostQuiet DEF IInv, Control
  <2> QED BY <2>1 DEF Dead
<1>5. ASSUME NEW p \in Proc, Kill(p) \/ Vanish(p) PROVE pc[r] \in Dead => pc'[r] \in Dead
  BY <1>5, FallMoves DEF Falls, Dead
<1>6. ASSUME NEW p \in Proc, Scan(p) \/ SetPid(p) \/ SetId(p) \/ Wipe(p) \/ Leave(p)
      PROVE  pc[r] \in Dead => pc'[r] \in Dead
  <2>1. pc[p] \notin Dead
    BY <1>6 DEF Scan, SetPid, SetId, Wipe, Leave, Dead
  <2>2. r # p => pc'[r] = pc[r]
    BY <1>6, GotoMoves, CastMoves DEF Scan, SetPid, SetId, Wipe, Leave, IInv, Next3
  <2> QED BY <2>1, <2>2
<1>7. ASSUME NEW a \in {Server} \cup Proc, Connect(a) PROVE pc[r] \in Dead => pc'[r] \in Dead
  <2>1. /\ pc' = [pc EXCEPT ![forked + 1] = "scan"] /\ forked + 1 \in Proc
    BY <1>7, SizeAssumption DEF Connect, Goto, IInv, TypeOK, Proc
  <2>2. pc[forked + 1] = "none"
    <3>1. forked + 1 > forked
      BY DEF IInv, TypeOK
    <3> QED BY <2>1, <3>1 DEF IInv, Control, Forked
  <2> QED BY <2>1, <2>2 DEF IInv, TypeOK, Dead
<1>8. ASSUME Still \/ (\E p \in Proc, k \in Kind : Handle(k, p))
      PROVE  pc[r] \in Dead => pc'[r] \in Dead
  BY <1>8 DEF Still, Handle
<1>9. pc[r] \in Dead => pc'[r] \in Dead
  BY <1>3, <1>4, <1>5, <1>6, <1>7, <1>8, Steps
<1>10. pc'[r] \in Dead => job'[r] = job[r]
  BY <1>1, OwnJob
<1> QED BY <1>9, <1>10

(* What a sender has marked, it goes on to send if it is not killed,       *)
LEMMA SendingOn ==
  ASSUME IInv, Idle, [Next]_vars, NEW p \in Proc, NEW q \in Proc, slot'[q] = slot[q],
         Sending(p, q)
  PROVE  Sending(p, q)' \/ SentTo(p, q)' \/ Lost(p, q)'
<1>1. pc[p] = "mark2" /\ job[p].to = slot[q]
  BY DEF Sending
<1>2. CASE Calm(p)
  BY <1>1, <1>2 DEF Calm, Sending
<1>3. CASE Mark2(p)
  <2>1. pc'[p] = "cast" /\ then'[p] = "fork" /\ UNCHANGED job
    BY <1>3, CastMoves DEF Mark2, IInv, Next3
  <2> QED BY <1>1, <2>1 DEF SentTo, Sent, Casting
<1>4. CASE SetId(p) \/ NameLost(p) \/ Open(p) \/ Clear(p) \/ Send(p) \/ Mark(p) \/ Unmark(p)
  BY <1>1, <1>4 DEF SetId, NameLost, NameFifo, Open, Clear, Send, Mark, Unmark
<1>5. CASE pc'[p] \in Dead
  BY <1>1, <1>5, DeadStay DEF Lost
<1> QED BY <1>2, <1>3, <1>4, <1>5, CalmStep

(* and what it sends, until it has forked the command that writes it.      *)
LEMMA SentOn ==
  ASSUME IInv, [Next]_vars, NEW r \in Proc, Sent(r), ~Fork(r)
  PROVE  (Sent(r)' \/ pc'[r] \in Dead) /\ job'[r] = job[r]
<1>1. pc[r] = "fork" \/ (pc[r] \in {"cast", "kill"} /\ then[r] = "fork")
  BY DEF Sent, Casting
<1>2. ASSUME CastStep(r) PROVE FALSE
  BY <1>1, <1>2 DEF CastStep, Arm, Yell, Tell, Rename, NameLost, NameFifo, Open, Mark2
<1>3. ASSUME GotoStep(r) PROVE FALSE
  <2>1. ASSUME Execs(r) PROVE FALSE
    BY <1>1, <2>1, ExecMoves DEF IInv
  <2>2. ASSUME NEW n, ChooseName(r, n) PROVE FALSE
    BY <1>1, <2>2 DEF ChooseName
  <2>3. ASSUME \/ Fill(r) \/ NameFound(r) \/ Clear(r) \/ Send(r) \/ Mark(r) \/ Wait(r) \/ Unmark(r)
               \/ HangUp(r) \/ Clean(r)
        PROVE  FALSE
    BY <1>1, <2>3 DEF Fill, NameFound, NameFifo, Clear, Send, Mark, Wait, Unmark, HangUp, Clean
  <2> QED BY <1>3, <2>1, <2>2, <2>3 DEF GotoStep
<1>4. job'[r] = job[r]
  BY <1>2, <1>3, OwnJob
<1>5. ASSUME pc'[r] = pc[r], then'[r] = then[r] PROVE Sent(r)'
  BY <1>5 DEF Sent, Casting
<1>6. ASSUME NEW p \in Proc, CastStep(p) \/ GotoStep(p) PROVE Sent(r)'
  <2>1. Local(p) /\ r # p
    BY <1>2, <1>3, <1>6, CastQuiet, GotoQuiet DEF CastStep, GotoStep, IInv, Control
  <2> QED BY <1>5, <2>1 DEF Local
<1>7. ASSUME NEW p \in Proc, Post(p) PROVE Sent(r)'
  <2>1. /\ pc[p] = "cast" /\ UNCHANGED then
        /\ pc' = pc \/ Goto(p, then[p]) \/ Goto(p, "kill")
    BY <1>7 DEF Post
  <2>2. pc'[r] = pc[r] \/ (r = p /\ pc'[r] \in {"kill", then[r]})
    BY <2>1, GotoMoves DEF IInv
  <2> QED BY <1>1, <2>1, <2>2 DEF Sent, Casting
<1>8. ASSUME NEW p \in Proc, Kill(p) \/ Vanish(p) PROVE Sent(r)' \/ pc'[r] \in Dead
  <2>1. /\ UNCHANGED then
        /\ pc'[r] \in {pc[r]} \cup Dead \/ (pc[r] = "kill" /\ pc'[r] = "cast")
    BY <1>8, FallMoves DEF Falls
  <2> QED BY <1>1, <2>1 DEF Sent, Casting
<1>9. ASSUME NEW p \in Proc, Scan(p) \/ SetPid(p) \/ SetId(p) \/ Wipe(p) \/ Leave(p) PROVE Sent(r)'
  <2>1. pc[p] \in {"scan", "pid", "id", "wipe", "prompt"}
    BY <1>9 DEF Scan, SetPid, SetId, Wipe, Leave
  <2>2. pc'[r] = pc[r] /\ then'[r] = then[r]
    BY <1>1, <1>9, <2>1, GotoMoves, CastMoves DEF Scan, SetPid, SetId, Wipe, Leave, IInv, Next3
  <2> QED BY <1>5, <2>2
<1>10. ASSUME NEW a \in {Server} \cup Proc, Connect(a) PROVE Sent(r)'
  <2>1. pc' = [pc EXCEPT ![forked + 1] = "scan"] /\ forked + 1 \in Proc /\ UNCHANGED then
    BY <1>10, SizeAssumption DEF Connect, Goto, IInv, TypeOK, Proc
  <2>2. pc[forked + 1] = "none"
    <3>1. forked + 1 > forked
      BY DEF IInv, TypeOK
    <3> QED BY <2>1, <3>1 DEF IInv, Control, Forked
  <2> QED BY <1>1, <1>5, <2>1, <2>2 DEF IInv, TypeOK
<1>11. ASSUME Still \/ (\E p \in Proc, k \in Kind : Handle(k, p)) PROVE Sent(r)'
  BY <1>5, <1>11 DEF Still, Handle
<1> QED BY <1>4, <1>6, <1>7, <1>8, <1>9, <1>10, <1>11, Steps

(* and the command then holds the FIFO until it meets its receiver: it     *)
(* leaves with nothing done only if its receiver has left.                 *)
LEMMA HeldOn ==
  ASSUME IInv, Clashes, Traces, [Next]_vars, NEW p \in Proc, NEW q \in Proc,
         slot'[p] = slot[p], slot'[q] = slot[q], Held(p, q) # {},
         Unmixed(slot[p], q), Unmixed(slot[p], q)'
  PROVE  Held(p, q)' # {} \/ (Open(q) /\ Answered(slot[p], q)')
<1>1. PICK w \in writers : slot[w.by] = slot[p] /\ w.to = slot[q] /\ w.st # "writing"
  BY DEF Held, On
<1>2. CASE UNCHANGED writers
  BY <1>2, HeldStays
<1>3. ASSUME w \in writers', UNCHANGED slot PROVE Held(p, q)' # {}
  BY <1>1, <1>3 DEF Held, On
<1>4. CASE \E a \in Proc : Fork(a)
  BY <1>3, <1>4 DEF Fork, table
<1>5. ASSUME NEW a \in Proc, Open(a), writers' # writers
      PROVE  Held(p, q)' # {} \/ (Open(q) /\ Answered(slot[p], q)')
  <2>1. /\ writers' = Released(job[a].from, slot[a])
        /\ job' = [job EXCEPT ![a].recv = "ok"]
        /\ UNCHANGED slot
    BY <1>5 DEF Open
  <2>2. CASE On(w, job[a].from, slot[a]) /\ w.st = "waiting"
    <3>1. a = q /\ job[q].from = slot[p]
      BY <1>1, <2>2 DEF On, Unmixed, First
    <3>2. pc'[q] = "cast" /\ then'[q] = "clear"
      BY <1>5, <3>1, CastMoves DEF Open, IInv, Next3
    <3> QED BY <1>5, <2>1, <3>1, <3>2 DEF Answered, Cleared, Casting, IInv, TypeOK, Job
  <2>3. CASE ~(On(w, job[a].from, slot[a]) /\ w.st = "waiting")
    <3>1. w \in writers'
      BY <2>1, <2>3 DEF Released
    <3> QED BY <1>3, <2>1, <3>1
  <2> QED BY <2>2, <2>3
<1>6. ASSUME NEW x \in writers, WriterOpens(x) PROVE Held(p, q)' # {}
  <2>1. UNCHANGED slot
    BY <1>6 DEF WriterOpens
  <2>2. CASE x # w
    <3>1. w \in writers'
      BY <1>6, <2>2 DEF WriterOpens
    <3> QED BY <1>3, <2>1, <3>1
  <2>3. CASE x = w
    <3>1. taken[w.to]
      BY <1>1, FirstAlone DEF Unmixed
    <3>2. ~HasReader(slot[w.by], w.to)
      BY <1>1, <1>6, <2>1, <2>3, <3>1 DEF WriterOpens, Unmixed
    <3>3. [w EXCEPT !.st = "waiting"] \in writers'
      BY <1>6, <2>3, <3>1, <3>2 DEF WriterOpens
    <3>4. LET v == [w EXCEPT !.st = "waiting"] IN v.by = w.by /\ v.to = w.to /\ v.st = "waiting"
      BY DEF IInv, TypeOK, Writer
    <3> QED BY <1>1, <2>1, <3>3, <3>4 DEF Held, On
  <2> QED BY <2>2, <2>3
<1>7. ASSUME NEW x \in writers, WriterEnds(x) PROVE Held(p, q)' # {}
  BY <1>1, <1>3, <1>7 DEF WriterEnds
<1> QED BY <1>2, <1>4, <1>5, <1>6, <1>7, TableWriters

(* A pipe stays under way until its receiver is let through.               *)
LEMMA UnderWayOn ==
  ASSUME IInv, Fresh, Clashes, Idle, Traces, [Next]_vars, NEW i \in Slot, NEW q \in Proc,
         slot'[q] = slot[q], Unmixed(i, q), Unmixed(i, q)', UnderWay(i, q)
  PROVE  UnderWay(i, q)' \/ (Open(q) /\ Answered(i, q)')
<1>1. PICK p \in Proc :
        slot[p] = i /\ (Sending(p, q) \/ SentTo(p, q) \/ Held(p, q) # {} \/ Lost(p, q))
  BY DEF UnderWay
<1>2. Scanned(p) /\ slot'[p] = i
  BY <1>1, Consts, Onward DEF Fresh
<1>4. ASSUME Lost(p, q) PROVE Lost(p, q)'
  BY <1>4, DeadStay DEF Lost
<1>3. ASSUME SentTo(p, q) PROVE SentTo(p, q)' \/ Held(p, q)' # {} \/ Lost(p, q)'
  <2>1. CASE Fork(p)
    <3> DEFINE new == [by |-> p, to |-> job[p].to, st |-> "new"]
    <3>1. job[p].to # None
      BY <1>3, FirstAlone, Consts DEF SentTo, Unmixed
    <3>2. new \in writers'
      BY <2>1, <3>1 DEF Fork
    <3>3. new.by = p /\ new.to = slot[q] /\ new.st = "new"
      BY <1>3 DEF SentTo
    <3> HIDE DEF new
    <3> QED BY <3>2, <3>3 DEF Held, On
  <2>2. CASE ~Fork(p)
    BY <1>3, <2>2, SentOn DEF SentTo, Lost
  <2> QED BY <2>1, <2>2
<1> QED BY <1>1, <1>2, <1>3, <1>4, SendingOn, HeldOn DEF UnderWay

(* One let through stays so until it takes the sender's mark back.         *)
LEMMA AnsweredOn ==
  ASSUME IInv, Idle, [Next]_vars, NEW i \in Slot, NEW q \in Proc,
         slot'[q] = slot[q], Answered(i, q), LoggedIn(q)'
  PROVE  Answered(i, q)' \/ ~Marked(i, q)'
<1>1. job[q].recv = "ok" /\ job[q].from = i /\ ~Cleared(q)
  BY DEF Answered
<1>2. CASE Calm(q)
  BY <1>1, <1>2 DEF Calm, Answered
<1>3. CASE SetId(q) \/ NameLost(q) \/ Open(q)
  BY <1>1, <1>3 DEF SetId, NameLost, NameFifo, Open, Idle, IdleOf, Fetching, Casting, Dead
<1>6. pc'[q] \notin Dead
  BY DEF LoggedIn, Serving, Dead
<1>4. CASE Send(q) \/ Mark(q) \/ Mark2(q) \/ Unmark(q)
  BY <1>1, <1>4 DEF Send, Mark, Mark2, Unmark, Cleared
<1>5. CASE Clear(q)
  BY <1>1, <1>5 DEF Clear, ClearedMark, Marked
<1> QED BY <1>2, <1>3, <1>4, <1>5, <1>6, CalmStep

(* Each step keeps the senders of all pipes under way.                     *)
LEMMA FeedsStep ==
  ASSUME IInv, Fresh, Clashes, Idle, Traces, Feeds, [Next]_vars
  PROVE  Feeds'
<1> SUFFICES ASSUME NEW i \in Slot, NEW q \in Proc, Unmixed(i, q)'
             PROVE  /\ Marked(i, q)' => UnderWay(i, q)' \/ Answered(i, q)'
                    /\ Awaiting(i, q)' => UnderWay(i, q)'
  BY DEF Feeds
<1>1. (LoggedIn(q) \/ SetId(q)) /\ slot'[q] = slot[q] /\ First(q)
  BY FirstBack DEF Unmixed
<1>2. CASE SetId(q)
  <2>1. pc[q] = "id" /\ pc'[q] = "fill" /\ UNCHANGED writeTo
    BY <1>2, GotoMoves DEF SetId, IInv
  <2>2. ~Was(slot[q])
    BY <1>1, <2>1 DEF Was, First, Entered
  <2> QED BY <1>1, <2>1, <2>2 DEF Marked, Awaiting, Traces, MarksWas
<1>3. CASE LoggedIn(q)
  <2>1. /\ Unmixed(i, q)
        /\ Marked(i, q) => UnderWay(i, q) \/ Answered(i, q)
        /\ Awaiting(i, q) => UnderWay(i, q)
    BY <1>1, <1>3, NotesGrow DEF Unmixed, Feeds
  <2>2. ASSUME Marked(i, q), Marked(i, q)' PROVE UnderWay(i, q)' \/ Answered(i, q)'
    BY <1>1, <2>1, <2>2, UnderWayOn, AnsweredOn DEF Unmixed
  <2>3. ASSUME ~Marked(i, q), Marked(i, q)' PROVE UnderWay(i, q)'
    <3>1. ~(writeTo' \subseteq writeTo)
      BY <1>1, <2>3 DEF Marked
    <3>2. ASSUME NEW a \in Proc, Fill(a) \/ Clear(a) \/ Mark2(a) \/ Unmark(a) \/ Clean(a)
          PROVE  writeTo' \subseteq writeTo
      BY <3>2 DEF Fill, Clear, ClearedMark, Mark2, Unmark, Clean
    <3>3. PICK a \in Proc : Mark(a)
      BY <3>1, <3>2, TableWriters
    <3>4. <<slot[a], job[a].to>> = <<i, slot[q]>>
      BY <1>1, <2>3, <3>3 DEF Mark, Marked
    <3> QED BY <1>1, <3>3, <3>4, GotoMoves DEF Mark, UnderWay, Sending, IInv
  <2>4. ASSUME Awaiting(i, q)' PROVE UnderWay(i, q)'
    <3>1. ~Open(q)
      BY <2>4, CastMoves DEF Open, Awaiting, IInv, Next3
    <3>2. CASE Opening(q) /\ job'[q] = job[q]
      BY <1>1, <2>1, <2>4, <3>1, <3>2, UnderWayOn DEF Awaiting, Opening
    <3>3. ASSUME NEW from \in Slot \cup {None}, NEW to \in Slot \cup {None}, NEW waits \in BOOLEAN,
                 Exec(q, from, to, waits)
          PROVE  UnderWay(i, q)'
      <4> DEFINE receives == from # None /\ taken[from] /\ <<from, slot[q]>> \in writeTo
      <4>1. /\ Goto(q, IF receives THEN "name" ELSE "send")
            /\ job' = [job EXCEPT ![q] = [NoJob EXCEPT !.from = IF receives THEN from ELSE None,
                                                       !.to = to, !.waits = waits]]
            /\ pc[q] = "prompt"
        BY <3>3 DEF Exec
      <4>2. receives
        BY <2>4, <4>1, GotoMoves DEF Awaiting, IInv
      <4>3. job'[q].from = from
        BY <4>1, <4>2 DEF IInv, TypeOK, NoJob
      <4>4. Marked(i, q)
        BY <2>4, <4>2, <4>3 DEF Awaiting, Marked
      <4>5. ~Answered(i, q)
        BY <4>1 DEF Answered, Idle, IdleOf, Fetching, Casting, Dead
      <4> QED BY <1>1, <2>1, <3>1, <4>4, <4>5, UnderWayOn
    <3> QED BY <2>4, <3>2, <3>3, OpenBack DEF Awaiting, Opening, Execs
  <2> QED BY <2>2, <2>3, <2>4
<1> QED BY <1>1, <1>2, <1>3

(* A receiver that waits in its open() (multi_shell of multi_shell.cpp)    *)
(* waits for a pipe that is under way: a process of the sender's slot is   *)
(* between its two marks, or about to fork the command that writes, or     *)
(* that command has still to open the FIFO or is blocked there; or the     *)
(* process was killed while it had the pipe to make.  It makes no          *)
(* difference that the sender's client has left since.  Only an end of the *)
(* FIFO that an earlier command left open breaks it, or a second client in *)
(* the receiver's slot.  What ReceiveReturns adds is that the one waited   *)
(* for is scheduled.                                                       *)
ReceiverHasSender ==
  \A q \in Proc :
    pc[q] = "open" /\ First(q) /\ <<job[q].from, slot[q]>> \notin crossed =>
      UnderWay(job[q].from, q)

THEOREM ReceiversHaveSenders == Spec => []ReceiverHasSender
<1>1. Init => Feeds
  <2> SUFFICES ASSUME Init PROVE Feeds
    OBVIOUS
  <2>1. \A q \in Proc : ~LoggedIn(q)
    BY DEF Init, LoggedIn, Serving
  <2> QED BY <2>1 DEF Feeds, Unmixed
<1>2. PInv /\ Feeds /\ [Next]_vars => Feeds'
  BY FeedsStep DEF PInv
<1>3. PInv /\ Feeds => ReceiverHasSender
  <2> SUFFICES ASSUME IInv, Feeds, NEW q \in Proc, pc[q] = "open", First(q),
                      <<job[q].from, slot[q]>> \notin crossed
               PROVE  UnderWay(job[q].from, q)
    BY DEF PInv, ReceiverHasSender
  <2>1. job[q].from \in Slot
    BY DEF IInv, Jobs
  <2>2. LoggedIn(q)
    BY DEF LoggedIn, Casting, Serving
  <2> QED BY <2>1, <2>2 DEF Feeds, Unmixed, Awaiting
<1> QED BY <1>1, <1>2, <1>3, PInvHolds, PTL DEF Spec

-----------------------------------------------------------------------------
(* What a lost pid can do *)

HasSome(j) == pid[j] # None \/ Overrun

(* A slot whose pid is there keeps one until the table may have lost some. *)
LEMMA SomeStays ==
  ASSUME IInv, [Next]_vars, NEW j \in Row, HasSome(j)
  PROVE  HasSome(j)'
<1>1. Overrun => Overrun'
  BY ControlStep DEF IInv
<1>2. ASSUME UNCHANGED pid PROVE HasSome(j)'
  BY <1>1, <1>2 DEF HasSome
<1>3. ASSUME NEW p \in Proc, CastStep(p) \/ GotoStep(p) PROVE HasSome(j)'
  <2>1. pid'[j] = pid[j] \/ (pid'[j] = None /\ Overrun')
    BY <1>3, CastQuiet, GotoQuiet DEF CastStep, GotoStep, Quiet, IInv, Control
  <2> QED BY <1>1, <2>1 DEF HasSome
<1>4. ASSUME NEW p \in Proc, SetPid(p) PROVE HasSome(j)'
  <2>1. pid'[j] \in {pid[j], p} /\ None \notin Proc
    BY <1>4, Consts DEF SetPid, NewPid, IInv, TypeOK
  <2> QED BY <1>1, <2>1 DEF HasSome
<1>5. ASSUME NEW p \in Proc,
             \/ Scan(p) \/ SetId(p) \/ Post(p) \/ Kill(p) \/ Vanish(p) \/ Leave(p) \/ Wipe(p)
             \/ \E k \in Kind : Handle(k, p)
      PROVE  UNCHANGED pid
  BY <1>5 DEF Scan, SetId, Post, Kill, Vanish, Leave, Wipe, Handle, table
<1>6. ASSUME NEW a \in {Server} \cup Proc, Connect(a) PROVE UNCHANGED pid
  BY <1>6 DEF Connect, table
<1>7. CASE Still
  BY <1>2, <1>7 DEF Still
<1> QED BY <1>2, <1>3, <1>4, <1>5, <1>6, <1>7, Steps

(* A process marks a slot as taken after it has put its pid there, and     *)
(* sends a signal to one that it has seen taken.                           *)
Aimed(p) == /\ pc[p] = "id" => HasSome(slot[p])
            /\ pc[p] = "kill" => HasSome(Lowest(todo[p]))
Signed ==
  /\ \A j \in Row : taken[j] => HasSome(j)
  /\ \A p \in Proc : Aimed(p)
  /\ up \/ Overrun

(* A step that takes a process to neither place.                           *)
LEMMA AimStays ==
  ASSUME IInv, Signed, [Next]_vars, NEW r \in Proc, slot'[r] = slot[r],
         pc'[r] = "id" => pc[r] = "id",
         pc'[r] = "kill" => pc[r] = "kill" /\ todo'[r] = todo[r]
  PROVE  Aimed(r)'
<1>1. CASE pc'[r] = "id"
  <2>1. slot[r] \in Row
    BY <1>1 DEF IInv, Control, Placed, Dead
  <2> QED BY <1>1, <2>1, SomeStays DEF Signed, Aimed
<1>2. CASE pc'[r] = "kill"
  <2>1. Lowest(todo[r]) \in Row
    <3>1. todo[r] \in SUBSET Slot /\ todo[r] # {}
      BY <1>2 DEF IInv, TypeOK, Posting
    <3> QED BY <3>1, LowestIn, Consts
  <2> QED BY <1>2, <2>1, SomeStays DEF Signed, Aimed
<1> QED BY <1>1, <1>2 DEF Aimed

(* Each step leaves every process aimed at a slot that has a pid.          *)
LEMMA AimStep ==
  ASSUME IInv, Signed, [Next]_vars, NEW r \in Proc
  PROVE  Aimed(r)'
<1>1. ASSUME NEW p \in Proc, CastStep(p) \/ GotoStep(p) PROVE Aimed(r)'
  <2>1. Local(p) /\ Quiet(p) /\ pc'[p] # "kill"
    BY <1>1, CastQuiet, GotoQuiet DEF CastStep, GotoStep, IInv, Control
  <2>2. pc'[p] # "id"
    BY <2>1 DEF Quiet, Serving, Leaving
  <2> QED BY <2>1, <2>2, AimStays DEF Local, Quiet
<1>2. ASSUME NEW p \in Proc, Kill(p) PROVE Aimed(r)'
  <2>1. /\ pc'[p] = "cast" /\ UNCHANGED slot
        /\ \A q \in Proc \ {p} : todo'[q] = todo[q] /\ (pc'[q] = pc[q] \/ Fell(q))
    BY <1>2, KillMoves DEF IInv
  <2>2. Fell(r) => pc'[r] \notin {"id", "kill"}
    BY KilledDead DEF Fell, Dead
  <2> QED BY <2>1, <2>2, AimStays
<1>3. ASSUME NEW p \in Proc, Vanish(p) PROVE Aimed(r)'
  <2>1. /\ Fell(p) /\ \A q \in Proc : q # p => pc'[q] = pc[q]
        /\ UNCHANGED <<slot, todo>>
    BY <1>3, VanishMoves DEF IInv
  <2>2. Fell(p) => pc'[p] \notin {"id", "kill"}
    BY KilledDead DEF Fell, Dead
  <2> QED BY <2>1, <2>2, AimStays
<1>4. ASSUME NEW p \in Proc, Post(p) PROVE Aimed(r)'
  <2>1. /\ pc[p] = "cast" /\ \A q \in Proc : q # p => pc'[q] = pc[q] /\ todo'[q] = todo[q]
        /\ UNCHANGED slot
    BY <1>4, PostQuiet DEF IInv, Control, Post, TypeOK
  <2>2. CASE r # p
    BY <2>1, <2>2, AimStays
  <2>3. CASE r = p
    <3>1. CASE todo[p] = {}
      <4>1. pc'[p] = then[p] /\ then[p] \notin {"id", "kill"}
        BY <1>4, <3>1, GotoMoves DEF Post, IInv, TypeOK
      <4> QED BY <2>1, <2>3, <4>1, AimStays
    <3>2. CASE todo[p] # {} /\ ~taken[Lowest(todo[p])]
      <4>1. UNCHANGED pc
        BY <1>4, <3>2 DEF Post
      <4> QED BY <2>1, <2>3, <4>1, AimStays
    <3>3. CASE todo[p] # {} /\ taken[Lowest(todo[p])]
      <4>1. pc'[p] = "kill" /\ UNCHANGED todo
        BY <1>4, <3>3, GotoMoves DEF Post, IInv
      <4>2. Lowest(todo[p]) \in Row
        <5>1. todo[p] \in SUBSET Slot
          BY DEF IInv, TypeOK
        <5> QED BY <3>3, <5>1, LowestIn, Consts
      <4> QED BY <2>3, <3>3, <4>1, <4>2, SomeStays DEF Signed, Aimed
    <3> QED BY <3>1, <3>2, <3>3
  <2> QED BY <2>2, <2>3
<1>5. ASSUME NEW p \in Proc, SetPid(p) PROVE Aimed(r)'
  <2>1. /\ pc[p] = "pid" /\ pc'[p] = "id" /\ \A q \in Proc : q # p => pc'[q] = pc[q]
        /\ UNCHANGED <<slot, todo>> /\ pid' = [pid EXCEPT ![slot[p]] = p]
    BY <1>5, GotoMoves DEF SetPid, NewPid, IInv
  <2>2. slot[p] \in Row /\ p # None
    BY <2>1, Consts DEF IInv, Control, Placed, Dead
  <2>3. pid'[slot[p]] = p
    BY <2>1, <2>2 DEF IInv, TypeOK
  <2> QED BY <2>1, <2>2, <2>3, AimStays DEF Aimed, HasSome
<1>6. ASSUME NEW p \in Proc, Scan(p) PROVE Aimed(r)'
  <2>1. /\ pc'[p] = "pid" /\ \A q \in Proc : q # p => pc'[q] = pc[q] /\ slot'[q] = slot[q]
        /\ UNCHANGED todo
    BY <1>6, GotoMoves DEF Scan, IInv, TypeOK
  <2> QED BY <2>1, AimStays DEF Aimed
<1>7. ASSUME NEW p \in Proc, SetId(p) \/ Wipe(p) PROVE Aimed(r)'
  <2>1. /\ pc'[p] \in {"fill", "accept"} /\ \A q \in Proc : q # p => pc'[q] = pc[q]
        /\ UNCHANGED <<slot, todo>>
    BY <1>7, GotoMoves DEF SetId, Wipe, IInv
  <2> QED BY <2>1, AimStays
<1>8. ASSUME NEW p \in Proc, Leave(p) PROVE Aimed(r)'
  <2>1. /\ pc'[p] = "cast" /\ UNCHANGED slot
        /\ \A q \in Proc : q # p => pc'[q] = pc[q] /\ todo'[q] = todo[q]
    BY <1>8, CastMoves DEF Leave, IInv, Next3
  <2> QED BY <2>1, AimStays
<1>9. ASSUME NEW a \in {Server} \cup Proc, Connect(a) PROVE Aimed(r)'
  <2>1. pc' = [pc EXCEPT ![forked + 1] = "scan"] /\ UNCHANGED <<slot, todo>>
    BY <1>9 DEF Connect, Goto
  <2>2. pc'[r] \in {pc[r], "scan"}
    BY <2>1 DEF IInv, TypeOK
  <2> QED BY <2>1, <2>2, AimStays
<1>10. ASSUME Still \/ (\E p \in Proc, k \in Kind : Handle(k, p)) PROVE Aimed(r)'
  BY <1>10, AimStays DEF Still, Handle
<1> QED BY <1>1, <1>2, <1>3, <1>4, <1>5, <1>6, <1>7, <1>8, <1>9, <1>10, Steps

(* Only a signal may end the server.                                       *)
LEMMA UpWriters ==
  ASSUME IInv, [Next]_vars
  PROVE  UNCHANGED up \/ \E p \in Proc : Kill(p)
<1>1. ASSUME NEW p \in Proc, Step(p), ~Kill(p) PROVE UNCHANGED up
  <2>1. CASE \/ Scan(p) \/ SetPid(p) \/ SetId(p) \/ Fill(p) \/ Arm(p) \/ Post(p) \/ Rename(p)
             \/ NameFifo(p) \/ Open(p)
    BY <2>1 DEF Scan, SetPid, SetId, Fill, Arm, Post, Rename, NameFifo, Open
  <2>2. CASE \/ Clear(p) \/ Send(p) \/ Mark(p) \/ Mark2(p)
             \/ Fork(p) \/ Wait(p) \/ Unmark(p) \/ Clean(p) \/ Wipe(p)
    BY <2>2 DEF Clear, Send, Mark, Mark2, Fork, Wait, Unmark, Clean, Wipe
  <2> QED BY <1>1, <2>1, <2>2 DEF Step
<1>2. ASSUME NEW p \in Proc, Client(p) PROVE UNCHANGED up
  <2>1. CASE Execs(p)
    BY <2>1, ExecMoves DEF IInv
  <2>2. CASE \/ Leave(p) \/ HangUp(p) \/ Vanish(p) \/ Yell(p)
             \/ (\E j \in Slot : Tell(p, j)) \/ (\E n \in Name : ChooseName(p, n))
    BY <2>2 DEF Leave, HangUp, Vanish, Yell, Tell, ChooseName
  <2> QED BY <1>2, <2>1, <2>2 DEF Client, Execs
<1>3. ASSUME NEW a \in {Server} \cup Proc, Connect(a) PROVE UNCHANGED up
  BY <1>3 DEF Connect
<1>4. ASSUME NEW p \in Proc, NEW k \in Kind, Handle(k, p) PROVE UNCHANGED up
  BY <1>4 DEF Handle
<1>5. ASSUME NEW x, WriterOpens(x) \/ WriterEnds(x) \/ ReaderEnds(x) PROVE UNCHANGED up
  BY <1>5 DEF WriterOpens, WriterEnds, ReaderEnds
<1>6. CASE UNCHANGED vars
  BY <1>6 DEF vars
<1> QED BY <1>1, <1>2, <1>3, <1>4, <1>5, <1>6 DEF Next

(* So does the rest of it.                                                 *)
LEMMA SignedStep ==
  ASSUME IInv, Signed, [Next]_vars
  PROVE  Signed'
<1>1. ASSUME NEW j \in Row, taken'[j] PROVE HasSome(j)'
  <2>1. CASE taken[j]
    BY <2>1, SomeStays DEF Signed
  <2>2. CASE ~taken[j]
    <3>1. ASSUME NEW p \in Proc, Leave(p) \/ Wipe(p) PROVE ~taken'[j]
      BY <2>2, <3>1 DEF Leave, Wipe, FreedSlot, IInv, TypeOK
    <3>2. PICK p \in Proc : SetId(p)
      BY <1>1, <2>2, <3>1, TableWriters
    <3>3. pc[p] = "id" /\ j = slot[p]
      BY <1>1, <2>2, <3>2 DEF SetId, IInv, TypeOK
    <3> QED BY <3>3, SomeStays DEF Signed, Aimed
  <2> QED BY <2>1, <2>2
<1>2. up' \/ Overrun'
  <2>1. Overrun => Overrun'
    BY ControlStep DEF IInv
  <2>2. ASSUME NEW p \in Proc, Kill(p) PROVE up' \/ Overrun'
    <3>1. pc[p] = "kill" /\ up' = (up /\ pid[Lowest(todo[p])] # None)
      BY <2>2 DEF Kill
    <3> QED BY <2>1, <3>1 DEF Signed, Aimed, HasSome
  <2> QED BY <2>1, <2>2, UpWriters DEF Signed
<1> QED BY <1>1, <1>2, AimStep DEF Signed

(* A signal for the lost pid -1 goes to every process, the server included *)
(* (kill() of multi_shell.cpp with a pid that the clean-up of the slot     *)
(* after the table has overwritten).  As long as no client of that slot    *)
(* has left, the server survives every order of logins, messages and       *)
(* departures: no slot is seen taken before its pid is there.              *)
ServerSurvives == up \/ Overrun
THEOREM ServerStaysUp == Spec => []ServerSurvives
<1>1. Init => Signed
  BY DEF Init, Signed, Aimed
<1>2. IInv /\ Signed /\ [Next]_vars => Signed'
  BY SignedStep
<1>3. Signed => ServerSurvives
  BY DEF Signed, ServerSurvives
<1> QED BY <1>1, <1>2, <1>3, IInvHolds, PTL DEF Spec
=============================================================================
