----------------------------- MODULE MultiProc -----------------------------
(***************************************************************************)
(* np_multi_proc: one process per client, over a table in shared memory.   *)
(*                                                                         *)
(* A child forked for a connection looks for a free slot, fills it in and  *)
(* runs the client's commands; when the client leaves, it frees the slot   *)
(* and goes back to the accept loop it was forked from.  Nothing locks the *)
(* table: every access of it is a step of its own here.  A message is put  *)
(* in the one buffer of its addressee's slot and announced by a signal; a  *)
(* user pipe is a pair of marks in the table and a FIFO named after the    *)
(* two slots, which the receiving shell and the sending command open.      *)
(*                                                                         *)
(* The shared segment is rounded up to whole pages, and has room for one   *)
(* more slot than the table: a newcomer that finds no free slot uses that  *)
(* one, which no loop over the table looks at.  A client may go at any     *)
(* time, and then a write to it kills the process that serves it.          *)
(*                                                                         *)
(* Each session's numbered pipes are private to it and not repeated here   *)
(* (see NumberedPipe).  The scan for a free slot, the search for a         *)
(* nickname, the reset of a slot's two rows and the clean-up of the        *)
(* others' rows are one step each.                                         *)
(***************************************************************************)
EXTENDS Integers

CONSTANTS
  MaxSlot,   \* index of the last slot (29 in the code)
  MaxProc,   \* bound: connections in a behaviour
  Name,      \* nicknames clients give themselves
  NoName,    \* "(no name)"
  Typed,     \* bound: which commands clients type, besides user pipes
  Aim,       \* bound: the user pipes <<i, j>> that clients use
  Heard      \* bound: the slots whose messages are followed

Slot == 0 .. MaxSlot
Past == MaxSlot + 1            \* the slot after the last one
Row == 0 .. Past
Proc == 1 .. MaxProc
Kind == {"msg", "recv"}        \* msg with SIGUSR1, recv_msg with SIGUSR2

ASSUME SizeAssumption == MaxSlot \in Nat /\ MaxProc \in Nat
ASSUME NameAssumption == NoName \notin Name
ASSUME TypedAssumption ==
  /\ Typed \subseteq {"exit", "hangup", "vanish", "yell", "tell", "name"}
  /\ Aim \subseteq Slot \X Slot
  /\ Heard \subseteq Slot

VARIABLES
  (* the table in shared memory *)
  taken,     \* taken[i]: slave[i].id # -1
  pid,       \* pid[i]: slave[i].pid
  name,      \* name[i]: slave[i].name
  writeTo,   \* <<i, j>>: slave[i].pipe_write_to[j] # -1
  readFrom,  \* <<i, j>>: slave[j].pipe_read_from[i] # -1
  (* the processes *)
  up,        \* whether the server runs
  forked,    \* how many children have been forked
  pc,        \* pc[p]: where process p is
  slot,      \* slot[p]: the slot it found
  job,       \* job[p]: its command's user pipes
  todo,      \* todo[p]: the slots a broadcast still has to reach
  then,      \* then[p]: where it goes on after the broadcast
  armed,     \* the processes that have set their signal handlers
  pending,   \* <<k, p>>: signals sent and not handled
  writers,   \* the commands that write a FIFO, or are about to
  readers,   \* the commands that read a FIFO
  (* history *)
  unseen,    \* <<k, i>>: what buffer k of slot i holds has not been shown
  clashed,   \* processes that found a slot another one was still using
  raced,     \* processes that took a nickname another one was taking
  crossed,   \* FIFOs where an open was answered by an end left from an earlier pipe
  torn       \* pipes made before their receiver had reset its row

table == <<taken, pid, name, writeTo, readFrom>>
fifos == <<writers, readers, crossed, torn>>
mail == <<pending, unseen>>
vars == <<table, up, forked, pc, slot, job, todo, then, armed, fifos, mail, clashed, raced>>

-----------------------------------------------------------------------------
(* Values *)

None == -1
NoJob == [from |-> None, to |-> None, recv |-> "no", waits |-> FALSE, nick |-> NoName]
Job == [from : Slot \cup {None}, to : Slot \cup {None}, recv : {"no", "ok", "bad"},
        waits : BOOLEAN, nick : Name \cup {NoName}]

Starting == {"scan", "pid", "id", "fill", "arm"}
Serving == {"prompt", "rename", "cast", "kill", "name", "open", "clear", "send", "mark", "mark2",
            "fork", "wait", "unmark"}
Leaving == {"clean", "wipe"}
Dead == {"dead", "gone", "mute"}    \* killed: before it had its slot, with it, or
                                    \* between a message and its signal
Place == {"none", "accept"} \cup Dead \cup Starting \cup Serving \cup Leaving

(* The children that have not freed their slot for the last time.          *)
Using == {p \in Proc : pc[p] \in (Starting \ {"scan"}) \cup Serving \cup Leaving}
Running == {p \in Proc : pc[p] \notin {"none"} \cup Dead}
Killed(p) == IF pc[p] \in {"scan", "pid", "id"} THEN "dead"
             ELSE IF pc[p] = "kill" THEN "mute" ELSE "gone"

Writer == [by : Proc, to : Slot, st : {"new", "waiting", "writing"}]
Reader == [by : Proc, from : Slot, waited : BOOLEAN]

Lowest(S) == CHOOSE i \in S : \A j \in S : i <= j
FreeSlots == {i \in Row : i \in Slot => ~taken[i]}

Goto(p, place) == pc' = [pc EXCEPT ![p] = place]

-----------------------------------------------------------------------------
Init ==
  /\ taken = [i \in Row |-> FALSE]
  /\ pid = [i \in Row |-> None]
  /\ name = [i \in Row |-> NoName]
  /\ writeTo = {} /\ readFrom = {}
  /\ up = TRUE /\ forked = 0
  /\ pc = [p \in Proc |-> "none"]
  /\ slot = [p \in Proc |-> None]
  /\ job = [p \in Proc |-> NoJob]
  /\ todo = [p \in Proc |-> {}]
  /\ then = [p \in Proc |-> "prompt"]
  /\ armed = {} /\ pending = {}
  /\ writers = {} /\ readers = {}
  /\ unseen = {} /\ clashed = {} /\ raced = {} /\ crossed = {} /\ torn = {}

-----------------------------------------------------------------------------
(* Login *)

(* The server accepts a connection and forks, or a process whose client    *)
(* left does: that one's children start with the signal handlers set.      *)
Server == 0
Accepting == {a \in {Server} : up} \cup {p \in Proc : pc[p] = "accept"}
Connect(a) ==
  LET p == forked + 1
  IN  /\ forked < MaxProc
      /\ a \in Accepting
      /\ forked' = p
      /\ Goto(p, "scan")
      /\ armed' = IF a = Server THEN armed ELSE armed \cup {p}
      /\ UNCHANGED <<table, up, slot, job, todo, then, fifos, mail, clashed, raced>>

(* The first free slot, or the one after the table.                        *)
Scan(p) ==
  LET i == Lowest(FreeSlots)
      others == {q \in Using : slot[q] = i}
  IN  /\ pc[p] = "scan"
      /\ slot' = [slot EXCEPT ![p] = i]
      /\ clashed' = IF others = {} THEN clashed ELSE clashed \cup others \cup {p}
      /\ Goto(p, "pid")
      /\ UNCHANGED <<table, up, forked, job, todo, then, armed, fifos, mail, raced>>

KeepPid(p) == pid
NewPid(p) == [pid EXCEPT ![slot[p]] = p]
SetPid(p) ==
  /\ pc[p] = "pid"
  /\ pid' = NewPid(p)
  /\ Goto(p, "id")
  /\ UNCHANGED <<taken, name, writeTo, readFrom, up, forked, slot, job, todo, then, armed,
                 fifos, mail, clashed, raced>>

(* What the buffers hold was for the slot's previous client.               *)
SetId(p) ==
  /\ pc[p] = "id"
  /\ taken' = [taken EXCEPT ![slot[p]] = TRUE]
  /\ unseen' = {x \in unseen : x[2] # slot[p]}
  /\ Goto(p, "fill")
  /\ UNCHANGED <<pid, name, writeTo, readFrom, up, forked, slot, job, todo, then, armed,
                 fifos, pending, clashed, raced>>

(* The two rows of slot i: what it writes, and what it reads.              *)
Fill(p) ==
  LET i == slot[p]
  IN  /\ pc[p] = "fill"
      /\ name' = [name EXCEPT ![i] = NoName]
      /\ writeTo' = {x \in writeTo : x[1] # i}
      /\ readFrom' = {x \in readFrom : x[2] # i}
      /\ torn' = torn \cup {x \in readFrom : x[2] = i}
      /\ Goto(p, "arm")
      /\ UNCHANGED <<taken, pid, up, forked, slot, job, todo, then, armed, writers, readers,
                     crossed, mail, clashed, raced>>

BroadcastOneTooMany(p, targets, next) ==
  /\ todo' = [todo EXCEPT ![p] = (targets \cap Heard) \cup {Past}]
  /\ then' = [then EXCEPT ![p] = next]
  /\ Goto(p, "cast")
Broadcast(p, targets, next) ==
  /\ todo' = [todo EXCEPT ![p] = targets \cap Heard]
  /\ then' = [then EXCEPT ![p] = next]
  /\ Goto(p, "cast")

Arm(p) ==
  /\ pc[p] = "arm"
  /\ armed' = armed \cup {p}
  /\ Broadcast(p, Slot, "prompt")
  /\ UNCHANGED <<table, up, forked, slot, job, fifos, mail, clashed, raced>>

-----------------------------------------------------------------------------
(* Messages *)

(* The kind of a broadcast shows in where the process goes on after it.    *)
KindOf(p) == IF then[p] = "clear" THEN "recv" ELSE "msg"

(* The text for the next slot, if it is taken, is put in its buffer.       *)
Post(p) ==
  LET j == Lowest(todo[p])
  IN  /\ pc[p] = "cast"
      /\ IF todo[p] = {}
         THEN Goto(p, then[p]) /\ UNCHANGED <<todo, unseen>>
         ELSE IF taken[j]
         THEN /\ unseen' = unseen \cup {<<KindOf(p), j>>}
              /\ Goto(p, "kill")
              /\ UNCHANGED todo
         ELSE todo' = [todo EXCEPT ![p] = @ \ {j}] /\ UNCHANGED <<unseen, pc>>
      /\ UNCHANGED <<table, up, forked, slot, job, then, armed, fifos, pending, clashed, raced>>

(* kill(slave[j].pid): a process without its handlers dies of it.  The pid *)
(* None stands for every process but the caller, the server included.      *)
Hit(p, q) == IF q = None THEN Running \ {p} ELSE {q} \cap Running
Kill(p) ==
  LET j == Lowest(todo[p])
      hit == Hit(p, pid[j])
  IN  /\ pc[p] = "kill"
      /\ todo' = [todo EXCEPT ![p] = @ \ {j}]
      /\ pending' = pending \cup {<<KindOf(p), q>> : q \in hit \cap armed}
      /\ pc' = [q \in Proc |-> IF q = p THEN "cast"
                              ELSE IF q \in hit \ armed THEN Killed(q) ELSE pc[q]]
      /\ up' = (up /\ pid[j] # None)
      /\ UNCHANGED <<table, forked, slot, job, then, armed, fifos, unseen, clashed, raced>>

(* usr1_handler, usr2_handler: the process looks for its own slot and      *)
(* shows what the buffer holds.  A pid that is in no slot of the table     *)
(* finds the slot after it, whose buffers are empty.                       *)
MineButLast(q) == {j \in Slot \ {MaxSlot} : pid[j] = q}
Mine(q) == {j \in Slot : pid[j] = q}
Shown(k, q) == IF Mine(q) = {} THEN {} ELSE {<<k, Lowest(Mine(q))>>}
Handle(k, q) ==
  /\ <<k, q>> \in pending /\ q \in Running
  /\ pending' = pending \ {<<k, q>>}
  /\ unseen' = unseen \ Shown(k, q)
  /\ UNCHANGED <<table, up, forked, pc, slot, job, todo, then, armed, fifos, clashed, raced>>

-----------------------------------------------------------------------------
(* Commands without user pipes *)

Yell(p) ==
  /\ pc[p] = "prompt" /\ "yell" \in Typed
  /\ Broadcast(p, Slot, "prompt")
  /\ UNCHANGED <<table, up, forked, slot, job, armed, fifos, mail, clashed, raced>>

Tell(p, j) ==
  /\ pc[p] = "prompt" /\ "tell" \in Typed
  /\ Broadcast(p, {j}, "prompt")
  /\ UNCHANGED <<table, up, forked, slot, job, armed, fifos, mail, clashed, raced>>

(* The name is looked for first, and set in a step of its own.             *)
FreeFromSecond(n) == \A i \in Slot \ {0} : taken[i] => name[i] # n
NameIsFree(n) == \A i \in Slot : taken[i] => name[i] # n
ChooseName(p, n) ==
  LET rivals == {q \in Proc : pc[q] = "rename" /\ job[q].nick = n}
  IN  /\ pc[p] = "prompt" /\ "name" \in Typed
      /\ NameIsFree(n)
      /\ job' = [job EXCEPT ![p].nick = n]
      /\ raced' = IF rivals = {} THEN raced ELSE raced \cup rivals \cup {p}
      /\ Goto(p, "rename")
      /\ UNCHANGED <<table, up, forked, slot, todo, then, armed, fifos, mail, clashed>>

Rename(p) ==
  /\ pc[p] = "rename"
  /\ name' = [name EXCEPT ![slot[p]] = job[p].nick]
  /\ job' = [job EXCEPT ![p] = NoJob]
  /\ Broadcast(p, Slot, "prompt")
  /\ UNCHANGED <<taken, pid, writeTo, readFrom, up, forked, slot, armed, fifos, mail,
                 clashed, raced>>

-----------------------------------------------------------------------------
(* Commands with user pipes *)

(* A command is forked, with <from, >to or both.  It is waited for when it *)
(* ends its line and has no >to.                                           *)
Exec(p, from, to, waits) ==
  LET me == slot[p]
      receives == from # None /\ taken[from] /\ <<from, me>> \in writeTo
  IN  /\ pc[p] = "prompt"
      /\ from # None => <<from, me>> \in Aim
      /\ to # None => <<me, to>> \in Aim
      /\ from # None \/ to # None
      /\ waits => to = None
      /\ job' = [job EXCEPT ![p] = [NoJob EXCEPT !.from = IF receives THEN from ELSE None,
                                                 !.to = to, !.waits = waits]]
      /\ Goto(p, IF receives THEN "name" ELSE "send")
      /\ UNCHANGED <<table, up, forked, slot, todo, then, armed, fifos, mail, clashed, raced>>

(* The FIFO is named after the sender's slot as it is by then: if the      *)
(* sender has gone meanwhile, the name is that of no FIFO.                 *)
NameFifo(p) ==
  /\ pc[p] = "name"
  /\ IF taken[job[p].from]
     THEN Goto(p, "open") /\ UNCHANGED <<job, todo, then>>
     ELSE job' = [job EXCEPT ![p].recv = "bad"] /\ Broadcast(p, Slot, "clear")
  /\ UNCHANGED <<table, up, forked, slot, armed, fifos, mail, clashed, raced>>

(* open(O_RDONLY) blocks until a writer is there, and lets it through.     *)
On(x, i, j) == slot[x.by] = i /\ x.to = j
MetAnyway(i, j) == TRUE
Met(i, j) == \E x \in writers : On(x, i, j) /\ x.st # "new"
Released(i, j) == {IF On(x, i, j) /\ x.st = "waiting" THEN [x EXCEPT !.st = "writing"] ELSE x :
                     x \in writers}
Open(p) ==
  LET i == job[p].from
  IN  /\ pc[p] = "open"
      /\ Met(i, slot[p])
      /\ writers' = Released(i, slot[p])
      /\ crossed' = IF \E x \in writers : On(x, i, slot[p]) /\ x.st = "writing"
                    THEN crossed \cup {<<i, slot[p]>>} ELSE crossed
      /\ job' = [job EXCEPT ![p].recv = "ok"]
      /\ Broadcast(p, Slot, "clear")
      /\ UNCHANGED <<table, up, forked, slot, armed, readers, torn, mail, clashed, raced>>

KeptMark(p) == writeTo
ClearedMark(p) == writeTo \ {<<job[p].from, slot[p]>>}
Clear(p) ==
  /\ pc[p] = "clear"
  /\ writeTo' = ClearedMark(p)
  /\ Goto(p, "send")
  /\ UNCHANGED <<taken, pid, name, readFrom, up, forked, slot, job, todo, then, armed, fifos,
                 mail, clashed, raced>>

(* A pipe is made unless its receiver's row has one already.               *)
Sends(p) == /\ job[p].to # None
            /\ taken[job[p].to]
            /\ <<slot[p], job[p].to>> \notin readFrom
Send(p) ==
  /\ pc[p] = "send"
  /\ IF Sends(p)
     THEN Goto(p, "mark") /\ UNCHANGED job
     ELSE Goto(p, "fork") /\ job' = [job EXCEPT ![p].to = None]
  /\ UNCHANGED <<table, up, forked, slot, todo, then, armed, fifos, mail, clashed, raced>>

Mark(p) ==
  /\ pc[p] = "mark"
  /\ writeTo' = writeTo \cup {<<slot[p], job[p].to>>}
  /\ Goto(p, "mark2")
  /\ UNCHANGED <<taken, pid, name, readFrom, up, forked, slot, job, todo, then, armed, fifos,
                 mail, clashed, raced>>

Mark2(p) ==
  /\ pc[p] = "mark2"
  /\ readFrom' = readFrom \cup {<<slot[p], job[p].to>>}
  /\ Broadcast(p, Slot, "fork")
  /\ UNCHANGED <<taken, pid, name, writeTo, up, forked, slot, job, armed, fifos, mail,
                 clashed, raced>>

Fork(p) ==
  /\ pc[p] = "fork"
  /\ writers' = IF job[p].to = None THEN writers
                ELSE writers \cup {[by |-> p, to |-> job[p].to, st |-> "new"]}
  /\ readers' = IF job[p].recv # "ok" THEN readers
                ELSE readers \cup {[by |-> p, from |-> job[p].from, waited |-> job[p].waits]}
  /\ job' = [job EXCEPT ![p].to = None]
  /\ Goto(p, IF job[p].waits THEN "wait" ELSE "unmark")
  /\ UNCHANGED <<table, up, forked, slot, todo, then, armed, crossed, torn, mail, clashed, raced>>

Wait(p) ==
  /\ pc[p] = "wait"
  /\ ~ \E x \in readers : x.by = p /\ x.waited
  /\ Goto(p, "unmark")
  /\ UNCHANGED <<table, up, forked, slot, job, todo, then, armed, fifos, mail, clashed, raced>>

StillMarked(p) == readFrom
Unmarked(p) == readFrom \ {<<job[p].from, slot[p]>>}
Unmark(p) ==
  /\ pc[p] = "unmark"
  /\ readFrom' = IF job[p].recv = "no" THEN readFrom ELSE Unmarked(p)
  /\ job' = [job EXCEPT ![p] = NoJob]
  /\ Goto(p, "prompt")
  /\ UNCHANGED <<taken, pid, name, writeTo, up, forked, slot, todo, then, armed, fifos, mail,
                 clashed, raced>>

(* The sending command opens its FIFO by the name its receiver's slot has  *)
(* by then; it blocks until a reader is there.                             *)
HasReader(i, j) ==
  \/ \E q \in Running : slot[q] = j /\ job[q].from = i /\ job[q].recv = "ok"
  \/ \E x \in readers : slot[x.by] = j /\ x.from = i
WriterOpens(x) ==
  LET i == slot[x.by]
  IN  /\ x \in writers /\ x.st = "new"
      /\ IF ~taken[x.to]
         THEN writers' = writers \ {x} /\ UNCHANGED crossed
         ELSE IF HasReader(i, x.to)
         THEN /\ writers' = (writers \ {x}) \cup {[x EXCEPT !.st = "writing"]}
              /\ crossed' = crossed \cup {<<i, x.to>>}
         ELSE /\ writers' = (writers \ {x}) \cup {[x EXCEPT !.st = "waiting"]}
              /\ UNCHANGED crossed
      /\ UNCHANGED <<table, up, forked, pc, slot, job, todo, then, armed, readers, torn, mail,
                     clashed, raced>>

(* Commands end: a writer once it has opened its FIFO, a reader any time.  *)
WriterEnds(x) ==
  /\ x \in writers /\ x.st = "writing"
  /\ writers' = writers \ {x}
  /\ UNCHANGED <<table, up, forked, pc, slot, job, todo, then, armed, readers, crossed, torn, mail,
                 clashed, raced>>

ReaderEnds(x) ==
  /\ x \in readers
  /\ readers' = readers \ {x}
  /\ UNCHANGED <<table, up, forked, pc, slot, job, todo, then, armed, writers, crossed, torn, mail,
                 clashed, raced>>

-----------------------------------------------------------------------------
(* Logout *)

(* "exit": the slot is freed, the others are told, and their rows lose     *)
(* what they had with it.                                                  *)
Leave(p) ==
  /\ pc[p] = "prompt" /\ "exit" \in Typed
  /\ taken' = [taken EXCEPT ![slot[p]] = FALSE]
  /\ Broadcast(p, Slot \ {slot[p]}, "clean")
  /\ UNCHANGED <<pid, name, writeTo, readFrom, up, forked, slot, job, armed, fifos, mail,
                 clashed, raced>>

(* The column of the slot after the table is not there: of row j, it is    *)
(* the pid of slot j + 1 and what slot j writes to the first one.          *)
Clean(p) ==
  LET i == slot[p]
  IN  /\ pc[p] = "clean"
      /\ writeTo' = {x \in writeTo : ~(taken[x[1]] /\ x[2] = IF i = Past THEN 0 ELSE i)}
      /\ readFrom' = {x \in readFrom : ~(taken[x[2]] /\ x[1] = i)}
      /\ pid' = IF i = Past THEN [j \in Row |-> IF j # 0 /\ taken[j - 1] THEN None ELSE pid[j]]
                ELSE pid
      /\ Goto(p, "wipe")
      /\ UNCHANGED <<taken, name, up, forked, slot, job, todo, then, armed, fifos, mail,
                     clashed, raced>>

(* End of file: multi_shell returns without any of that.                   *)
HangUp(p) ==
  /\ pc[p] = "prompt" /\ "hangup" \in Typed
  /\ Goto(p, "wipe")
  /\ UNCHANGED <<table, up, forked, slot, job, todo, then, armed, fifos, mail, clashed, raced>>

(* SIGPIPE: a write to a client that has gone kills the process.  It       *)
(* writes its welcome, prompts and errors, and what a signal tells it.     *)
Writes(p) ==
  \/ pc[p] \in {"pid", "prompt"}
  \/ pc[p] = "send" /\ job[p].to # None /\ ~Sends(p)
  \/ p \in Running /\ pc[p] # "accept" /\ \E k \in Kind : <<k, p>> \in pending
Vanish(p) ==
  /\ Writes(p) /\ "vanish" \in Typed
  /\ Goto(p, Killed(p))
  /\ pending' = {x \in pending : x[2] # p}
  /\ UNCHANGED <<table, up, forked, slot, job, todo, then, armed, fifos, unseen, clashed, raced>>

(* Back in main(), the slot is freed (again), and the process accepts.     *)
KeepSlot(p) == taken
FreedSlot(p) == [taken EXCEPT ![slot[p]] = FALSE]
Wipe(p) ==
  /\ pc[p] = "wipe"
  /\ taken' = FreedSlot(p)
  /\ Goto(p, "accept")
  /\ UNCHANGED <<pid, name, writeTo, readFrom, up, forked, slot, job, todo, then, armed, fifos,
                 mail, clashed, raced>>

-----------------------------------------------------------------------------
(* What a process does on its own once it is given something to do.        *)
Step(p) ==
  \/ Scan(p) \/ SetPid(p) \/ SetId(p) \/ Fill(p) \/ Arm(p)
  \/ Post(p) \/ Kill(p) \/ Rename(p)
  \/ NameFifo(p) \/ Open(p) \/ Clear(p) \/ Send(p) \/ Mark(p) \/ Mark2(p)
  \/ Fork(p) \/ Wait(p) \/ Unmark(p)
  \/ Clean(p) \/ Wipe(p)

Client(p) ==
  \/ Leave(p) \/ HangUp(p) \/ Vanish(p) \/ Yell(p)
  \/ \E j \in Slot : Tell(p, j)
  \/ \E n \in Name : ChooseName(p, n)
  \/ \E from, to \in Slot \cup {None}, waits \in BOOLEAN : Exec(p, from, to, waits)

Next ==
  \/ \E a \in {Server} \cup Proc : Connect(a)
  \/ \E p \in Proc : Step(p) \/ Client(p) \/ \E k \in Kind : Handle(k, p)
  \/ \E x \in writers : WriterOpens(x) \/ WriterEnds(x)
  \/ \E x \in readers : ReaderEnds(x)

Spec == Init /\ [][Next]_vars

(* Every process that has something to do is scheduled, signals are        *)
(* delivered, and the sending commands get to open their FIFOs.  Commands  *)
(* need not end, and nobody has to type.                                   *)
Fairness ==
  /\ \A p \in Proc : WF_vars(Step(p)) /\ \A k \in Kind : WF_vars(Handle(k, p))
  /\ WF_vars(\E x \in writers : WriterOpens(x))
FairSpec == Spec /\ Fairness

-----------------------------------------------------------------------------
(* Properties *)

TypeOK ==
  /\ taken \in [Row -> BOOLEAN]
  /\ pid \in [Row -> Proc \cup {None}]
  /\ name \in [Row -> Name \cup {NoName}]
  /\ writeTo \subseteq Slot \X Slot /\ readFrom \subseteq Slot \X Slot
  /\ up \in BOOLEAN /\ forked \in 0 .. MaxProc
  /\ pc \in [Proc -> Place]
  /\ slot \in [Proc -> Row \cup {None}]
  /\ job \in [Proc -> Job]
  /\ todo \in [Proc -> SUBSET Slot]
  /\ then \in [Proc -> {"prompt", "clear", "fork", "clean"}]
  /\ armed \subseteq Proc /\ clashed \subseteq Proc /\ raced \subseteq Proc
  /\ pending \subseteq Kind \X Proc /\ unseen \subseteq Kind \X Slot
  /\ writers \subseteq Writer /\ readers \subseteq Reader
  /\ crossed \subseteq Slot \X Slot /\ torn \subseteq Slot \X Slot

Casting(p) == pc[p] \in {"cast", "kill"}
LoggedIn(p) == \/ pc[p] \in {"fill", "arm"}
               \/ pc[p] \in Serving /\ ~(Casting(p) /\ then[p] = "clean")

(* A slot is never left taken by nobody: a process still has to free it,   *)
(* unless it was killed while it had it, as a newcomer by a message that   *)
(* came before it had set its handlers, or by a write to a client that had *)
(* gone.                                                                   *)
NoGhosts ==
  \A i \in Slot : taken[i] =>
    \E p \in Proc : slot[p] = i /\ (p \in Using \/ pc[p] \in {"gone", "mute"})

(* Once a client of the slot after the table has left, the table may have  *)
(* lost pids, and marks of pipes to the first slot.                        *)
Overrun == \E q \in Proc : slot[q] = Past /\ pc[q] \in {"wipe", "accept"} \cup Dead

(* A client keeps its place in the table, unless its process found its     *)
(* slot while another one was using it: between two scans for the same     *)
(* slot, between an exit and the end of that process's clean-up, or after  *)
(* the table.  A client that came when the table was full takes nobody's   *)
(* place; only when it leaves may others lose their pids.                  *)
PlaceKept ==
  \A p \in Proc \ clashed : LoggedIn(p) =>
    /\ taken[slot[p]]
    /\ pid[slot[p]] = p \/ (Overrun /\ pid[slot[p]] = None)

(* The last message put in the buffer of a client that has its pid is      *)
(* shown: the signal for it is still pending, or its sender is about to    *)
(* send it or was killed just then.  Signals that coalesce, and messages   *)
(* that overwrite each other, cannot lose it.                              *)
LastMessageShown ==
  \A k \in Kind, p \in Proc \ clashed :
    LoggedIn(p) /\ pid[slot[p]] = p /\ <<k, slot[p]>> \in unseen =>
      \/ <<k, p>> \in pending
      \/ \E q \in Proc : /\ pc[q] \in {"kill", "mute"}
                         /\ KindOf(q) = k /\ Lowest(todo[q]) = slot[p]

(* Two clients of the table have one nickname only if each looked for it   *)
(* while the other was about to take it, or if one of them shared its slot.*)
Settled(p) == LoggedIn(p) /\ pc[p] # "fill" /\ slot[p] # Past
UniqueNames ==
  \A p, q \in Proc \ clashed :
    /\ Settled(p) /\ Settled(q) /\ p # q
    /\ name[slot[p]] = name[slot[q]] /\ name[slot[p]] # NoName
    => {p, q} \subseteq raced

(* User pipes between the first clients of two slots, i to j *)
First(p) == \A q \in Proc \ {p} : slot[q] # slot[p]
Pair(p, q) == First(p) /\ First(q) /\ LoggedIn(p) /\ LoggedIn(q)
Sending(p, q) == pc[p] = "mark2" /\ job[p].to = slot[q]
Receiving(q, p) == job[q].recv = "ok" /\ job[q].from = slot[p]

(* The two marks of a pipe, set and taken back by two processes without a  *)
(* lock, differ only while the sender is between setting its two, or the   *)
(* receiver between taking its two back.  Three things break that: a pipe  *)
(* made before its receiver had reset its row, a FIFO whose other end an   *)
(* earlier command still has open, so that opening it does not wait, and a *)
(* client of the slot after the table that left.                           *)
Overwritten(j) == Overrun /\ j = 0
MarksAgree ==
  \A p, q \in Proc :
    LET x == <<slot[p], slot[q]>>
    IN  Pair(p, q) /\ ~Overwritten(slot[q]) /\ x \notin torn \cup crossed =>
          /\ x \in writeTo /\ x \notin readFrom => Sending(p, q)
          /\ x \in readFrom /\ x \notin writeTo => Receiving(q, p)

(* A receiver that opens its FIFO does not wait there for ever, unless an  *)
(* earlier command that still had the FIFO open met its writer instead, or *)
(* its sender was killed before it had forked the command that writes.     *)
Orphaned(q) == \E p \in Proc : /\ pc[p] \in Dead /\ job[p].to = slot[q]
                               /\ slot[p] = job[q].from
ReceiveReturns ==
  \A q \in Proc : pc[q] = "open" ~> (pc[q] # "open" \/ crossed # {} \/ ~First(q) \/ Orphaned(q))
=============================================================================
