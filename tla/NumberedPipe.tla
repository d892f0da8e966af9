---------------------------- MODULE NumberedPipe ----------------------------
(***************************************************************************)
(* The command loop of npshell (shell() in project1 and project2), with    *)
(* the accept loop of np_simple around it.                                 *)
(*                                                                         *)
(* A command followed by |N sends its output to the N-th command after it. *)
(* The shell keeps one node per command to come in a list of fixed length; *)
(* the node a command is aimed at holds the pipe, every command moves the  *)
(* list on by one node, and the command that finds a pipe in the first     *)
(* node reads it.  The commands run as child processes that inherit every  *)
(* pipe end the shell has open when they are forked, so whether a reader   *)
(* ever sees end of file depends on who else was forked, and when.         *)
(*                                                                         *)
(* Data is counted, not stored: buf[p] is how much pipe p holds.           *)
(***************************************************************************)
EXTENDS Integers, FiniteSets

CONSTANTS
  Pipe,       \* the kernel's pipes; bounds how many can exist at once
  NoPipe,     \* the -1 of write_to_this and read_pipe
  LastNode,   \* index of the list's last node (1001 in the code)
  MaxLen,     \* the longest |N a user types
  Capacity,   \* how much a pipe holds before its writers block
  MaxOut,     \* how much one command writes, at most
  MaxForks    \* bound: commands forked in a behaviour

ASSUME PipeAssumption == NoPipe \notin Pipe
ASSUME RingAssumption ==
  /\ LastNode \in Nat /\ MaxLen \in Nat
  /\ 1 <= MaxLen /\ MaxLen <= LastNode
ASSUME BoundAssumption ==
  /\ Capacity \in Nat /\ MaxOut \in Nat /\ MaxForks \in Nat
  /\ 1 <= Capacity

VARIABLES
  ring,       \* ring[i]: the pipe held by the i-th node counted from first
  shellW,     \* pipes whose write end is open in the shell
  shellR,     \* pipes whose read end is open in the shell
  leaked,     \* history: pipes still open in the shell that left the list
  buf,        \* buf[p]: amount of data in pipe p
  proc,       \* proc[q]: the q-th command forked
  forks,      \* how many commands have been forked
  waiting,    \* the command waitpid() blocks on, or 0
  sigchld     \* whether SIGCHLD is pending in the shell

vars == <<ring, shellW, shellR, leaked, buf, proc, forks, waiting, sigchld>>

-----------------------------------------------------------------------------
(* Values *)

PipeOrNone == Pipe \cup {NoPipe}
Node == 0 .. LastNode
Pid == 1 .. MaxForks

(* One parsed command: "pipe" stands for both | and !, which differ only   *)
(* in whether stderr follows; len counts commands.  A command is last when *)
(* the line ends after it; "plain" (opt 'a') can only be last.             *)
Command ==
       [opt : {"pipe"}, len : 1 .. MaxLen, last : BOOLEAN]
  \cup [opt : {"file"}, len : {0}, last : BOOLEAN]
  \cup [opt : {"plain"}, len : {0}, last : {TRUE}]

(* A child process: its stdin and stdout when they are pipes, how much it  *)
(* still writes, whether it reads its stdin to the end, and the pipe ends  *)
(* it holds (those of its stdin and stdout included).                      *)
Process == [st : {"unborn", "running", "zombie", "reaped"},
            in : PipeOrNone, out : PipeOrNone,
            left : 0 .. MaxOut, reads : BOOLEAN,
            W : SUBSET Pipe, R : SUBSET Pipe]

Unborn == [st |-> "unborn", in |-> NoPipe, out |-> NoPipe,
           left |-> 0, reads |-> FALSE, W |-> {}, R |-> {}]

EmptyRing == [i \in Node |-> NoPipe]

Some(p) == {p} \ {NoPipe}
RingPipes(r) == {r[i] : i \in Node} \ {NoPipe}
Distinct(r) == \A i, j \in Node : r[i] = r[j] /\ r[i] # NoPipe => i = j

Running == {q \in Pid : proc[q].st = "running"}
Zombies == {q \in Pid : proc[q].st = "zombie"}

WriteOpen(p) == p \in shellW \/ \E q \in Running : p \in proc[q].W
ReadOpen(p)  == p \in shellR \/ \E q \in Running : p \in proc[q].R
Free(p) == ~WriteOpen(p) /\ ~ReadOpen(p)

-----------------------------------------------------------------------------
(* The list of nodes, and the descriptors the shell gives up *)

(* linked_list_new_node: a fresh node at the end, the first one deleted.   *)
ShiftRing(r) == [i \in Node |-> IF i < LastNode THEN r[i + 1] ELSE NoPipe]
ReuseNode(r) == [i \in Node |-> IF i < LastNode THEN r[i + 1] ELSE r[0]]
KeepLast(r) == [i \in Node |-> IF i < LastNode THEN r[i + 1] ELSE r[i]]
NextNode(r) == ShiftRing(r)

(* close(fd_write): the write end of the pipe this command will read; it   *)
(* happens before fork(), so the child does not inherit that end.          *)
KeepWriteEnd(S, in) == S
CloseWriteEnd(S, in) == S \ {in}
InheritEarly(S, in) == S
Inherited(S, in) == CloseWriteEnd(S, in)

(* close(fd_read): the read end of the pipe this command has read.         *)
KeepReadEnd(S, in) == S
CloseReadEnd(S, in) == S \ {in}

(* The pipe command c writes to: the one already in the node it is aimed   *)
(* at, else a fresh one; none when its output is not piped.                *)
TargetFresh(c, p) ==
  IF c.opt # "pipe" THEN p = NoPipe ELSE p \in Pipe /\ Free(p)
Target(c, p) ==
  IF c.opt # "pipe" THEN p = NoPipe
  ELSE IF ring[c.len] # NoPipe THEN p = ring[c.len]
       ELSE p \in Pipe /\ Free(p)

(* The list once the target node holds p, and what p newly contains.       *)
Aimed(c, p) == IF p = NoPipe THEN ring ELSE [ring EXCEPT ![c.len] = p]
Filled(p) == [x \in Pipe |-> IF x = p /\ Free(p) THEN 0 ELSE buf[x]]

-----------------------------------------------------------------------------
Init ==
  /\ ring = EmptyRing
  /\ shellW = {} /\ shellR = {} /\ leaked = {}
  /\ buf = [p \in Pipe |-> 0]
  /\ proc = [q \in Pid |-> Unborn]
  /\ forks = 0
  /\ waiting = 0
  /\ sigchld = FALSE

(* setenv and printenv: the target pipe is made, nothing is forked, and    *)
(* the first node is dropped with its pipe still open.                     *)
Builtin(c, p) ==
  /\ waiting = 0
  /\ Target(c, p)
  /\ ring' = NextNode(Aimed(c, p))
  /\ shellW' = shellW \cup Some(p)
  /\ shellR' = shellR \cup Some(p)
  /\ leaked' = leaked \cup Some(ring[0])
  /\ buf' = Filled(p)
  /\ UNCHANGED <<proc, forks, waiting, sigchld>>

(* Whether the shell blocks until the command ends.                        *)
WaitsFor(c) == c.last /\ c.opt \in {"plain", "file"}

(* Every other command: close the write end of its input, fork, wait if it *)
(* ends the line and is not piped on; otherwise close the read end and     *)
(* move on at once.  left = 0 with reads = FALSE also stands for a command *)
(* that execvp does not find.                                              *)
Exec(c, p, reads, left) ==
  LET in == ring[0]
      q  == forks + 1
      W  == CloseWriteEnd(shellW \cup Some(p), in)
      R  == shellR \cup Some(p)
  IN  /\ waiting = 0
      /\ forks < MaxForks
      /\ Target(c, p)
      /\ p = NoPipe => left = 0
      /\ in = NoPipe => ~reads
      /\ proc' = [proc EXCEPT ![q] =
                    [st |-> "running", in |-> in, out |-> p, left |-> left,
                     reads |-> reads, W |-> Inherited(shellW \cup Some(p), in), R |-> R]]
      /\ forks' = q
      /\ shellW' = W
      /\ buf' = Filled(p)
      /\ IF WaitsFor(c)
         THEN /\ waiting' = q
              /\ ring' = Aimed(c, p)
              /\ shellR' = R
         ELSE /\ waiting' = 0
              /\ ring' = NextNode(Aimed(c, p))
              /\ shellR' = CloseReadEnd(R, in)
      /\ UNCHANGED <<leaked, sigchld>>

(* waitpid(pid) returns: it reaps the child, or finds that the SIGCHLD     *)
(* handler already did; the input is closed and the list moves on.         *)
Resume ==
  /\ waiting # 0
  /\ proc[waiting].st \in {"zombie", "reaped"}
  /\ proc' = [proc EXCEPT ![waiting].st = "reaped"]
  /\ waiting' = 0
  /\ shellR' = CloseReadEnd(shellR, ring[0])
  /\ ring' = NextNode(ring)
  /\ UNCHANGED <<shellW, leaked, buf, forks, sigchld>>

(* "exit", or end of file on the connection: shell() returns, np_simple    *)
(* accepts the next client and calls shell() again, which builds a new     *)
(* list.  The pipes of the old one stay open in the process.               *)
NextSession(c, p) ==
  /\ waiting = 0
  /\ Target(c, p)
  /\ ring' = EmptyRing
  /\ shellW' = shellW \cup Some(p)
  /\ shellR' = shellR \cup Some(p)
  /\ leaked' = leaked \cup RingPipes(Aimed(c, p))
  /\ buf' = Filled(p)
  /\ UNCHANGED <<proc, forks, waiting, sigchld>>

(* child_handler: every dead child there is gets reaped, since several     *)
(* deaths may have raised only one signal.                                 *)
ReapOne == IF Zombies = {} THEN {} ELSE {CHOOSE q \in Zombies : TRUE}
ReapAll == Zombies
Handler ==
  /\ sigchld
  /\ sigchld' = FALSE
  /\ proc' = [q \in Pid |-> IF q \in ReapAll
                            THEN [proc[q] EXCEPT !.st = "reaped"] ELSE proc[q]]
  /\ UNCHANGED <<ring, shellW, shellR, leaked, buf, forks, waiting>>

-----------------------------------------------------------------------------
(* The child processes: the kernel's pipe semantics as the shell uses them *)

(* All that is left of a dead child is its exit status.                    *)
Die(q) ==
  /\ proc' = [proc EXCEPT ![q] = [Unborn EXCEPT !.st = "zombie"]]
  /\ sigchld' = TRUE
  /\ UNCHANGED <<ring, shellW, shellR, leaked, forks, waiting>>

(* There is no SIGPIPE: the read end of the pipe a command writes is open  *)
(* in the command itself, which inherited it (R in Exec) and closes only   *)
(* fd_write_others.  A writer nobody reads blocks instead.                 *)
CanWrite(q) == proc[q].left > 0 /\ buf[proc[q].out] < Capacity

Write(q) ==
  /\ q \in Running
  /\ CanWrite(q)
  /\ buf' = [buf EXCEPT ![proc[q].out] = @ + 1]
  /\ proc' = [proc EXCEPT ![q].left = @ - 1]
  /\ UNCHANGED <<ring, shellW, shellR, leaked, forks, waiting, sigchld>>

CanReadAlways(q) == proc[q].reads
CanRead(q) == proc[q].reads /\ buf[proc[q].in] > 0

Read(q) ==
  /\ q \in Running
  /\ CanRead(q)
  /\ buf' = [buf EXCEPT ![proc[q].in] = @ - 1]
  /\ UNCHANGED <<ring, shellW, shellR, leaked, proc, forks, waiting, sigchld>>

(* A command is done when it has written all it had to and, if it reads    *)
(* its input, has met end of file: no data and no writer left.             *)
AtEof(p) == buf[p] = 0 /\ ~WriteOpen(p)
CanExit(q) == proc[q].left = 0 /\ (proc[q].reads => AtEof(proc[q].in))

Exit(q) ==
  /\ q \in Running
  /\ CanExit(q)
  /\ Die(q)
  /\ UNCHANGED buf

Child(q) == Write(q) \/ Read(q) \/ Exit(q)

-----------------------------------------------------------------------------
User == \E c \in Command, p \in PipeOrNone :
          \/ Builtin(c, p)
          \/ NextSession(c, p)
          \/ \E reads \in BOOLEAN, left \in 0 .. MaxOut : Exec(c, p, reads, left)

Next == User \/ Resume \/ Handler \/ \E q \in Pid : Child(q)

Spec == Init /\ [][Next]_vars

(* The scheduler runs every process that can run, a pending signal is      *)
(* delivered, and waitpid returns once its child is dead.  Nothing makes   *)
(* the user type.                                                          *)
Fairness ==
  /\ WF_vars(Resume)
  /\ WF_vars(Handler)
  /\ \A q \in Pid : WF_vars(Child(q))

FairSpec == Spec /\ Fairness

-----------------------------------------------------------------------------
(* Properties *)

TypeOK ==
  /\ ring \in [Node -> PipeOrNone]
  /\ shellW \in SUBSET Pipe /\ shellR \in SUBSET Pipe /\ leaked \in SUBSET Pipe
  /\ buf \in [Pipe -> Nat]
  /\ proc \in [Pid -> Process]
  /\ forks \in 0 .. MaxForks
  /\ waiting \in {0} \cup Pid
  /\ sigchld \in BOOLEAN

(* The pipe the shell is still busy with while it waits is in node 0, its  *)
(* write end already closed.                                               *)
Current == IF waiting = 0 THEN {} ELSE Some(ring[0])

(* Every pipe end open in the shell belongs to a node of the list, or is   *)
(* one of those the shell gave up the node of: no other descriptor is ever *)
(* leaked, none is closed while its node still needs it.                   *)
FdsAccounted ==
  /\ shellR = RingPipes(ring) \cup leaked
  /\ shellW = (RingPipes(ring) \ Current) \cup leaked
  /\ leaked \cap RingPipes(ring) = {}

(* Two commands to come never share a pipe.                                *)
OneNodePerPipe == Distinct(ring)

(* The shell never holds the write end of a pipe some command is reading:  *)
(* it cannot be the shell itself that keeps that command from end of file. *)
ShellLetsReadersEnd ==
  \A q \in Running : proc[q].in # NoPipe => proc[q].in \notin shellW

(* Children inherit write ends of pipes that are not theirs.  A command    *)
(* that waits for end of file only ever waits for commands forked before   *)
(* it, so the commands can never wait for each other in a circle.          *)
WaitsOnlyForOlder ==
  \A q, x \in Running :
    proc[q].in # NoPipe /\ proc[q].in \in proc[x].W => x < q

(* The data piped to a command to come stays there: nothing reads a pipe   *)
(* before the list has brought it to the first node.                       *)
NoEarlyRead ==
  [][\A p \in RingPipes(ring) \ {ring[0]} : buf'[p] >= buf[p]]_vars

(* If the shell hangs in waitpid with nothing able to run, then some       *)
(* command is blocked on a full pipe that nothing running reads: a waiting *)
(* reader alone, with whatever it inherited, cannot hang the shell.        *)
Stalled ==
  /\ waiting # 0
  /\ ~sigchld
  /\ proc[waiting].st = "running"
  /\ \A q \in Running : ~(CanWrite(q) \/ CanRead(q) \/ CanExit(q))
StallNeedsUnreadPipe ==
  Stalled => \E q \in Running : /\ proc[q].left > 0
                               /\ \A x \in Running : proc[x].in # proc[q].out

(* When pipes are large enough for what is written to them, every command  *)
(* the shell waits for ends and the prompt comes back.                     *)
PromptReturns == (waiting # 0) ~> (waiting = 0)

(* No dead child stays a zombie, however the SIGCHLDs coalesce.            *)
ZombiesReaped == \A q \in Pid : (proc[q].st = "zombie") ~> (proc[q].st = "reaped")

-----------------------------------------------------------------------------
(* The list implements the schedule: a pipe in node i is due in i commands *)
(* (one less while the shell still waits for the command of node 0).       *)
Ahead == IF waiting = 0 THEN 0 ELSE 1
Due == [p \in Pipe |->
          IF \E i \in Ahead .. LastNode : ring[i] = p
          THEN (CHOOSE i \in Node : ring[i] = p) - Ahead ELSE -1]
Wired == [q \in Pid |-> IF q \in Running
                        THEN [in |-> proc[q].in, out |-> proc[q].out]
                        ELSE [in |-> NoPipe, out |-> NoPipe]]

Schedule == INSTANCE PipeSchedule WITH due <- Due, wired <- Wired

(* Each command reads exactly the output aimed at it, across sessions,     *)
(* built-in commands and waits.                                            *)
ImplementsSchedule == Schedule!Spec
=============================================================================
