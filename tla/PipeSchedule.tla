---------------------------- MODULE PipeSchedule ----------------------------
(***************************************************************************)
(* What numbered pipes promise to the user of npshell, without the list:   *)
(* a pipe aimed |N ahead counts down by one per command; the command that  *)
(* runs when it reaches zero, and no other, reads it; commands aimed at    *)
(* the same command share one pipe.                                        *)
(***************************************************************************)
EXTENDS Integers

CONSTANTS Pipe, NoPipe, MaxLen, Pid

VARIABLES
  due,     \* due[p]: commands to run before the reader of p, or Never
  wired    \* wired[q]: the pipes a live command q reads and writes

vars == <<due, wired>>

Never == -1
Idle == [in |-> NoPipe, out |-> NoPipe]

Init ==
  /\ due = [p \in Pipe |-> Never]
  /\ wired = [q \in Pid |-> Idle]

Unused(p) == due[p] = Never /\ \A q \in Pid : p # wired[q].in /\ p # wired[q].out

(* p is the pipe for a command aimed len commands ahead.                   *)
Aim(len, p) ==
  IF \E x \in Pipe : due[x] = len THEN due[p] = len ELSE Unused(p)

(* One command has run: with its own pipe p, if any, set to len.           *)
Tick(d) == [x \in Pipe |-> IF d[x] > 0 THEN d[x] - 1 ELSE Never]

(* in is the pipe whose turn it is.                                        *)
Turn(in) ==
  IF \E x \in Pipe : due[x] = 0 THEN in \in Pipe /\ due[in] = 0 ELSE in = NoPipe

(* A command that starts no process: what was due for it is never read.    *)
Skip ==
  /\ \/ due' = Tick(due)
     \/ \E len \in 1 .. MaxLen, p \in Pipe :
          Aim(len, p) /\ due' = Tick([due EXCEPT ![p] = len])
  /\ UNCHANGED wired

Run(q, in) ==
  /\ wired[q] = Idle
  /\ Turn(in)
  /\ \/ /\ due' = Tick(due)
        /\ wired' = [wired EXCEPT ![q] = [in |-> in, out |-> NoPipe]]
     \/ \E len \in 1 .. MaxLen, p \in Pipe :
          /\ Aim(len, p)
          /\ due' = Tick([due EXCEPT ![p] = len])
          /\ wired' = [wired EXCEPT ![q] = [in |-> in, out |-> p]]

Finish(q) == wired' = [wired EXCEPT ![q] = Idle] /\ UNCHANGED due

(* A new session of the shell starts with nothing scheduled.               *)
Restart == due' = [p \in Pipe |-> Never] /\ UNCHANGED wired

Next ==
  \/ Skip
  \/ Restart
  \/ \E q \in Pid : Finish(q) \/ \E in \in Pipe \cup {NoPipe} : Run(q, in)

Spec == Init /\ [][Next]_vars
=============================================================================
