------------------------------ MODULE Console ------------------------------
(***************************************************************************)
(* The ShellSessions of console.cgi, and of the console that the cgi       *)
(* server builds in: one per remote shell, all on one io_service.  A       *)
(* session resolves, connects and reads; whenever what it has just read    *)
(* holds "% " it sends the next line of its file.                          *)
(*                                                                         *)
(* A shell's output is a sequence of percent signs, blanks and other       *)
(* bytes; what one read returns is any beginning of what is on the way.  A *)
(* shell prints its prompt when it starts and after every command, whose   *)
(* output may hold "% " as well.  A script's last line is exit, or it has  *)
(* none.  A line is short: a shell takes up all that have arrived in one   *)
(* read.                                                                   *)
(***************************************************************************)
EXTENDS Integers, Sequences, FiniteSets

CONSTANTS
  Session,   \* places for remote shells, from 1 on
  Lines,     \* lines of every script
  Lookalikes \* bound: commands of a session whose output holds "% "

ASSUME BoundAssumption == Session \subseteq Nat /\ Lines \in Nat \ {0} /\ Lookalikes \in Nat

VARIABLES
  pc,       \* pc[s]: "off", "resolve", "connect", "read" or "ended"
  alive,    \* the CGI runs
  noFile,   \* the sessions whose file could not be opened: file is NULL
  bare,     \* those whose script does not end with exit
  left,     \* left[s]: lines of the file not yet sent
  wire,     \* wire[s]: output on the way to the CGI
  typed,    \* typed[s]: lines on the way to the shell
  shell,    \* shell[s]: "off", "up" or "closed"
  ran,      \* ran[s]: commands the shell has executed
  lost,     \* lost[s]: lines it has read and not executed
  fake,     \* fake[s]: commands whose output held "% "
  half,     \* history: the last byte read was a percent sign
  missed    \* history: missed[s] prompts were read and nothing sent for them

remote == <<shell, ran, lost, fake>>
setup == <<noFile, bare>>
vars == <<pc, alive, setup, left, wire, typed, remote, half, missed>>

Prompt == <<"percent", "blank">>

Init ==
  /\ pc = [s \in Session |-> "off"] /\ alive = TRUE
  /\ noFile = {} /\ bare = {}
  /\ left = [s \in Session |-> Lines]
  /\ wire = [s \in Session |-> <<>>] /\ typed = [s \in Session |-> 0]
  /\ shell = [s \in Session |-> "off"]
  /\ ran = [s \in Session |-> 0] /\ lost = [s \in Session |-> 0]
  /\ fake = [s \in Session |-> 0]
  /\ half = [s \in Session |-> FALSE] /\ missed = [s \in Session |-> 0]

-----------------------------------------------------------------------------
(* The CGI *)

Go(s, place) == pc' = [pc EXCEPT ![s] = place]

(* The files of the first n sessions are opened and the sessions started.  *)
Start(n) ==
  LET first == {s \in Session : s <= n} IN
  /\ \A s \in Session : pc[s] = "off"
  /\ pc' = [s \in Session |-> IF s \in first THEN "resolve" ELSE "ended"]
  /\ noFile' \in SUBSET first /\ bare' \in SUBSET first
  /\ UNCHANGED <<alive, left, wire, typed, remote, half, missed>>

(* An error of any of the three operations ends the session, silently.     *)
Resolve(s) ==
  /\ alive /\ pc[s] = "resolve"
  /\ Go(s, "connect") \/ Go(s, "ended")
  /\ UNCHANGED <<alive, setup, left, wire, typed, remote, half, missed>>

Connect(s) ==
  /\ alive /\ pc[s] = "connect"
  /\ \/ Go(s, "read") /\ shell' = [shell EXCEPT ![s] = "up"]
        /\ wire' = [wire EXCEPT ![s] = Prompt]
     \/ Go(s, "ended") /\ UNCHANGED <<shell, wire>>
  /\ UNCHANGED <<alive, setup, left, typed, ran, lost, fake, half, missed>>

Found(chunk) == \E i \in 1 .. Len(chunk) - 1 : SubSeq(chunk, i, i + 1) = Prompt
Prompts(chunk) == Cardinality({i \in 1 .. Len(chunk) - 1 : SubSeq(chunk, i, i + 1) = Prompt})

Completed(s, chunk) == half[s] /\ Head(chunk) = "blank"
Answered(chunk) == IF Found(chunk) THEN 1 ELSE 0

LosesLine(s) ==                \* a mutation of SendLine
  left' = [left EXCEPT ![s] = IF @ > 0 THEN @ - 1 ELSE 0] /\ UNCHANGED typed
(* fgets() and write_some(): nothing is sent when the file is at its end.  *)
SendLine(s) ==
  IF left[s] > 0
  THEN left' = [left EXCEPT ![s] = @ - 1] /\ typed' = [typed EXCEPT ![s] = @ + 1]
  ELSE UNCHANGED <<left, typed>>

Receive(s, n) ==
  LET chunk == SubSeq(wire[s], 1, n) IN
  /\ alive /\ pc[s] = "read" /\ n \in 1 .. Len(wire[s])
  /\ wire' = [wire EXCEPT ![s] = SubSeq(@, n + 1, Len(@))]
  /\ half' = [half EXCEPT ![s] = chunk[n] = "percent"]
  /\ missed' = [missed EXCEPT ![s] = @ + Prompts(chunk) - Answered(chunk)
                                     + (IF Completed(s, chunk) THEN 1 ELSE 0)]
  /\ IF Found(chunk) THEN SendLine(s) ELSE UNCHANGED <<left, typed>>
  /\ ~(Found(chunk) /\ s \in noFile)
  /\ UNCHANGED <<pc, alive, setup, remote>>

(* fgets() of a file that is not there, or write_some() to a shell whose   *)
(* host has refused a line before: both end the process, and with it all   *)
(* sessions.                                                               *)
Crash(s, n) ==
  LET chunk == SubSeq(wire[s], 1, n) IN
  /\ alive /\ pc[s] = "read" /\ n \in 1 .. Len(wire[s]) /\ Found(chunk)
  /\ s \in noFile \/ (shell[s] = "closed" /\ typed[s] > 0 /\ left[s] > 0)
  /\ alive' = FALSE
  /\ UNCHANGED <<pc, setup, left, wire, typed, remote, half, missed>>

(* The end of the shell's output is read, or the reset that answers a line *)
(* it does not take, and then some of its output may be lost.              *)
EndOfShell(s) ==
  /\ alive /\ pc[s] = "read"
  /\ shell[s] = "closed" /\ (wire[s] = <<>> \/ typed[s] > 0)
  /\ Go(s, "ended")
  /\ UNCHANGED <<alive, setup, left, wire, typed, remote, half, missed>>

Handler(s) ==
  \/ Resolve(s) \/ Connect(s) \/ EndOfShell(s)
  \/ \E n \in 1 .. Len(wire[s]) : Receive(s, n) \/ Crash(s, n)

-----------------------------------------------------------------------------
(* The remote shells: np_single_proc or one of its relatives *)

(* The line it executes next is the one sent after those it has read.      *)
IsExit(s) == ran[s] + lost[s] = Lines - 1 /\ s \notin bare

(* np_single_proc opens a new stream for every line it executes: what has  *)
(* arrived together with the line stays behind in the old one.  k lines    *)
(* are read, the first is executed.  The others keep their stream, and     *)
(* with it every line: k = 1.                                              *)
Takes(s, k) ==
  /\ k \in 1 .. typed[s]
  /\ typed' = [typed EXCEPT ![s] = @ - k]
  /\ ran' = [ran EXCEPT ![s] = @ + 1] /\ lost' = [lost EXCEPT ![s] = @ + k - 1]

Run(s) ==
  /\ shell[s] = "up" /\ \E k \in 1 .. typed[s] : Takes(s, k)
  /\ \/ IsExit(s) /\ shell' = [shell EXCEPT ![s] = "closed"] /\ UNCHANGED <<wire, fake>>
     \/ /\ ~IsExit(s)
        /\ \/ wire' = [wire EXCEPT ![s] = @ \o Prompt] /\ UNCHANGED fake
           \/ wire' = [wire EXCEPT ![s] = @ \o <<"other">> \o Prompt] /\ UNCHANGED fake
           \/ /\ fake[s] < Lookalikes
              /\ wire' = [wire EXCEPT ![s] = @ \o Prompt \o <<"other">> \o Prompt]
              /\ fake' = [fake EXCEPT ![s] = @ + 1]
        /\ UNCHANGED shell
  /\ UNCHANGED <<pc, alive, setup, left, half, missed>>

(* The shell's server ends before the script does: a client of a full      *)
(* np_single_proc is enough.                                               *)
Gone(s) ==
  /\ shell[s] = "up" /\ shell' = [shell EXCEPT ![s] = "closed"]
  /\ UNCHANGED <<pc, alive, setup, left, wire, typed, ran, lost, fake, half, missed>>

Next == \E s \in Session : Handler(s) \/ Run(s) \/ Gone(s)

-----------------------------------------------------------------------------
(* Properties *)

TypeOK ==
  /\ pc \in [Session -> {"off", "resolve", "connect", "read", "ended"}]
  /\ alive \in BOOLEAN /\ noFile \subseteq Session /\ bare \subseteq Session
  /\ left \in [Session -> 0 .. Lines] /\ typed \in [Session -> 0 .. Lines]
  /\ wire \in [Session -> Seq({"percent", "blank", "other"})]
  /\ shell \in [Session -> {"off", "up", "closed"}]
  /\ ran \in [Session -> 0 .. Lines] /\ lost \in [Session -> 0 .. Lines]
  /\ fake \in [Session -> 0 .. Lookalikes]
  /\ half \in [Session -> BOOLEAN] /\ missed \in [Session -> Nat]
  /\ \A s \in Session : left[s] + typed[s] + ran[s] + lost[s] = Lines

(* A session is stuck when both ends wait: it has lines left, nothing is   *)
(* on the way, and the shell has nothing to execute.  Every lookalike that *)
(* was answered has sent a line ahead, which keeps the session going until *)
(* a prompt is missed for it or np_single_proc loses the line, and one     *)
(* prompt more is missed: prompts are missed when they arrive in two reads *)
(* or two in one.  Lost lines alone do not stop a session.                 *)
Stuck(s) ==
  /\ alive /\ pc[s] = "read" /\ shell[s] = "up"
  /\ left[s] > 0 /\ wire[s] = <<>> /\ typed[s] = 0
StuckOnlyIfMissed ==
  \A s \in Session : Stuck(s) => missed[s] > 0 /\ missed[s] + lost[s] = 1 + fake[s]

(* The last line was lost: the shell waits for a line that never comes.    *)
ExitLost(s) == shell[s] = "up" /\ lost[s] > 0 /\ ran[s] + lost[s] = Lines

(* Every script is sent to its end, and the session is over after exit,    *)
(* unless a prompt was missed, the exit itself was lost or the CGI died;   *)
(* no session waits for another one.                                       *)
ScriptsSent ==
  \A s \in Session :
    pc[s] = "resolve" ~>
      (\/ pc[s] = "ended" \/ (left[s] = 0 /\ s \in bare)
       \/ ExitLost(s) \/ missed[s] > 0 \/ ~alive)
=============================================================================
