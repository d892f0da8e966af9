----------------------------- MODULE ConsoleCgi -----------------------------
(***************************************************************************)
(* main() of console.cgi: it reads the query string, opens the file of     *)
(* every session it has found there, starts the sessions, and runs the     *)
(* io_service until none of them is left.                                  *)
(***************************************************************************)
EXTENDS Console

CONSTANT Sessions    \* remote shells in the form

ASSUME SessionsAssumption == Sessions \in 1 .. 5

VARIABLES step, filled, count, values, valid, tokens, query

Query == INSTANCE QueryString WITH pc <- step

form == <<step, filled, count, values, valid, tokens, query>>
cgiVars == <<vars, form>>

(* As many sessions as there are, started: the bound on what is run.       *)
Fits(n) == \A s \in 1 .. n : s \in Session

CgiInit == Init /\ Query!Init

ReadQuery == Query!Next /\ UNCHANGED vars

(* The form is not looked at again: every run of the sessions is taken     *)
(* with the same one.                                                      *)
Forget ==
  /\ filled' = {} /\ count' = 0 /\ values' = 0 /\ valid' = {}
  /\ tokens' = <<>> /\ query' = <<>>

StartSessions ==
  /\ step = "done" /\ Fits(Len(query))
  /\ Start(Len(query))
  /\ step' = "run" /\ Forget

SessionStep(s) == (Handler(s) \/ Run(s) \/ Gone(s)) /\ UNCHANGED form

CgiNext == ReadQuery \/ StartSessions \/ \E s \in Session : SessionStep(s)

(* One thread runs the handlers and is never starved by them: an operation *)
(* that has completed gets its turn.  So does a remote shell.              *)
FairSpec ==
  /\ CgiInit /\ [][CgiNext]_cgiVars
  /\ WF_cgiVars(ReadQuery) /\ WF_cgiVars(StartSessions)
  /\ \A s \in Session :
       /\ WF_cgiVars(Handler(s) /\ UNCHANGED form)
       /\ WF_cgiVars(Run(s) /\ UNCHANGED form)

-----------------------------------------------------------------------------
(* Properties *)

(* The sessions started are those the form's user filled in, as far as no  *)
(* half-filled one stands before them, whatever fields are left empty.     *)
ReadsForm == Query!ReadsForm
=============================================================================
