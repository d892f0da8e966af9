---------------------------- MODULE QueryString ----------------------------
(***************************************************************************)
(* How console.cgi reads h0=..&p0=..&f0=..&h1=..: a first pass counts the  *)
(* '=' signs and marks the sessions that seem to be filled in, a second    *)
(* one walks the string with strtok(), which never sees an empty value.    *)
(*                                                                         *)
(* Field f of a form of Sessions * 3 is filled or empty; the string is its *)
(* keys and values, and a token of it is a key or a value by its field.    *)
(***************************************************************************)
EXTENDS Integers, Sequences, SequencesExt

CONSTANT Sessions    \* remote shells in the form: 5 in the code

Field == 1 .. 3 * Sessions
Slot == 0 .. 4               \* valid[5]

VARIABLES
  pc,      \* "scan", "walk", "done" or "crash"
  filled,  \* the fields that are not empty
  count,   \* '=' signs seen; then rounds of the second loop
  values,  \* count_valid: values counted toward the next session
  valid,   \* the marks
  tokens,  \* what strtok() has still to return, tok included
  query    \* the sessions found, each a host, a port and a file

-----------------------------------------------------------------------------
OfField(f) == IF f \in filled THEN <<<<"key", f>>, <<"value", f>>>> ELSE <<<<"key", f>>>>
AllTokens == FlattenSeq([f \in Field |-> OfField(f)])

Init ==
  /\ pc = "scan"
  /\ filled \in SUBSET Field
  /\ count = 0 /\ values = 0 /\ valid = {}
  /\ tokens = <<>> /\ query = <<>>

(* A value is empty when '&' follows its '=': the last one never is.       *)
Counts(f) == f \in filled \/ f = 3 * Sessions

KeptValues(n) == n              \* a mutation of AfterMark
AfterMark(n) == IF n = 3 THEN 0 ELSE n

Scan ==
  /\ pc = "scan" /\ count < 3 * Sessions
  /\ count' = count + 1
  /\ LET n == values + (IF Counts(count') THEN 1 ELSE 0)
     IN  /\ values' = AfterMark(n)
         /\ valid' = IF n = 3 THEN valid \cup {count' \div 3 - 1} ELSE valid
  /\ UNCHANGED <<pc, filled, tokens, query>>

ScanEnds ==
  /\ pc = "scan" /\ count = 3 * Sessions
  /\ pc' = "walk" /\ count' = 0 /\ tokens' = AllTokens
  /\ UNCHANGED <<filled, values, valid, query>>

Dropped(k) == SubSeq(tokens, k + 1, Len(tokens))

(* tok is the key of a host; the values are two tokens apart, and missing  *)
(* ones make a string of a null pointer.                                   *)
TakesFive == 5        \* a mutation of RoundOfSix
RoundOfSix == 6
TakeSession ==
  /\ IF Len(tokens) >= 6
     THEN /\ query' = Append(query, <<tokens[2], tokens[4], tokens[6]>>)
          /\ tokens' = Dropped(RoundOfSix)
          /\ pc' = pc
     ELSE pc' = "crash" /\ UNCHANGED <<query, tokens>>

(* Once it has returned NULL, strtok() goes on returning it.               *)
SkipSession ==
  /\ tokens' = Dropped(3)
  /\ UNCHANGED <<pc, query>>

(* A mark beyond valid[4] is whatever follows it on the stack.             *)
Walk ==
  /\ pc = "walk" /\ tokens # <<>>
  /\ \/ (count \in valid \/ count \notin Slot) /\ TakeSession
     \/ count \notin valid /\ SkipSession
  /\ count' = count + 1
  /\ UNCHANGED <<filled, values, valid>>

WalkEnds ==
  /\ pc = "walk" /\ tokens = <<>>
  /\ pc' = "done"
  /\ UNCHANGED <<filled, count, values, valid, tokens, query>>

Next == Scan \/ ScanEnds \/ Walk \/ WalkEnds

-----------------------------------------------------------------------------
(* Properties *)

Of(s) == {3 * s - 2, 3 * s - 1, 3 * s}
Whole(s) == Of(s) \subseteq filled
Clean(k) == \A s \in 1 .. k : Whole(s) \/ Of(s) \cap filled = {}

(* The place of session s among those filled in, its three values, and     *)
(* that the query begins with those of the first k sessions.               *)
Rank(s) == Cardinality({r \in 1 .. s : Whole(r)})
Values(s) == <<<<"value", 3 * s - 2>>, <<"value", 3 * s - 1>>, <<"value", 3 * s>>>>
Begins(k) ==
  \A s \in 1 .. k : Whole(s) => Rank(s) <= Len(query) /\ query[Rank(s)] = Values(s)

(* If every session is filled in completely or not at all, exactly those   *)
(* filled in are started, each with its own host, port and file, wherever  *)
(* the empty ones stand.  A half-filled session can spoil those after it,  *)
(* and end the program, but those before it are still the ones meant.      *)
ReadsForm ==
  /\ pc \in {"done", "crash"} /\ Clean(Sessions) =>
       pc = "done" /\ Begins(Sessions) /\ Len(query) = Rank(Sessions)
  /\ pc = "done" => \A k \in 1 .. Sessions : Clean(k) => Begins(k)
=============================================================================
