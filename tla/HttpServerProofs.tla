------------------------- MODULE HttpServerProofs -------------------------
(***************************************************************************)
(* What http_server's processes hold, for any number of connections: no    *)
(* client's connection stays open in the parent, and the listening socket  *)
(* is in a child only until its accept handler has come to close it.  That *)
(* the CGI does not inherit it needs one more fact: nothing else can       *)
(* complete in a child before that handler is through.                     *)
(***************************************************************************)
EXTENDS HttpServer, TLAPS

(* The part of TypeOK that is types.                                       *)
Types ==
  /\ client \in [Conn -> {"away", "waiting", "gone"}]
  /\ asked \in [Conn -> {"none", "part", "all"}]
  /\ accepting \in BOOLEAN /\ armed \in BOOLEAN /\ signal \in BOOLEAN
  /\ held \subseteq Conn /\ listens \subseteq Conn /\ dropped \subseteq Conn
  /\ cut \subseteq Conn
  /\ child \in [Conn -> {"none", "run", "cgi", "zombie", "reaped"}]
  /\ work \in [Conn -> SUBSET {"fork", "wait", "rewait", "read"}]
  /\ answer \in [Conn -> {"none", "200"}]

(* What one connection has: nothing before it comes, the acceptor only in  *)
(* a child that is still in its accept handler and does nothing else.      *)
Sound(c) ==
  /\ client[c] = "away" => child[c] = "none" /\ c \notin dropped
  /\ c \in listens => child[c] = "run" /\ "fork" \in work[c]
  /\ "fork" \in work[c] => work[c] = {"fork"}

IInv == Types /\ held = {} /\ \A c \in Conn : Sound(c)

LEMMA InitInv == Init => IInv
BY DEF Init, IInv, Types, Sound

(* What a step of the system does to the children but c's.                 *)
Others(c) ==
  \A d \in Conn \ {c} : /\ child'[d] = child[d] /\ work'[d] = work[d]
                        /\ client'[d] = client[d]
                        /\ d \in listens' <=> d \in listens
                        /\ d \in dropped' <=> d \in dropped

(* So a step need only keep its own connection sound.                      *)
LEMMA OwnStep ==
  ASSUME IInv, NEW c \in Conn, Types', held' = {}, Others(c), Sound(c)'
  PROVE  IInv'
<1>1. ASSUME NEW d \in Conn \ {c} PROVE Sound(d)'
  BY <1>1 DEF IInv, Sound, Others
<1> QED BY <1>1 DEF IInv

LEMMA AcceptInv == ASSUME IInv, NEW c \in Conn, AcceptHandler(c) PROVE IInv'
<1>1. /\ child' \in [Conn -> {"none", "run", "cgi", "zombie", "reaped"}]
      /\ work' \in [Conn -> SUBSET {"fork", "wait", "rewait", "read"}]
      /\ listens' \subseteq Conn /\ dropped' \subseteq Conn /\ held' = {} /\ accepting' \in BOOLEAN
      /\ UNCHANGED <<client, asked, armed, signal, answer, cut>>
  BY DEF AcceptHandler, Closed, Again, clients, IInv, Types
<1>2. Types'
  BY <1>1 DEF IInv, Types
<1>3. Others(c)
  BY DEF Others, AcceptHandler, clients, IInv, Types
<1>4. Sound(c)'
  <2>1. client'[c] # "away"
    BY <1>1 DEF AcceptHandler, Pending
  <2>2. CASE /\ child' = [child EXCEPT ![c] = "run"] /\ work' = [work EXCEPT ![c] = {"fork"}]
             /\ listens' = listens \cup {c}
    BY <2>1, <2>2 DEF Sound, IInv, Types
  <2>3. CASE UNCHANGED <<child, work, listens>>
    BY <2>1, <2>3 DEF Sound, IInv
  <2> QED BY <2>2, <2>3 DEF AcceptHandler
<1> QED BY <1>1, <1>2, <1>3, <1>4, OwnStep

LEMMA SignalInv == ASSUME IInv, SignalHandler PROVE IInv'
<1>1. /\ child' \in [Conn -> {"none", "run", "cgi", "zombie", "reaped"}]
      /\ \A c \in Conn : child'[c] = child[c] \/ (child[c] = "zombie" /\ child'[c] = "reaped")
      /\ signal' \in BOOLEAN /\ armed' \in BOOLEAN
      /\ UNCHANGED <<client, asked, accepting, held, listens, work, answer, dropped, cut>>
  BY DEF SignalHandler, Rearmed, clients, IInv, Types
<1>2. Types'
  BY <1>1 DEF IInv, Types
<1>3. ASSUME NEW c \in Conn PROVE Sound(c)'
  BY <1>1 DEF IInv, Sound
<1> QED BY <1>1, <1>2, <1>3 DEF IInv

(* The child's handlers, and its end.                                      *)
LEMMA ChildInv == ASSUME IInv, NEW c \in Conn, Child(c) \/ CgiEnds(c) PROVE IInv'
<1>1. /\ child' \in [Conn -> {"none", "run", "cgi", "zombie", "reaped"}]
      /\ work' \in [Conn -> SUBSET {"fork", "wait", "rewait", "read"}]
      /\ \A d \in Conn \ {c} : child'[d] = child[d] /\ work'[d] = work[d]
      /\ listens' \subseteq listens /\ listens \subseteq listens' \cup {c}
      /\ answer' \in [Conn -> {"none", "200"}] /\ cut' \subseteq Conn /\ signal' \in BOOLEAN
      /\ UNCHANGED <<client, asked, accepting, armed, held, dropped>>
  <2>1. CASE Start(c)
    BY <2>1 DEF Start, AcceptorClosed, clients, parent, IInv, Types
  <2>2. CASE WaitAborted(c)
    BY <2>2 DEF WaitAborted, clients, parent, IInv, Types
  <2>3. CASE ReadDone(c)
    <3>1. answer' \in [Conn -> {"none", "200"}] /\ cut' \subseteq Conn
      BY <2>3 DEF ReadDone, IInv, Types
    <3>2. /\ signal' \in BOOLEAN
          /\ child' = [child EXCEPT ![c] = "cgi"] \/ child' = [child EXCEPT ![c] = "zombie"]
          /\ work' = [work EXCEPT ![c] = {}]
      BY <2>3 DEF ReadDone, Ends, IInv, Types
    <3> QED BY <2>3, <3>1, <3>2 DEF ReadDone, clients, IInv, Types
  <2>4. CASE ReadFailed(c)
    BY <2>4 DEF ReadFailed, clients, parent, IInv, Types
  <2>5. CASE Return(c) \/ CgiEnds(c)
    BY <2>5 DEF Return, CgiEnds, Ends, clients, IInv, Types
  <2> QED BY <2>1, <2>2, <2>3, <2>4, <2>5 DEF Child
<1>2. Types'
  BY <1>1 DEF IInv, Types
<1>3. Others(c)
  BY <1>1 DEF Others
<1>4. Sound(c)'
  <2>1. client[c] # "away" /\ Sound(c)
    BY DEF Child, Start, WaitAborted, ReadDone, ReadFailed, Return, CgiEnds, IInv, Sound
  <2>2. CASE Start(c)
    BY <2>1, <2>2, <1>1 DEF Start, AcceptorClosed, Sound, IInv, Types
  <2>3. CASE WaitAborted(c)
    BY <2>1, <2>3, <1>1 DEF WaitAborted, Sound
  <2>4. CASE ReadDone(c) \/ ReadFailed(c)
    <3>1. c \notin listens /\ listens' = listens /\ "fork" \notin work[c]
      BY <2>1, <2>4 DEF ReadDone, ReadFailed, Sound, children
    <3>2. work'[c] = {} \/ work'[c] = work[c] \ {"read"}
      BY <2>4 DEF ReadDone, ReadFailed, IInv, Types
    <3> QED BY <1>1, <2>1, <3>1, <3>2 DEF Sound
  <2>5. CASE Return(c) \/ CgiEnds(c)
    BY <2>1, <2>5, <1>1 DEF Return, CgiEnds, Sound
  <2> QED BY <2>2, <2>3, <2>4, <2>5 DEF Child
<1> QED BY <1>1, <1>2, <1>3, <1>4, OwnStep DEF IInv

LEMMA ClientInv ==
  ASSUME IInv, NEW c \in Conn, Connect(c) \/ Ask(c) \/ AskAtOnce(c) \/ Leave(c)
  PROVE  IInv'
<1>1. /\ client' \in [Conn -> {"away", "waiting", "gone"}]
      /\ asked' \in [Conn -> {"none", "part", "all"}]
      /\ \A d \in Conn : client'[d] = "away" => client[d] = "away"
      /\ UNCHANGED <<parent, children>>
  BY DEF Connect, Ask, AskAtOnce, Leave, IInv, Types
<1>2. Types'
  BY <1>1 DEF IInv, Types, parent, children
<1>3. ASSUME NEW d \in Conn PROVE Sound(d)'
  BY <1>1 DEF IInv, Sound, parent, children
<1> QED BY <1>1, <1>2, <1>3 DEF IInv, parent

(* Every step keeps the invariant.                                         *)
LEMMA StepInv == ASSUME IInv, [Next]_vars PROVE IInv'
<1>1. CASE UNCHANGED vars
  <2>1. Types'
    BY <1>1 DEF IInv, Types, vars, clients, parent, children
  <2>2. ASSUME NEW c \in Conn PROVE Sound(c)'
    BY <1>1 DEF IInv, Sound, vars, clients, parent, children
  <2> QED BY <1>1, <2>1, <2>2 DEF IInv, vars, parent
<1> QED BY <1>1, AcceptInv, SignalInv, ChildInv, ClientInv DEF Next

(* Between two handlers the parent has no client's connection open, and    *)
(* the listening socket is open in no CGI, however many clients come and   *)
(* leave and whatever they send.                                           *)
THEOREM HttpTypes == Spec => []TypeOK
<1>1. IInv /\ [Next]_vars => IInv'
  BY StepInv
<1>2. IInv => TypeOK
  <2> SUFFICES ASSUME IInv PROVE TypeOK
    OBVIOUS
  <2>1. {accepting, armed, signal} \subseteq BOOLEAN
    BY DEF IInv, Types
  <2> QED BY <2>1 DEF IInv, Types, Sound, TypeOK
<1> QED BY InitInv, <1>1, <1>2, PTL DEF Spec

-----------------------------------------------------------------------------
(* What a connection waits for *)

(* The parent goes on accepting and waiting for signals, and one is        *)
(* pending as long as there is a zombie.                                   *)
ParentServes ==
  /\ accepting /\ armed
  /\ (\E c \in Conn : child[c] = "zombie") => signal

(* A child whose client is there has still to read the request, or has     *)
(* answered it; what it inherited from the parent is not started anew.     *)
OnItsWay(c) ==
  /\ "rewait" \notin work[c]
  /\ client[c] # "gone" /\ child[c] = "run" => work[c] \cap {"fork", "read"} # {}
  /\ client[c] # "gone" /\ child[c] \in {"cgi", "zombie", "reaped"} =>
       answer[c] # "none" \/ c \in cut

NothingForgotten == ParentServes /\ \A c \in Conn : OnItsWay(c)

LEMMA ParentStep ==
  ASSUME IInv, ParentServes, [Next]_vars
  PROVE  ParentServes'
<1>1. CASE SignalHandler
  <2>1. \A c \in Conn : child'[c] # "zombie"
    BY <1>1 DEF SignalHandler, IInv, Types
  <2> QED BY <1>1, <2>1 DEF SignalHandler, ParentServes, Rearmed
<1>2. ASSUME NEW c \in Conn, AcceptHandler(c) PROVE ParentServes'
  <2>1. \A d \in Conn : child'[d] = "zombie" => child[d] = "zombie"
    BY <1>2 DEF AcceptHandler, IInv, Types
  <2> QED BY <1>2, <2>1 DEF AcceptHandler, ParentServes, Again
<1>3. ASSUME NEW c \in Conn, Child(c) \/ CgiEnds(c) PROVE ParentServes'
  <2>1. UNCHANGED <<accepting, armed>>
    BY <1>3 DEF Child, Start, WaitAborted, ReadDone, ReadFailed, Return, CgiEnds, parent
  <2>2. signal' \/ (signal' = signal /\ \A d \in Conn : child'[d] = "zombie" => child[d] = "zombie")
    BY <1>3 DEF Child, Start, WaitAborted, ReadDone, ReadFailed, Return, CgiEnds, Ends, parent,
       IInv, Types
  <2> QED BY <2>1, <2>2 DEF ParentServes
<1>4. ASSUME NEW c \in Conn, Connect(c) \/ Ask(c) \/ AskAtOnce(c) \/ Leave(c) PROVE ParentServes'
  BY <1>4 DEF Connect, Ask, AskAtOnce, Leave, parent, children, ParentServes
<1>5. CASE UNCHANGED vars
  BY <1>5 DEF vars, parent, children, ParentServes
<1> QED BY <1>1, <1>2, <1>3, <1>4, <1>5 DEF Next

(* The steps of a child bring its own connection on.                       *)
LEMMA ChildOnItsWay ==
  ASSUME IInv, NEW c \in Conn, OnItsWay(c), Child(c) \/ CgiEnds(c)
  PROVE  OnItsWay(c)'
<1>1. client' = client /\ Sound(c)
  BY DEF Child, Start, WaitAborted, ReadDone, ReadFailed, Return, CgiEnds, clients, IInv
<1>2. CASE Start(c)
  BY <1>1, <1>2 DEF Start, OnItsWay, IInv, Types
<1>3. CASE WaitAborted(c)
  <2>1. c \notin listens
    BY <1>1, <1>3 DEF WaitAborted, Sound
  <2>2. work'[c] = work[c] \ {"wait"} /\ UNCHANGED <<child, answer, cut>>
    BY <1>3, <2>1 DEF WaitAborted, IInv, Types
  <2> QED BY <1>1, <2>2 DEF OnItsWay
<1>4. CASE ReadDone(c)
  <2>1. work'[c] = {} /\ child'[c] \in {"cgi", "zombie"} /\ cut \subseteq cut'
    BY <1>4 DEF ReadDone, Ends, IInv, Types
  <2>2. client[c] # "gone" => answer'[c] # "none" \/ c \in cut'
    BY <1>4 DEF ReadDone, IInv, Types
  <2> QED BY <1>1, <2>1, <2>2 DEF OnItsWay
<1>5. CASE ReadFailed(c)
  <2>1. client[c] = "gone" /\ work'[c] \subseteq work[c]
    BY <1>5 DEF ReadFailed, IInv, Types
  <2> QED BY <1>1, <2>1 DEF OnItsWay
<1>6. CASE Return(c) \/ CgiEnds(c)
  <2>1. child'[c] = "zombie" /\ UNCHANGED <<work, answer, cut>>
    BY <1>6 DEF Return, CgiEnds, Ends, IInv, Types
  <2>2. (child[c] = "run" /\ work[c] = {}) \/ child[c] = "cgi"
    BY <1>6 DEF Return, CgiEnds
  <2> QED BY <1>1, <2>1, <2>2 DEF OnItsWay
<1> QED BY <1>2, <1>3, <1>4, <1>5, <1>6 DEF Child

(* And leave the others where they are.                                    *)
LEMMA OthersOnTheirWay ==
  ASSUME IInv, NEW c \in Conn, OnItsWay(c), [Next]_vars,
         ~AcceptHandler(c), ~Child(c), ~CgiEnds(c)
  PROVE  OnItsWay(c)'
<1> DEFINE Left == /\ work'[c] = work[c] /\ answer'[c] = answer[c] /\ (c \in cut => c \in cut')
                   /\ child'[c] = child[c] \/ (child[c] = "zombie" /\ child'[c] = "reaped")
                   /\ client'[c] # "gone" => client[c] # "gone"
<1>1. Left
  <2>1. CASE SignalHandler
    BY <2>1 DEF SignalHandler, clients, IInv, Types
  <2>2. ASSUME NEW d \in Conn, AcceptHandler(d) PROVE Left
    BY <2>2 DEF AcceptHandler, clients, IInv, Types
  <2>3. ASSUME NEW d \in Conn, Child(d) \/ CgiEnds(d) PROVE Left
    <3>1. d # c
      BY <2>3
    <3> QED BY <2>3, <3>1 DEF Child, Start, WaitAborted, ReadDone, ReadFailed, Return, CgiEnds,
            Ends, clients, IInv, Types
  <2>4. ASSUME NEW d \in Conn, Connect(d) \/ Ask(d) \/ AskAtOnce(d) \/ Leave(d) PROVE Left
    BY <2>4 DEF Connect, Ask, AskAtOnce, Leave, children, IInv, Types
  <2>5. CASE UNCHANGED vars
    BY <2>5 DEF vars, clients, children
  <2> QED BY <2>1, <2>2, <2>3, <2>4, <2>5 DEF Next
<1> QED BY <1>1 DEF OnItsWay

(* No connection and no child is forgotten: http_server always goes on     *)
(* accepting and reaping, a zombie has a signal pending, a child whose     *)
(* client waits is about to read or has answered, and one whose client     *)
(* left inherits nothing that would keep its io_service running.  This is  *)
(* what Answered and ChildrenEnd rest on besides scheduling.               *)
THEOREM NothingIsForgotten == Spec => []NothingForgotten
<1>1. Init => IInv /\ NothingForgotten
  BY InitInv DEF Init, NothingForgotten, ParentServes, OnItsWay
<1>2. IInv /\ [Next]_vars => IInv'
  BY StepInv
<1>3. IInv /\ NothingForgotten /\ [Next]_vars => NothingForgotten'
  <2> SUFFICES ASSUME IInv, NothingForgotten, [Next]_vars PROVE NothingForgotten'
    OBVIOUS
  <2>1. ASSUME NEW c \in Conn PROVE OnItsWay(c)'
    <3>1. CASE AcceptHandler(c)
      <4>1. (child'[c] = "run" /\ work'[c] = {"fork"}) \/ UNCHANGED <<child, work>>
        BY <3>1 DEF AcceptHandler, IInv, Types
      <4>2. child[c] = "none" /\ UNCHANGED <<client, answer, cut>>
        BY <3>1 DEF AcceptHandler, Pending, clients
      <4> QED BY <4>1, <4>2 DEF NothingForgotten, OnItsWay
    <3>2. CASE Child(c) \/ CgiEnds(c)
      BY <3>2, ChildOnItsWay DEF NothingForgotten
    <3> QED BY <3>1, <3>2, OthersOnTheirWay DEF NothingForgotten
  <2> QED BY <2>1, ParentStep DEF NothingForgotten
<1> QED BY <1>1, <1>2, <1>3, PTL DEF Spec
=============================================================================
