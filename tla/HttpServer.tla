----------------------------- MODULE HttpServer -----------------------------
(***************************************************************************)
(* http_server: one process accepts on an io_service, forks for every      *)
(* connection and reaps from a handler of its signal_set; the child closes *)
(* the acceptor, cancels the signal wait, reads once and becomes the CGI.  *)
(*                                                                         *)
(* A handler runs to its end before the next one of its process.  The run  *)
(* of an io_service is over when nothing is left that could complete.      *)
(***************************************************************************)
EXTENDS Integers, FiniteSets

CONSTANT Conn    \* connections, one per client

VARIABLES
  client,     \* client[c]: "away", "waiting" (connected), "gone"
  asked,      \* asked[c]: how much of its request c has sent: "none", "part", "all"
  accepting,  \* async_accept() is pending in the parent
  armed,      \* _signal.async_wait() is pending in the parent
  signal,     \* SIGCHLD is pending there
  held,       \* the connections of which the parent has a socket open
  child,      \* child[c]: "none", "run" (the io_service), "cgi", "zombie", "reaped"
  listens,    \* the children in which the acceptor is open
  work,       \* work[c]: what is pending in the io_service of c's child
  answer,     \* answer[c]: status line and more that the client was sent
  dropped,    \* history: connections for which fork() failed
  cut         \* history: connections of which a part of the request was read

clients == <<client, asked>>
parent == <<accepting, armed, signal, held, dropped>>
children == <<child, listens, work, answer, cut>>
vars == <<clients, parent, children>>

Init ==
  /\ client = [c \in Conn |-> "away"] /\ asked = [c \in Conn |-> "none"]
  /\ accepting = TRUE /\ armed = TRUE /\ signal = FALSE /\ held = {}
  /\ child = [c \in Conn |-> "none"] /\ listens = {}
  /\ work = [c \in Conn |-> {}]
  /\ answer = [c \in Conn |-> "none"] /\ dropped = {} /\ cut = {}

-----------------------------------------------------------------------------
(* The parent *)

Kept(c) == {c}           \* a mutation of Closed
Closed(c) == {}

NotAgain == FALSE        \* a mutation of Again and of Rearmed
Again == TRUE
Rearmed == TRUE

Anybody(c) == child[c] = "none"       \* a mutation of Pending: a handler that ignores its error
Pending(c) == client[c] # "away" /\ child[c] = "none"

(* The handler of do_accept(): the new socket takes the place of the old   *)
(* one, the parent closes its copy and accepts again.  A fork() that fails *)
(* is taken for the parent's side.  The child has what was pending here,   *)
(* the signal wait, and starts a read.                                     *)
AcceptHandler(c) ==
  /\ accepting /\ Pending(c) /\ c \notin dropped
  /\ \/ /\ child' = [child EXCEPT ![c] = "run"]
        /\ work' = [work EXCEPT ![c] = {"fork"}]
        /\ listens' = listens \cup {c}
        /\ UNCHANGED dropped
     \/ /\ dropped' = dropped \cup {c}
        /\ UNCHANGED <<child, work, listens>>
  /\ held' = Closed(c)
  /\ accepting' = Again
  /\ UNCHANGED <<clients, armed, signal, answer, cut>>

(* The handler of wait_signal(): it reaps all there is and waits again.    *)
SignalHandler ==
  /\ armed /\ signal
  /\ signal' = FALSE
  /\ child' = [c \in Conn |-> IF child[c] = "zombie" THEN "reaped" ELSE child[c]]
  /\ armed' = Rearmed
  /\ UNCHANGED <<clients, accepting, held, listens, work, answer, dropped, cut>>

-----------------------------------------------------------------------------
(* The child *)

Ends(c) ==
  /\ child' = [child EXCEPT ![c] = "zombie"]
  /\ signal' = TRUE

Open(c) == listens              \* a mutation of AcceptorClosed
AcceptorClosed(c) == listens \ {c}

(* The rest of the accept handler: _acceptor.close(), _signal.cancel() and *)
(* do_read().                                                              *)
Start(c) ==
  /\ child[c] = "run" /\ "fork" \in work[c]
  /\ listens' = AcceptorClosed(c)
  /\ work' = [work EXCEPT ![c] = {"wait", "read"}]
  /\ UNCHANGED <<clients, parent, child, answer, cut>>

(* The cancelled wait: it is renewed only while the acceptor is open.      *)
WaitAborted(c) ==
  /\ child[c] = "run" /\ "wait" \in work[c]
  /\ work' = [work EXCEPT ![c] = IF c \in listens THEN (@ \ {"wait"}) \cup {"rewait"} ELSE @ \ {"wait"}]
  /\ UNCHANGED <<clients, parent, child, listens, answer, cut>>

(* parser() needs the request's first lines: it ends the child if a field  *)
(* it looks for is not there.  So does a client that left again.           *)
Parsed(c) == asked[c] = "all"
ReadDone(c) ==
  /\ child[c] = "run" /\ "read" \in work[c]
  /\ asked[c] # "none"
  /\ \/ /\ Parsed(c)
        /\ answer' = [answer EXCEPT ![c] = IF client[c] = "gone" THEN @ ELSE "200"]
        /\ child' = [child EXCEPT ![c] = "cgi"]
        /\ work' = [work EXCEPT ![c] = {}]
        /\ UNCHANGED <<signal, cut>>
     \/ /\ ~Parsed(c) \/ client[c] = "gone"
        /\ Ends(c) /\ work' = [work EXCEPT ![c] = {}] /\ UNCHANGED answer
        /\ cut' = IF ~Parsed(c) THEN cut \cup {c} ELSE cut
  /\ UNCHANGED <<clients, accepting, armed, held, listens, dropped>>

(* End of file or an error: the handler does nothing.                      *)
ReadFailed(c) ==
  /\ child[c] = "run" /\ "read" \in work[c]
  /\ client[c] = "gone"
  /\ work' = [work EXCEPT ![c] = @ \ {"read"}]
  /\ UNCHANGED <<clients, parent, child, listens, answer, cut>>

(* io_service.run() returns, and main() with it.                           *)
Return(c) ==
  /\ child[c] = "run" /\ work[c] = {}
  /\ Ends(c)
  /\ UNCHANGED <<clients, accepting, armed, held, listens, work, answer, dropped, cut>>

(* The CGI, or "Exec Error" and exit(-1).                                  *)
CgiEnds(c) ==
  /\ child[c] = "cgi"
  /\ Ends(c)
  /\ UNCHANGED <<clients, accepting, armed, held, listens, work, answer, dropped, cut>>

Child(c) == Start(c) \/ WaitAborted(c) \/ ReadDone(c) \/ ReadFailed(c) \/ Return(c)

-----------------------------------------------------------------------------
(* The clients *)

Connect(c) ==
  /\ client[c] = "away"
  /\ client' = [client EXCEPT ![c] = "waiting"]
  /\ UNCHANGED <<asked, parent, children>>

Ask(c) ==
  /\ client[c] = "waiting" /\ asked[c] # "all"
  /\ asked' = [asked EXCEPT ![c] = IF @ = "none" THEN "part" ELSE "all"]
  /\ UNCHANGED <<client, parent, children>>

AskAtOnce(c) ==
  /\ client[c] = "waiting" /\ asked[c] = "none"
  /\ asked' = [asked EXCEPT ![c] = "all"]
  /\ UNCHANGED <<client, parent, children>>

Leave(c) ==
  /\ client[c] = "waiting"
  /\ client' = [client EXCEPT ![c] = "gone"]
  /\ UNCHANGED <<asked, parent, children>>

Next ==
  \/ SignalHandler
  \/ \E c \in Conn : \/ AcceptHandler(c) \/ Child(c) \/ CgiEnds(c)
                     \/ Connect(c) \/ Ask(c) \/ AskAtOnce(c) \/ Leave(c)

Spec == Init /\ [][Next]_vars

(* The processes are scheduled; a CGI may run for ever.                    *)
FairSpec ==
  /\ Spec
  /\ WF_vars(SignalHandler)
  /\ \A c \in Conn : WF_vars(AcceptHandler(c)) /\ WF_vars(Child(c))

-----------------------------------------------------------------------------
(* Properties *)

(* Between two handlers the parent holds no client's connection, and no    *)
(* CGI holds the listening socket: when the child ends, its client sees    *)
(* the end, and a new server can have the port.                            *)
TypeOK ==
  /\ client \in [Conn -> {"away", "waiting", "gone"}]
  /\ asked \in [Conn -> {"none", "part", "all"}]
  /\ {accepting, armed, signal} \subseteq BOOLEAN
  /\ held \subseteq Conn /\ listens \subseteq Conn /\ dropped \subseteq Conn
  /\ cut \subseteq Conn
  /\ child \in [Conn -> {"none", "run", "cgi", "zombie", "reaped"}]
  /\ work \in [Conn -> SUBSET {"fork", "wait", "rewait", "read"}]
  /\ answer \in [Conn -> {"none", "200"}]
  /\ \A c \in Conn : client[c] = "away" => child[c] = "none" /\ c \notin dropped
  /\ held = {} /\ \A c \in listens : child[c] = "run" /\ "fork" \in work[c]

(* A client that stays and sends its request is answered, unless no        *)
(* process could be forked for it or the request was read in part.         *)
Answered ==
  \A c \in Conn :
    asked[c] = "all" ~> answer[c] # "none" \/ c \in dropped \/ client[c] = "gone"
                        \/ c \in cut

(* No child outlives its use: one that ended is reaped, although one       *)
(* signal may stand for several and each wait is for one; one whose client *)
(* left before it was read ends, since nothing it inherited keeps its      *)
(* io_service running, and is reaped.                                      *)
ChildrenEnd ==
  \A c \in Conn :
    /\ child[c] = "zombie" ~> child[c] = "reaped"
    /\ child[c] = "run" /\ client[c] = "gone" ~> child[c] \in {"cgi", "reaped"}
=============================================================================
