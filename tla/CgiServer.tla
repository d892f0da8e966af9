------------------------------ MODULE CgiServer ------------------------------
(***************************************************************************)
(* The cgi server for Windows: one thread, one io_service, no processes.   *)
(* It accepts, reads a request and answers it with one _socket, one buffer *)
(* and one cgi_name for all connections, and every ShellSession writes to  *)
(* one global web_socket.                                                  *)
(*                                                                         *)
(* Operations complete in the system at any time; their handlers run one   *)
(* after the other in the order of completion.  A browser sends a request  *)
(* in one piece, or only opens a connection, as browsers do in advance.    *)
(* The sessions themselves are those of module Console.                    *)
(***************************************************************************)
EXTENDS Integers, Sequences, FiniteSets

CONSTANTS Conn, None
ASSUME ConnAssumption == IsFiniteSet(Conn) /\ None \notin Conn

Kind == {"panel", "console", "other"}

VARIABLES
  browser,  \* browser[c]: "new", "open", "sent", or "gone" before or "left" after
            \* it has sent its request
  wants,    \* wants[c]: what its request names, "" before it is sent
  backlog,  \* connections not yet accepted
  accepts,  \* async_accepts under way
  reading,  \* connections with a read under way, all of them into _data
  queue,    \* handlers ready to run
  cur,      \* _socket
  data,     \* _data: whose request was read into it last
  name,     \* cgi_name
  web,      \* web_socket
  running,  \* the requests whose ShellSessions are at work
  shut,     \* connections the server has closed
  page,     \* page[c]: what was written to c, and for whose request
  up,       \* the server runs
  crossed   \* history: a connection was taken while another one waited

clients == <<browser, wants>>
own == <<cur, name, web, running, shut, page, up, crossed>>
vars == <<clients, backlog, accepts, reading, queue, data, own>>

Init ==
  /\ browser = [c \in Conn |-> "new"] /\ wants = [c \in Conn |-> ""]
  /\ backlog = <<>> /\ accepts = 1 /\ reading = {} /\ queue = <<>>
  /\ cur = None /\ data = None /\ name = "" /\ web = None
  /\ running = {} /\ shut = {} /\ page = [c \in Conn |-> {}]
  /\ up = TRUE /\ crossed = FALSE

-----------------------------------------------------------------------------
(* The browsers *)

Becomes(c, state) ==
  /\ up /\ browser' = [browser EXCEPT ![c] = state]
  /\ UNCHANGED <<accepts, reading, queue, data, own>>

Connect(c) ==
  /\ browser[c] = "new" /\ Becomes(c, "open")
  /\ backlog' = Append(backlog, c) /\ UNCHANGED wants
Send(c) ==
  /\ browser[c] = "open" /\ Becomes(c, "sent")
  /\ \E k \in Kind : wants' = [wants EXCEPT ![c] = k]
  /\ UNCHANGED backlog
Leave(c) ==
  /\ \/ browser[c] = "open" /\ Becomes(c, "gone")
     \/ browser[c] = "sent" /\ Becomes(c, "left")
  /\ UNCHANGED <<wants, backlog>>

Away(c) == browser[c] \in {"gone", "left"}

-----------------------------------------------------------------------------
(* Completions *)

AcceptDone ==
  /\ up /\ accepts > 0 /\ backlog # <<>>
  /\ accepts' = accepts - 1
  /\ queue' = Append(queue, <<"accept", Head(backlog)>>)
  /\ backlog' = Tail(backlog)
  /\ UNCHANGED <<clients, reading, data, own>>

ReadDone(c) ==
  /\ up /\ c \in reading
  /\ reading' = reading \ {c}
  /\ \/ /\ browser[c] \in {"sent", "left"}
        /\ queue' = Append(queue, <<"request", c>>)
        /\ data' = c
     \/ /\ Away(c)
        /\ queue' = Append(queue, <<"failed", c>>)
        /\ UNCHANGED data
  /\ UNCHANGED <<clients, backlog, accepts, own>>

-----------------------------------------------------------------------------
(* Handlers.  A closed connection's read is aborted; one that has already  *)
(* completed is handled all the same.                                      *)

Closing(c) ==
  /\ shut' = shut \cup ({c} \ {None})
  /\ reading' = reading \ {c}
  /\ queue' = IF c \in reading THEN Append(Tail(queue), <<"failed", c>>) ELSE Tail(queue)

Waits(c) == c \in reading \/ \E i \in DOMAIN queue : queue[i] = <<"request", c>>

NoMore(n) == n                  \* a mutation of Again
Again(n) == n + 1               \* do_accept()

Accepted ==
  /\ Head(queue)[1] = "accept"
  /\ LET c == Head(queue)[2] IN
     /\ shut' = shut \cup ({cur} \ {None})
     /\ queue' = IF cur \in reading THEN Append(Tail(queue), <<"failed", cur>>)
                                    ELSE Tail(queue)
     /\ cur' = c /\ name' = ""
     /\ reading' = (reading \ {cur}) \cup {c}
     /\ crossed' = (crossed \/ Waits(cur))
  /\ accepts' = Again(accepts)
  /\ UNCHANGED <<data, web, running, page, up>>

(* cgi_name is overwritten and not ended: a shorter name keeps the tail of *)
(* the one before it, so that console.cgi outlasts panel.cgi.  Any other   *)
(* name may be shorter or longer than these, or the part one of them lacks.*)
Over(old, new) ==
  CASE old = "" -> {new}
    [] old = "other" /\ new = "other" -> Kind
    [] old = "other" /\ new # "other" -> {new, "other"}
    [] old \in {"panel", "console"} /\ new = "other" -> {old, "other"}
    [] old = "console" /\ new = "panel" -> {"other"}
    [] old = "console" /\ new = "console" -> {new}
    [] old = "panel" /\ new # "other" -> {new}

Write(c, what, r) == page' = [page EXCEPT ![c] = @ \cup {[what |-> what, of |-> r]}]

(* An exception leaves run(), and the program ends.                        *)
GoesDown ==
  /\ up' = FALSE
  /\ UNCHANGED <<accepts, reading, queue, data, cur, name, web, running, shut, page, crossed>>

(* The page is written and its socket goes with panel()'s parameter.       *)
StaysOpen(c) == c              \* a mutation of Released
Released(c) == None
panel(r) ==
  /\ Write(cur, "panel", r)
  /\ Closing(cur) /\ cur' = Released(cur)
  /\ UNCHANGED <<web, running>>

(* The page before it is closed; its sessions go on, and write to this one. *)
console(r) ==
  /\ Write(cur, "console", r)
  /\ web' = cur /\ Closing(web) /\ cur' = Released(cur)
  /\ \/ running' = running \cup {r}
     \/ UNCHANGED running

(* A write throws when the connection was moved away or its browser left,  *)
(* and console() when a half-filled form runs out of words and a string is *)
(* made of a null pointer; which forms those are is not followed.          *)
Throws == cur # None => Away(cur) \/ "console" \in Over(name, wants[data])

Requested ==
  /\ Head(queue)[1] = "request"
  /\ \/ /\ cur # None
        /\ name' \in Over(name, wants[data])
        /\ \/ name' = "panel" /\ panel(data)
           \/ name' = "console" /\ console(data)
           \/ /\ name' = "other" /\ Write(cur, "other", data)
              /\ queue' = Tail(queue)
              /\ UNCHANGED <<reading, cur, web, running, shut>>
        /\ accepts' = Again(accepts)
        /\ UNCHANGED <<data, up, crossed>>
     \/ Throws /\ GoesDown

Failed ==
  /\ Head(queue)[1] = "failed"
  /\ queue' = Tail(queue)
  /\ UNCHANGED <<accepts, reading, data, own>>

Handle ==
  /\ up /\ queue # <<>>
  /\ Accepted \/ Requested \/ Failed
  /\ UNCHANGED <<clients, backlog>>

(* A session's output goes to web_socket, whose page may be another's.  A  *)
(* script that could not be opened ends the process at its first prompt.   *)
Output(r) ==
  /\ up /\ r \in running
  /\ \/ /\ Write(web, "output", r)
        /\ UNCHANGED <<accepts, reading, queue, data, cur, name, web, running, shut, up, crossed>>
     \/ GoesDown
  /\ UNCHANGED <<clients, backlog>>

SessionsEnd(r) ==
  /\ up /\ r \in running
  /\ running' = running \ {r}
  /\ UNCHANGED <<clients, backlog, accepts, reading, queue, data, cur, name, web, shut, page, up, crossed>>

Next ==
  \/ AcceptDone \/ Handle
  \/ \E c \in Conn :
       Connect(c) \/ Send(c) \/ Leave(c) \/ ReadDone(c) \/ Output(c) \/ SessionsEnd(c)

(* The system completes what it can, and the thread runs what is ready.    *)
FairSpec ==
  /\ Init /\ [][Next]_vars
  /\ WF_vars(AcceptDone) /\ WF_vars(Handle) /\ \A c \in Conn : WF_vars(ReadDone(c))

-----------------------------------------------------------------------------
(* Properties *)

TypeOK ==
  /\ browser \in [Conn -> {"new", "open", "sent", "gone", "left"}] /\ wants \in [Conn -> Kind \cup {""}]
  /\ backlog \in Seq(Conn) /\ accepts \in 0 .. Cardinality(Conn) + 1
  /\ reading \subseteq Conn /\ queue \in Seq({"accept", "request", "failed"} \X Conn)
  /\ {cur, data, web} \subseteq Conn \cup {None} /\ name \in Kind \cup {""}
  /\ running \subseteq Conn /\ shut \subseteq Conn /\ up \in BOOLEAN /\ crossed \in BOOLEAN
  /\ page \in [Conn -> SUBSET [what : Kind \cup {"output"}, of : Conn]]
  /\ running # {} => web # None
  /\ shut \cap {cur, web} = {}

(* Whatever overlaps, a connection gets one page at most.  As long as no   *)
(* connection is taken while another one waits, that page is the one its   *)
(* own browser asked for, and what other requests add to it is the output  *)
(* of their sessions, after the page that showed it has been closed.       *)
OnePage ==
  \A c \in Conn :
    LET pages == {e \in page[c] : e.what \in {"panel", "console"}} IN
    /\ Cardinality(pages) <= 1
    /\ ~crossed => \A e \in page[c] :
         \/ e = [what |-> wants[c], of |-> c]
         \/ /\ e.what = "output" /\ wants[c] = "console"
            /\ e.of = c \/ e.of \in shut

(* A browser that asks and stays is answered, although others connect and  *)
(* say nothing, or leave, unless connections were crossed or the server    *)
(* went down: it never stops accepting.                                    *)
Answered(c) == [what |-> wants[c], of |-> c] \in page[c]
AnsweredInTheEnd ==
  \A c \in Conn : browser[c] = "sent" ~>
    Answered(c) \/ Away(c) \/ crossed \/ ~up
=============================================================================
