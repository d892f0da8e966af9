---------------------------- MODULE SocksServer ----------------------------
(***************************************************************************)
(* main() of socks_server: the parent accepts, forks and closes its copy;  *)
(* a child reads one request, resolves a name, asks the firewall file,     *)
(* and serves a CONNECT (the relay itself is module Relay) or a BIND       *)
(* (module BindTransfer).                                                  *)
(*                                                                         *)
(* A request is sent in three pieces: version, command and port; address;  *)
(* user and name.  The child's single read() takes those that are there,   *)
(* and the rest of its buffer is zero.                                     *)
(***************************************************************************)
EXTENDS Integers, Sequences, FiniteSets

CONSTANTS
  Conn,       \* connections
  Address,    \* addresses, each of four segments
  Loopback,   \* the one a missing name resolves to
  Unresolved, \* 0.0.0.x, what is left when a name is not resolved
  Confs,      \* contents of socks.conf
  Missing,    \* there is no such file
  Requests    \* Requests[c]: what the client of connection c may ask

ASSUME AddressAssumption ==
  /\ Loopback \in Address /\ Unresolved \in Address
  /\ \A a \in Address : a \in Seq(STRING) /\ Len(a) = 4
ASSUME ConfAssumption ==
  \A f \in Confs : f = Missing
     \/ /\ f \in Seq([mode : STRING, pattern : Seq(STRING)])
        /\ \A i \in DOMAIN f : Len(f[i].pattern) \in 0 .. 4  \* bound: the code reads ip_seg[4] beyond

Command == {0, 1, 2}         \* 1 CONNECT, 2 BIND, 0 any other
ASSUME RequestAssumption ==
  \A c \in Conn : Requests[c] \subseteq [ver : {4, 5}, cd : Command, byName : BOOLEAN, addr : Address]
NoRequest == [ver |-> 0, cd |-> 0, addr |-> Unresolved]

VARIABLES
  ppc,      \* the parent: "accept", "fork" or "close"
  slave,    \* the connections the parent has a descriptor of
  cpc,      \* cpc[c]: where the child of c is
  request,  \* request[c]: what the client asks
  pieces,   \* pieces[c]: how many of the three pieces have been sent
  gone,     \* the clients that closed their connection
  read,     \* read[c]: what the child has made of the request
  conf,     \* socks.conf
  cut,      \* history: requests read before all of them was there
  reply,    \* reply[c]: the result codes written to the client
  zombie,   \* children that ended and were not reaped
  signal    \* SIGCHLD is pending

client == <<request, pieces, gone>>
judged == <<read, cut>>
vars == <<ppc, slave, cpc, client, judged, conf, reply, zombie, signal>>

-----------------------------------------------------------------------------
(* The firewall *)

ModeOf == <<"c", "b">>
Agrees(t, s) == t = "*" \/ t = s

Counted(p, a) == Len(p)        \* a mutation of Leading
(* The loop over a pattern's segments stops at the first that differs.     *)
Leading(p, a) ==
  Cardinality({i \in DOMAIN p : \A j \in 1 .. i : Agrees(p[j], a[j])})

(* The first word of a rule, "permit", is read and not looked at.          *)
RulePermits(r, cd, a) ==
  Leading(r.pattern, a) = 4 /\ cd \in {1, 2} /\ r.mode = ModeOf[cd]

Permitted(f, cd, a) == \E i \in DOMAIN f : RulePermits(f[i], cd, a)

-----------------------------------------------------------------------------
Init ==
  /\ ppc = "accept" /\ slave = {}
  /\ cpc = [c \in Conn |-> "none"]
  /\ request \in [Conn -> UNION {Requests[c] : c \in Conn}]
  /\ \A c \in Conn : request[c] \in Requests[c]
  /\ pieces = [c \in Conn |-> 0] /\ gone = {}
  /\ read = [c \in Conn |-> NoRequest]
  /\ conf \in Confs /\ cut = {}
  /\ reply = [c \in Conn |-> <<>>]
  /\ zombie = {} /\ signal = FALSE

Go(c, place) == cpc' = [cpc EXCEPT ![c] = place]

(* A client connects when it likes.                                        *)
Accept(c) ==
  /\ ppc = "accept" /\ cpc[c] = "none"
  /\ slave' = slave \cup {c}
  /\ ppc' = "fork"
  /\ UNCHANGED <<cpc, client, judged, conf, reply, zombie, signal>>

(* fork() is tried until it succeeds.                                      *)
Fork(c) ==
  /\ ppc = "fork" /\ c \in slave /\ cpc[c] = "none"
  /\ Go(c, "read")
  /\ ppc' = "close"
  /\ UNCHANGED <<slave, client, judged, conf, reply, zombie, signal>>

KeepsCopy(c) == slave          \* a mutation of WithoutCopy
WithoutCopy(c) == slave \ {c}
CloseCopy(c) ==
  /\ ppc = "close" /\ c \in slave
  /\ slave' = WithoutCopy(c)
  /\ ppc' = "accept"
  /\ UNCHANGED <<cpc, client, judged, conf, reply, zombie, signal>>

ReapOne == IF zombie = {} THEN {} ELSE zombie \ {CHOOSE c \in zombie : TRUE}   \* a mutation of Left
Left == {}
(* The handler goes on until waitpid() finds no more.                      *)
Handler ==
  /\ signal
  /\ signal' = FALSE
  /\ zombie' = Left
  /\ UNCHANGED <<ppc, slave, cpc, client, judged, conf, reply>>

Parent == (\E c \in Conn : Accept(c) \/ Fork(c) \/ CloseCopy(c)) \/ Handler

-----------------------------------------------------------------------------
(* The child *)

Ends(c) ==
  /\ Go(c, "ended")
  /\ zombie' = zombie \cup {c} /\ signal' = TRUE

(* Zeroes in place of the address are taken for a name to resolve, and     *)
(* zeroes in place of the name resolve to the loopback address.            *)
Understood(c) ==
  LET r == request[c] IN
  CASE pieces[c] = 0 -> NoRequest
    [] pieces[c] = 1 \/ (pieces[c] = 2 /\ r.byName)
         -> [ver |-> r.ver, cd |-> r.cd, addr |-> Loopback]
    [] OTHER -> [ver |-> r.ver, cd |-> r.cd, addr |-> r.addr]

WaitsForAll(c) == pieces[c] = 3      \* a mutation of HasInput
HasInput(c) == pieces[c] > 0 \/ c \in gone

(* read(): a client that closed without a word counts as version 0.        *)
ReadRequest(c) ==
  /\ cpc[c] = "read" /\ HasInput(c)
  /\ read' = [read EXCEPT ![c] = Understood(c)]
  /\ cut' = IF pieces[c] < 3 THEN cut \cup {c} ELSE cut
  /\ IF read'[c].ver # 4 THEN Ends(c)
     ELSE /\ Go(c, IF request[c].byName /\ pieces[c] = 3 THEN "resolve" ELSE "rules")
          /\ UNCHANGED <<zombie, signal>>
  /\ UNCHANGED <<ppc, slave, client, conf, reply>>

(* getaddrinfo() of a name: its first IPv4 address; none, and 0.0.0.x      *)
(* stays; an error, and the list that is walked is uninitialised.          *)
Resolve(c) ==
  /\ cpc[c] = "resolve"
  /\ \/ Go(c, "rules") /\ UNCHANGED <<read, zombie, signal>>
     \/ /\ read' = [read EXCEPT ![c].addr = Unresolved]
        /\ Go(c, "rules") /\ UNCHANGED <<zombie, signal>>
     \/ Ends(c) /\ UNCHANGED read
  /\ UNCHANGED <<ppc, slave, client, conf, cut, reply>>

GoesOn(c, code, place) ==            \* a mutation of Answer
  /\ reply' = [reply EXCEPT ![c] = Append(@, code)]
  /\ Go(c, IF place = "ended" THEN "relay" ELSE place) /\ UNCHANGED <<zombie, signal>>
(* Writing to a client that has closed kills the child, unless it is the   *)
(* first that the client's kernel refuses.                                 *)
Answer(c, code, place) ==
  \/ c \in gone /\ Ends(c) /\ UNCHANGED reply
  \/ /\ reply' = [reply EXCEPT ![c] = Append(@, code)]
     /\ IF place = "ended" THEN Ends(c) ELSE Go(c, place) /\ UNCHANGED <<zombie, signal>>

(* The file is opened anew by every child; without it the child dies.      *)
Judge(c) ==
  /\ cpc[c] = "rules"
  /\ IF conf = Missing THEN Ends(c) /\ UNCHANGED reply
     ELSE IF ~Permitted(conf, read[c].cd, read[c].addr) THEN Answer(c, 91, "ended")
     ELSE /\ Go(c, IF read[c].cd = 1 THEN "connect" ELSE "bind")
          /\ UNCHANGED <<reply, zombie, signal>>
  /\ UNCHANGED <<ppc, slave, client, judged, conf>>

Connect(c) ==
  /\ cpc[c] = "connect"
  /\ Answer(c, 90, "relay") \/ Answer(c, 91, "ended")
  /\ UNCHANGED <<ppc, slave, client, judged, conf>>

(* redirectData() returns when its time is used up, or dies.               *)
RelayEnds(c) ==
  /\ cpc[c] = "relay"
  /\ Ends(c)
  /\ UNCHANGED <<ppc, slave, client, judged, conf, reply>>

Bind(c) ==
  /\ cpc[c] = "bind"
  /\ Answer(c, 90, "listen")
  /\ UNCHANGED <<ppc, slave, client, judged, conf>>

(* accept() of the data connection: from anybody, at any time, or never.   *)
DataConnection(c) ==
  /\ cpc[c] = "listen"
  /\ Answer(c, 90, "transfer")
  /\ UNCHANGED <<ppc, slave, client, judged, conf>>

(* The loop of BIND has no way out but the death of the process.           *)
TransferDies(c) ==
  /\ cpc[c] = "transfer"
  /\ Ends(c)
  /\ UNCHANGED <<ppc, slave, client, judged, conf, reply>>

Child(c) == ReadRequest(c) \/ Resolve(c) \/ Judge(c) \/ Connect(c) \/ Bind(c)

-----------------------------------------------------------------------------
(* The clients *)

server == <<ppc, slave, cpc, judged, reply, zombie, signal>>

Send(c) ==
  /\ c \notin gone /\ pieces[c] < 3
  /\ pieces' = [pieces EXCEPT ![c] = @ + 1]
  /\ UNCHANGED <<server, request, gone, conf>>

Close(c) ==
  /\ c \notin gone
  /\ gone' = gone \cup {c}
  /\ UNCHANGED <<server, request, pieces, conf>>

Next ==
  \/ Parent
  \/ \E c \in Conn : \/ Child(c) \/ RelayEnds(c) \/ DataConnection(c) \/ TransferDies(c)
                     \/ Send(c) \/ Close(c)

Spec == Init /\ [][Next]_vars

(* The processes are scheduled, fork() succeeds in the end, a resolver and *)
(* a connect() answer in the end.                                          *)
FairSpec ==
  /\ Spec
  /\ \A c \in Conn : WF_vars(Fork(c)) /\ WF_vars(CloseCopy(c)) /\ WF_vars(Child(c))
  /\ WF_vars(Handler)

-----------------------------------------------------------------------------
(* Properties *)

Place == {"none", "read", "resolve", "rules", "connect", "relay", "bind", "listen",
          "transfer", "ended"}

TypeOK ==
  /\ ppc \in {"accept", "fork", "close"} /\ slave \subseteq Conn
  /\ cpc \in [Conn -> Place]
  /\ \A c \in Conn : request[c] \in Requests[c] /\ pieces[c] \in 0 .. 3
  /\ gone \subseteq Conn /\ cut \subseteq Conn
  /\ \A c \in Conn : read[c].addr \in Address /\ read[c].cd \in Command
  /\ conf \in Confs
  /\ \A c \in Conn : reply[c] \in Seq({90, 91}) /\ Len(reply[c]) <= 2
  /\ zombie \subseteq {c \in Conn : cpc[c] = "ended"} /\ signal \in BOOLEAN
  /\ Cardinality(slave) = IF ppc = "accept" THEN 0 ELSE 1

Served(c) == cpc[c] \in {"relay", "listen", "transfer"} \/ 90 \in {reply[c][i] : i \in DOMAIN reply[c]}

(* A client is served only if a line of the file names its command and     *)
(* covers all four segments of the address the child connects to, and that *)
(* is the address it asked for, or what a name without an IPv4 address is  *)
(* left with.  Only a child that read the request before all of it had     *)
(* come goes elsewhere: to the server's own host, which is then what the   *)
(* firewall judges.                                                        *)
ServedByRule ==
  \A c \in Conn : Served(c) =>
    /\ conf # Missing
    /\ \E i \in DOMAIN conf :
         /\ conf[i].mode = ModeOf[read[c].cd]
         /\ Len(conf[i].pattern) = 4
         /\ \A j \in 1 .. 4 : conf[i].pattern[j] \in {"*", read[c].addr[j]}
    /\ \/ read[c].addr = request[c].addr
       \/ request[c].byName /\ read[c].addr = Unresolved
       \/ c \in cut /\ read[c].addr = Loopback

phaseBar ==
  [c \in Conn |->
     CASE cpc[c] = "relay" /\ reply[c] = <<90>> -> "open"
       [] cpc[c] = "transfer" /\ reply[c] = <<90, 90>> -> "open"
       [] cpc[c] = "listen" /\ reply[c] = <<90>> -> "bound"
       [] cpc[c] = "ended" /\ reply[c] = <<91>> -> "rejected"
       [] cpc[c] = "ended" /\ reply[c] # <<91>> -> "ended"
       [] cpc[c] \notin {"relay", "transfer", "listen", "ended"} /\ reply[c] = <<>> -> "asked"
       [] OTHER -> "none"]

Promise == INSTANCE SocksPromise WITH phase <- phaseBar
(* Every client gets the answers a SOCKS client may count on, in order.    *)
KeepsPromise == Promise!Spec

(* When a child has ended, its client sees the end, since no other process *)
(* is left with the connection open, and the child is reaped, although one *)
(* signal may stand for several ends.                                      *)
EndSeen == \A c \in Conn : cpc[c] = "ended" ~> c \notin slave \cup zombie

(* The child of a client that left ends, unless it waits for a data        *)
(* connection or has begun to pass data on: those children may stay.       *)
LeftClientsEnd ==
  \A c \in Conn :
    c \in gone /\ cpc[c] # "none" ~> cpc[c] \in {"ended", "listen", "relay", "transfer"}
=============================================================================
