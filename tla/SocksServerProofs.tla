------------------------- MODULE SocksServerProofs -------------------------
(***************************************************************************)
(* A client of socks_server is served only by a rule of the file, and gets *)
(* its answers in order, whatever the file says and whoever connects: what *)
(* a child may do follows from where it is and from what it has answered.  *)
(***************************************************************************)
EXTENDS SocksServer, FiniteSetTheorems, TLAPS

Replies == {<<>>, <<90>>, <<91>>, <<90, 90>>}
Unserved == {"none", "read", "resolve", "rules", "connect", "bind"}

\* The answers a child can have given, as constants of the argument.
Silent == <<>>
Granted == <<90>>
Rejected == <<91>>
GrantedTwice == <<90, 90>>

(* The replies a client may have got differ.                               *)
LEMMA ReplyFacts ==
  /\ Append(Silent, 90) = Granted /\ Append(Silent, 91) = Rejected
  /\ Append(Granted, 90) = GrantedTwice
  /\ Silent # Granted /\ Silent # Rejected /\ Silent # GrantedTwice
  /\ Granted # Rejected /\ Granted # GrantedTwice /\ Rejected # GrantedTwice
<1>1. Append(Silent, 90) = Granted /\ Append(Silent, 91) = Rejected
  BY DEF Silent, Granted, Rejected
<1>2. Append(Granted, 90) = GrantedTwice
  <2> DEFINE s == Append(Granted, 90)
             t == GrantedTwice
  <2>1. s \in Seq(Int) /\ Len(s) = 2 /\ s[1] = 90 /\ s[2] = 90
    BY DEF Granted
  <2>2. t \in Seq(Int) /\ Len(t) = 2 /\ t[1] = 90 /\ t[2] = 90
    BY DEF GrantedTwice
  <2> HIDE DEF s, t
  <2>3. \A i \in 1 .. 2 : s[i] = t[i]
    BY <2>1, <2>2
  <2> QED BY <2>1, <2>2, <2>3 DEF s, t
<1>3. Len(Silent) = 0 /\ Len(Granted) = 1 /\ Len(Rejected) = 1 /\ Len(GrantedTwice) = 2
  BY DEF Silent, Granted, Rejected, GrantedTwice
<1>4. Granted[1] # Rejected[1]
  BY DEF Granted, Rejected
<1> QED BY <1>1, <1>2, <1>3, <1>4

(* None is longer than two answers, and only these hold a granted one.     *)
LEMMA ReplyTypes ==
  ASSUME NEW s \in {Silent, Granted, Rejected, GrantedTwice}
  PROVE  /\ s \in Seq({90, 91}) /\ Len(s) <= 2
         /\ 90 \in {s[i] : i \in DOMAIN s} => s \in {Granted, GrantedTwice}
<1>1. CASE s = Silent
  BY <1>1 DEF Silent
<1>2. CASE s = Granted
  BY <1>2 DEF Granted
<1>3. CASE s = Rejected
  BY <1>3 DEF Rejected
<1>4. CASE s = GrantedTwice
  BY <1>4 DEF GrantedTwice
<1> QED BY <1>1, <1>2, <1>3, <1>4

\* A rule whose loop over the segments runs to its end covers all of them.
LEMMA LeadingFacts ==
  ASSUME NEW p, Len(p) \in 0 .. 4, DOMAIN p = 1 .. Len(p), NEW a, Leading(p, a) = 4
  PROVE  Len(p) = 4 /\ \A j \in 1 .. 4 : Agrees(p[j], a[j])
<1> DEFINE L == {i \in DOMAIN p : \A j \in 1 .. i : Agrees(p[j], a[j])}
<1>1. IsFiniteSet(1 .. 4) /\ Cardinality(1 .. 4) = 4
  <2>1. 1 \in Int /\ 4 \in Int
    OBVIOUS
  <2>2. IsFiniteSet(1 .. 4) /\ Cardinality(1 .. 4) = IF 1 > 4 THEN 0 ELSE 4 - 1 + 1
    BY <2>1, FS_Interval
  <2> QED BY <2>2
<1>2. L \in SUBSET (1 .. 4) /\ Cardinality(L) = 4
  BY DEF Leading
<1>3. 1 .. 4 = L
  BY <1>1, <1>2, FS_Subset
<1>4. 4 \in L
  BY <1>3
<1> QED BY <1>4

-----------------------------------------------------------------------------
(* Where a child is, and what it has answered *)

Reads == [ver : {0, 4, 5}, cd : Command, addr : Address]
Asks == [ver : {4, 5}, cd : Command, byName : BOOLEAN, addr : Address]

Typed ==
  /\ cpc \in [Conn -> Place]
  /\ request \in [Conn -> Asks] /\ \A c \in Conn : request[c] \in Requests[c]
  /\ pieces \in [Conn -> 0 .. 3]
  /\ gone \in SUBSET Conn /\ cut \in SUBSET Conn
  /\ read \in [Conn -> Reads]
  /\ conf \in Confs
  /\ reply \in [Conn -> {Silent, Granted, Rejected, GrantedTwice}]
  /\ zombie \in SUBSET Conn /\ \A c \in zombie : cpc[c] = "ended"
  /\ signal \in BOOLEAN

\* The parent has a copy of one connection from its accept() to its close().
OneCopy ==
  \/ ppc = "accept" /\ slave = {}
  \/ ppc \in {"fork", "close"} /\ \E c \in Conn : slave = {c}

Answered(place) ==
  IF place \in Unserved THEN {Silent}
  ELSE IF place \in {"relay", "listen"} THEN {Granted}
  ELSE IF place = "transfer" THEN {GrantedTwice}
  ELSE {Silent, Granted, Rejected, GrantedTwice}

\* A child past the firewall has been judged, and one that has read a request
\* knows the address asked for unless the name or the reading went wrong.
Judged(c) == conf # Missing /\ Permitted(conf, read[c].cd, read[c].addr)
RightAddress(c) ==
  \/ read[c].addr = request[c].addr
  \/ request[c].byName /\ read[c].addr = Unresolved
  \/ c \in cut /\ read[c].addr = Loopback
Past(c) == cpc[c] \in {"connect", "bind", "relay", "listen", "transfer"}
           \/ reply[c] \in {Granted, GrantedTwice}

ChildInv ==
  \A c \in Conn :
    /\ reply[c] \in Answered(cpc[c])
    /\ Past(c) => Judged(c)
    /\ Past(c) \/ cpc[c] \in {"resolve", "rules"} => RightAddress(c)
    /\ cpc[c] = "resolve" => request[c].byName

IInv == Typed /\ OneCopy /\ ChildInv

(* Nothing has been asked at the start.                                    *)
LEMMA InitInv == Init => IInv
<1> SUFFICES ASSUME Init PROVE IInv
  OBVIOUS
<1>1. NoRequest \in Reads
  BY AddressAssumption DEF NoRequest, Reads, Command
<1>2. request \in [Conn -> Asks] /\ \A c \in Conn : request[c] \in Requests[c]
  <2>1. \A c \in Conn : request[c] \in Requests[c] /\ Requests[c] \subseteq Asks
    BY RequestAssumption DEF Init, Asks
  <2>2. request = [c \in Conn |-> request[c]]
    BY DEF Init
  <2> QED BY <2>1, <2>2
<1>3. Typed
  <2>1. /\ cpc \in [Conn -> Place] /\ pieces \in [Conn -> 0 .. 3]
        /\ reply \in [Conn -> {Silent, Granted, Rejected, GrantedTwice}]
    BY DEF Init, Place, Silent
  <2>2. read \in [Conn -> Reads]
    BY <1>1 DEF Init
  <2>3. /\ gone \in SUBSET Conn /\ cut \in SUBSET Conn /\ conf \in Confs
        /\ zombie = {} /\ signal \in BOOLEAN
    BY DEF Init
  <2> QED BY <1>2, <2>1, <2>2, <2>3 DEF Typed
<1>4. OneCopy
  BY DEF Init, OneCopy
<1>5. ChildInv
  <2>1. \A c \in Conn : cpc[c] = "none" /\ reply[c] = Silent
    BY DEF Init, Silent
  <2> QED BY <2>1, ReplyFacts DEF ChildInv, Past, Answered, Unserved
<1> QED BY <1>3, <1>4, <1>5 DEF IInv

\* The step of one child, the others where they were.
Moved(c, place, answer) ==
  /\ cpc' = [cpc EXCEPT ![c] = place]
  /\ reply' = [reply EXCEPT ![c] = answer]

\* What a child may do next.
LEMMA MovedInv ==
  ASSUME IInv, NEW c \in Conn, NEW place \in Place, NEW answer \in Answered(place),
         cpc[c] # "ended",
         Moved(c, place, answer),
         UNCHANGED <<ppc, slave, client, conf>>,
         read' \in [Conn -> Reads], \A d \in Conn \ {c} : read'[d] = read[d],
         cut' \in SUBSET Conn, \A d \in Conn \ {c} : d \in cut' <=> d \in cut,
         zombie' = (IF place = "ended" THEN zombie \cup {c} ELSE zombie),
         signal' \in BOOLEAN,
         Past(c)' => Judged(c)',
         Past(c)' \/ place \in {"resolve", "rules"} => RightAddress(c)',
         place = "resolve" => request[c].byName
  PROVE  IInv'
<1>1. Typed /\ OneCopy /\ ChildInv
  BY DEF IInv
<1>2. \A p : Answered(p) \subseteq {Silent, Granted, Rejected, GrantedTwice}
  BY DEF Answered
<1>3. /\ cpc' \in [Conn -> Place] /\ cpc'[c] = place
      /\ reply' \in [Conn -> {Silent, Granted, Rejected, GrantedTwice}] /\ reply'[c] = answer
      /\ \A d \in Conn \ {c} : cpc'[d] = cpc[d] /\ reply'[d] = reply[d]
  BY <1>1, <1>2 DEF Typed, Moved
<1>4. Typed'
  BY <1>1, <1>3 DEF Typed, client
<1>5. OneCopy'
  BY <1>1 DEF OneCopy
<1>6. ASSUME NEW d \in Conn \ {c}
      PROVE  /\ reply'[d] \in Answered(cpc'[d])
             /\ Past(d)' => Judged(d)'
             /\ Past(d)' \/ cpc'[d] \in {"resolve", "rules"} => RightAddress(d)'
             /\ cpc'[d] = "resolve" => request'[d].byName
  BY <1>1, <1>3 DEF ChildInv, Past, Judged, RightAddress, client
<1>7. ChildInv'
  BY <1>3, <1>6 DEF ChildInv, client
<1> QED BY <1>4, <1>5, <1>7 DEF IInv

-----------------------------------------------------------------------------
(* Step by step *)

\* What a client has been told, and what it may be told next.
PhaseOf(place, answer) ==
  IF place \in Unserved THEN "asked"
  ELSE IF place \in {"relay", "transfer"} THEN "open"
  ELSE IF place = "listen" THEN "bound"
  ELSE IF answer = Rejected THEN "rejected" ELSE "ended"
InOrder(c, place, answer) ==
  \/ PhaseOf(place, answer) = PhaseOf(cpc[c], reply[c])
  \/ PhaseOf(place, answer) \in Promise!Follows[PhaseOf(cpc[c], reply[c])]

\* A step of the child of c: where it goes, and what its client has been told.
Stepped(c, place, answer) ==
  /\ place \in Place /\ answer \in Answered(place) /\ cpc[c] # "ended"
  /\ Moved(c, place, answer) /\ InOrder(c, place, answer)
ChildStep(c) == \E place, answer : Stepped(c, place, answer)

(* A child that ends sends nothing more.                                   *)
LEMMA EndsStep ==
  ASSUME IInv, NEW c \in Conn, cpc[c] # "ended", Ends(c), UNCHANGED reply
  PROVE  /\ Stepped(c, "ended", reply[c])
         /\ zombie' = zombie \cup {c} /\ signal' \in BOOLEAN
<1>1. reply \in [Conn -> {Silent, Granted, Rejected, GrantedTwice}] /\ cpc[c] \in Place
  BY DEF IInv, Typed
<1>2. Moved(c, "ended", reply[c])
  BY <1>1 DEF Ends, Go, Moved
<1>3. reply[c] \in Answered(cpc[c])
  BY DEF IInv, ChildInv
<1>4. cpc[c] \in Unserved \/ cpc[c] \in {"relay", "transfer", "listen"}
  BY <1>1 DEF Place, Unserved
<1>5. reply[c] \in Answered("ended") /\ "ended" \in Place
  BY <1>1 DEF Answered, Unserved, Place
<1>6. reply[c] # Rejected
  BY <1>3, <1>4, ReplyFacts DEF Answered, Unserved
<1>7. InOrder(c, "ended", reply[c])
  BY <1>4, <1>6 DEF InOrder, PhaseOf, Promise!Follows, Unserved
<1> QED BY <1>2, <1>5, <1>7 DEF Stepped, Ends

\* What is understood of a request sent whole is the request.
LEMMA UnderstoodFacts ==
  ASSUME IInv, NEW c \in Conn
  PROVE  /\ Understood(c) \in Reads
         /\ Understood(c).ver = 4 => \/ Understood(c).addr = request[c].addr
                                     \/ pieces[c] < 3 /\ Understood(c).addr = Loopback
<1>1. request[c] \in Asks /\ pieces[c] \in 0 .. 3
  BY DEF IInv, Typed
<1>2. CASE pieces[c] = 0
  <2>1. Understood(c) = NoRequest
    BY <1>2 DEF Understood
  <2> QED BY <2>1, AddressAssumption DEF NoRequest, Reads, Command
<1>3. CASE pieces[c] = 1 \/ (pieces[c] = 2 /\ request[c].byName)
  <2>1. Understood(c) = [ver |-> request[c].ver, cd |-> request[c].cd, addr |-> Loopback]
    BY <1>3 DEF Understood
  <2> QED BY <1>1, <1>3, <2>1, AddressAssumption DEF Reads, Asks
<1>4. CASE ~(pieces[c] = 0) /\ ~(pieces[c] = 1 \/ (pieces[c] = 2 /\ request[c].byName))
  <2>1. Understood(c) = [ver |-> request[c].ver, cd |-> request[c].cd, addr |-> request[c].addr]
    BY <1>4 DEF Understood
  <2> QED BY <1>1, <2>1 DEF Reads, Asks
<1> QED BY <1>2, <1>3, <1>4

(* One step of each kind of a child keeps the invariant and is in order:   *)
(* the request is read,                                                    *)
LEMMA ReadRequestStep ==
  ASSUME IInv, NEW c \in Conn, ReadRequest(c)
  PROVE  IInv' /\ ChildStep(c)
<1> DEFINE u == Understood(c)
<1>1. /\ cpc[c] = "read" /\ read' = [read EXCEPT ![c] = u]
      /\ cut' = (IF pieces[c] < 3 THEN cut \cup {c} ELSE cut)
      /\ UNCHANGED <<ppc, slave, client, conf, reply>>
  BY DEF ReadRequest
<1>2. /\ read \in [Conn -> Reads] /\ cut \in SUBSET Conn
      /\ reply \in [Conn -> {Silent, Granted, Rejected, GrantedTwice}]
  BY DEF IInv, Typed
<1>3. reply[c] = Silent
  BY <1>1 DEF IInv, ChildInv, Answered, Unserved
<1>4. /\ u \in Reads
      /\ u.ver = 4 => u.addr = request[c].addr \/ (pieces[c] < 3 /\ u.addr = Loopback)
  BY UnderstoodFacts
<1> HIDE DEF u
<1>5. /\ read' \in [Conn -> Reads] /\ read'[c] = u
      /\ \A d \in Conn \ {c} : read'[d] = read[d]
      /\ cut' \in SUBSET Conn /\ \A d \in Conn \ {c} : d \in cut' <=> d \in cut
      /\ pieces[c] < 3 => c \in cut'
  BY <1>1, <1>2, <1>4
<1>6. CASE u.ver # 4
  <2>1. Ends(c)
    BY <1>5, <1>6 DEF ReadRequest
  <2>2. Stepped(c, "ended", reply[c]) /\ zombie' = zombie \cup {c} /\ signal' \in BOOLEAN
    BY <1>1, <2>1, EndsStep
  <2>3. ~Past(c)'
    BY <1>1, <1>2, <1>3, <2>2, ReplyFacts DEF Past, Stepped, Moved, IInv, Typed
  <2> QED BY <1>1, <1>5, <2>2, <2>3, MovedInv DEF Stepped, ChildStep
<1>7. CASE u.ver = 4
  <2> DEFINE place == IF request[c].byName /\ pieces[c] = 3 THEN "resolve" ELSE "rules"
  <2>1. Go(c, place) /\ UNCHANGED <<zombie, signal>>
    BY <1>5, <1>7 DEF ReadRequest
  <2>2. place \in Place /\ reply[c] \in Answered(place) /\ place \in Unserved
        /\ place # "ended" /\ cpc[c] # "ended" /\ cpc[c] \in Unserved
    BY <1>1, <1>3 DEF Place, Answered, Unserved
  <2>3. Moved(c, place, reply[c])
    BY <1>1, <1>2, <2>1 DEF Go, Moved
  <2>4. InOrder(c, place, reply[c])
    BY <2>2 DEF InOrder, PhaseOf
  <2>5. place = "resolve" => request[c].byName
    OBVIOUS
  <2>6. ~Past(c)'
    <3>1. cpc'[c] = place
      BY <2>3 DEF Moved, IInv, Typed
    <3> QED BY <1>1, <1>3, <3>1, ReplyFacts DEF Past
  <2>7. RightAddress(c)'
    BY <1>1, <1>4, <1>5, <1>7 DEF RightAddress, client
  <2>8. signal' \in BOOLEAN
    BY <2>1 DEF IInv, Typed
  <2> HIDE DEF place
  <2>9. IInv'
    BY <1>1, <1>5, <2>1, <2>2, <2>3, <2>5, <2>6, <2>7, <2>8, MovedInv
  <2> QED BY <2>2, <2>3, <2>4, <2>9 DEF Stepped, ChildStep
<1> QED BY <1>6, <1>7

(* its name resolved,                                                      *)
LEMMA ResolveStep ==
  ASSUME IInv, NEW c \in Conn, Resolve(c)
  PROVE  IInv' /\ ChildStep(c)
<1>1. /\ cpc[c] = "resolve" /\ UNCHANGED <<ppc, slave, client, conf, cut, reply>>
      /\ cpc[c] # "ended"
  BY DEF Resolve
<1>2. /\ read \in [Conn -> Reads] /\ cut \in SUBSET Conn /\ signal \in BOOLEAN
      /\ reply \in [Conn -> {Silent, Granted, Rejected, GrantedTwice}]
      /\ cpc \in [Conn -> Place]
  BY DEF IInv, Typed
<1>3. reply[c] = Silent /\ RightAddress(c) /\ request[c].byName
  BY <1>1 DEF IInv, ChildInv, Answered, Unserved
<1>4. CASE Ends(c) /\ UNCHANGED read
  <2>1. Stepped(c, "ended", reply[c]) /\ zombie' = zombie \cup {c} /\ signal' \in BOOLEAN
    BY <1>1, <1>4, EndsStep
  <2>2. ~Past(c)'
    BY <1>1, <1>2, <1>3, <2>1, ReplyFacts DEF Past, Stepped, Moved
  <2> QED BY <1>1, <1>2, <1>4, <2>1, <2>2, MovedInv DEF Stepped, ChildStep
<1>5. CASE /\ Go(c, "rules") /\ UNCHANGED <<zombie, signal>>
           /\ read' = read \/ read' = [read EXCEPT ![c].addr = Unresolved]
  <2>1. /\ read' \in [Conn -> Reads] /\ \A d \in Conn \ {c} : read'[d] = read[d]
        /\ read'[c].addr = read[c].addr \/ read'[c].addr = Unresolved
    <3>1. CASE read' = read
      BY <1>2, <3>1
    <3>2. CASE read' = [read EXCEPT ![c].addr = Unresolved]
      <4>1. [read[c] EXCEPT !.addr = Unresolved] \in Reads
        BY <1>2, AddressAssumption DEF Reads
      <4>2. read' = [read EXCEPT ![c] = [read[c] EXCEPT !.addr = Unresolved]]
        BY <3>2
      <4>3. read'[c].addr = Unresolved
        BY <1>2, <4>2 DEF Reads
      <4> QED BY <1>2, <4>1, <4>2, <4>3
    <3> QED BY <1>5, <3>1, <3>2
  <2>2. Moved(c, "rules", reply[c])
    BY <1>1, <1>2, <1>5 DEF Go, Moved
  <2>3. "rules" \in Place /\ reply[c] \in Answered("rules")
    BY <1>3 DEF Place, Answered, Unserved
  <2>4. InOrder(c, "rules", reply[c])
    BY <1>1 DEF InOrder, PhaseOf, Unserved
  <2>5. ~Past(c)'
    BY <1>1, <1>2, <1>3, <1>5, ReplyFacts DEF Past, Go
  <2>6. RightAddress(c)'
    BY <1>1, <1>3, <2>1 DEF RightAddress, client
  <2>7. IInv'
    BY <1>1, <1>2, <1>5, <2>1, <2>2, <2>3, <2>5, <2>6, MovedInv
  <2> QED BY <1>1, <2>2, <2>3, <2>4, <2>7 DEF Stepped, ChildStep
<1> QED BY <1>4, <1>5 DEF Resolve

\* What writing a result code does.
LEMMA AnswerFacts ==
  ASSUME IInv, NEW c \in Conn, NEW code \in {90, 91}, NEW place, Answer(c, code, place)
  PROVE  \/ Ends(c) /\ UNCHANGED reply
         \/ /\ reply' = [reply EXCEPT ![c] = Append(reply[c], code)]
            /\ IF place = "ended" THEN Ends(c) ELSE Go(c, place) /\ UNCHANGED <<zombie, signal>>
BY DEF Answer

\* A child that goes on after the firewall let it, or is told no.
LEMMA GoesStep ==
  ASSUME IInv, NEW c \in Conn, NEW place \in Place, NEW answer \in Answered(place),
         cpc[c] # "ended", Moved(c, place, answer), InOrder(c, place, answer),
         UNCHANGED <<ppc, slave, client, judged, conf>>,
         zombie' = (IF place = "ended" THEN zombie \cup {c} ELSE zombie),
         signal' \in BOOLEAN, place # "resolve",
         Judged(c) \/ (place = "ended" /\ answer = Rejected),
         RightAddress(c)
  PROVE  IInv' /\ ChildStep(c)
<1>1. /\ read \in [Conn -> Reads] /\ cut \in SUBSET Conn
      /\ reply \in [Conn -> {Silent, Granted, Rejected, GrantedTwice}]
      /\ cpc \in [Conn -> Place]
  BY DEF IInv, Typed
<1>2. cpc'[c] = place /\ reply'[c] = answer
  BY <1>1 DEF Moved
<1>3. Past(c)' => Judged(c)'
  BY <1>2, ReplyFacts DEF Past, Judged, judged
<1>4. RightAddress(c)'
  BY DEF RightAddress, judged, client
<1>5. IInv'
  BY <1>1, <1>3, <1>4, MovedInv DEF judged
<1> QED BY <1>5 DEF Stepped, ChildStep

\* A child past the firewall that dies without another answer.
LEMMA DiesStep ==
  ASSUME IInv, NEW c \in Conn, Ends(c), UNCHANGED <<ppc, slave, client, judged, conf, reply>>,
         cpc[c] \in {"rules", "connect", "bind", "relay", "listen", "transfer"}
  PROVE  IInv' /\ ChildStep(c)
<1>1. Stepped(c, "ended", reply[c]) /\ zombie' = zombie \cup {c} /\ signal' \in BOOLEAN
  BY EndsStep
<1>2. /\ read \in [Conn -> Reads] /\ cut \in SUBSET Conn
      /\ reply \in [Conn -> {Silent, Granted, Rejected, GrantedTwice}]
      /\ cpc \in [Conn -> Place]
  BY DEF IInv, Typed
<1>3. cpc'[c] = "ended" /\ reply'[c] = reply[c]
  BY <1>1, <1>2 DEF Stepped, Moved
<1>4. Past(c)' => Past(c) /\ Judged(c)'
  BY <1>3 DEF Past, IInv, ChildInv, Judged, judged
<1>5. Past(c)' => RightAddress(c)'
  BY <1>4 DEF IInv, ChildInv, RightAddress, judged, client
<1>6. IInv'
  BY <1>1, <1>2, <1>4, <1>5, MovedInv DEF Stepped, judged
<1> QED BY <1>1, <1>6 DEF ChildStep

(* its rules looked up,                                                    *)
LEMMA JudgeStep ==
  ASSUME IInv, NEW c \in Conn, Judge(c)
  PROVE  IInv' /\ ChildStep(c)
<1>1. cpc[c] = "rules" /\ UNCHANGED <<ppc, slave, client, judged, conf>>
  BY DEF Judge
<1>2. reply[c] = Silent /\ RightAddress(c)
  BY <1>1 DEF IInv, ChildInv, Answered, Unserved
<1>3. reply \in [Conn -> {Silent, Granted, Rejected, GrantedTwice}] /\ signal \in BOOLEAN
  BY DEF IInv, Typed
<1>4. CASE Ends(c) /\ UNCHANGED reply
  BY <1>1, <1>4, DiesStep
<1>5. CASE reply' = [reply EXCEPT ![c] = Append(reply[c], 91)] /\ Ends(c)
  <2>1. Moved(c, "ended", Rejected)
    BY <1>2, <1>5, ReplyFacts DEF Moved, Ends, Go
  <2>2. "ended" \in Place /\ Rejected \in Answered("ended")
    BY DEF Place, Answered, Unserved
  <2>3. InOrder(c, "ended", Rejected)
    BY <1>1 DEF InOrder, PhaseOf, Promise!Follows, Unserved
  <2>4. zombie' = zombie \cup {c} /\ signal' \in BOOLEAN
    BY <1>5 DEF Ends
  <2> QED BY <1>1, <1>2, <2>1, <2>2, <2>3, <2>4, GoesStep
<1>6. CASE /\ conf # Missing /\ Permitted(conf, read[c].cd, read[c].addr)
           /\ Go(c, IF read[c].cd = 1 THEN "connect" ELSE "bind")
           /\ UNCHANGED <<reply, zombie, signal>>
  <2> DEFINE place == IF read[c].cd = 1 THEN "connect" ELSE "bind"
  <2>1. Moved(c, place, Silent)
    BY <1>2, <1>3, <1>6 DEF Moved, Go
  <2>2. place \in Place /\ Silent \in Answered(place) /\ place \in Unserved
        /\ place # "ended" /\ place # "resolve"
    BY DEF Place, Answered, Unserved
  <2>3. InOrder(c, place, Silent)
    BY <1>1, <2>2 DEF InOrder, PhaseOf, Unserved
  <2>4. Judged(c)
    BY <1>6 DEF Judged
  <2> HIDE DEF place
  <2> QED BY <1>1, <1>2, <1>3, <1>6, <2>1, <2>2, <2>3, <2>4, GoesStep
<1>7. \/ Ends(c) /\ UNCHANGED reply
      \/ Answer(c, 91, "ended")
      \/ /\ conf # Missing /\ Permitted(conf, read[c].cd, read[c].addr)
         /\ Go(c, IF read[c].cd = 1 THEN "connect" ELSE "bind")
         /\ UNCHANGED <<reply, zombie, signal>>
  BY DEF Judge
<1> QED BY <1>4, <1>5, <1>6, <1>7, AnswerFacts

\* CONNECT, BIND and the data connection: one answer each, or the end.
LEMMA AnswerStep ==
  ASSUME IInv, NEW c \in Conn, NEW place, Answer(c, 90, place),
         UNCHANGED <<ppc, slave, client, judged, conf>>,
         \/ cpc[c] = "connect" /\ place = "relay"
         \/ cpc[c] = "bind" /\ place = "listen"
         \/ cpc[c] = "listen" /\ place = "transfer"
  PROVE  IInv' /\ ChildStep(c)
<1>1. /\ reply[c] = IF cpc[c] = "listen" THEN Granted ELSE Silent
      /\ Judged(c) /\ RightAddress(c)
  BY DEF IInv, ChildInv, Past, Answered, Unserved
<1>2. reply \in [Conn -> {Silent, Granted, Rejected, GrantedTwice}] /\ signal \in BOOLEAN
  BY DEF IInv, Typed
<1>3. CASE Ends(c) /\ UNCHANGED reply
  BY <1>3, DiesStep
<1>4. CASE /\ reply' = [reply EXCEPT ![c] = Append(reply[c], 90)]
           /\ Go(c, place) /\ UNCHANGED <<zombie, signal>>
  <2> DEFINE answer == IF cpc[c] = "listen" THEN GrantedTwice ELSE Granted
  <2>1. Append(reply[c], 90) = answer
    BY <1>1, ReplyFacts
  <2> HIDE DEF answer
  <2>2. Moved(c, place, answer)
    BY <1>4, <2>1 DEF Moved, Go
  <2>3. place \in Place /\ answer \in Answered(place)
    BY DEF Place, Answered, Unserved, answer
  <2>4. InOrder(c, place, answer)
    BY DEF InOrder, PhaseOf, Promise!Follows, Unserved
  <2> QED BY <1>1, <1>2, <1>4, <2>2, <2>3, <2>4, GoesStep
<1> QED BY <1>3, <1>4, AnswerFacts

(* its server connected to.                                                *)
LEMMA ConnectStep ==
  ASSUME IInv, NEW c \in Conn, Connect(c)
  PROVE  IInv' /\ ChildStep(c)
<1>1. cpc[c] = "connect" /\ UNCHANGED <<ppc, slave, client, judged, conf>>
  BY DEF Connect
<1>2. CASE Answer(c, 90, "relay")
  BY <1>1, <1>2, AnswerStep
<1>3. CASE Answer(c, 91, "ended")
  <2>1. reply[c] = Silent /\ RightAddress(c)
    BY <1>1 DEF IInv, ChildInv, Past, Answered, Unserved
  <2>2. reply \in [Conn -> {Silent, Granted, Rejected, GrantedTwice}]
    BY DEF IInv, Typed
  <2>3. CASE Ends(c) /\ UNCHANGED reply
    BY <1>1, <2>3, DiesStep
  <2>4. CASE reply' = [reply EXCEPT ![c] = Append(reply[c], 91)] /\ Ends(c)
    <3>1. Moved(c, "ended", Rejected)
      BY <2>1, <2>4, ReplyFacts DEF Moved, Ends, Go
    <3>2. "ended" \in Place /\ Rejected \in Answered("ended")
      BY DEF Place, Answered, Unserved
    <3>3. InOrder(c, "ended", Rejected)
      BY <1>1 DEF InOrder, PhaseOf, Promise!Follows, Unserved
    <3>4. zombie' = zombie \cup {c} /\ signal' \in BOOLEAN
      BY <2>4 DEF Ends
    <3> QED BY <1>1, <2>1, <3>1, <3>2, <3>3, <3>4, GoesStep
  <2> QED BY <1>3, <2>3, <2>4, AnswerFacts
<1> QED BY <1>2, <1>3 DEF Connect

\* The parent, its signal handler and the clients leave the children be, but for
\* the one that is forked.
LEMMA QuietStep ==
  ASSUME IInv, \/ Handler \/ \E c \in Conn : Accept(c) \/ CloseCopy(c) \/ Send(c) \/ Close(c)
  PROVE  IInv' /\ UNCHANGED <<cpc, reply>>
<1>1. Typed /\ OneCopy /\ ChildInv
  BY DEF IInv
<1>2. /\ UNCHANGED <<cpc, reply, request, read, cut, conf>>
      /\ signal' \in BOOLEAN /\ zombie' \in SUBSET zombie
      /\ gone' \in SUBSET Conn /\ pieces' \in [Conn -> 0 .. 3]
  <2>1. CASE Handler
    BY <1>1, <2>1 DEF Handler, client, judged, Left, Typed
  <2>2. ASSUME NEW c \in Conn, Accept(c) \/ CloseCopy(c)
        PROVE  /\ UNCHANGED <<cpc, reply, request, read, cut, conf>>
               /\ signal' \in BOOLEAN /\ zombie' \in SUBSET zombie
               /\ gone' \in SUBSET Conn /\ pieces' \in [Conn -> 0 .. 3]
    BY <1>1, <2>2 DEF Accept, CloseCopy, client, judged, Typed
  <2>3. ASSUME NEW c \in Conn, Send(c)
        PROVE  /\ UNCHANGED <<cpc, reply, request, read, cut, conf>>
               /\ signal' \in BOOLEAN /\ zombie' \in SUBSET zombie
               /\ gone' \in SUBSET Conn /\ pieces' \in [Conn -> 0 .. 3]
    <3>1. pieces[c] + 1 \in 0 .. 3
      BY <1>1, <2>3 DEF Send, Typed
    <3> QED BY <1>1, <2>3, <3>1 DEF Send, server, judged, Typed
  <2>4. ASSUME NEW c \in Conn, Close(c)
        PROVE  /\ UNCHANGED <<cpc, reply, request, read, cut, conf>>
               /\ signal' \in BOOLEAN /\ zombie' \in SUBSET zombie
               /\ gone' \in SUBSET Conn /\ pieces' \in [Conn -> 0 .. 3]
    BY <1>1, <2>4 DEF Close, server, judged, Typed
  <2> QED BY <2>1, <2>2, <2>3, <2>4
<1>3. Typed' /\ ChildInv'
  BY <1>1, <1>2 DEF Typed, ChildInv, Past, Judged, RightAddress
<1>4. OneCopy'
  BY <1>1 DEF OneCopy, Handler, Accept, CloseCopy, WithoutCopy, Send, Close, server
<1> QED BY <1>2, <1>3, <1>4 DEF IInv

(* The parent's fork puts a child where it belongs.                        *)
LEMMA ForkStep ==
  ASSUME IInv, NEW c \in Conn, Fork(c)
  PROVE  IInv' /\ ChildStep(c)
<1>1. /\ Typed /\ OneCopy /\ ChildInv
      /\ cpc[c] = "none" /\ Go(c, "read")
      /\ UNCHANGED <<slave, client, judged, conf, reply, zombie, signal>>
  BY DEF IInv, Fork
<1>2. /\ reply \in [Conn -> {Silent, Granted, Rejected, GrantedTwice}]
      /\ cpc \in [Conn -> Place] /\ reply[c] = Silent
  BY <1>1 DEF Typed, ChildInv, Answered, Unserved
<1>3. /\ cpc' \in [Conn -> Place] /\ cpc'[c] = "read"
      /\ \A d \in Conn \ {c} : cpc'[d] = cpc[d]
  BY <1>1, <1>2 DEF Go, Place
<1>4. Typed'
  BY <1>1, <1>3 DEF Typed, client, judged
<1>5. OneCopy'
  BY <1>1 DEF OneCopy, Fork
<1>6. ChildInv'
  <2>1. ASSUME NEW d \in Conn \ {c}
        PROVE  /\ reply'[d] \in Answered(cpc'[d])
               /\ Past(d)' => Judged(d)'
               /\ Past(d)' \/ cpc'[d] \in {"resolve", "rules"} => RightAddress(d)'
               /\ cpc'[d] = "resolve" => request'[d].byName
    BY <1>1, <1>3 DEF ChildInv, Past, Judged, RightAddress, client, judged
  <2>2. reply'[c] = Silent /\ ~Past(c)'
    BY <1>1, <1>2, <1>3, ReplyFacts DEF Past
  <2>3. Silent \in Answered("read")
    BY DEF Answered, Unserved
  <2> QED BY <1>3, <2>1, <2>2, <2>3 DEF ChildInv
<1>7. Stepped(c, "read", reply[c])
  <2>1. Moved(c, "read", reply[c])
    BY <1>1, <1>2 DEF Moved, Go
  <2>2. "read" \in Place /\ reply[c] \in Answered("read")
    BY <1>2 DEF Place, Answered, Unserved
  <2>3. InOrder(c, "read", reply[c])
    BY <1>1 DEF InOrder, PhaseOf, Unserved
  <2> QED BY <1>1, <2>1, <2>2, <2>3 DEF Stepped
<1> QED BY <1>4, <1>5, <1>6, <1>7 DEF IInv, ChildStep

(* So does every step.                                                     *)
LEMMA NextInv ==
  ASSUME IInv, [Next]_vars
  PROVE  IInv' /\ (UNCHANGED <<cpc, reply>> \/ \E c \in Conn : ChildStep(c))
<1>1. CASE UNCHANGED vars
  BY <1>1 DEF vars, client, judged, IInv, Typed, OneCopy, ChildInv, Past, Judged, RightAddress
<1>2. ASSUME NEW c \in Conn,
             ReadRequest(c) \/ Resolve(c) \/ Judge(c) \/ Connect(c) \/ Fork(c)
      PROVE  IInv' /\ ChildStep(c)
  BY <1>2, ReadRequestStep, ResolveStep, JudgeStep, ConnectStep, ForkStep
<1>3. ASSUME NEW c \in Conn, Bind(c) \/ DataConnection(c)
      PROVE  IInv' /\ ChildStep(c)
  BY <1>3, AnswerStep DEF Bind, DataConnection
<1>4. ASSUME NEW c \in Conn, RelayEnds(c) \/ TransferDies(c)
      PROVE  IInv' /\ ChildStep(c)
  BY <1>4, DiesStep DEF RelayEnds, TransferDies
<1>5. CASE Handler \/ \E c \in Conn : Accept(c) \/ CloseCopy(c) \/ Send(c) \/ Close(c)
  BY <1>5, QuietStep
<1> QED BY <1>1, <1>2, <1>3, <1>4, <1>5 DEF Next, Parent, Child

-----------------------------------------------------------------------------
(* What follows *)

(* The invariant says what the runs check.                                 *)
LEMMA InvTypes == IInv => TypeOK
<1> SUFFICES ASSUME IInv PROVE TypeOK
  OBVIOUS
<1>1. Typed /\ OneCopy
  BY DEF IInv
<1>2. \A c \in Conn : reply[c] \in Seq({90, 91}) /\ Len(reply[c]) <= 2
  BY <1>1, ReplyTypes DEF Typed
<1>3. /\ ppc \in {"accept", "fork", "close"} /\ slave \subseteq Conn
      /\ Cardinality(slave) = IF ppc = "accept" THEN 0 ELSE 1
  <2>1. CASE ppc = "accept" /\ slave = {}
    BY <2>1, FS_EmptySet
  <2>2. CASE ppc \in {"fork", "close"} /\ \E c \in Conn : slave = {c}
    BY <2>2, FS_Singleton
  <2> QED BY <1>1, <2>1, <2>2 DEF OneCopy
<1>4. /\ \A c \in Conn : request[c] \in Requests[c] /\ pieces[c] \in 0 .. 3
      /\ \A c \in Conn : read[c].addr \in Address /\ read[c].cd \in Command
  BY <1>1 DEF Typed, Reads
<1> QED BY <1>1, <1>2, <1>3, <1>4 DEF TypeOK, Typed

LEMMA InvRules == IInv => ServedByRule
<1> SUFFICES ASSUME IInv, NEW c \in Conn, Served(c)
             PROVE  /\ conf # Missing
                    /\ \E i \in DOMAIN conf :
                         /\ conf[i].mode = ModeOf[read[c].cd]
                         /\ Len(conf[i].pattern) = 4
                         /\ \A j \in 1 .. 4 : conf[i].pattern[j] \in {"*", read[c].addr[j]}
                    /\ \/ read[c].addr = request[c].addr
                       \/ request[c].byName /\ read[c].addr = Unresolved
                       \/ c \in cut /\ read[c].addr = Loopback
  BY DEF ServedByRule
<1>1. reply[c] \in {Silent, Granted, Rejected, GrantedTwice} /\ conf \in Confs
  BY DEF IInv, Typed
<1>2. Past(c)
  BY <1>1, ReplyTypes DEF Served, Past
<1>3. Judged(c) /\ RightAddress(c)
  BY <1>2 DEF IInv, ChildInv
<1>4. PICK i \in DOMAIN conf : RulePermits(conf[i], read[c].cd, read[c].addr)
  BY <1>3 DEF Judged, Permitted
<1>5. /\ conf \in Seq([mode : STRING, pattern : Seq(STRING)])
      /\ Len(conf[i].pattern) \in 0 .. 4
  BY <1>1, <1>3, <1>4, ConfAssumption DEF Judged
<1>6. conf[i].pattern \in Seq(STRING)
  <2> DEFINE R == [mode : STRING, pattern : Seq(STRING)]
  <2>1. \A s \in Seq(R) : \A k \in DOMAIN s : s[k] \in R
    <3> HIDE DEF R
    <3> QED OBVIOUS
  <2>2. conf[i] \in R
    BY <1>4, <1>5, <2>1
  <2> QED BY <2>2
<1>7. DOMAIN conf[i].pattern = 1 .. Len(conf[i].pattern)
  BY <1>6
<1>8. /\ Leading(conf[i].pattern, read[c].addr) = 4
      /\ conf[i].mode = ModeOf[read[c].cd]
  BY <1>4 DEF RulePermits
<1>9. /\ Len(conf[i].pattern) = 4
      /\ \A j \in 1 .. 4 : Agrees(conf[i].pattern[j], read[c].addr[j])
  BY <1>5, <1>7, <1>8, LeadingFacts
<1> QED BY <1>3, <1>8, <1>9 DEF Agrees, Judged, RightAddress

\* The phase of a client is where its child is.
PhaseIs == phaseBar = [c \in Conn |-> PhaseOf(cpc[c], reply[c])]

(* The phase of a client is that of its replies.                           *)
LEMMA PhaseFacts == IInv => PhaseIs
<1> SUFFICES ASSUME IInv, NEW c \in Conn PROVE phaseBar[c] = PhaseOf(cpc[c], reply[c])
  BY DEF phaseBar, PhaseIs
<1>1. cpc[c] \in Place /\ reply[c] \in Answered(cpc[c])
  BY DEF IInv, Typed, ChildInv
<1>2. CASE cpc[c] = "relay"
  <2>1. reply[c] = <<90>>
    BY <1>1, <1>2 DEF Answered, Unserved, Granted
  <2> QED BY <1>2, <2>1 DEF phaseBar, PhaseOf, Unserved
<1>3. CASE cpc[c] = "listen"
  <2>1. reply[c] = <<90>>
    BY <1>1, <1>3 DEF Answered, Unserved, Granted
  <2> QED BY <1>3, <2>1 DEF phaseBar, PhaseOf, Unserved
<1>4. CASE cpc[c] = "transfer"
  <2>1. reply[c] = <<90, 90>>
    BY <1>1, <1>4 DEF Answered, Unserved, GrantedTwice
  <2> QED BY <1>4, <2>1 DEF phaseBar, PhaseOf, Unserved
<1>5. CASE cpc[c] = "ended"
  BY <1>5 DEF phaseBar, PhaseOf, Unserved, Rejected
<1>6. CASE cpc[c] \in Unserved
  <2>1. reply[c] = <<>>
    BY <1>1, <1>6 DEF Answered, Silent
  <2> QED BY <1>6, <2>1 DEF phaseBar, PhaseOf, Unserved
<1> QED BY <1>1, <1>2, <1>3, <1>4, <1>5, <1>6 DEF Place, Unserved

(* A step of the system is one of the promise, or none,                    *)
LEMMA NextPromise ==
  ASSUME IInv, [Next]_vars, PhaseIs, PhaseIs'
  PROVE  [Promise!Next]_phaseBar
<1>1. /\ phaseBar = [d \in Conn |-> PhaseOf(cpc[d], reply[d])]
      /\ phaseBar' = [d \in Conn |-> PhaseOf(cpc'[d], reply'[d])]
  BY DEF PhaseIs
<1>2. CASE UNCHANGED <<cpc, reply>>
  BY <1>2 DEF phaseBar
<1>3. ASSUME NEW c \in Conn, ChildStep(c) PROVE [Promise!Next]_phaseBar
  <2>1. PICK place, answer : Stepped(c, place, answer)
    BY <1>3 DEF ChildStep
  <2>2. /\ cpc \in [Conn -> Place]
        /\ reply \in [Conn -> {Silent, Granted, Rejected, GrantedTwice}]
    BY DEF IInv, Typed
  <2> DEFINE p == PhaseOf(place, answer)
             q == PhaseOf(cpc[c], reply[c])
  <2>3. phaseBar' = [phaseBar EXCEPT ![c] = p]
    <3>1. \A d \in Conn : cpc'[d] = (IF d = c THEN place ELSE cpc[d])
                          /\ reply'[d] = (IF d = c THEN answer ELSE reply[d])
      BY <2>1, <2>2 DEF Stepped, Moved
    <3> QED BY <1>1, <3>1
  <2>4. phaseBar[c] = q
    BY <1>1
  <2>5. p = q \/ p \in Promise!Follows[q]
    BY <2>1 DEF Stepped, InOrder
  <2>6. phaseBar = [phaseBar EXCEPT ![c] = q]
    BY <1>1, <2>4
  <2> HIDE DEF p, q
  <2> QED BY <2>3, <2>4, <2>5, <2>6 DEF Promise!Next, Promise!Step
<1> QED BY <1>2, <1>3, NextInv

(* and it starts as the promise does.                                      *)
LEMMA InitPromise == Init => Promise!Init
<1> SUFFICES ASSUME Init PROVE Promise!Init
  OBVIOUS
<1>1. IInv
  BY InitInv
<1>2. \A c \in Conn : cpc[c] = "none"
  BY DEF Init
<1> QED BY <1>1, <1>2, PhaseFacts DEF PhaseIs, Promise!Init, PhaseOf, Unserved

\* Every variable of socks_server keeps its type, no client gets more than two
\* answers, and the parent never holds more than one connection.
THEOREM SocksTypes == Spec => []TypeOK
BY InitInv, NextInv, InvTypes, PTL DEF Spec

\* A client is served only if some line of socks.conf names its command and
\* covers all four segments of the address the child has, and that address is
\* the one asked for unless the name or the read of the request failed.
THEOREM ServedOnlyByRule == Spec => []ServedByRule
BY InitInv, NextInv, InvRules, PTL DEF Spec

\* Every client gets the answers a SOCKS client may count on, in order.
THEOREM SocksKeepsPromise == Spec => KeepsPromise
BY InitInv, NextInv, PhaseFacts, InitPromise, NextPromise, PTL DEF Spec, KeepsPromise, Promise!Spec

-----------------------------------------------------------------------------
(* The state half of EndSeen: a copy that the parent still has is about to *)
(* be closed, and a child that was not reaped is announced.                *)

ParentGoesOn ==
  ppc = "accept" \/ \E c \in Conn : slave = {c} /\ (ppc = "fork" <=> cpc[c] = "none")
EndsAnnounced == (zombie # {} => signal) /\ ParentGoesOn

\* A child goes from one place to another, and announces its end.
Goes(c) ==
  /\ cpc[c] # "none" /\ \E place \in Place \ {"none"} : Go(c, place)
  /\ UNCHANGED <<ppc, slave>>
  /\ signal' \/ UNCHANGED <<zombie, signal>>

(* Every step of a child is one of these.                                  *)
LEMMA ChildGoes ==
  ASSUME NEW c \in Conn, Child(c) \/ RelayEnds(c) \/ DataConnection(c) \/ TransferDies(c)
  PROVE  Goes(c)
<1>1. \A place : Go(c, place) /\ place \in Place \ {"none"} => \E q \in Place \ {"none"} : Go(c, q)
  OBVIOUS
<1>2. Ends(c) => (\E q \in Place \ {"none"} : Go(c, q)) /\ signal'
  BY <1>1 DEF Ends, Place
<1>3. ASSUME NEW code, NEW place \in {"relay", "ended", "listen", "transfer"}, Answer(c, code, place)
      PROVE  /\ \E q \in Place \ {"none"} : Go(c, q)
             /\ signal' \/ UNCHANGED <<zombie, signal>>
  BY <1>1, <1>2, <1>3 DEF Answer, Place
<1>4. CASE ReadRequest(c)
  <2>1. CASE Ends(c)
    BY <1>2, <1>4, <2>1 DEF ReadRequest, Goes
  <2>2. CASE ~Ends(c)
    <3>1. /\ cpc[c] = "read" /\ UNCHANGED <<ppc, slave, zombie, signal>>
          /\ Go(c, IF request[c].byName /\ pieces[c] = 3 THEN "resolve" ELSE "rules")
      BY <1>4, <2>2 DEF ReadRequest
    <3>2. Go(c, "resolve") \/ Go(c, "rules")
      BY <3>1
    <3> QED BY <1>1, <3>1, <3>2 DEF Goes, Place
  <2> QED BY <2>1, <2>2
<1>5. CASE Resolve(c)
  BY <1>1, <1>2, <1>5 DEF Resolve, Goes, Place
<1>6. CASE Judge(c)
  <2>1. cpc[c] = "rules" /\ UNCHANGED <<ppc, slave>>
    BY <1>6 DEF Judge
  <2>2. \/ Ends(c) \/ Answer(c, 91, "ended")
        \/ (Go(c, "connect") \/ Go(c, "bind")) /\ UNCHANGED <<zombie, signal>>
    BY <1>6 DEF Judge
  <2> QED BY <1>1, <1>2, <1>3, <2>1, <2>2 DEF Goes, Place
<1>7. CASE Connect(c)
  BY <1>3, <1>7 DEF Connect, Goes
<1>8. CASE Bind(c) \/ DataConnection(c)
  BY <1>3, <1>8 DEF Bind, DataConnection, Goes
<1>9. CASE RelayEnds(c) \/ TransferDies(c)
  BY <1>2, <1>9 DEF RelayEnds, TransferDies, Goes
<1> QED BY <1>4, <1>5, <1>6, <1>7, <1>8, <1>9 DEF Child

(* No step hides an end or leaves the parent where it cannot go on.        *)
LEMMA StepAnnounced ==
  ASSUME IInv, EndsAnnounced, [Next]_vars
  PROVE  EndsAnnounced'
<1>1. /\ cpc \in [Conn -> Place]
      /\ \/ ppc = "accept" /\ slave = {}
         \/ ppc \in {"fork", "close"} /\ ParentGoesOn
  BY DEF IInv, Typed, OneCopy, EndsAnnounced, ParentGoesOn
<1>2. ASSUME NEW c \in Conn, Goes(c) PROVE EndsAnnounced'
  <2>1. \A d \in Conn : cpc'[d] = "none" <=> cpc[d] = "none"
    BY <1>1, <1>2 DEF Goes, Go
  <2> QED BY <1>2, <2>1 DEF Goes, EndsAnnounced, ParentGoesOn
<1>3. ASSUME NEW c \in Conn, Accept(c) PROVE EndsAnnounced'
  BY <1>1, <1>3 DEF Accept, EndsAnnounced, ParentGoesOn
<1>4. ASSUME NEW c \in Conn, Fork(c) PROVE EndsAnnounced'
  <2>1. slave = {c} /\ ppc' = "close" /\ slave' = slave /\ cpc'[c] = "read"
    BY <1>1, <1>4 DEF Fork, Go, ParentGoesOn
  <2> QED BY <1>4, <2>1 DEF Fork, EndsAnnounced, ParentGoesOn
<1>5. ASSUME NEW c \in Conn, CloseCopy(c) PROVE EndsAnnounced'
  BY <1>5 DEF CloseCopy, EndsAnnounced, ParentGoesOn
<1>6. CASE Handler
  BY <1>6 DEF Handler, Left, EndsAnnounced, ParentGoesOn
<1>7. ASSUME NEW c \in Conn, Send(c) \/ Close(c) PROVE EndsAnnounced'
  BY <1>7 DEF Send, Close, server, EndsAnnounced, ParentGoesOn
<1>8. CASE UNCHANGED vars
  BY <1>8 DEF vars, EndsAnnounced, ParentGoesOn
<1> QED BY <1>2, <1>3, <1>4, <1>5, <1>6, <1>7, <1>8, ChildGoes DEF Next, Parent

\* As long as a child has ended and was not reaped, a SIGCHLD is pending, and
\* the parent is never where neither its fork() nor its close() can follow: what
\* EndSeen adds is that the handler runs and that fork() succeeds.
THEOREM EndsAreAnnounced == Spec => []EndsAnnounced
<1>1. Init => EndsAnnounced
  BY DEF Init, EndsAnnounced, ParentGoesOn
<1> QED BY <1>1, InitInv, NextInv, StepAnnounced, PTL DEF Spec
=============================================================================
