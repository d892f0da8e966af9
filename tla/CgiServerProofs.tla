-------------------------- MODULE CgiServerProofs --------------------------
(***************************************************************************)
(* The cgi server keeps track of its connections, for any number of them,  *)
(* and gives each one page at most, its own as long as none is taken while *)
(* another waits.                                                          *)
(*                                                                         *)
(* Neither is inductive: a connection must be in one stage of its life at  *)
(* a time (OnePlace), one not yet taken must have left no trace (Sockets), *)
(* and as long as connections come one at a time, what is read and what    *)
(* runs must be that of the one that was taken last (InTurn).              *)
(***************************************************************************)
EXTENDS CgiServer, FiniteSetTheorems, TLAPS

Stage == {"accept", "request", "failed"}
Handler == Stage \X Conn

Entries(q) == {q[i] : i \in 1 .. Len(q)}
Of(e) == e[2]
Single(q) == \A i, j \in 1 .. Len(q) : Of(q[i]) = Of(q[j]) => i = j
Distinct(q) == \A i, j \in 1 .. Len(q) : q[i] = q[j] => i = j

(* Where a connection is: in the backlog, or as a handler in the queue.    *)
Listed(c) == c \in Entries(backlog)
In(k, c) == <<k, c>> \in Entries(queue)
Queued(c) == \E k \in Stage : In(k, c)
Untaken(c) == browser[c] = "new" \/ Listed(c) \/ In("accept", c)
Said(c) == browser[c] \in {"sent", "left"}
Pages(c) == {e \in page[c] : e.what \in {"panel", "console"}}

Entry == [what : Kind \cup {"output"}, of : Conn]
Types ==
  /\ browser \in [Conn -> {"new", "open", "sent", "gone", "left"}]
  /\ wants \in [Conn -> Kind \cup {""}]
  /\ backlog \in Seq(Conn) /\ accepts \in Nat
  /\ reading \in SUBSET Conn /\ queue \in Seq(Handler)
  /\ cur \in Conn \cup {None} /\ data \in Conn \cup {None} /\ web \in Conn \cup {None}
  /\ name \in Kind \cup {""}
  /\ running \in SUBSET Conn /\ shut \in SUBSET Conn /\ up \in BOOLEAN /\ crossed \in BOOLEAN
  /\ page \in [Conn -> SUBSET Entry]

OnePlace ==
  /\ Single(queue) /\ Distinct(backlog)
  /\ \A c \in Conn :
       /\ browser[c] = "new" => ~Listed(c) /\ c \notin reading /\ ~Queued(c)
       /\ Listed(c) => c \notin reading /\ ~Queued(c)
       /\ c \in reading => ~Queued(c)

Sockets ==
  /\ \A c \in Conn : Untaken(c) => c \notin shut /\ c # cur /\ c # web /\ page[c] = {}
  /\ cur # None => cur # web /\ Pages(cur) = {}
  /\ cur \notin shut /\ web \notin shut
  /\ running # {} => web # None
  /\ \A c \in Conn : In("request", c) => Said(c) /\ data # None
  /\ \A c \in Conn : \A e, f \in Pages(c) : e = f

InTurn ==
  /\ \A c \in Conn : c \in reading => c = cur
  /\ \A c \in Conn : In("request", c) => c = cur /\ data = c
  /\ \A c \in Conn : c \in reading \/ In("request", c) => name = ""
  /\ \A c \in Conn : page[c] # {} => Said(c)
  /\ web # None => Said(web) /\ wants[web] = "console"
  /\ \A r \in running : r = web \/ r \in shut

Own(c, e) ==
  \/ e = [what |-> wants[c], of |-> c]
  \/ /\ e.what = "output" /\ wants[c] = "console"
     /\ e.of = c \/ e.of \in shut
OwnPages == \A c \in Conn : \A e \in page[c] : Own(c, e)

(* Accepting goes on from the end of an accept and of a read: there are    *)
(* as many accepts, under way or done, as connections have been through,   *)
(* and one more.                                                           *)
Arriving == {c \in Conn : In("accept", c)}
Spent == {c \in Conn : browser[c] # "new" /\ ~Listed(c) /\ c \notin reading /\ ~Queued(c)}
Counted == accepts + Cardinality(Arriving) <= 1 + Cardinality(Spent)

IInv == Types /\ OnePlace /\ Sockets /\ Counted /\ (crossed \/ (InTurn /\ OwnPages))

-----------------------------------------------------------------------------
(* Sequences *)

(* The queue without its first handler.                                    *)
LEMMA TailEntries ==
  ASSUME NEW q \in Seq(Handler), q # <<>>, Single(q)
  PROVE  /\ Tail(q) \in Seq(Handler) /\ Single(Tail(q))
         /\ Head(q) \in Handler /\ Head(q) \in Entries(q)
         /\ \A e \in Handler : e \in Entries(Tail(q)) <=> e \in Entries(q) /\ Of(e) # Of(Head(q))
<1> HIDE DEF Handler, Of
<1>1. /\ Tail(q) \in Seq(Handler) /\ Len(Tail(q)) = Len(q) - 1 /\ Len(q) \in Nat \ {0}
      /\ \A i \in 1 .. Len(q) - 1 : Tail(q)[i] = q[i + 1]
      /\ Head(q) = q[1] /\ Head(q) \in Handler
  OBVIOUS
<1>2. Single(Tail(q))
  BY <1>1 DEF Single
<1>3. Head(q) \in Entries(q)
  BY <1>1 DEF Entries
<1>4. ASSUME NEW e \in Handler, e \in Entries(Tail(q))
      PROVE  e \in Entries(q) /\ Of(e) # Of(Head(q))
  <2>1. PICK i \in 1 .. Len(q) - 1 : e = q[i + 1]
    BY <1>1, <1>4 DEF Entries
  <2> QED BY <1>1, <2>1 DEF Entries, Single
<1>5. ASSUME NEW e \in Handler, e \in Entries(q), Of(e) # Of(Head(q))
      PROVE  e \in Entries(Tail(q))
  <2>1. PICK i \in 1 .. Len(q) : e = q[i]
    BY <1>5 DEF Entries
  <2>2. i - 1 \in 1 .. Len(q) - 1 /\ (i - 1) + 1 = i
    BY <1>1, <1>5, <2>1
  <2> QED BY <1>1, <2>1, <2>2 DEF Entries
<1> QED BY <1>1, <1>2, <1>3, <1>4, <1>5

(* The queue with one handler more.                                        *)
LEMMA AppendEntries ==
  ASSUME NEW q \in Seq(Handler), NEW h \in Handler, Single(q),
         \A e \in Entries(q) : Of(e) # Of(h)
  PROVE  /\ Append(q, h) \in Seq(Handler) /\ Single(Append(q, h))
         /\ Entries(Append(q, h)) = Entries(q) \cup {h}
<1> HIDE DEF Handler, Of
<1>1. /\ Append(q, h) \in Seq(Handler) /\ Len(Append(q, h)) = Len(q) + 1 /\ Len(q) \in Nat
      /\ \A i \in 1 .. Len(q) : Append(q, h)[i] = q[i]
      /\ Append(q, h)[Len(q) + 1] = h
  OBVIOUS
<1>2. Single(Append(q, h))
  BY <1>1 DEF Single, Entries
<1>3. Entries(Append(q, h)) = Entries(q) \cup {h}
  <2>1. ASSUME NEW e, e \in Entries(Append(q, h)) PROVE e \in Entries(q) \cup {h}
    BY <1>1, <2>1 DEF Entries
  <2>2. ASSUME NEW e, e \in Entries(q) PROVE e \in Entries(Append(q, h))
    <3>1. PICK i \in 1 .. Len(q) : e = q[i]
      BY <2>2 DEF Entries
    <3>2. i \in 1 .. Len(q) + 1
      BY <1>1
    <3> QED BY <1>1, <3>1, <3>2 DEF Entries
  <2>3. h \in Entries(Append(q, h))
    BY <1>1 DEF Entries
  <2> QED BY <2>1, <2>2, <2>3
<1> QED BY <1>1, <1>2, <1>3

(* The same of the backlog.                                                *)
LEMMA TailListed ==
  ASSUME NEW q \in Seq(Conn), q # <<>>, Distinct(q)
  PROVE  /\ Tail(q) \in Seq(Conn) /\ Distinct(Tail(q))
         /\ Head(q) \in Conn /\ Head(q) \in Entries(q)
         /\ Entries(Tail(q)) = Entries(q) \ {Head(q)}
<1>1. /\ Tail(q) \in Seq(Conn) /\ Len(Tail(q)) = Len(q) - 1 /\ Len(q) \in Nat \ {0}
      /\ \A i \in 1 .. Len(q) - 1 : Tail(q)[i] = q[i + 1]
      /\ Head(q) = q[1] /\ Head(q) \in Conn
  OBVIOUS
<1>2. Distinct(Tail(q))
  BY <1>1 DEF Distinct
<1>3. Head(q) \in Entries(q)
  BY <1>1 DEF Entries
<1>4. ASSUME NEW e, e \in Entries(Tail(q)) PROVE e \in Entries(q) /\ e # Head(q)
  <2>1. PICK i \in 1 .. Len(q) - 1 : e = q[i + 1]
    BY <1>1, <1>4 DEF Entries
  <2> QED BY <1>1, <2>1 DEF Entries, Distinct
<1>5. ASSUME NEW e, e \in Entries(q), e # Head(q) PROVE e \in Entries(Tail(q))
  <2>1. PICK i \in 1 .. Len(q) : e = q[i]
    BY <1>5 DEF Entries
  <2>2. i - 1 \in 1 .. Len(q) - 1 /\ (i - 1) + 1 = i
    BY <1>1, <1>5, <2>1
  <2> QED BY <1>1, <2>1, <2>2 DEF Entries
<1> QED BY <1>1, <1>2, <1>3, <1>4, <1>5

(* A connection that comes to the backlog.                                 *)
LEMMA AppendListed ==
  ASSUME NEW q \in Seq(Conn), NEW c \in Conn, Distinct(q), c \notin Entries(q)
  PROVE  /\ Append(q, c) \in Seq(Conn) /\ Distinct(Append(q, c))
         /\ Entries(Append(q, c)) = Entries(q) \cup {c}
<1>1. /\ Append(q, c) \in Seq(Conn) /\ Len(Append(q, c)) = Len(q) + 1 /\ Len(q) \in Nat
      /\ \A i \in 1 .. Len(q) : Append(q, c)[i] = q[i]
      /\ Append(q, c)[Len(q) + 1] = c
  OBVIOUS
<1>2. Distinct(Append(q, c))
  BY <1>1 DEF Distinct, Entries
<1>3. Entries(Append(q, c)) = Entries(q) \cup {c}
  <2>1. ASSUME NEW e, e \in Entries(Append(q, c)) PROVE e \in Entries(q) \cup {c}
    BY <1>1, <2>1 DEF Entries
  <2>2. ASSUME NEW e, e \in Entries(q) PROVE e \in Entries(Append(q, c))
    <3>1. PICK i \in 1 .. Len(q) : e = q[i]
      BY <2>2 DEF Entries
    <3>2. i \in 1 .. Len(q) + 1
      BY <1>1
    <3> QED BY <1>1, <3>1, <3>2 DEF Entries
  <2>3. c \in Entries(Append(q, c))
    BY <1>1 DEF Entries
  <2> QED BY <2>1, <2>2, <2>3
<1> QED BY <1>1, <1>2, <1>3

-----------------------------------------------------------------------------
(* The queue *)

(* A handler is a stage and the connection it is for.                      *)
LEMMA Handlers ==
  /\ \A k \in Stage, c \in Conn : <<k, c>> \in Handler /\ Of(<<k, c>>) = c
  /\ \A h \in Handler : h = <<h[1], h[2]>> /\ h[1] \in Stage /\ h[2] \in Conn /\ Of(h) = h[2]
  BY DEF Handler, Of

(* The first handler.                                                      *)
LEMMA First ==
  ASSUME Types, OnePlace, queue # <<>>
  PROVE  /\ Head(queue)[1] \in Stage /\ Head(queue)[2] \in Conn
         /\ In(Head(queue)[1], Head(queue)[2])
<1>1. Head(queue) \in Handler /\ Head(queue) \in Entries(queue)
  BY TailEntries DEF Types, OnePlace
<1> HIDE DEF Handler
<1>2. /\ Head(queue) = <<Head(queue)[1], Head(queue)[2]>>
      /\ Head(queue)[1] \in Stage /\ Head(queue)[2] \in Conn
  BY <1>1, Handlers
<1> QED BY <1>1, <1>2 DEF In

(* A connection has one handler at a time.                                 *)
LEMMA OneHandler ==
  ASSUME Types, OnePlace, NEW c \in Conn, NEW j \in Stage, NEW k \in Stage, In(j, c), In(k, c)
  PROVE  j = k
<1>1. PICK m \in 1 .. Len(queue) : queue[m] = <<j, c>>
  BY DEF In, Entries
<1>2. PICK n \in 1 .. Len(queue) : queue[n] = <<k, c>>
  BY DEF In, Entries
<1>3. Of(queue[m]) = c /\ Of(queue[n]) = c
  BY <1>1, <1>2 DEF Of
<1>4. m = n
  BY <1>3 DEF OnePlace, Single
<1> QED BY <1>1, <1>2, <1>4

(* The queue when the first handler has run.                               *)
LEMMA Pop ==
  ASSUME Types, OnePlace, queue # <<>>, queue' = Tail(queue)
  PROVE  /\ queue' \in Seq(Handler) /\ Single(queue')
         /\ \A j \in Stage, d \in Conn : In(j, d)' <=> In(j, d) /\ d # Head(queue)[2]
<1>1. /\ Tail(queue) \in Seq(Handler) /\ Single(Tail(queue)) /\ Head(queue) \in Handler
      /\ \A e \in Handler : e \in Entries(Tail(queue)) <=>
           e \in Entries(queue) /\ Of(e) # Of(Head(queue))
  BY TailEntries DEF Types, OnePlace
<1> HIDE DEF Handler
<1>2. Of(Head(queue)) = Head(queue)[2]
  BY <1>1, Handlers
<1>3. \A j \in Stage, d \in Conn :
        <<j, d>> \in Entries(Tail(queue)) <=> <<j, d>> \in Entries(queue) /\ d # Head(queue)[2]
  BY <1>1, <1>2, Handlers
<1> QED BY <1>1, <1>3 DEF In

(* A handler that becomes ready.                                           *)
LEMMA Arrive ==
  ASSUME Types, OnePlace, NEW k \in Stage, NEW c \in Conn, ~Queued(c),
         queue' = Append(queue, <<k, c>>)
  PROVE  /\ queue' \in Seq(Handler) /\ Single(queue')
         /\ \A j \in Stage, d \in Conn : In(j, d)' <=> In(j, d) \/ (j = k /\ d = c)
<1> HIDE DEF Handler
<1>1. \A e \in Entries(queue) : Of(e) # c
  <2> SUFFICES ASSUME NEW e \in Entries(queue), Of(e) = c PROVE FALSE
    OBVIOUS
  <2>1. e \in Handler
    <3>1. queue \in Seq(Handler)
      BY DEF Types
    <3> QED BY <3>1 DEF Entries
  <2>2. e = <<e[1], c>> /\ e[1] \in Stage
    BY <2>1, Handlers
  <2> QED BY <2>2 DEF Queued, In
<1>2. /\ Append(queue, <<k, c>>) \in Seq(Handler) /\ Single(Append(queue, <<k, c>>))
      /\ Entries(Append(queue, <<k, c>>)) = Entries(queue) \cup {<<k, c>>}
  BY <1>1, Handlers, AppendEntries DEF Types, OnePlace
<1>3. \A j \in Stage, d \in Conn :
        <<j, d>> \in Entries(Append(queue, <<k, c>>)) <=>
          <<j, d>> \in Entries(queue) \/ (j = k /\ d = c)
  BY <1>2
<1> QED BY <1>2, <1>3 DEF In

(* The queue when the first handler has closed the connection x: its read  *)
(* is aborted.                                                             *)
LEMMA PopClosing ==
  ASSUME Types, OnePlace, queue # <<>>, NEW x,
         queue' = IF x \in reading THEN Append(Tail(queue), <<"failed", x>>) ELSE Tail(queue)
  PROVE  /\ queue' \in Seq(Handler) /\ Single(queue')
         /\ \A j \in Stage, d \in Conn :
              In(j, d)' <=> (In(j, d) /\ d # Head(queue)[2])
                            \/ (x \in reading /\ j = "failed" /\ d = x)
<1>1. CASE x \notin reading
  BY <1>1, Pop
<1>2. CASE x \in reading
  <2> DEFINE q == Tail(queue)
             h == <<"failed", x>>
  <2>1. /\ q \in Seq(Handler) /\ Single(q) /\ Head(queue) \in Handler
        /\ \A e \in Handler : e \in Entries(q) <=>
             e \in Entries(queue) /\ Of(e) # Of(Head(queue))
    BY TailEntries DEF Types, OnePlace
  <2> HIDE DEF Handler, q
  <2>2. Of(Head(queue)) = Head(queue)[2] /\ x \in Conn /\ "failed" \in Stage
    BY <1>2, <2>1, Handlers DEF Types, Stage
  <2>3. h \in Handler /\ Of(h) = x
    BY <2>2, Handlers
  <2>4. \A e \in Entries(q) : Of(e) # x
    <3> SUFFICES ASSUME NEW e \in Entries(q), Of(e) = x PROVE FALSE
      OBVIOUS
    <3>1. e \in Handler
      BY <2>1 DEF Entries
    <3>2. e = <<e[1], x>> /\ e[1] \in Stage /\ e \in Entries(queue)
      BY <2>1, <3>1, Handlers
    <3> QED BY <1>2, <2>2, <3>2 DEF OnePlace, Queued, In
  <2> HIDE DEF h
  <2>5. /\ Append(q, h) \in Seq(Handler) /\ Single(Append(q, h))
        /\ Entries(Append(q, h)) = Entries(q) \cup {h}
    BY <2>1, <2>3, <2>4, AppendEntries
  <2>6. queue' = Append(q, h)
    BY <1>2 DEF q, h
  <2>7. \A j \in Stage, d \in Conn : <<j, d>> \in Entries(q) <=>
          <<j, d>> \in Entries(queue) /\ d # Head(queue)[2]
    BY <2>1, <2>2, Handlers
  <2>8. \A j \in Stage, d \in Conn : <<j, d>> = h <=> j = "failed" /\ d = x
    BY DEF h
  <2>9. \A j \in Stage, d \in Conn : In(j, d)' <=> <<j, d>> \in Entries(q) \/ <<j, d>> = h
    BY <2>5, <2>6 DEF In
  <2> QED BY <1>2, <2>5, <2>6, <2>7, <2>8, <2>9 DEF In
<1> QED BY <1>1, <1>2

-----------------------------------------------------------------------------
(* Steps *)

(* The books of the accepts, for each way a step can change them.          *)
LEMMA CountStep ==
  ASSUME Types, Types', Counted,
         \/ accepts' = accepts /\ Arriving' = Arriving /\ Spent \subseteq Spent'
         \/ /\ accepts' = accepts - 1 /\ Spent \subseteq Spent'
            /\ \E h \in Conn : Arriving' = Arriving \cup {h}
         \/ /\ accepts' = accepts + 1 /\ Spent \subseteq Spent'
            /\ \E h \in Arriving : Arriving' = Arriving \ {h}
         \/ /\ accepts' = accepts + 1 /\ Arriving' = Arriving
            /\ \E h \in Spent' : Spent \subseteq Spent' \ {h}
  PROVE  Counted'
<1>1. /\ Arriving \subseteq Conn /\ Arriving' \subseteq Conn
      /\ Spent \subseteq Conn /\ Spent' \subseteq Conn
  BY DEF Arriving, Spent
<1>2. /\ IsFiniteSet(Arriving) /\ IsFiniteSet(Arriving')
      /\ IsFiniteSet(Spent) /\ IsFiniteSet(Spent')
  BY <1>1, FS_Subset, ConnAssumption
<1>3. /\ Cardinality(Arriving) \in Nat /\ Cardinality(Arriving') \in Nat
      /\ Cardinality(Spent) \in Nat /\ Cardinality(Spent') \in Nat
  BY <1>2, FS_CardinalityType
<1>4. Spent \subseteq Spent' => Cardinality(Spent) <= Cardinality(Spent')
  BY <1>2, FS_Subset
<1>5. \A h \in Conn : Cardinality(Arriving \cup {h}) <= Cardinality(Arriving) + 1
  <2> TAKE h \in Conn
  <2>1. Cardinality(Arriving \cup {h}) \in {Cardinality(Arriving), Cardinality(Arriving) + 1}
    BY <1>2, FS_AddElement
  <2> QED BY <1>3, <2>1
<1>6. \A h \in Arriving : Cardinality(Arriving \ {h}) = Cardinality(Arriving) - 1
  BY <1>2, FS_RemoveElement
<1>7. \A h \in Spent' : Cardinality(Spent' \ {h}) = Cardinality(Spent') - 1
  BY <1>2, FS_RemoveElement
<1>8. \A h \in Spent' : Spent \subseteq Spent' \ {h} =>
        Cardinality(Spent) <= Cardinality(Spent') - 1
  <2> TAKE h \in Spent'
  <2>1. IsFiniteSet(Spent' \ {h})
    BY <1>2, FS_RemoveElement
  <2> QED BY <1>7, <2>1, FS_Subset
<1>9. accepts \in Nat /\ accepts' \in Nat
  BY DEF Types
<1> HIDE DEF Arriving, Spent
<1> QED BY <1>3, <1>4, <1>5, <1>6, <1>8, <1>9 DEF Counted

(* The browsers.  A new connection is listed; a request that is sent       *)
(* belongs to a connection with nothing on its page.                       *)
LEMMA ConnectKeeps ==
  ASSUME IInv, NEW c \in Conn, Connect(c)
  PROVE  IInv'
<1>1. /\ browser[c] = "new" /\ browser' = [browser EXCEPT ![c] = "open"]
      /\ backlog' = Append(backlog, c)
      /\ UNCHANGED <<wants, accepts, reading, queue, data, cur, name, web, running, shut, page, up, crossed>>
  BY DEF Connect, Becomes, own
<1>2. /\ backlog' \in Seq(Conn) /\ Distinct(backlog')
      /\ \A d \in Conn : Listed(d)' <=> Listed(d) \/ d = c
  <2>1. ~Listed(c) /\ backlog \in Seq(Conn) /\ Distinct(backlog)
    BY <1>1 DEF IInv, Types, OnePlace
  <2>2. /\ Append(backlog, c) \in Seq(Conn) /\ Distinct(Append(backlog, c))
        /\ Entries(Append(backlog, c)) = Entries(backlog) \cup {c}
    BY <2>1, AppendListed DEF Listed
  <2> QED BY <1>1, <2>2 DEF Listed
<1>3. \A j \in Stage, d \in Conn : In(j, d)' <=> In(j, d)
  BY <1>1 DEF In
<1>4. \A d \in Conn : d # c => browser'[d] = browser[d]
  BY <1>1 DEF IInv, Types
<1>5. browser'[c] = "open"
  BY <1>1 DEF IInv, Types
<1>6. Types'
  BY <1>1, <1>2 DEF IInv, Types
<1>7. OnePlace'
  BY <1>1, <1>2, <1>3, <1>4, <1>5 DEF IInv, OnePlace, Queued
<1>8. \A d \in Conn : Untaken(d)' => Untaken(d)
  BY <1>1, <1>2, <1>3, <1>4, <1>5 DEF Untaken, Stage
<1>9. \A d \in Conn : Said(d)' <=> Said(d)
  BY <1>1, <1>4, <1>5 DEF Said
<1>10. Sockets'
  BY <1>1, <1>3, <1>8, <1>9 DEF IInv, Sockets, Pages, Stage
<1>11. Counted'
  <2>1. Arriving' = Arriving
    BY <1>3 DEF Arriving, Stage
  <2>2. Spent \subseteq Spent'
    BY <1>1, <1>2, <1>3, <1>4 DEF Spent, Queued
  <2> QED BY <1>1, <1>6, <2>1, <2>2, CountStep DEF IInv
<1>12. ~crossed => (InTurn /\ OwnPages)'
  <2> SUFFICES ASSUME ~crossed PROVE (InTurn /\ OwnPages)'
    OBVIOUS
  <2>1. InTurn'
    BY <1>1, <1>3, <1>9 DEF IInv, Types, InTurn, Stage, Said
  <2>2. OwnPages'
    BY <1>1 DEF IInv, OwnPages, Own
  <2> QED BY <2>1, <2>2
<1> QED BY <1>1, <1>6, <1>7, <1>10, <1>11, <1>12 DEF IInv

(* A browser sends its request,                                            *)
LEMMA SendKeeps ==
  ASSUME IInv, NEW c \in Conn, Send(c)
  PROVE  IInv'
<1>1. PICK k \in Kind : wants' = [wants EXCEPT ![c] = k]
  BY DEF Send
<1>2. /\ browser[c] = "open" /\ browser' = [browser EXCEPT ![c] = "sent"]
      /\ UNCHANGED <<backlog, accepts, reading, queue, data, cur, name, web, running, shut, page, up, crossed>>
  BY DEF Send, Becomes, own
<1>3. /\ \A j \in Stage, d \in Conn : In(j, d)' <=> In(j, d)
      /\ \A d \in Conn : Listed(d)' <=> Listed(d)
  BY <1>2 DEF In, Listed
<1>4. \A d \in Conn : d # c => browser'[d] = browser[d] /\ wants'[d] = wants[d]
  BY <1>1, <1>2 DEF IInv, Types
<1>5. browser'[c] = "sent" /\ ~Said(c)
  BY <1>2 DEF IInv, Types, Said
<1>6. Types'
  BY <1>1, <1>2 DEF IInv, Types
<1>7. OnePlace'
  BY <1>2, <1>3, <1>4, <1>5 DEF IInv, OnePlace, Queued
<1>8. \A d \in Conn : Untaken(d)' => Untaken(d)
  BY <1>2, <1>3, <1>4, <1>5 DEF Untaken, Stage
<1>9. \A d \in Conn : (Said(d)' <=> Said(d) \/ d = c)
  BY <1>2, <1>4, <1>5 DEF Said
<1>10. Sockets'
  BY <1>2, <1>3, <1>8, <1>9 DEF IInv, Sockets, Pages, Stage
<1>11. Counted'
  <2>1. Arriving' = Arriving
    BY <1>3 DEF Arriving, Stage
  <2>2. Spent \subseteq Spent'
    BY <1>2, <1>3, <1>4, <1>5 DEF Spent, Queued
  <2> QED BY <1>2, <1>6, <2>1, <2>2, CountStep DEF IInv
<1>12. ~crossed => (InTurn /\ OwnPages)'
  <2> SUFFICES ASSUME ~crossed PROVE (InTurn /\ OwnPages)'
    OBVIOUS
  <2>1. page[c] = {} /\ web # c
    BY <1>5, ConnAssumption DEF IInv, InTurn
  <2>2. web # None => Said(web)' /\ wants'[web] = "console"
    BY <1>2, <1>4, <1>9, <2>1 DEF IInv, InTurn, Types
  <2>3. InTurn'
    BY <1>2, <1>3, <1>9, <2>2 DEF IInv, InTurn, Stage
  <2>4. OwnPages'
    BY <1>2, <1>4, <2>1 DEF IInv, OwnPages, Own
  <2> QED BY <2>3, <2>4
<1> QED BY <1>2, <1>6, <1>7, <1>10, <1>11, <1>12 DEF IInv

(* or leaves, whatever the server does.                                    *)
LEMMA LeaveKeeps ==
  ASSUME IInv, NEW c \in Conn, Leave(c)
  PROVE  IInv'
<1>1. PICK b \in {"gone", "left"} :
        /\ (browser[c] = "open" /\ b = "gone") \/ (browser[c] = "sent" /\ b = "left")
        /\ browser' = [browser EXCEPT ![c] = b]
  BY DEF Leave, Becomes
<1>2. UNCHANGED <<wants, backlog, accepts, reading, queue, data, cur, name, web, running, shut, page, up, crossed>>
  BY DEF Leave, Becomes, own
<1>3. /\ \A j \in Stage, d \in Conn : In(j, d)' <=> In(j, d)
      /\ \A d \in Conn : Listed(d)' <=> Listed(d)
  BY <1>2 DEF In, Listed
<1>4. /\ \A d \in Conn : d # c => browser'[d] = browser[d]
      /\ browser'[c] = b /\ browser[c] # "new"
  BY <1>1 DEF IInv, Types
<1>5. \A d \in Conn : Said(d)' <=> Said(d)
  BY <1>1, <1>4 DEF Said
<1>6. Types'
  BY <1>1, <1>2 DEF IInv, Types
<1>7. OnePlace'
  BY <1>2, <1>3, <1>4 DEF IInv, OnePlace, Queued
<1>8. \A d \in Conn : Untaken(d)' => Untaken(d)
  BY <1>1, <1>2, <1>3, <1>4 DEF Untaken, Stage
<1>9. Sockets'
  BY <1>2, <1>3, <1>5, <1>8 DEF IInv, Sockets, Pages, Stage
<1>10. Counted'
  <2>1. Arriving' = Arriving
    BY <1>3 DEF Arriving, Stage
  <2>2. Spent \subseteq Spent'
    BY <1>1, <1>2, <1>3, <1>4 DEF Spent, Queued
  <2> QED BY <1>2, <1>6, <2>1, <2>2, CountStep DEF IInv
<1>11. ~crossed => (InTurn /\ OwnPages)'
  <2> SUFFICES ASSUME ~crossed PROVE (InTurn /\ OwnPages)'
    OBVIOUS
  <2>1. web # None => Said(web)'
    BY <1>2, <1>5 DEF IInv, InTurn, Types, Said
  <2>2. InTurn'
    BY <1>2, <1>3, <1>5, <2>1 DEF IInv, InTurn, Stage
  <2>3. OwnPages'
    BY <1>2 DEF IInv, OwnPages, Own
  <2> QED BY <2>2, <2>3
<1> QED BY <1>2, <1>6, <1>7, <1>9, <1>10, <1>11 DEF IInv

(* Completions.                                                            *)
LEMMA AcceptDoneKeeps ==
  ASSUME IInv, AcceptDone
  PROVE  IInv'
<1> DEFINE h == Head(backlog)
<1>1. /\ accepts > 0 /\ backlog # <<>> /\ accepts' = accepts - 1
      /\ queue' = Append(queue, <<"accept", h>>) /\ backlog' = Tail(backlog)
      /\ UNCHANGED <<browser, wants, reading, data, cur, name, web, running, shut, page, up, crossed>>
  BY DEF AcceptDone, clients, own
<1>2. /\ backlog' \in Seq(Conn) /\ Distinct(backlog') /\ h \in Conn /\ Listed(h)
      /\ \A d \in Conn : Listed(d)' <=> Listed(d) /\ d # h
  <2>1. backlog \in Seq(Conn) /\ Distinct(backlog)
    BY DEF IInv, Types, OnePlace
  <2>2. /\ Tail(backlog) \in Seq(Conn) /\ Distinct(Tail(backlog)) /\ h \in Conn
        /\ h \in Entries(backlog) /\ Entries(Tail(backlog)) = Entries(backlog) \ {h}
    BY <1>1, <2>1, TailListed
  <2> QED BY <1>1, <2>2 DEF Listed
<1> HIDE DEF h
<1>3. h \notin reading /\ ~Queued(h) /\ browser[h] # "new"
  BY <1>2 DEF IInv, OnePlace
<1>4. /\ queue' \in Seq(Handler) /\ Single(queue')
      /\ \A j \in Stage, d \in Conn : In(j, d)' <=> In(j, d) \/ (j = "accept" /\ d = h)
  BY <1>1, <1>2, <1>3, Arrive DEF IInv, Stage
<1>5. Types'
  <2>1. accepts \in Nat
    BY DEF IInv, Types
  <2>2. accepts' \in Nat
    BY <1>1, <2>1
  <2> QED BY <1>1, <1>2, <1>4, <2>2 DEF IInv, Types
<1>6. OnePlace'
  BY <1>1, <1>2, <1>3, <1>4 DEF IInv, OnePlace, Queued
<1>7. \A d \in Conn : Untaken(d)' => Untaken(d)
  BY <1>1, <1>2, <1>4 DEF Untaken, Stage
<1>8. \A d \in Conn : In("request", d)' <=> In("request", d)
  BY <1>4 DEF Stage
<1>9. Sockets'
  BY <1>1, <1>7, <1>8 DEF IInv, Sockets, Pages, Said
<1>10. Counted'
  <2>1. Arriving' = Arriving \cup {h}
    BY <1>2, <1>4 DEF Arriving, Stage
  <2>2. Spent \subseteq Spent'
    BY <1>1, <1>2, <1>4 DEF Spent, Queued
  <2> QED BY <1>1, <1>2, <1>5, <2>1, <2>2, CountStep DEF IInv
<1>11. ~crossed => (InTurn /\ OwnPages)'
  BY <1>1, <1>8 DEF IInv, InTurn, OwnPages, Own, Said
<1> QED BY <1>1, <1>5, <1>6, <1>9, <1>10, <1>11 DEF IInv

(* A read that is done leaves the server with the handler of a request, or *)
(* of a failure.                                                           *)
LEMMA ReadDoneKeeps ==
  ASSUME IInv, NEW c \in Conn, ReadDone(c)
  PROVE  IInv'
<1>1. PICK k \in {"request", "failed"} :
        /\ queue' = Append(queue, <<k, c>>)
        /\ k = "request" => Said(c) /\ data' = c
        /\ k = "failed" => data' = data
  BY DEF ReadDone, Said
<1>2. /\ c \in reading /\ reading' = reading \ {c}
      /\ UNCHANGED <<browser, wants, backlog, accepts, cur, name, web, running, shut, page, up, crossed>>
  BY DEF ReadDone, clients, own
<1>3. ~Queued(c) /\ browser[c] # "new" /\ ~Listed(c)
  BY <1>2 DEF IInv, OnePlace
<1>4. /\ queue' \in Seq(Handler) /\ Single(queue')
      /\ \A j \in Stage, d \in Conn : In(j, d)' <=> In(j, d) \/ (j = k /\ d = c)
  BY <1>1, <1>3, Arrive DEF IInv, Stage
<1>5. \A d \in Conn : Listed(d)' <=> Listed(d)
  BY <1>2 DEF Listed
<1>6. Types'
  BY <1>1, <1>2, <1>4 DEF IInv, Types
<1>7. OnePlace'
  BY <1>1, <1>2, <1>3, <1>4, <1>5 DEF IInv, OnePlace, Queued
<1>8. \A d \in Conn : In("accept", d)' <=> In("accept", d)
  BY <1>1, <1>4 DEF Stage
<1>9. \A d \in Conn : Untaken(d)' => Untaken(d)
  BY <1>2, <1>5, <1>8 DEF Untaken
<1>10. \A d \in Conn : In("request", d)' <=> In("request", d) \/ (k = "request" /\ d = c)
  BY <1>4 DEF Stage
<1>11. Sockets'
  <2>1. \A d \in Conn : In("request", d)' => Said(d)' /\ data' # None
    BY <1>1, <1>2, <1>10, ConnAssumption DEF IInv, Sockets, Said
  <2> QED BY <1>2, <1>9, <2>1 DEF IInv, Sockets, Pages
<1>12. Counted'
  <2>1. Arriving' = Arriving
    BY <1>8 DEF Arriving
  <2>2. Spent \subseteq Spent'
    BY <1>2, <1>4, <1>5 DEF Spent, Queued
  <2> QED BY <1>2, <1>6, <2>1, <2>2, CountStep DEF IInv
<1>13. ~crossed => (InTurn /\ OwnPages)'
  <2> SUFFICES ASSUME ~crossed PROVE (InTurn /\ OwnPages)'
    OBVIOUS
  <2>1. InTurn /\ c = cur
    BY <1>2 DEF IInv, InTurn
  <2>2. \A d \in Conn : ~In("request", d)
    BY <1>3, <2>1 DEF InTurn, Queued, Stage
  <2>3. \A d \in Conn : In("request", d)' => d = cur /\ data' = d
    BY <1>1, <1>10, <2>1, <2>2
  <2>4. name = ""
    BY <1>2, <2>1 DEF InTurn
  <2>5. InTurn'
    BY <1>2, <2>1, <2>3, <2>4 DEF InTurn, Said
  <2>6. OwnPages'
    BY <1>2 DEF IInv, OwnPages, Own
  <2> QED BY <2>5, <2>6
<1> QED BY <1>2, <1>6, <1>7, <1>11, <1>12, <1>13 DEF IInv

(* A handler that closes a connection moves its read to the queue.         *)
LEMMA ClosingPlaces ==
  ASSUME IInv, queue # <<>>, NEW x, UNCHANGED <<browser, backlog>>,
         queue' = IF x \in reading THEN Append(Tail(queue), <<"failed", x>>) ELSE Tail(queue),
         reading' = reading \ {x}
  PROVE  /\ queue' \in Seq(Handler) /\ OnePlace'
         /\ \A d \in Conn : In("request", d)' <=> In("request", d) /\ d # Head(queue)[2]
         /\ \A d \in Conn : In("accept", d)' <=> In("accept", d) /\ d # Head(queue)[2]
         /\ Spent \subseteq Spent' \ {Head(queue)[2]} /\ Head(queue)[2] \in Spent'
<1> DEFINE h == Head(queue)[2]
<1>1. /\ queue' \in Seq(Handler) /\ Single(queue')
      /\ \A j \in Stage, d \in Conn :
           In(j, d)' <=> (In(j, d) /\ d # h) \/ (x \in reading /\ j = "failed" /\ d = x)
  BY PopClosing DEF IInv
<1>2. Head(queue)[1] \in Stage /\ h \in Conn /\ In(Head(queue)[1], h)
  BY First DEF IInv
<1> HIDE DEF h
<1>3. Queued(h) /\ h \notin reading /\ ~Listed(h) /\ browser[h] # "new"
  BY <1>2 DEF IInv, OnePlace, Queued
<1>4. \A d \in Conn : Queued(d)' => (Queued(d) /\ d # h) \/ (d \in reading /\ d = x)
  BY <1>1 DEF Queued
<1>5. \A d \in Conn : Listed(d)' <=> Listed(d)
  BY DEF Listed
<1>6. OnePlace'
  <2>1. Distinct(backlog')
    BY DEF IInv, OnePlace
  <2>2. \A d \in Conn :
          /\ browser'[d] = "new" => ~Listed(d)' /\ d \notin reading' /\ ~Queued(d)'
          /\ Listed(d)' => d \notin reading' /\ ~Queued(d)'
          /\ d \in reading' => ~Queued(d)'
    BY <1>4, <1>5 DEF IInv, OnePlace
  <2> QED BY <1>1, <2>1, <2>2 DEF OnePlace
<1>7. Spent \subseteq Spent' \ {h} /\ h \in Spent'
  BY <1>2, <1>3, <1>4, <1>5 DEF Spent
<1>8. \A d \in Conn :
        /\ In("request", d)' <=> In("request", d) /\ d # h
        /\ In("accept", d)' <=> In("accept", d) /\ d # h
  BY <1>1 DEF Stage
<1> QED BY <1>1, <1>6, <1>7, <1>8 DEF h

-----------------------------------------------------------------------------
(* Handlers *)

(* A connection is taken: it has left no trace, and whoever was in _socket *)
(* is closed.                                                              *)
LEMMA AcceptedKeeps ==
  ASSUME IInv, queue # <<>>, Accepted, UNCHANGED <<clients, backlog>>
  PROVE  IInv'
<1> DEFINE h == Head(queue)[2]
<1>1. /\ Head(queue)[1] = "accept"
      /\ shut' = shut \cup ({cur} \ {None})
      /\ queue' = IF cur \in reading THEN Append(Tail(queue), <<"failed", cur>>) ELSE Tail(queue)
      /\ cur' = h /\ name' = "" /\ reading' = (reading \ {cur}) \cup {h}
      /\ crossed' = (crossed \/ Waits(cur)) /\ accepts' = accepts + 1
      /\ UNCHANGED <<browser, wants, backlog, data, web, running, page, up>>
  BY DEF Accepted, Again, clients
<1>2. /\ queue' \in Seq(Handler) /\ Single(queue')
      /\ \A j \in Stage, d \in Conn :
           In(j, d)' <=> (In(j, d) /\ d # h) \/ (cur \in reading /\ j = "failed" /\ d = cur)
  BY <1>1, PopClosing DEF IInv
<1>3. h \in Conn /\ In("accept", h)
  BY <1>1, First DEF IInv
<1>4. ~crossed' => ~crossed /\ cur \notin reading /\ ~In("request", cur)
  <2>1. queue \in Seq(Handler)
    BY DEF IInv, Types
  <2>2. In("request", cur) => Waits(cur)
    <3> SUFFICES ASSUME In("request", cur) PROVE Waits(cur)
      OBVIOUS
    <3>1. PICK i \in 1 .. Len(queue) : queue[i] = <<"request", cur>>
      BY DEF In, Entries
    <3> HIDE DEF Handler
    <3>2. i \in DOMAIN queue
      BY <2>1
    <3> QED BY <3>1, <3>2 DEF Waits
  <2>3. cur \in reading => Waits(cur)
    BY DEF Waits
  <2> QED BY <1>1, <2>2, <2>3
<1> HIDE DEF h
<1>5. Queued(h) /\ h \notin reading /\ ~Listed(h) /\ browser[h] # "new"
  BY <1>3 DEF IInv, OnePlace, Queued, Stage
<1>6. \A d \in Conn : Queued(d)' => (Queued(d) /\ d # h) \/ (d \in reading /\ d = cur)
  BY <1>2 DEF Queued
<1>7. \A d \in Conn : Listed(d)' <=> Listed(d)
  BY <1>1 DEF Listed
<1>8. \A d \in Conn :
        /\ In("request", d)' <=> In("request", d) /\ d # h
        /\ In("accept", d)' <=> In("accept", d) /\ d # h
  BY <1>2 DEF Stage
<1>9. Types'
  <2>1. accepts' \in Nat
    <3>1. accepts \in Nat
      BY DEF IInv, Types
    <3>2. accepts' = accepts + 1
      BY <1>1
    <3> QED BY <3>1, <3>2
  <2>2. crossed' \in BOOLEAN
    BY <1>1 DEF IInv, Types
  <2>3. shut' \in SUBSET Conn /\ reading' \in SUBSET Conn
    BY <1>1, <1>3 DEF IInv, Types
  <2> QED BY <1>1, <1>2, <1>3, <2>1, <2>2, <2>3 DEF IInv, Types
<1>10. OnePlace'
  <2>1. Distinct(backlog')
    BY <1>1 DEF IInv, OnePlace
  <2>2. \A d \in Conn :
          /\ browser'[d] = "new" => ~Listed(d)' /\ d \notin reading' /\ ~Queued(d)'
          /\ Listed(d)' => d \notin reading' /\ ~Queued(d)'
          /\ d \in reading' => ~Queued(d)'
    BY <1>1, <1>5, <1>6, <1>7 DEF IInv, OnePlace
  <2> QED BY <1>2, <2>1, <2>2 DEF OnePlace
<1>11. \A d \in Conn : Untaken(d)' => Untaken(d) /\ d # h
  BY <1>1, <1>5, <1>7, <1>8 DEF Untaken
<1>12. Untaken(h)
  BY <1>3 DEF Untaken
<1>13. h \notin shut /\ h # cur /\ h # web /\ page[h] = {} /\ h # None
  BY <1>3, <1>12, ConnAssumption DEF IInv, Sockets
<1>14. Sockets'
  <2>1. cur' # None => cur' # web' /\ Pages(cur)' = {}
    BY <1>1, <1>13 DEF Pages
  <2>2. \A d \in Conn : Untaken(d)' => d \notin shut' /\ d # cur' /\ d # web' /\ page'[d] = {}
    <3> SUFFICES ASSUME NEW d \in Conn, Untaken(d)'
                 PROVE  d \notin shut' /\ d # cur' /\ d # web' /\ page'[d] = {}
      OBVIOUS
    <3>1. Untaken(d) /\ d # h
      BY <1>11
    <3>2. d \notin shut /\ d # cur /\ d # web /\ page[d] = {}
      BY <3>1 DEF IInv, Sockets
    <3> QED BY <1>1, <3>1, <3>2
  <2>3. cur' \notin shut' /\ web' \notin shut'
    BY <1>1, <1>13 DEF IInv, Sockets
  <2>4. \A d \in Conn : In("request", d)' => Said(d)' /\ data' # None
    BY <1>1, <1>8 DEF IInv, Sockets, Said
  <2>5. \A d \in Conn : \A e, f \in Pages(d)' : e = f
    <3>1. \A d \in Conn : \A e, f \in Pages(d) : e = f
      BY DEF IInv, Sockets
    <3>2. page' = page
      BY <1>1
    <3> QED BY <3>1, <3>2 DEF Pages
  <2>6. running' # {} => web' # None
    BY <1>1 DEF IInv, Sockets
  <2> QED BY <2>1, <2>2, <2>3, <2>4, <2>5, <2>6 DEF Sockets
<1>15. Counted'
  <2>1. Arriving' = Arriving \ {h} /\ h \in Arriving
    BY <1>3, <1>8 DEF Arriving
  <2>2. Spent \subseteq Spent'
    BY <1>1, <1>5, <1>6, <1>7 DEF Spent
  <2> QED BY <1>1, <1>9, <2>1, <2>2, CountStep DEF IInv
<1>16. ~crossed' => (InTurn /\ OwnPages)'
  <2> SUFFICES ASSUME ~crossed' PROVE (InTurn /\ OwnPages)'
    OBVIOUS
  <2>1. /\ InTurn /\ OwnPages /\ reading = {}
        /\ \A d \in Conn : ~In("request", d)
    <3>1. InTurn /\ OwnPages
      BY <1>4 DEF IInv
    <3>2. reading \in SUBSET Conn
      BY DEF IInv, Types
    <3> QED BY <1>4, <3>1, <3>2 DEF InTurn
  <2>2. InTurn'
    <3>1. reading' = {h}
      BY <1>1, <2>1
    <3>2. \A d \in Conn : ~In("request", d)'
      BY <1>8, <2>1
    <3> QED BY <1>1, <2>1, <3>1, <3>2 DEF InTurn, Said
  <2>3. OwnPages'
    BY <1>1, <2>1 DEF OwnPages, Own
  <2> QED BY <2>2, <2>3
<1> QED BY <1>9, <1>10, <1>14, <1>15, <1>16 DEF IInv

(* A read that failed, or was aborted.                                     *)
LEMMA FailedKeeps ==
  ASSUME IInv, queue # <<>>, Failed, UNCHANGED <<clients, backlog>>
  PROVE  IInv'
<1>1. /\ Head(queue)[1] = "failed" /\ queue' = Tail(queue)
      /\ UNCHANGED <<browser, wants, backlog, accepts, reading, data, cur, name, web, running, shut, page, up, crossed>>
  BY DEF Failed, clients, own
<1>2. /\ Head(queue)[2] \in Conn /\ In("failed", Head(queue)[2])
  BY <1>1, First DEF IInv
<1> DEFINE h == Head(queue)[2]
<1>3. /\ queue' \in Seq(Handler) /\ OnePlace'
      /\ \A d \in Conn : In("request", d)' <=> In("request", d) /\ d # h
      /\ \A d \in Conn : In("accept", d)' <=> In("accept", d) /\ d # h
      /\ Spent \subseteq Spent' \ {h} /\ h \in Spent'
  <2>1. None \notin reading
    BY ConnAssumption DEF IInv, Types
  <2> QED BY <1>1, <2>1, ClosingPlaces
<1>4. /\ queue' \in Seq(Handler) /\ Single(queue')
      /\ \A j \in Stage, d \in Conn : In(j, d)' <=> In(j, d) /\ d # h
  BY <1>1, Pop DEF IInv
<1> HIDE DEF h
<1>5. Types'
  BY <1>1, <1>3 DEF IInv, Types
<1>6. \A d \in Conn : Untaken(d)' => Untaken(d)
  BY <1>1, <1>3 DEF Untaken, Listed
<1>7. Sockets'
  BY <1>1, <1>3, <1>6 DEF IInv, Sockets, Pages, Said
<1>8. Counted'
  <2>1. ~In("accept", h)
    BY <1>2, OneHandler DEF h, IInv, Stage
  <2>2. Arriving' = Arriving
    BY <1>3, <2>1 DEF Arriving
  <2> QED BY <1>1, <1>3, <1>5, <2>2, CountStep DEF IInv
<1>9. ~crossed => (InTurn /\ OwnPages)'
  BY <1>1, <1>3 DEF IInv, InTurn, OwnPages, Own, Said
<1> QED BY <1>1, <1>3, <1>5, <1>7, <1>8, <1>9 DEF IInv

(* A request that is answered: x is the connection that is closed, and the *)
(* page goes to whoever is in _socket.                                     *)
Answers(x) ==
  /\ Head(queue)[1] = "request" /\ cur # None
  /\ queue' = IF x \in reading THEN Append(Tail(queue), <<"failed", x>>) ELSE Tail(queue)
  /\ reading' = reading \ {x}
  /\ shut' = shut \cup ({x} \ {None})
  /\ name' \in Over(name, wants[data])
  /\ page' = [page EXCEPT ![cur] = @ \cup {[what |-> name', of |-> data]}]
  /\ \/ name' = "panel" /\ x = cur /\ cur' = None /\ UNCHANGED <<web, running>>
     \/ /\ name' = "console" /\ x = web /\ cur' = None /\ web' = cur
        /\ running' = running \/ running' = running \cup {data}
     \/ name' = "other" /\ x = None /\ UNCHANGED <<cur, web, running>>
  /\ accepts' = accepts + 1
  /\ UNCHANGED <<browser, wants, backlog, data, up, crossed>>

(* These are all the answers.                                              *)
LEMMA RequestAnswers ==
  ASSUME IInv, Requested, UNCHANGED <<clients, backlog>>
  PROVE  GoesDown \/ \E x : Answers(x)
<1> SUFFICES ASSUME ~GoesDown PROVE \E x : Answers(x)
  OBVIOUS
<1>1. /\ Head(queue)[1] = "request" /\ cur # None /\ name' \in Over(name, wants[data])
      /\ accepts' = accepts + 1 /\ UNCHANGED <<browser, wants, backlog, data, up, crossed>>
      /\ \/ name' = "panel" /\ panel(data)
         \/ name' = "console" /\ console(data)
         \/ /\ name' = "other" /\ Write(cur, "other", data)
            /\ queue' = Tail(queue)
            /\ UNCHANGED <<reading, cur, web, running, shut>>
  BY DEF Requested, Again, clients
<1>2. CASE name' = "panel" /\ panel(data)
  <2>1. Answers(cur)
    BY <1>1, <1>2 DEF Answers, panel, Closing, Write, Released
  <2> QED BY <2>1
<1>3. CASE name' = "console" /\ console(data)
  <2>1. Answers(web)
    BY <1>1, <1>3 DEF Answers, console, Closing, Write, Released
  <2> QED BY <2>1
<1>4. CASE /\ name' = "other" /\ Write(cur, "other", data)
           /\ queue' = Tail(queue)
           /\ UNCHANGED <<reading, cur, web, running, shut>>
  <2>1. None \notin reading
    BY ConnAssumption DEF IInv, Types
  <2>2. Answers(None)
    BY <1>1, <1>4, <2>1 DEF Answers, Write
  <2> QED BY <2>2
<1> QED BY <1>1, <1>2, <1>3, <1>4

(* The handler at the head of the queue runs to its end, or throws.        *)
LEMMA AnswersKeeps ==
  ASSUME IInv, queue # <<>>, NEW x, Answers(x)
  PROVE  IInv'
<1> DEFINE h == Head(queue)[2]
           new == [what |-> name', of |-> data]
<1>1. h \in Conn /\ In("request", h)
  BY First DEF IInv, Answers
<1>2. /\ queue' \in Seq(Handler) /\ OnePlace'
      /\ \A d \in Conn : In("request", d)' <=> In("request", d) /\ d # h
      /\ \A d \in Conn : In("accept", d)' <=> In("accept", d) /\ d # h
      /\ Spent \subseteq Spent' \ {h} /\ h \in Spent'
  BY ClosingPlaces DEF Answers
<1>3. /\ cur \in Conn /\ data \in Conn /\ web \in Conn \cup {None} /\ shut \in SUBSET Conn
      /\ name' \in Kind /\ new \in Entry
  <2>1. data # None /\ data \in Conn \cup {None} /\ cur \in Conn \cup {None}
    BY <1>1 DEF IInv, Types, Sockets
  <2>2. web \in Conn \cup {None} /\ shut \in SUBSET Conn
    BY DEF IInv, Types
  <2>3. name' \in Kind /\ cur # None
    BY DEF Answers, Kind
  <2> QED BY <2>1, <2>2, <2>3 DEF Entry
<1>4. /\ page'[cur] = page[cur] \cup {new}
      /\ \A d \in Conn : d # cur => page'[d] = page[d]
  BY <1>3 DEF Answers, IInv, Types
<1>5. /\ shut' = shut \cup ({x} \ {None}) /\ x \in {cur, web, None}
      /\ UNCHANGED <<browser, wants, backlog, data, up, crossed>>
      /\ \/ name' = "panel" /\ x = cur /\ cur' = None /\ UNCHANGED <<web, running>>
         \/ /\ name' = "console" /\ x = web /\ cur' = None /\ web' = cur
            /\ running' \subseteq running \cup {data}
         \/ name' = "other" /\ x = None /\ UNCHANGED <<cur, web, running>>
  BY DEF Answers
<1>6. accepts' = accepts + 1 /\ reading' = reading \ {x}
  BY DEF Answers
<1> HIDE DEF h
<1>7. Types'
  <2>1. accepts' \in Nat
    <3>1. accepts \in Nat
      BY DEF IInv, Types
    <3> QED BY <1>6, <3>1
  <2>2. page' \in [Conn -> SUBSET Entry]
    <3>1. page \in [Conn -> SUBSET Entry]
      BY DEF IInv, Types
    <3>2. page' = [page EXCEPT ![cur] = page[cur] \cup {new}]
      BY DEF Answers
    <3> HIDE DEF new, Entry
    <3> QED BY <1>3, <3>1, <3>2
  <2>3. shut' \in SUBSET Conn /\ reading' \in SUBSET Conn /\ running' \in SUBSET Conn
    BY <1>3, <1>5, <1>6 DEF IInv, Types
  <2>4. cur' \in Conn \cup {None} /\ web' \in Conn \cup {None}
    BY <1>3, <1>5
  <2> QED BY <1>2, <1>3, <1>5, <2>1, <2>2, <2>3, <2>4 DEF IInv, Types
<1> HIDE DEF new
<1>8. \A d \in Conn : Untaken(d)' => Untaken(d)
  BY <1>2, <1>5 DEF Untaken, Listed
<1>9. cur # None /\ cur # web /\ Pages(cur) = {} /\ cur \notin shut /\ web \notin shut /\ None \notin shut
  BY <1>3, ConnAssumption DEF IInv, Sockets
<1>10. Sockets'
  <2>1. cur' # None => cur' # web' /\ Pages(cur)' = {}
    <3> SUFFICES ASSUME cur' # None PROVE cur' # web' /\ Pages(cur)' = {}
      OBVIOUS
    <3>1. name' = "other" /\ cur' = cur /\ web' = web
      BY <1>5
    <3>2. new.what = "other"
      BY <3>1 DEF new
    <3> QED BY <1>4, <1>9, <3>1, <3>2 DEF Pages
  <2>2. \A d \in Conn : Untaken(d)' => d \notin shut' /\ d # cur' /\ d # web' /\ page'[d] = {}
    <3> SUFFICES ASSUME NEW d \in Conn, Untaken(d)'
                 PROVE  d \notin shut' /\ d # cur' /\ d # web' /\ page'[d] = {}
      OBVIOUS
    <3>1. d \notin shut /\ d # cur /\ d # web /\ page[d] = {} /\ d # None
      BY <1>8, ConnAssumption DEF IInv, Sockets
    <3> QED BY <1>4, <1>5, <3>1
  <2>3. cur' \notin shut' /\ web' \notin shut'
    BY <1>5, <1>9
  <2>4. \A d \in Conn : In("request", d)' => Said(d)' /\ data' # None
    BY <1>2, <1>5 DEF IInv, Sockets, Said
  <2>5. \A d \in Conn : \A e, f \in Pages(d)' : e = f
    <3> TAKE d \in Conn
    <3>1. CASE d = cur
      <4>1. Pages(d)' \subseteq {new}
        BY <1>4, <1>9, <3>1 DEF Pages
      <4> QED BY <4>1
    <3>2. CASE d # cur
      BY <1>4, <3>2 DEF IInv, Sockets, Pages
    <3> QED BY <3>1, <3>2
  <2>6. running' # {} => web' # None
    BY <1>5, <1>9 DEF IInv, Sockets
  <2> QED BY <2>1, <2>2, <2>3, <2>4, <2>5, <2>6 DEF Sockets
<1>11. Counted'
  <2>1. ~In("accept", h)
    BY <1>1, OneHandler DEF IInv, Stage
  <2>2. Arriving' = Arriving
    BY <1>2, <2>1 DEF Arriving
  <2> QED BY <1>2, <1>6, <1>7, <2>2, CountStep DEF IInv
<1>12. ~crossed => (InTurn /\ OwnPages)'
  <2> SUFFICES ASSUME ~crossed PROVE (InTurn /\ OwnPages)'
    OBVIOUS
  <2>1. InTurn /\ OwnPages
    BY DEF IInv
  <2>2. h = cur /\ data = cur /\ name = "" /\ Said(cur)
    BY <1>1, <2>1 DEF InTurn, IInv, Sockets
  <2>3. reading = {} /\ \A d \in Conn : ~In("request", d)'
    <3>1. cur \notin reading
      BY <1>1, <2>2 DEF IInv, OnePlace, Queued, Stage
    <3>2. reading \in SUBSET Conn
      BY DEF IInv, Types
    <3> QED BY <1>2, <2>1, <2>2, <3>1, <3>2 DEF InTurn
  <2>4. name' = wants[cur]
    BY <2>2 DEF Answers, Over
  <2>5. InTurn'
    <3>1. \A d \in Conn : d \notin reading'
      BY <1>6, <2>3
    <3>2. \A d \in Conn : page'[d] # {} => Said(d)'
      BY <1>4, <1>5, <2>1, <2>2 DEF InTurn, Said
    <3>3. web' # None => Said(web)' /\ wants'[web'] = "console"
      <4>1. CASE name' = "console"
        <5>1. web' = cur /\ wants'[cur] = "console" /\ browser'[cur] \in {"sent", "left"}
          BY <1>5, <2>2, <2>4, <4>1 DEF Said
        <5> QED BY <5>1 DEF Said
      <4>2. CASE name' # "console"
        <5>1. web' = web
          BY <1>5, <4>2
        <5> QED BY <1>5, <2>1, <5>1 DEF InTurn, Said
      <4> QED BY <4>1, <4>2
    <3>4. \A r \in running' : r = web' \/ r \in shut'
      <4>1. \A r \in running : r \in Conn /\ (r = web \/ r \in shut)
        BY <2>1 DEF InTurn, IInv, Types
      <4>2. CASE name' = "console"
        <5>1. web' = cur /\ shut' = shut \cup ({web} \ {None}) /\ running' \subseteq running \cup {cur}
          BY <1>5, <2>2, <4>2
        <5> QED BY <4>1, <5>1, ConnAssumption
      <4>3. CASE name' # "console"
        <5>1. web' = web /\ running' = running /\ shut \subseteq shut'
          BY <1>5, <4>3
        <5> QED BY <4>1, <5>1
      <4> QED BY <4>2, <4>3
    <3> QED BY <2>3, <3>1, <3>2, <3>3, <3>4 DEF InTurn
  <2>6. OwnPages'
    <3>1. \A d \in Conn : \A e : Own(d, e) => Own(d, e)'
      BY <1>5 DEF Own
    <3>2. ASSUME NEW d \in Conn, NEW e \in page'[d] PROVE Own(d, e)'
      <4>1. CASE d = cur /\ e = new
        BY <1>5, <2>2, <2>4, <4>1 DEF Own, new
      <4>2. CASE ~(d = cur /\ e = new)
        BY <1>4, <2>1, <3>1, <3>2, <4>2 DEF OwnPages
      <4> QED BY <4>1, <4>2
    <3> QED BY <3>2 DEF OwnPages
  <2> QED BY <2>5, <2>6
<1> QED BY <1>2, <1>5, <1>7, <1>10, <1>11, <1>12 DEF IInv

(* Nothing but up may change.                                              *)
LEMMA Still ==
  ASSUME IInv, up' \in BOOLEAN,
         UNCHANGED <<browser, wants, backlog, accepts, reading, queue, data, cur, name, web, running, shut, page, crossed>>
  PROVE  IInv'
<1>1. Types'
  BY DEF IInv, Types
<1>2. /\ \A j \in Stage, d \in Conn : In(j, d)' <=> In(j, d)
      /\ \A d \in Conn : /\ Listed(d)' <=> Listed(d)
                         /\ Queued(d)' <=> Queued(d)
                         /\ Untaken(d)' <=> Untaken(d)
                         /\ Said(d)' <=> Said(d)
  BY DEF In, Listed, Queued, Untaken, Said
<1>3. OnePlace'
  BY <1>2 DEF IInv, OnePlace
<1>4. Sockets'
  BY <1>2 DEF IInv, Sockets, Pages, Stage
<1>5. Arriving' = Arriving /\ Spent' = Spent
  BY <1>2 DEF Arriving, Spent, Stage
<1>6. Counted'
  BY <1>5 DEF IInv, Counted
<1>7. ~crossed => (InTurn /\ OwnPages)'
  <2> SUFFICES ASSUME ~crossed PROVE (InTurn /\ OwnPages)'
    OBVIOUS
  <2>1. InTurn'
    BY <1>2 DEF IInv, InTurn, Stage, Said
  <2>2. OwnPages'
    BY DEF IInv, OwnPages, Own
  <2> QED BY <2>1, <2>2
<1> QED BY <1>1, <1>3, <1>4, <1>6, <1>7 DEF IInv

(* The program ends.                                                       *)
LEMMA DownKeeps ==
  ASSUME IInv, GoesDown, UNCHANGED <<clients, backlog>>
  PROVE  IInv'
<1> QED BY Still DEF GoesDown, clients

(* The sessions.                                                           *)
LEMMA OutputKeeps ==
  ASSUME IInv, NEW r \in Conn, Output(r)
  PROVE  IInv'
<1> DEFINE new == [what |-> "output", of |-> r]
<1>1. CASE /\ Write(web, "output", r)
           /\ UNCHANGED <<accepts, reading, queue, data, cur, name, web, running, shut, up, crossed>>
  <2>1. /\ r \in running /\ page' = [page EXCEPT ![web] = page[web] \cup {new}]
        /\ UNCHANGED <<browser, wants, backlog, accepts, reading, queue, data, cur, name, web, running, shut, up, crossed>>
    BY <1>1 DEF Output, Write, clients
  <2>2. web \in Conn /\ new \in Entry
    BY <2>1 DEF IInv, Types, Sockets, Entry
  <2>3. page' \in [Conn -> SUBSET Entry]
    <3>1. page \in [Conn -> SUBSET Entry]
      BY DEF IInv, Types
    <3> HIDE DEF new, Entry
    <3> QED BY <2>1, <2>2, <3>1
  <2>4. /\ page'[web] = page[web] \cup {new}
        /\ \A d \in Conn : d # web => page'[d] = page[d]
    BY <2>1, <2>2 DEF IInv, Types
  <2>5. \A d \in Conn : Pages(d)' = Pages(d)
    BY <2>4 DEF Pages
  <2>6. Types'
    BY <2>1, <2>3 DEF IInv, Types
  <2>7. OnePlace'
    BY <2>1 DEF IInv, OnePlace, Listed, Queued, In
  <2>8. \A d \in Conn : /\ Untaken(d)' <=> Untaken(d)
                        /\ In("request", d)' <=> In("request", d)
                        /\ Said(d)' <=> Said(d)
    BY <2>1 DEF Untaken, Listed, In, Said
  <2>9. Sockets'
    <3>1. \A d \in Conn : Untaken(d)' => d \notin shut' /\ d # cur' /\ d # web' /\ page'[d] = {}
      BY <2>1, <2>4, <2>8 DEF IInv, Sockets
    <3>2. cur' # None => cur' # web' /\ Pages(cur)' = {}
      BY <2>1, <2>5 DEF IInv, Types, Sockets
    <3> QED BY <2>1, <2>5, <2>8, <3>1, <3>2 DEF IInv, Sockets
  <2>10. Counted'
    BY <2>1 DEF IInv, Counted, Arriving, Spent, Listed, Queued, In
  <2>11. ~crossed => (InTurn /\ OwnPages)'
    <3> SUFFICES ASSUME ~crossed PROVE (InTurn /\ OwnPages)'
      OBVIOUS
    <3>1. InTurn /\ OwnPages
      BY DEF IInv
    <3>2. Said(web) /\ wants[web] = "console" /\ (r = web \/ r \in shut)
      BY <2>1, <2>2, <3>1, ConnAssumption DEF InTurn
    <3>3. InTurn'
      <4>1. \A d \in Conn : page'[d] # {} => Said(d)'
        BY <2>4, <2>8, <3>1, <3>2 DEF InTurn
      <4>2. web' # None => Said(web)' /\ wants'[web'] = "console"
        BY <2>1, <3>1 DEF InTurn, Said
      <4> QED BY <2>1, <2>8, <3>1, <4>1, <4>2 DEF InTurn
    <3>4. OwnPages'
      <4>1. \A d \in Conn : \A e : Own(d, e) => Own(d, e)'
        BY <2>1 DEF Own
      <4>2. ASSUME NEW d \in Conn, NEW e \in page'[d] PROVE Own(d, e)'
        <5>1. CASE d = web /\ e = new
          BY <2>1, <3>2, <5>1 DEF Own
        <5>2. CASE ~(d = web /\ e = new)
          BY <2>4, <3>1, <4>1, <4>2, <5>2 DEF OwnPages
        <5> QED BY <5>1, <5>2
      <4> QED BY <4>2 DEF OwnPages
    <3> QED BY <3>3, <3>4
  <2> QED BY <2>1, <2>6, <2>7, <2>9, <2>10, <2>11 DEF IInv
<1>2. CASE GoesDown
  BY <1>2, DownKeeps DEF Output
<1> QED BY <1>1, <1>2 DEF Output

(* The sessions of a console end without a word to its page.               *)
LEMMA SessionsEndKeep ==
  ASSUME IInv, NEW r \in Conn, SessionsEnd(r)
  PROVE  IInv'
<1>1. /\ running' = running \ {r}
      /\ UNCHANGED <<browser, wants, backlog, accepts, reading, queue, data, cur, name, web, shut, page, up, crossed>>
  BY DEF SessionsEnd, clients
<1>2. Types'
  BY <1>1 DEF IInv, Types
<1>3. Sockets'
  BY <1>1 DEF IInv, Sockets, Listed, In, Untaken, Said, Pages
<1>4. OnePlace' /\ Counted'
  BY <1>1 DEF IInv, OnePlace, Counted, Listed, In, Queued, Arriving, Spent
<1>5. ~crossed => (InTurn /\ OwnPages)'
  BY <1>1 DEF IInv, InTurn, OwnPages, In, Said, Own
<1> QED BY <1>1, <1>2, <1>3, <1>4, <1>5 DEF IInv

(* A step that changes nothing keeps the invariant.                        *)
LEMMA StutterKeeps ==
  ASSUME IInv, UNCHANGED vars
  PROVE  IInv'
<1>1. up' \in BOOLEAN
  BY DEF vars, own, IInv, Types
<1> QED BY <1>1, Still DEF vars, clients, own

-----------------------------------------------------------------------------
(* A server that has just started has one accept under way.                *)
LEMMA InitInvariant == Init => IInv
<1> SUFFICES ASSUME Init PROVE IInv
  OBVIOUS
<1>1. /\ browser = [c \in Conn |-> "new"] /\ wants = [c \in Conn |-> ""]
      /\ backlog = <<>> /\ accepts = 1 /\ reading = {} /\ queue = <<>>
      /\ cur = None /\ data = None /\ name = "" /\ web = None
      /\ running = {} /\ shut = {} /\ page = [c \in Conn |-> {}]
      /\ up = TRUE /\ crossed = FALSE
  BY DEF Init
<1>2. /\ backlog \in Seq(Conn) /\ queue \in Seq(Handler)
      /\ Entries(backlog) = {} /\ Entries(queue) = {} /\ Distinct(backlog) /\ Single(queue)
  <2>1. Len(backlog) = 0 /\ Len(queue) = 0
    BY <1>1
  <2>2. Entries(backlog) = {} /\ Entries(queue) = {}
    BY <2>1 DEF Entries
  <2>3. Distinct(backlog) /\ Single(queue)
    BY <2>1 DEF Distinct, Single
  <2>4. <<>> \in Seq(Conn) /\ <<>> \in Seq(Handler)
    OBVIOUS
  <2> QED BY <1>1, <2>2, <2>3, <2>4
<1>3. (\A c \in Conn : ~Listed(c) /\ ~Queued(c)) /\ \A k, c : ~In(k, c)
  BY <1>2 DEF Listed, Queued, In
<1>4. Types
  BY <1>1, <1>2 DEF Types
<1>5. OnePlace
  BY <1>1, <1>2, <1>3 DEF OnePlace
<1>6. Sockets
  BY <1>1, <1>3, ConnAssumption DEF Sockets, Pages
<1>7. Counted
  <2>1. Arriving = {} /\ Spent = {}
    BY <1>1, <1>3 DEF Arriving, Spent
  <2>2. Cardinality(Arriving) = 0 /\ Cardinality(Spent) = 0
    BY <2>1, FS_EmptySet
  <2>3. accepts = 1
    BY <1>1
  <2> QED BY <2>2, <2>3 DEF Counted
<1>8. InTurn /\ OwnPages
  BY <1>1, <1>3 DEF InTurn, OwnPages
<1> QED BY <1>4, <1>5, <1>6, <1>7, <1>8 DEF IInv

(* Every step keeps the invariant.                                         *)
LEMMA StepInvariant == IInv /\ [Next]_vars => IInv'
<1> SUFFICES ASSUME IInv, [Next]_vars PROVE IInv'
  OBVIOUS
<1>1. CASE AcceptDone
  BY <1>1, AcceptDoneKeeps
<1>2. CASE Handle
  <2>1. queue # <<>> /\ UNCHANGED <<clients, backlog>>
    BY <1>2 DEF Handle
  <2>2. CASE Accepted
    BY <2>1, <2>2, AcceptedKeeps
  <2>3. CASE Requested
    <3>1. GoesDown \/ \E x : Answers(x)
      BY <2>1, <2>3, RequestAnswers
    <3>2. CASE GoesDown
      BY <2>1, <3>2, DownKeeps
    <3>3. ASSUME NEW x, Answers(x) PROVE IInv'
      BY <2>1, <3>3, AnswersKeeps
    <3> QED BY <3>1, <3>2, <3>3
  <2>4. CASE Failed
    BY <2>1, <2>4, FailedKeeps
  <2> QED BY <1>2, <2>2, <2>3, <2>4 DEF Handle
<1>3. ASSUME NEW c \in Conn,
             Connect(c) \/ Send(c) \/ Leave(c) \/ ReadDone(c) \/ Output(c) \/ SessionsEnd(c)
      PROVE  IInv'
  BY <1>3, ConnectKeeps, SendKeeps, LeaveKeeps, ReadDoneKeeps, OutputKeeps, SessionsEndKeep
<1>4. CASE UNCHANGED vars
  BY <1>4, StutterKeeps
<1> QED BY <1>1, <1>2, <1>3, <1>4 DEF Next

(* So it holds always.                                                     *)
LEMMA InvariantHolds == FairSpec => []IInv
<1> QED BY InitInvariant, StepInvariant, PTL DEF FairSpec

(* The cgi server's state has its type: no more accepts are under way than *)
(* connections, and one; sessions have a page to write to; neither socket  *)
(* that is in use has been closed.                                         *)
THEOREM CgiTypes == FairSpec => []TypeOK
<1>1. IInv => TypeOK
  <2> SUFFICES ASSUME IInv PROVE TypeOK
    OBVIOUS
  <2>1. accepts \in 0 .. Cardinality(Conn) + 1
    <3>1. Arriving \subseteq Conn /\ Spent \subseteq Conn
      BY DEF Arriving, Spent
    <3>2. /\ IsFiniteSet(Conn) /\ IsFiniteSet(Arriving) /\ IsFiniteSet(Spent)
          /\ Cardinality(Spent) <= Cardinality(Conn)
      BY <3>1, ConnAssumption, FS_Subset
    <3>3. /\ Cardinality(Conn) \in Nat /\ Cardinality(Arriving) \in Nat
          /\ Cardinality(Spent) \in Nat
      BY <3>2, FS_CardinalityType
    <3>4. accepts \in Nat /\ accepts + Cardinality(Arriving) <= 1 + Cardinality(Spent)
      BY DEF IInv, Types, Counted
    <3> QED BY <3>2, <3>3, <3>4
  <2>2. queue \in Seq({"accept", "request", "failed"} \X Conn)
    BY DEF IInv, Types, Handler, Stage
  <2>3. page \in [Conn -> SUBSET [what : Kind \cup {"output"}, of : Conn]]
    BY DEF IInv, Types, Entry
  <2>4. (running # {} => web # None) /\ shut \cap {cur, web} = {}
    BY DEF IInv, Sockets
  <2> QED BY <2>1, <2>2, <2>3, <2>4 DEF IInv, Types, TypeOK
<1> QED BY <1>1, InvariantHolds, PTL

(* A connection gets one page at most; as long as none is taken while      *)
(* another one waits, its own, and the output of sessions of its own or of *)
(* pages that have been closed.                                            *)
THEOREM OnePageEach == FairSpec => []OnePage
<1>1. IInv => OnePage
  <2> SUFFICES ASSUME IInv, NEW c \in Conn
               PROVE  /\ Cardinality(Pages(c)) <= 1
                      /\ ~crossed => \A e \in page[c] : Own(c, e)
    BY DEF OnePage, Pages, Own
  <2>1. Cardinality(Pages(c)) <= 1
    <3>1. \A e, f \in Pages(c) : e = f
      BY DEF IInv, Sockets
    <3>2. CASE Pages(c) = {}
      <4>1. Cardinality(Pages(c)) = 0
        BY <3>2, FS_EmptySet
      <4> QED BY <4>1
    <3>3. ASSUME NEW e \in Pages(c) PROVE Cardinality(Pages(c)) <= 1
      <4>1. Pages(c) = {e}
        BY <3>1
      <4>2. Cardinality(Pages(c)) = 1
        BY <4>1, FS_Singleton
      <4> QED BY <4>2
    <3> QED BY <3>2, <3>3
  <2>2. ~crossed => \A e \in page[c] : Own(c, e)
    BY DEF IInv, OwnPages
  <2> QED BY <2>1, <2>2
<1> QED BY <1>1, InvariantHolds, PTL

-----------------------------------------------------------------------------
(* The state half of AnsweredInTheEnd: what an unanswered browser still    *)
(* waits for, so that the fair steps have only to be taken.                *)

AcceptsGoOn == accepts > 0 \/ \E c \in Conn : In("accept", c)

OnItsWay(c) ==
  \/ Listed(c) \/ In("accept", c) \/ c \in reading
  \/ browser[c] = "sent" /\ (In("request", c) \/ Answered(c))
Here(c) == browser[c] \in {"open", "sent"}
RequestsKept == crossed \/ \A c \in Conn : Here(c) => OnItsWay(c)

(* A connection taken without crossing another one is read; the one before *)
(* it had neither a read nor a request left.                               *)
LEMMA AcceptedGoesOn ==
  ASSUME IInv, IInv', RequestsKept, queue # <<>>, Accepted, UNCHANGED <<clients, backlog>>
  PROVE  RequestsKept' /\ AcceptsGoOn'
<1> DEFINE h == Head(queue)[2]
<1>1. /\ Head(queue)[1] = "accept"
      /\ queue' = IF cur \in reading THEN Append(Tail(queue), <<"failed", cur>>) ELSE Tail(queue)
      /\ reading' = (reading \ {cur}) \cup {h}
      /\ crossed' = (crossed \/ Waits(cur)) /\ accepts' = accepts + 1
      /\ UNCHANGED <<browser, wants, backlog, page>>
  BY DEF Accepted, Again, clients
<1>2. \A j \in Stage, d \in Conn :
        In(j, d)' <=> (In(j, d) /\ d # h) \/ (cur \in reading /\ j = "failed" /\ d = cur)
  BY <1>1, PopClosing DEF IInv
<1>3. AcceptsGoOn'
  <2>1. accepts \in Nat
    BY DEF IInv, Types
  <2> QED BY <1>1, <2>1 DEF AcceptsGoOn
<1> HIDE DEF h
<1>4. RequestsKept'
  <2> SUFFICES ASSUME ~crossed', NEW c \in Conn, Here(c)' PROVE OnItsWay(c)'
    BY DEF RequestsKept
  <2>1. ~crossed /\ cur \notin reading
    BY <1>1 DEF Waits
  <2>2. Here(c) /\ OnItsWay(c)
    BY <1>1, <2>1 DEF RequestsKept, Here
  <2>3. CASE c = h
    BY <1>1, <2>3 DEF OnItsWay
  <2>4. CASE c # h
    <3>1. Listed(c)' <=> Listed(c)
      BY <1>1 DEF Listed
    <3>2. Answered(c)' <=> Answered(c)
      BY <1>1 DEF Answered
    <3>3. (In("accept", c)' <=> In("accept", c)) /\ (In("request", c)' <=> In("request", c))
      BY <1>2, <2>4 DEF Stage
    <3> QED BY <1>1, <2>1, <2>2, <3>1, <3>2, <3>3 DEF OnItsWay
  <2> QED BY <2>3, <2>4
<1> QED BY <1>3, <1>4

(* An answer is the one its own browser waits for, unless connections were *)
(* crossed, and no read is aborted by it.                                  *)
LEMMA AnswersGoOn ==
  ASSUME IInv, RequestsKept, queue # <<>>, NEW x, Answers(x)
  PROVE  RequestsKept' /\ AcceptsGoOn'
<1> DEFINE h == Head(queue)[2]
           new == [what |-> name', of |-> data]
<1>1. h \in Conn /\ In("request", h)
  BY First DEF IInv, Answers
<1>2. \A j \in Stage, d \in Conn :
        In(j, d)' <=> (In(j, d) /\ d # h) \/ (x \in reading /\ j = "failed" /\ d = x)
  BY PopClosing DEF IInv, Answers
<1>3. /\ reading' = reading \ {x} /\ accepts' = accepts + 1 /\ x \in {cur, web, None}
      /\ name' \in Over(name, wants[data]) /\ cur # None
      /\ page' = [page EXCEPT ![cur] = page[cur] \cup {new}]
      /\ UNCHANGED <<browser, wants, backlog, data, crossed>>
  BY DEF Answers
<1>4. AcceptsGoOn'
  <2>1. accepts \in Nat
    BY DEF IInv, Types
  <2> QED BY <1>3, <2>1 DEF AcceptsGoOn
<1> HIDE DEF h
<1>5. RequestsKept'
  <2> SUFFICES ASSUME ~crossed, NEW c \in Conn, Here(c)' PROVE OnItsWay(c)'
    BY <1>3 DEF RequestsKept
  <2>1. InTurn /\ Here(c) /\ OnItsWay(c)
    BY <1>3 DEF IInv, RequestsKept, Here
  <2>2. h = cur /\ data = cur /\ name = "" /\ Said(cur)
    BY <1>1, <2>1 DEF InTurn, IInv, Sockets
  <2>3. name' = wants'[cur] /\ page' = [page EXCEPT ![cur] = page[cur] \cup {new}]
    <3>1. name' = wants[cur]
      BY <1>3, <2>2 DEF Over
    <3> QED BY <1>3, <3>1
  <2>4. page \in [Conn -> SUBSET Entry] /\ cur \in Conn
    BY <1>1, <2>2 DEF IInv, Types
  <2>5. new = [what |-> wants'[cur], of |-> cur]
    BY <2>2, <2>3
  <2>6. x \notin reading
    <3>1. cur \notin reading
      BY <1>1, <2>2 DEF IInv, OnePlace, Queued, Stage
    <3>2. None \notin reading
      BY ConnAssumption DEF IInv, Types
    <3>3. web \notin reading
      BY <1>3, <2>1 DEF IInv, Sockets, InTurn, Types
    <3> QED BY <1>3, <3>1, <3>2, <3>3
  <2>7. CASE c = cur
    <3>1. Answered(c)'
      BY <2>3, <2>4, <2>5, <2>7 DEF Answered
    <3>2. browser'[c] = "sent"
      BY <1>3, <2>1, <2>2, <2>7 DEF Here, Said
    <3> QED BY <3>1, <3>2 DEF OnItsWay
  <2>8. CASE c # cur
    <3>1. Listed(c)' <=> Listed(c)
      BY <1>3 DEF Listed
    <3>2. Answered(c)' <=> Answered(c)
      BY <1>3, <2>3, <2>4, <2>8 DEF Answered
    <3>3. (In("accept", c)' <=> In("accept", c)) /\ (In("request", c)' <=> In("request", c))
      BY <1>2, <2>2, <2>6, <2>8 DEF Stage
    <3> QED BY <1>3, <2>1, <2>6, <3>1, <3>2, <3>3 DEF OnItsWay
  <2> QED BY <2>7, <2>8
<1> QED BY <1>4, <1>5

(* The handler of a failure is that of a browser which has left, or of a   *)
(* connection that was crossed.                                            *)
LEMMA FailedGoesOn ==
  ASSUME IInv, RequestsKept, AcceptsGoOn, queue # <<>>, Failed, UNCHANGED <<clients, backlog>>
  PROVE  RequestsKept' /\ AcceptsGoOn'
<1> DEFINE h == Head(queue)[2]
<1>1. /\ Head(queue)[1] = "failed" /\ queue' = Tail(queue)
      /\ UNCHANGED <<browser, wants, backlog, accepts, reading, page, crossed>>
  BY DEF Failed, clients, own
<1>2. h \in Conn /\ In("failed", h)
  BY <1>1, First DEF IInv
<1>3. \A j \in Stage, d \in Conn : In(j, d)' <=> In(j, d) /\ d # h
  BY <1>1, Pop DEF IInv
<1>4. ~In("accept", h) /\ ~In("request", h)
  BY <1>2, OneHandler DEF IInv, Stage
<1> HIDE DEF h
<1>5. \A d \in Conn : /\ In("accept", d)' <=> In("accept", d)
                      /\ In("request", d)' <=> In("request", d)
  BY <1>3, <1>4 DEF Stage
<1>6. AcceptsGoOn'
  BY <1>1, <1>5 DEF AcceptsGoOn
<1>7. RequestsKept'
  BY <1>1, <1>5 DEF RequestsKept, Here, OnItsWay, Listed, Answered
<1> QED BY <1>6, <1>7

(* Completions: what leaves the backlog is in the queue, and what has been *)
(* read of a browser that is still there is its request.                   *)
LEMMA AcceptDoneGoesOn ==
  ASSUME IInv, RequestsKept, AcceptDone
  PROVE  RequestsKept' /\ AcceptsGoOn'
<1> DEFINE h == Head(backlog)
<1>1. /\ backlog # <<>> /\ queue' = Append(queue, <<"accept", h>>) /\ backlog' = Tail(backlog)
      /\ UNCHANGED <<browser, wants, reading, page, crossed>>
  BY DEF AcceptDone, clients, own
<1>2. h \in Conn /\ Listed(h) /\ \A d \in Conn : Listed(d)' <=> Listed(d) /\ d # h
  <2>1. backlog \in Seq(Conn) /\ Distinct(backlog)
    BY DEF IInv, Types, OnePlace
  <2>2. h \in Conn /\ h \in Entries(backlog) /\ Entries(Tail(backlog)) = Entries(backlog) \ {h}
    BY <1>1, <2>1, TailListed
  <2> QED BY <1>1, <2>2 DEF Listed
<1> HIDE DEF h
<1>3. ~Queued(h)
  BY <1>2 DEF IInv, OnePlace
<1>4. \A j \in Stage, d \in Conn : In(j, d)' <=> In(j, d) \/ (j = "accept" /\ d = h)
  BY <1>1, <1>2, <1>3, Arrive DEF IInv, Stage
<1>5. AcceptsGoOn'
  BY <1>2, <1>4 DEF AcceptsGoOn, Stage
<1>6. RequestsKept'
  BY <1>1, <1>2, <1>4 DEF RequestsKept, Here, OnItsWay, Answered, Stage
<1> QED BY <1>5, <1>6

LEMMA ReadDoneGoesOn ==
  ASSUME IInv, RequestsKept, AcceptsGoOn, NEW c \in Conn, ReadDone(c)
  PROVE  RequestsKept' /\ AcceptsGoOn'
<1>1. PICK k \in {"request", "failed"} :
        /\ queue' = Append(queue, <<k, c>>)
        /\ k = "failed" => Away(c)
  BY DEF ReadDone
<1>2. /\ c \in reading /\ reading' = reading \ {c}
      /\ k = "request" => Said(c)
      /\ UNCHANGED <<browser, wants, backlog, accepts, page, crossed>>
  BY <1>1 DEF ReadDone, clients, own, Said, Away
<1>3. ~Queued(c)
  BY <1>2 DEF IInv, OnePlace
<1>4. \A j \in Stage, d \in Conn : In(j, d)' <=> In(j, d) \/ (j = k /\ d = c)
  BY <1>1, <1>3, Arrive DEF IInv, Stage
<1>5. AcceptsGoOn'
  BY <1>2, <1>4 DEF AcceptsGoOn, Stage
<1>6. RequestsKept'
  <2> SUFFICES ASSUME ~crossed, NEW d \in Conn, Here(d)' PROVE OnItsWay(d)'
    BY <1>2 DEF RequestsKept
  <2>1. Here(d) /\ OnItsWay(d)
    BY <1>2 DEF RequestsKept, Here
  <2>2. CASE d = c
    <3>1. k = "request" /\ browser'[c] = "sent"
      BY <1>1, <1>2, <2>1, <2>2 DEF Here, Away, Said
    <3> QED BY <1>4, <2>2, <3>1 DEF OnItsWay, Stage
  <2>3. CASE d # c
    BY <1>2, <1>4, <2>1, <2>3 DEF OnItsWay, Listed, Answered, Stage
  <2> QED BY <2>2, <2>3
<1> QED BY <1>5, <1>6

(* The browsers and the sessions: a new connection is listed, a request is *)
(* sent on a connection that is listed, being accepted or read.            *)
LEMMA BrowsersGoOn ==
  ASSUME IInv, RequestsKept, AcceptsGoOn, NEW c \in Conn, Connect(c) \/ Send(c) \/ Leave(c)
  PROVE  RequestsKept' /\ AcceptsGoOn'
<1>1. PICK b \in {"open", "sent", "gone", "left"} :
        /\ browser' = [browser EXCEPT ![c] = b]
        /\ \/ browser[c] = "new" /\ b = "open" /\ backlog' = Append(backlog, c) /\ wants' = wants
           \/ /\ browser[c] = "open" /\ b = "sent" /\ backlog' = backlog
              /\ \E k \in Kind : wants' = [wants EXCEPT ![c] = k]
           \/ b \in {"gone", "left"} /\ backlog' = backlog /\ wants' = wants
  BY DEF Connect, Send, Leave, Becomes
<1>2. UNCHANGED <<accepts, reading, queue, page, crossed>>
  BY DEF Connect, Send, Leave, Becomes, own
<1>3. \A j \in Stage, d \in Conn : In(j, d)' <=> In(j, d)
  BY <1>2 DEF In
<1>4. \A d \in Conn : (Listed(d) => Listed(d)') /\ (b = "open" => Listed(c)')
  <2>1. CASE b = "open"
    <3>1. backlog \in Seq(Conn) /\ Distinct(backlog) /\ c \notin Entries(backlog)
      BY <1>1, <2>1 DEF IInv, Types, OnePlace, Listed
    <3>2. Entries(backlog') = Entries(backlog) \cup {c}
      BY <1>1, <2>1, <3>1, AppendListed
    <3> QED BY <3>2 DEF Listed
  <2>2. CASE b # "open"
    BY <1>1, <2>2 DEF Listed
  <2> QED BY <2>1, <2>2
<1>5. /\ browser'[c] = b
      /\ \A d \in Conn : d # c => browser'[d] = browser[d] /\ wants'[d] = wants[d]
  BY <1>1 DEF IInv, Types
<1>6. AcceptsGoOn'
  BY <1>2, <1>3 DEF AcceptsGoOn, Stage
<1>7. RequestsKept'
  <2> SUFFICES ASSUME ~crossed, NEW d \in Conn, Here(d)' PROVE OnItsWay(d)'
    BY <1>2 DEF RequestsKept
  <2>1. CASE d = c
    <3>1. CASE b = "open"
      BY <1>4, <2>1, <3>1 DEF OnItsWay
    <3>2. CASE b # "open"
      <4>1. browser[c] = "open"
        BY <1>1, <1>5, <2>1, <3>2 DEF Here
      <4>2. Listed(c) \/ In("accept", c) \/ c \in reading
        BY <4>1 DEF RequestsKept, Here, OnItsWay
      <4> QED BY <1>2, <1>3, <1>4, <2>1, <4>2 DEF OnItsWay, Stage
    <3> QED BY <3>1, <3>2
  <2>2. CASE d # c
    <3>1. OnItsWay(d) /\ browser'[d] = browser[d] /\ wants'[d] = wants[d]
      BY <1>5, <2>2 DEF RequestsKept, Here
    <3> QED BY <1>2, <1>3, <1>4, <3>1 DEF OnItsWay, Answered, Stage
  <2> QED BY <2>1, <2>2
<1> QED BY <1>6, <1>7

LEMMA SessionsGoOn ==
  ASSUME IInv, RequestsKept, AcceptsGoOn, NEW r \in Conn, Output(r) \/ SessionsEnd(r)
  PROVE  RequestsKept' /\ AcceptsGoOn'
<1>1. /\ UNCHANGED <<browser, wants, backlog, accepts, reading, queue, crossed>>
      /\ page' = page \/ \E d, what : page' = [page EXCEPT ![d] = page[d] \cup {what}]
  BY DEF Output, SessionsEnd, Write, GoesDown, clients
<1>2. \A d \in Conn : page[d] \subseteq page'[d]
  BY <1>1 DEF IInv, Types
<1> QED BY <1>1, <1>2 DEF RequestsKept, AcceptsGoOn, Here, OnItsWay, In, Listed, Answered

(* No request is lost, and accepting goes on: at any time a browser that   *)
(* is there, unless connections were crossed, has its answer, or else is   *)
(* listed, being accepted, read or handled; and an accept is under way or  *)
(* its handler, which starts the next one, is in the queue - even if some  *)
(* were crossed.  What AnsweredInTheEnd adds is that the system completes  *)
(* and the thread runs what is ready.                                      *)
THEOREM NoRequestIsLost == FairSpec => [](AcceptsGoOn /\ RequestsKept)
<1> DEFINE Both == AcceptsGoOn /\ RequestsKept
<1>1. Init => Both
  <2> SUFFICES ASSUME Init PROVE Both
    OBVIOUS
  <2>1. accepts = 1 /\ \A c \in Conn : ~Here(c)
    BY DEF Init, Here
  <2> QED BY <2>1 DEF AcceptsGoOn, RequestsKept
<1>2. ASSUME IInv, IInv', Both, [Next]_vars PROVE Both'
  <2>1. CASE AcceptDone
    BY <1>2, <2>1, AcceptDoneGoesOn
  <2>2. CASE Handle
    <3>1. queue # <<>> /\ UNCHANGED <<clients, backlog>>
      BY <2>2 DEF Handle
    <3>2. CASE Accepted
      BY <1>2, <3>1, <3>2, AcceptedGoesOn
    <3>3. CASE Requested
      <4>1. CASE GoesDown
        BY <1>2, <3>1, <4>1 DEF GoesDown, clients, RequestsKept, AcceptsGoOn, Here, OnItsWay,
                                 In, Listed, Answered
      <4>2. ASSUME NEW x, Answers(x) PROVE Both'
        BY <1>2, <3>1, <4>2, AnswersGoOn
      <4> QED BY <1>2, <3>1, <3>3, <4>1, <4>2, RequestAnswers
    <3>4. CASE Failed
      BY <1>2, <3>1, <3>4, FailedGoesOn
    <3> QED BY <2>2, <3>2, <3>3, <3>4 DEF Handle
  <2>3. ASSUME NEW c \in Conn, Connect(c) \/ Send(c) \/ Leave(c) PROVE Both'
    BY <1>2, <2>3, BrowsersGoOn
  <2>4. ASSUME NEW c \in Conn, ReadDone(c) PROVE Both'
    BY <1>2, <2>4, ReadDoneGoesOn
  <2>5. ASSUME NEW c \in Conn, Output(c) \/ SessionsEnd(c) PROVE Both'
    BY <1>2, <2>5, SessionsGoOn
  <2>6. CASE UNCHANGED vars
    BY <1>2, <2>6 DEF vars, clients, own, RequestsKept, AcceptsGoOn, Here, OnItsWay,
                      In, Listed, Answered
  <2> QED BY <1>2, <2>1, <2>2, <2>3, <2>4, <2>5, <2>6 DEF Next
<1> HIDE DEF Both
<1>3. FairSpec => []Both
  BY <1>1, <1>2, InvariantHolds, PTL DEF FairSpec
<1> QED BY <1>3 DEF Both
=============================================================================
