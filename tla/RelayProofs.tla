---------------------------- MODULE RelayProofs ----------------------------
(***************************************************************************)
(* redirectData() keeps the two streams of a CONNECT, for any capacities,  *)
(* read sizes and lengths, whatever the peers do.                          *)
(*                                                                         *)
(* StreamKept alone is not inductive: a read() must find its buffer empty  *)
(* (Drained), and what holds of a stream after a reset of one connection   *)
(* depends on which of the two it was (Ordered).                           *)
(*                                                                         *)
(* Of the rounds of the loop: one that moves nothing has a reason.  The    *)
(* loop of a BIND passes on what it reads in order and once.               *)
(***************************************************************************)
EXTENDS SocksTransfer, TLAPS

(* A stream: g was read at its end, o waits there, h is held by the relay, *)
(* i waits to be read by it, and s bytes were sent.                        *)
Beginning(g, s) == Follows(g, 0) /\ Len(g) <= s
Reaching(g, o, h, s) ==
  /\ Follows(o, Len(g)) /\ Follows(h, Len(g) + Len(o))
  /\ Len(g) + Len(o) + Len(h) <= s
Whole(g, o, h, i, s) ==
  /\ Follows(i, Len(g) + Len(o) + Len(h))
  /\ Len(g) + Len(o) + Len(h) + Len(i) = s

Drained == \A x \in Side : ~full[x] => held[x] = <<>>

(* The stream from x to y.                                                 *)
Ordered(x, y) ==
  /\ Beginning(got[y], sent[x])
  /\ x \in broken => inbound[x] = <<>>
  /\ y \notin broken => Reaching(got[y], outbound[y], held[x], sent[x])
  /\ x \notin broken /\ y \notin broken =>
       Whole(got[y], outbound[y], held[x], inbound[x], sent[x])

InOrder == \A x \in Side : Ordered(x, Other(x))

IInv == TypeOK /\ Drained /\ InOrder

-----------------------------------------------------------------------------
(* Sequences *)

(* The library's facts on sequences, for sequences of bytes.               *)
LEMMA AppendFacts ==
  ASSUME NEW q \in Seq(Nat), NEW e \in Nat
  PROVE  /\ Append(q, e) \in Seq(Nat) /\ Len(Append(q, e)) = Len(q) + 1
         /\ \A i \in 1 .. Len(q) : Append(q, e)[i] = q[i]
         /\ Append(q, e)[Len(q) + 1] = e
  BY SMT

(* A queue is its head and the rest, or a beginning and the rest.          *)
LEMMA TailFacts ==
  ASSUME NEW q \in Seq(Nat), q # <<>>
  PROVE  /\ Tail(q) \in Seq(Nat) /\ Len(q) > 0 /\ Len(Tail(q)) = Len(q) - 1
         /\ \A i \in 1 .. Len(q) - 1 : Tail(q)[i] = q[i + 1]
         /\ Head(q) = q[1] /\ Head(q) \in Nat
  BY SMT

LEMMA SplitFacts ==
  ASSUME NEW q \in Seq(Nat), NEW n \in 0 .. Len(q)
  PROVE  /\ SubSeq(q, 1, n) \in Seq(Nat) /\ Len(SubSeq(q, 1, n)) = n
         /\ \A i \in 1 .. n : SubSeq(q, 1, n)[i] = q[i]
         /\ SubSeq(q, n + 1, Len(q)) \in Seq(Nat) /\ Len(SubSeq(q, n + 1, Len(q))) = Len(q) - n
         /\ \A i \in 1 .. Len(q) - n : SubSeq(q, n + 1, Len(q))[i] = q[n + i]
  BY SMT

(* How the numbering of a queue fares when it is split or grows.           *)
LEMMA EmptyFollows ==
  ASSUME NEW a
  PROVE  <<>> \in Seq(Nat) /\ Len(<<>>) = 0 /\ Follows(<<>>, a)
  BY DEF Follows

(* Numbers that follow one another do so in parts of them, and with the    *)
(* next one appended.                                                      *)
LEMMA SplitFollows ==
  ASSUME NEW q \in Seq(Nat), NEW n \in 0 .. Len(q), NEW a \in Nat, Follows(q, a)
  PROVE  Follows(SubSeq(q, 1, n), a) /\ Follows(SubSeq(q, n + 1, Len(q)), a + n)
<1>1. Follows(SubSeq(q, 1, n), a)
  BY SplitFacts DEF Follows
<1>2. \A i \in 1 .. Len(q) - n : SubSeq(q, n + 1, Len(q))[i] = (a + n) + i
  <2> TAKE i \in 1 .. Len(q) - n
  <2>1. SubSeq(q, n + 1, Len(q))[i] = q[n + i]
    BY SplitFacts
  <2>2. n + i \in 1 .. Len(q)
    OBVIOUS
  <2>3. q[n + i] = a + (n + i)
    BY <2>2 DEF Follows
  <2> QED BY <2>1, <2>3
<1>3. Len(SubSeq(q, n + 1, Len(q))) = Len(q) - n
  BY SplitFacts
<1> QED BY <1>1, <1>2, <1>3 DEF Follows

LEMMA AppendFollows ==
  ASSUME NEW q \in Seq(Nat), NEW a \in Nat, Follows(q, a)
  PROVE  Follows(Append(q, a + Len(q) + 1), a)
  BY AppendFacts DEF Follows

LEMMA TailFollows ==
  ASSUME NEW q \in Seq(Nat), NEW a \in Nat, q # <<>>, Follows(q, a)
  PROVE  Head(q) = a + 1 /\ Follows(Tail(q), a + 1)
<1>1. Head(q) = a + 1
  BY TailFacts DEF Follows
<1>2. \A i \in 1 .. Len(q) - 1 : Tail(q)[i] = (a + 1) + i
  BY TailFacts DEF Follows
<1> QED BY <1>1, <1>2, TailFacts DEF Follows

(* Sums that the lemmas below need with the lengths still unopened.        *)
LEMMA TakeSum ==
  ASSUME NEW a \in Nat, NEW l \in Nat, NEW n \in 0 .. l, NEW s, a + l = s
  PROVE  a + n <= s /\ a + n + (l - n) = s
  OBVIOUS

(* One byte more on either side of a sum.                                  *)
LEMMA GrowSum ==
  ASSUME NEW a \in Nat, NEW l \in Nat, NEW s, a + l = s
  PROVE  a + (l + 1) = s + 1
  OBVIOUS

-----------------------------------------------------------------------------
(* What a step does to one stream *)

(* read() takes n of the bytes that wait into an empty buffer.             *)
LEMMA ReadStream ==
  ASSUME NEW g \in Seq(Nat), NEW o \in Seq(Nat), NEW i \in Seq(Nat), NEW s \in Nat,
         NEW n \in 0 .. Len(i),
         Reaching(g, o, <<>>, s), Whole(g, o, <<>>, i, s)
  PROVE  /\ Reaching(g, o, SubSeq(i, 1, n), s)
         /\ Whole(g, o, SubSeq(i, 1, n), SubSeq(i, n + 1, Len(i)), s)
<1> DEFINE a == Len(g) + Len(o)
<1>1. a \in Nat /\ Len(<<>>) = 0 /\ a + Len(<<>>) = a
  BY EmptyFollows
<1>2. Follows(i, a) /\ a + Len(i) = s
  BY <1>1 DEF Whole
<1>3. Follows(SubSeq(i, 1, n), a) /\ Follows(SubSeq(i, n + 1, Len(i)), a + n)
  BY <1>1, <1>2, SplitFollows
<1>4. Len(SubSeq(i, 1, n)) = n /\ Len(SubSeq(i, n + 1, Len(i))) = Len(i) - n
  BY SplitFacts
<1>5. a + n <= s /\ a + n + (Len(i) - n) = s
  <2>1. a \in Nat /\ Len(i) \in Nat /\ n \in 0 .. Len(i) /\ a + Len(i) = s
    BY <1>1, <1>2
  <2> HIDE DEF a
  <2>2. \A l \in Nat : \A k \in 0 .. l : a + l = s => a + k <= s /\ a + k + (l - k) = s
    BY <2>1, TakeSum
  <2> QED BY ONLY <2>1, <2>2, Zenon
<1> QED BY <1>3, <1>4, <1>5 DEF Reaching, Whole

(* write() hands on the first of the bytes held.                           *)
LEMMA PushStream ==
  ASSUME NEW g \in Seq(Nat), NEW o \in Seq(Nat), NEW h \in Seq(Nat), NEW s \in Nat,
         h # <<>>, Reaching(g, o, h, s)
  PROVE  /\ Reaching(g, Append(o, Head(h)), Tail(h), s)
         /\ \A i : Whole(g, o, h, i, s) => Whole(g, Append(o, Head(h)), Tail(h), i, s)
<1> DEFINE a == Len(g) + Len(o)
<1>1. a \in Nat /\ Len(g) \in Nat /\ Len(o) \in Nat /\ Len(h) \in Nat
  OBVIOUS
<1>2. Head(h) = a + 1 /\ Follows(Tail(h), a + 1)
  BY <1>1, TailFollows DEF Reaching
<1>3. Follows(Append(o, Head(h)), Len(g))
  BY <1>1, <1>2, AppendFollows DEF Reaching
<1>4. /\ Len(Append(o, Head(h))) = Len(o) + 1 /\ Len(Tail(h)) = Len(h) - 1 /\ Len(h) > 0
      /\ Head(h) \in Nat
  BY TailFacts, AppendFacts
<1>5. Len(g) + Len(Append(o, Head(h))) = a + 1
  BY <1>1, <1>4
<1>6. Len(g) + Len(Append(o, Head(h))) + Len(Tail(h)) = a + Len(h)
  BY <1>1, <1>4, <1>5
<1> QED BY <1>2, <1>3, <1>5, <1>6 DEF Reaching, Whole

(* The reader takes the first of the bytes that wait for it.               *)
LEMMA ReceiveStream ==
  ASSUME NEW g \in Seq(Nat), NEW o \in Seq(Nat), NEW h \in Seq(Nat), NEW s \in Nat,
         o # <<>>, Beginning(g, s), Reaching(g, o, h, s)
  PROVE  /\ Beginning(Append(g, Head(o)), s)
         /\ Reaching(Append(g, Head(o)), Tail(o), h, s)
         /\ \A i : Whole(g, o, h, i, s) => Whole(Append(g, Head(o)), Tail(o), h, i, s)
<1>1. Len(g) \in Nat /\ Len(o) \in Nat /\ Len(h) \in Nat
  OBVIOUS
<1>2. Head(o) = Len(g) + 1 /\ Follows(Tail(o), Len(g) + 1)
  BY <1>1, TailFollows DEF Reaching
<1>3. Follows(Append(g, Head(o)), 0)
  BY <1>1, <1>2, AppendFollows DEF Beginning
<1>4. /\ Len(Append(g, Head(o))) = Len(g) + 1 /\ Len(Tail(o)) = Len(o) - 1 /\ Len(o) > 0
  BY TailFacts, AppendFacts
<1>5. Len(Append(g, Head(o))) + Len(Tail(o)) = Len(g) + Len(o)
  BY <1>1, <1>4
<1>6. Len(Append(g, Head(o))) <= s
  BY <1>1, <1>4 DEF Reaching
<1> QED BY <1>2, <1>3, <1>4, <1>5, <1>6 DEF Beginning, Reaching, Whole

(* The sender sends its next byte.                                         *)
LEMMA SendStream ==
  ASSUME NEW g \in Seq(Nat), NEW o \in Seq(Nat), NEW h \in Seq(Nat), NEW i \in Seq(Nat),
         NEW s \in Nat
  PROVE  /\ Beginning(g, s) => Beginning(g, s + 1)
         /\ Reaching(g, o, h, s) => Reaching(g, o, h, s + 1)
         /\ Whole(g, o, h, i, s) => Whole(g, o, h, Append(i, s + 1), s + 1)
<1> DEFINE a == Len(g) + Len(o) + Len(h)
<1>1. Len(g) \in Nat /\ a \in Nat /\ Len(i) \in Nat
  OBVIOUS
<1>2. ASSUME Whole(g, o, h, i, s) PROVE Whole(g, o, h, Append(i, s + 1), s + 1)
  <2>1. Follows(i, a) /\ a + Len(i) = s
    BY <1>2 DEF Whole
  <2>2. Follows(Append(i, s + 1), a)
    BY <1>1, <2>1, AppendFollows
  <2>3. a + Len(Append(i, s + 1)) = s + 1
    <3>1. Len(Append(i, s + 1)) = Len(i) + 1
      BY AppendFacts
    <3> HIDE DEF a
    <3> QED BY <1>1, <2>1, <3>1, GrowSum
  <2> QED BY <2>2, <2>3 DEF Whole
<1> QED BY <1>1, <1>2 DEF Beginning, Reaching

-----------------------------------------------------------------------------
(* There are two sides.                                                    *)
LEMMA SideFacts ==
  ASSUME NEW x \in Side
  PROVE  /\ Other(x) \in Side /\ Other(x) # x /\ Other(Other(x)) = x
         /\ Side = {x, Other(x)}
  BY DEF Side, Other

(* A step that leaves a stream alone keeps its order.                      *)
LEMMA Undisturbed ==
  ASSUME NEW x, NEW y, Ordered(x, y),
         got'[y] = got[y], outbound'[y] = outbound[y], held'[x] = held[x],
         inbound'[x] = inbound[x], sent'[x] = sent[x], broken' = broken
  PROVE  Ordered(x, y)'
  BY DEF Ordered, Beginning, Reaching, Whole, Follows

(* The types of what one stream consists of.                               *)
LEMMA TypesOf ==
  ASSUME IInv, NEW x \in Side
  PROVE  /\ got[x] \in Seq(Nat) /\ outbound[x] \in Seq(Nat) /\ held[x] \in Seq(Nat)
         /\ inbound[x] \in Seq(Nat) /\ sent[x] \in Nat
  BY DEF IInv, TypeOK

(* Nothing has been sent yet.                                              *)
LEMMA InitInvariant == Init => IInv
<1> SUFFICES ASSUME Init PROVE IInv
  OBVIOUS
<1>1. TypeOK
  <2>1. /\ full \in [Side -> BOOLEAN] /\ sent \in [Side -> Nat]
        /\ held \in [Side -> Seq(Nat)] /\ got \in [Side -> Seq(Nat)]
        /\ inbound \in [Side -> Seq(Nat)] /\ outbound \in [Side -> Seq(Nat)]
    BY EmptyFollows DEF Init
  <2>2. {rset, wset, fin, broken} \subseteq SUBSET Side
    BY DEF Init
  <2>3. pc \in Place /\ {unset, moved, idle, skipped} \subseteq BOOLEAN
    BY DEF Init, Place
  <2> QED BY <2>1, <2>2, <2>3 DEF TypeOK
<1>2. Drained
  BY DEF Init, Drained
<1>3. InOrder
  BY SideFacts DEF Init, InOrder, Ordered, Beginning, Reaching, Whole, Follows
<1> QED BY <1>1, <1>2, <1>3 DEF IInv

(* Steps of the loop that move no byte.                                    *)
Still == UNCHANGED <<full, held, kernel, peers>>

(* They keep the invariant.                                                *)
LEMMA StillStep == IInv /\ Still /\ TypeOK' => IInv'
<1> SUFFICES ASSUME IInv, Still, TypeOK' PROVE IInv'
  OBVIOUS
<1>1. Drained'
  BY DEF IInv, Drained, Still
<1>2. InOrder'
  <2> SUFFICES ASSUME NEW x \in Side PROVE Ordered(x, Other(x))'
    BY DEF InOrder
  <2> QED BY Undisturbed DEF IInv, InOrder, Still, kernel, peers
<1> QED BY <1>1, <1>2 DEF IInv

(* read() into an empty buffer.                                            *)
LEMMA ReadKeeps ==
  ASSUME IInv, NEW x \in Side, Read(x)
  PROVE  IInv'
<1> DEFINE y == Other(x)
           n == Taken(x)
           front == SubSeq(inbound[x], 1, n)
           rest == SubSeq(inbound[x], n + 1, Len(inbound[x]))
<1>1. y \in Side /\ y # x /\ Other(y) = x /\ Side = {x, y}
  BY SideFacts
<1>2. inbound[x] \in Seq(Nat) /\ held[x] = <<>>
  BY DEF IInv, TypeOK, Drained, Read, Reads
<1>3. n \in 0 .. Len(inbound[x])
  <2>1. Len(inbound[x]) \in Nat /\ ReadMax \in Nat
    BY <1>2, SizeAssumption
  <2> QED BY <2>1 DEF Taken, Least
<1>4. front \in Seq(Nat) /\ rest \in Seq(Nat)
  BY <1>2, <1>3, SplitFacts
<1>5. /\ held' = [held EXCEPT ![x] = front]
      /\ inbound' = [inbound EXCEPT ![x] = rest]
      /\ full' = [full EXCEPT ![x] = TRUE]
      /\ UNCHANGED <<got, outbound, sent, broken, fin, rset, wset, unset, idle, skipped>>
      /\ pc' = AfterRead[x] /\ moved' = (moved \/ n > 0)
  BY DEF Read, peers
<1>6. got[y] \in Seq(Nat) /\ outbound[y] \in Seq(Nat) /\ sent[x] \in Nat
  BY <1>1, TypesOf
<1> HIDE DEF n, front, rest, y
<1>7. TypeOK'
  BY <1>4, <1>5 DEF IInv, TypeOK, AfterRead, Place, Side
<1>8. Drained'
  BY <1>1, <1>5 DEF IInv, TypeOK, Drained
<1>9. Ordered(x, y)'
  <2>1. Ordered(x, y)
    BY DEF IInv, InOrder, y
  <2>2. held'[x] = front /\ inbound'[x] = rest
    BY <1>5 DEF IInv, TypeOK
  <2>3. CASE x \in broken
    <3>1. inbound[x] = <<>> /\ n = 0 /\ Len(<<>>) = 0
      BY <1>3, <2>1, <2>3, EmptyFollows DEF Ordered
    <3>2. front = <<>> /\ rest = <<>>
      BY <1>2, <1>3, <1>4, <3>1, SplitFacts DEF front, rest
    <3> QED BY <1>2, <1>5, <2>1, <2>2, <2>3, <3>2 DEF Ordered, Beginning, Reaching, Follows
  <2>4. CASE x \notin broken /\ y \in broken
    BY <1>5, <2>1, <2>4 DEF Ordered, Beginning, Follows
  <2>5. CASE x \notin broken /\ y \notin broken
    <3>1. /\ Reaching(got[y], outbound[y], <<>>, sent[x])
          /\ Whole(got[y], outbound[y], <<>>, inbound[x], sent[x])
      BY <1>2, <2>1, <2>5 DEF Ordered
    <3>2. /\ Reaching(got[y], outbound[y], front, sent[x])
          /\ Whole(got[y], outbound[y], front, rest, sent[x])
      BY <1>2, <1>3, <1>6, <3>1, ReadStream DEF front, rest
    <3> QED BY <1>5, <2>1, <2>2, <2>5, <3>2 DEF Ordered, Beginning, Reaching, Whole, Follows
  <2> QED BY <2>3, <2>4, <2>5
<1>10. Ordered(y, x)'
  <2>1. Ordered(y, x)
    BY <1>1 DEF IInv, InOrder
  <2>2. held'[y] = held[y] /\ inbound'[y] = inbound[y]
    BY <1>1, <1>5 DEF IInv, TypeOK
  <2> QED BY <1>5, <2>1, <2>2, Undisturbed
<1> QED BY <1>1, <1>7, <1>8, <1>9, <1>10 DEF IInv, InOrder, y

(* One byte of a write().                                                  *)
LEMMA PushKeeps ==
  ASSUME IInv, NEW x \in Side, Push(x)
  PROVE  IInv'
<1> DEFINE y == Other(x)
<1>1. y \in Side /\ y # x /\ Other(y) = x /\ Side = {x, y}
  BY SideFacts
<1>2. /\ outbound' = [outbound EXCEPT ![y] = Append(outbound[y], Head(held[x]))]
      /\ held' = [held EXCEPT ![x] = Tail(held[x])]
      /\ held[x] # <<>> /\ full[x] /\ y \notin broken /\ moved' = TRUE
      /\ UNCHANGED <<pc, rset, wset, full, inbound, broken, got, sent, fin, unset, idle, skipped>>
  BY DEF Push, Writes, peers
<1>3. /\ got[y] \in Seq(Nat) /\ outbound[y] \in Seq(Nat) /\ held[x] \in Seq(Nat)
      /\ sent[x] \in Nat
  BY <1>1, TypesOf
<1>4. Append(outbound[y], Head(held[x])) \in Seq(Nat) /\ Tail(held[x]) \in Seq(Nat)
  BY <1>2, <1>3, TailFacts, AppendFacts
<1> HIDE DEF y
<1>5. TypeOK'
  BY <1>1, <1>2, <1>4 DEF IInv, TypeOK
<1>6. Drained'
  BY <1>1, <1>2 DEF IInv, TypeOK, Drained
<1>7. Ordered(x, y)'
  <2>1. Ordered(x, y)
    BY DEF IInv, InOrder, y
  <2>2. /\ held'[x] = Tail(held[x])
        /\ outbound'[y] = Append(outbound[y], Head(held[x]))
    BY <1>1, <1>2 DEF IInv, TypeOK
  <2>3. Reaching(got[y], outbound[y], held[x], sent[x])
    BY <1>2, <2>1 DEF Ordered
  <2>4. /\ Reaching(got[y], outbound'[y], held'[x], sent[x])
        /\ Whole(got[y], outbound[y], held[x], inbound[x], sent[x]) =>
             Whole(got[y], outbound'[y], held'[x], inbound[x], sent[x])
    BY <1>2, <1>3, <2>2, <2>3, PushStream
  <2> QED BY <1>2, <2>1, <2>4 DEF Ordered, Beginning, Reaching, Whole, Follows
<1>8. Ordered(y, x)'
  <2>1. Ordered(y, x)
    BY <1>1 DEF IInv, InOrder
  <2>2. held'[y] = held[y] /\ outbound'[x] = outbound[x]
    BY <1>1, <1>2 DEF IInv, TypeOK
  <2> QED BY <1>2, <2>1, <2>2, Undisturbed
<1> QED BY <1>1, <1>5, <1>6, <1>7, <1>8 DEF IInv, InOrder, y

(* The end of a half of the round.                                         *)
LEMMA LeaveTypes ==
  ASSUME IInv, NEW x \in Side, LeaveWrite(x, moved)
  PROVE  pc' \in Place /\ idle' \in BOOLEAN
<1>1. pc' \in Place
  BY DEF LeaveWrite, AfterWrite, Place, Side
<1>2. idle \in BOOLEAN
  BY DEF IInv, TypeOK
<1>3. CASE x = "r"
  BY <1>1, <1>3 DEF LeaveWrite
<1>4. CASE x # "r"
  BY <1>1, <1>2, <1>4 DEF LeaveWrite
<1> QED BY <1>1, <1>3, <1>4

(* A write that has passed on all that was held.                           *)
LEMMA WrittenKeeps ==
  ASSUME IInv, NEW x \in Side, Written(x)
  PROVE  IInv'
<1>1. /\ full' = [full EXCEPT ![x] = FALSE] /\ held[x] = <<>>
      /\ UNCHANGED <<held, kernel, peers>>
  BY DEF Written, Emptied
<1>2. pc' \in Place /\ idle' \in BOOLEAN
  BY LeaveTypes DEF Written
<1>3. TypeOK'
  BY <1>1, <1>2 DEF IInv, TypeOK, Written, kernel, peers
<1>4. Drained'
  BY <1>1 DEF IInv, TypeOK, Drained
<1>5. InOrder'
  <2> SUFFICES ASSUME NEW z \in Side PROVE Ordered(z, Other(z))'
    BY DEF InOrder
  <2> QED BY <1>1, Undisturbed DEF IInv, InOrder, kernel, peers
<1> QED BY <1>3, <1>4, <1>5 DEF IInv

(* A write to a reset connection drops what was held.                      *)
LEMMA WriteFailsKeeps ==
  ASSUME IInv, NEW x \in Side, WriteFails(x)
  PROVE  IInv'
<1>1. CASE pc' = "dead" /\ UNCHANGED <<held, full, idle>>
  <2>1. TypeOK'
    BY <1>1 DEF IInv, TypeOK, WriteFails, kernel, peers, Place
  <2> QED BY <1>1, <2>1, StillStep DEF WriteFails, Still
<1>2. CASE /\ held' = [held EXCEPT ![x] = <<>>]
           /\ full' = Emptied(x)
           /\ LeaveWrite(x, moved)
  <2> DEFINE y == Other(x)
  <2>1. y \in Side /\ y # x /\ Other(y) = x /\ Side = {x, y}
    BY SideFacts
  <2>2. /\ full' = [full EXCEPT ![x] = FALSE] /\ y \in broken
        /\ UNCHANGED <<rset, wset, inbound, outbound, broken, got, sent, fin, unset, moved, skipped>>
    BY <1>2 DEF WriteFails, Emptied, kernel, peers
  <2>3. pc' \in Place /\ idle' \in BOOLEAN
    BY <1>2, LeaveTypes
  <2> HIDE DEF y
  <2>4. TypeOK'
    BY <1>2, <2>2, <2>3, EmptyFollows DEF IInv, TypeOK
  <2>5. Drained'
    BY <1>2, <2>2 DEF IInv, TypeOK, Drained
  <2>6. Ordered(x, y)'
    <3>1. Ordered(x, y)
      BY DEF IInv, InOrder, y
    <3> QED BY <2>2, <3>1 DEF Ordered, Beginning, Follows
  <2>7. Ordered(y, x)'
    <3>1. Ordered(y, x)
      BY <2>1 DEF IInv, InOrder
    <3>2. held'[y] = held[y]
      BY <1>2, <2>1 DEF IInv, TypeOK
    <3> QED BY <2>2, <3>1, <3>2, Undisturbed
  <2> QED BY <2>1, <2>4, <2>5, <2>6, <2>7 DEF IInv, InOrder, y
<1> QED BY <1>1, <1>2 DEF WriteFails

-----------------------------------------------------------------------------
(* The peers *)

(* A peer sends its next byte.                                             *)
LEMMA SendKeeps ==
  ASSUME IInv, NEW x \in Side, Send(x)
  PROVE  IInv'
<1> DEFINE y == Other(x)
           s == sent[x] + 1
<1>1. y \in Side /\ y # x /\ Other(y) = x /\ Side = {x, y}
  BY SideFacts
<1>2. /\ sent' = [sent EXCEPT ![x] = s]
      /\ inbound' = [inbound EXCEPT ![x] = Append(inbound[x], s)]
      /\ x \notin broken
      /\ UNCHANGED <<loop, outbound, broken, got, fin>>
  BY DEF Send, IInv, TypeOK
<1>3. /\ got[y] \in Seq(Nat) /\ outbound[y] \in Seq(Nat) /\ held[x] \in Seq(Nat)
      /\ inbound[x] \in Seq(Nat) /\ sent[x] \in Nat /\ s \in Nat
  BY <1>1, TypesOf
<1>4. Append(inbound[x], s) \in Seq(Nat)
  BY <1>3, AppendFacts
<1>5. sent'[x] = s /\ inbound'[x] = Append(inbound[x], s)
  BY <1>2 DEF IInv, TypeOK
<1>6. /\ UNCHANGED <<pc, rset, wset, full, held, unset, moved, idle, skipped>>
      /\ UNCHANGED <<outbound, broken, got, fin>>
  BY <1>2 DEF loop
<1>7. Ordered(x, y)
  BY DEF IInv, InOrder
<1>8. /\ Beginning(got[y], sent'[x])
      /\ Reaching(got[y], outbound[y], held[x], sent[x]) =>
           Reaching(got[y], outbound[y], held[x], sent'[x])
      /\ Whole(got[y], outbound[y], held[x], inbound[x], sent[x]) =>
           Whole(got[y], outbound[y], held[x], inbound'[x], sent'[x])
  <2> DEFINE n == sent[x]
  <2>1. /\ Beginning(got[y], n) => Beginning(got[y], n + 1)
        /\ Reaching(got[y], outbound[y], held[x], n) => Reaching(got[y], outbound[y], held[x], n + 1)
        /\ Whole(got[y], outbound[y], held[x], inbound[x], n) =>
             Whole(got[y], outbound[y], held[x], Append(inbound[x], n + 1), n + 1)
    <3> HIDE DEF y
    <3> QED BY <1>3, SendStream
  <2>2. Beginning(got[y], n)
    BY <1>7 DEF Ordered
  <2> QED BY <1>5, <2>1, <2>2
<1> HIDE DEF y, s
<1>9. TypeOK'
  BY <1>2, <1>3, <1>4, <1>6 DEF IInv, TypeOK
<1>10. Drained'
  BY <1>6 DEF IInv, Drained
<1>11. Ordered(x, y)'
  BY <1>2, <1>6, <1>7, <1>8 DEF Ordered, Beginning, Reaching, Whole, Follows
<1>12. Ordered(y, x)'
  <2>1. Ordered(y, x)
    BY <1>1 DEF IInv, InOrder
  <2>2. sent'[y] = sent[y] /\ inbound'[y] = inbound[y]
    BY <1>1, <1>2 DEF IInv, TypeOK
  <2> QED BY <1>6, <2>1, <2>2, Undisturbed
<1> QED BY <1>1, <1>9, <1>10, <1>11, <1>12 DEF IInv, InOrder, y

(* A peer reads the next byte.                                             *)
LEMMA ReceiveKeeps ==
  ASSUME IInv, NEW x \in Side, Receive(x)
  PROVE  IInv'
<1> DEFINE w == Other(x)
<1>1. w \in Side /\ w # x /\ Other(w) = x /\ Side = {x, w}
  BY SideFacts
<1>2. /\ got' = [got EXCEPT ![x] = Append(got[x], Head(outbound[x]))]
      /\ outbound' = [outbound EXCEPT ![x] = Tail(outbound[x])]
      /\ outbound[x] # <<>> /\ x \notin broken
      /\ UNCHANGED <<loop, inbound, broken, sent, fin>>
  BY DEF Receive
<1>3. /\ got[x] \in Seq(Nat) /\ outbound[x] \in Seq(Nat) /\ held[w] \in Seq(Nat)
      /\ sent[w] \in Nat
  BY <1>1, TypesOf
<1>4. Append(got[x], Head(outbound[x])) \in Seq(Nat) /\ Tail(outbound[x]) \in Seq(Nat)
  BY <1>2, <1>3, TailFacts, AppendFacts
<1>5. got'[x] = Append(got[x], Head(outbound[x])) /\ outbound'[x] = Tail(outbound[x])
  BY <1>2 DEF IInv, TypeOK
<1>6. /\ UNCHANGED <<pc, rset, wset, full, held, unset, moved, idle, skipped>>
      /\ UNCHANGED <<inbound, broken, sent, fin>>
  BY <1>2 DEF loop
<1>7. Ordered(w, x)
  BY <1>1 DEF IInv, InOrder
<1>8. /\ Beginning(got'[x], sent[w])
      /\ Reaching(got'[x], outbound'[x], held[w], sent[w])
      /\ Whole(got[x], outbound[x], held[w], inbound[w], sent[w]) =>
           Whole(got'[x], outbound'[x], held[w], inbound[w], sent[w])
  BY <1>2, <1>3, <1>5, <1>7, ReceiveStream, SMTT(20) DEF Ordered
<1> HIDE DEF w
<1>9. TypeOK'
  BY <1>2, <1>4, <1>6 DEF IInv, TypeOK
<1>10. Drained'
  BY <1>6 DEF IInv, Drained
<1>11. Ordered(w, x)'
  BY <1>2, <1>6, <1>7, <1>8 DEF Ordered, Beginning, Reaching, Whole, Follows
<1>12. Ordered(x, w)'
  <2>1. Ordered(x, w)
    BY DEF IInv, InOrder, w
  <2>2. got'[w] = got[w] /\ outbound'[w] = outbound[w]
    BY <1>1, <1>2 DEF IInv, TypeOK
  <2> QED BY <1>6, <2>1, <2>2, Undisturbed
<1> QED BY <1>1, <1>9, <1>10, <1>11, <1>12 DEF IInv, InOrder, w

(* A reset loses both queues of its connection: the two streams are cut  *)
(* at different places.                                                 *)
LEMMA BreakKeeps ==
  ASSUME IInv, NEW x \in Side, Break(x)
  PROVE  IInv'
<1> DEFINE y == Other(x)
<1>1. y \in Side /\ y # x /\ Other(y) = x /\ Side = {x, y}
  BY SideFacts
<1>2. /\ broken' = broken \cup {x}
      /\ inbound' = [inbound EXCEPT ![x] = <<>>]
      /\ outbound' = [outbound EXCEPT ![x] = <<>>]
      /\ UNCHANGED <<pc, rset, wset, full, held, unset, moved, idle, skipped>>
      /\ UNCHANGED <<got, sent, fin>>
  BY DEF Break, loop, peers
<1> HIDE DEF y
<1>3. TypeOK'
  BY <1>2, EmptyFollows DEF IInv, TypeOK
<1>4. Drained'
  BY <1>2 DEF IInv, Drained
<1>5. /\ inbound'[x] = <<>> /\ inbound'[y] = inbound[y]
      /\ outbound'[y] = outbound[y]
  BY <1>1, <1>2 DEF IInv, TypeOK
<1>6. Ordered(x, y)'
  <2>1. Ordered(x, y)
    BY DEF IInv, InOrder, y
  <2> QED BY <1>2, <1>5, <2>1 DEF Ordered, Beginning, Reaching, Follows
<1>7. Ordered(y, x)'
  <2>1. Ordered(y, x)
    BY <1>1 DEF IInv, InOrder
  <2> QED BY <1>1, <1>2, <1>5, <2>1 DEF Ordered, Beginning, Follows
<1> QED BY <1>1, <1>3, <1>4, <1>6, <1>7 DEF IInv, InOrder, y

-----------------------------------------------------------------------------
(* The steps that touch no buffer.                                         *)
LEMMA Quiet ==
  ASSUME IInv,
         \/ Select \/ SelectWrite \/ Timeout
         \/ \E x \in Side : SkipRead(x) \/ ReadFails(x) \/ SkipWrite(x) \/ Finish(x)
  PROVE  IInv'
<1>1. Readable \subseteq Side /\ Writable \subseteq Side
  BY DEF Readable, Writable
<1>2. CASE Select \/ SelectWrite
  <2>1. TypeOK'
    BY <1>1, <1>2 DEF IInv, TypeOK, Select, SelectWrite, Place, kernel, peers
  <2> QED BY <1>2, <2>1, StillStep DEF Select, SelectWrite, Still
<1>3. CASE Timeout
  <2>1. TypeOK'
    BY <1>3 DEF IInv, TypeOK, Timeout, Place, kernel, peers
  <2> QED BY <1>3, <2>1, StillStep DEF Timeout, Still
<1>4. ASSUME NEW x \in Side, SkipRead(x) \/ ReadFails(x) PROVE IInv'
  <2>1. TypeOK'
    BY <1>4 DEF IInv, TypeOK, SkipRead, ReadFails, AfterRead, Place, Side, kernel, peers
  <2> QED BY <1>4, <2>1, StillStep DEF SkipRead, ReadFails, Still
<1>5. ASSUME NEW x \in Side, SkipWrite(x) PROVE IInv'
  <2>1. pc' \in Place /\ idle' \in BOOLEAN
    BY <1>5, LeaveTypes DEF SkipWrite
  <2>2. skipped' \in BOOLEAN
    BY <1>5 DEF SkipWrite, IInv, TypeOK
  <2>3. TypeOK'
    BY <1>5, <2>1, <2>2 DEF IInv, TypeOK, SkipWrite, kernel, peers
  <2> QED BY <1>5, <2>3, StillStep DEF SkipWrite, Still
<1>6. ASSUME NEW x \in Side, Finish(x) PROVE IInv'
  <2>1. fin' \in SUBSET Side
    BY <1>6 DEF IInv, TypeOK, Finish
  <2>2. TypeOK'
    BY <1>6, <2>1 DEF IInv, TypeOK, Finish, loop, kernel
  <2>3. Drained'
    BY <1>6 DEF IInv, Drained, Finish, loop
  <2>4. InOrder'
    <3> SUFFICES ASSUME NEW z \in Side PROVE Ordered(z, Other(z))'
      BY DEF InOrder
    <3> QED BY <1>6, Undisturbed DEF IInv, InOrder, Finish, loop, kernel
  <2> QED BY <2>2, <2>3, <2>4 DEF IInv
<1> QED BY <1>2, <1>3, <1>4, <1>5, <1>6

(* Every step keeps the invariant.                                         *)
LEMMA StepInvariant == IInv /\ [Next]_vars => IInv'
<1> SUFFICES ASSUME IInv, [Next]_vars PROVE IInv'
  OBVIOUS
<1>1. CASE Loop
  <2>1. CASE Select \/ SelectWrite
    BY <2>1, Quiet
  <2>2. ASSUME NEW x \in Side, SkipRead(x) \/ ReadFails(x) \/ SkipWrite(x) PROVE IInv'
    BY <2>2, Quiet
  <2>3. ASSUME NEW x \in Side, Read(x) PROVE IInv'
    BY <2>3, ReadKeeps
  <2>4. ASSUME NEW x \in Side, Push(x) PROVE IInv'
    BY <2>4, PushKeeps
  <2>5. ASSUME NEW x \in Side, Written(x) PROVE IInv'
    BY <2>5, WrittenKeeps
  <2>6. ASSUME NEW x \in Side, WriteFails(x) PROVE IInv'
    BY <2>6, WriteFailsKeeps
  <2> QED BY <1>1, <2>1, <2>2, <2>3, <2>4, <2>5, <2>6 DEF Loop
<1>2. CASE Timeout
  BY <1>2, Quiet
<1>3. CASE Peer
  <2>1. ASSUME NEW x \in Side, Send(x) PROVE IInv'
    BY <2>1, SendKeeps
  <2>2. ASSUME NEW x \in Side, Receive(x) PROVE IInv'
    BY <2>2, ReceiveKeeps
  <2>3. ASSUME NEW x \in Side, Finish(x) PROVE IInv'
    BY <2>3, Quiet
  <2>4. ASSUME NEW x \in Side, Break(x) PROVE IInv'
    BY <2>4, BreakKeeps
  <2> QED BY <1>3, <2>1, <2>2, <2>3, <2>4 DEF Peer
<1>4. CASE UNCHANGED vars
  BY <1>4, StillStep DEF vars, kernel, peers, Still, IInv, TypeOK
<1> QED BY <1>1, <1>2, <1>3, <1>4 DEF Next

(* So it holds always.                                                     *)
LEMMA InvariantHolds == Spec => []IInv
<1> QED BY InitInvariant, StepInvariant, PTL DEF Spec

(* It says all that StreamKept says.                                       *)
LEMMA InvariantImplies == IInv => StreamKept
<1> SUFFICES ASSUME IInv, NEW x \in Side
             PROVE  LET y == Other(x) IN
                    /\ broken = {} => /\ Follows(outbound[y], Len(got[y]))
                                      /\ Follows(held[x], Passed(x))
                                      /\ Follows(inbound[x], Passed(x) + Len(held[x]))
                                      /\ Passed(x) + Len(held[x]) + Len(inbound[x]) = sent[x]
                    /\ Follows(got[y], 0) /\ Len(got[y]) <= sent[x]
  BY DEF StreamKept
<1>1. Ordered(x, Other(x))
  BY DEF IInv, InOrder
<1> QED BY <1>1 DEF Ordered, Beginning, Reaching, Whole, Passed

(* The state of a relay has its type.                                      *)
THEOREM TypeCorrect == Spec => []TypeOK
<1>1. IInv => TypeOK
  BY DEF IInv
<1> QED BY <1>1, InvariantHolds, PTL

(* redirectData() never loses, repeats or reorders a byte of a connection  *)
(* that nobody broke, and never passes on anything but what was sent.      *)
THEOREM StreamsKept == Spec => []StreamKept
<1> QED BY InvariantHolds, InvariantImplies, PTL

(* The same of the process that runs it: a CONNECT leaves the state of a   *)
(* BIND alone, and a BIND that of the relay.                               *)
THEOREM TransferKeepsStreams == TransferSpec => []StreamKept
<1>1. InitTransfer => IInv
  BY InitInvariant DEF InitTransfer
<1>2. IInv /\ [NextTransfer]_<<vars, bindVars, cd>> => IInv'
  <2> SUFFICES ASSUME IInv, [NextTransfer]_<<vars, bindVars, cd>> PROVE IInv'
    OBVIOUS
  <2>1. CASE Connected
    BY <2>1, StepInvariant DEF Connected
  <2>2. CASE UNCHANGED vars
    BY <2>2, StepInvariant
  <2> QED BY <2>1, <2>2 DEF NextTransfer, Bound
<1> QED BY <1>1, <1>2, InvariantImplies, PTL DEF TransferSpec

-----------------------------------------------------------------------------
(* Rounds *)

(* SpinsOnlyIf speaks of the end of a round only.  What makes it true is   *)
(* that a round begins with both buffers empty and something to read, and  *)
(* that every way to its end passes a read() that takes a byte.            *)
Exempt == fin # {} \/ skipped \/ broken # {} \/ unset
Waiting(x) == x \in rset /\ inbound[x] # <<>>

RoundMoves ==
  /\ ~idle
  /\ pc \in {"select", "read_s", "write_r"} => ~full["s"]
  /\ pc \in {"select", "read_s", "read_r"} => ~full["r"]
  /\ pc = "read_s" => Waiting("s") \/ Waiting("r")
  /\ pc = "read_r" => moved \/ Waiting("r")
  /\ pc \in {"wselect", "write_s", "write_r"} => moved

ProgressInv == Exempt \/ RoundMoves

(* It holds at the start, whatever tv_usec is.                             *)
LEMMA InitProgress == Init => ProgressInv
<1> QED BY DEF Init, ProgressInv, RoundMoves, Side

(* What a read() finds in a round with no exemption.                       *)
LEMMA ReadTakes ==
  ASSUME IInv, ~Exempt, NEW x \in Side, Read(x)
  PROVE  moved'
<1>1. inbound[x] # <<>> /\ inbound[x] \in Seq(Nat)
  BY DEF Read, Readable, Exempt, IInv, TypeOK
<1>2. Len(inbound[x]) \in Nat /\ Len(inbound[x]) > 0
  BY <1>1, TailFacts
<1>3. Taken(x) > 0
  BY <1>2, SizeAssumption DEF Taken, Least
<1> QED BY <1>3 DEF Read

(* The steps that end a half of a round.                                   *)
LEMMA HalfProgress ==
  ASSUME IInv, ~Exempt, RoundMoves, NEW x \in Side, SkipWrite(x) \/ Written(x)
  PROVE  ProgressInv'
<1>1. full \in [Side -> BOOLEAN] /\ moved
  BY DEF IInv, TypeOK, RoundMoves, SkipWrite, Written, WriteAt, Side
<1>2. skipped' \/ ~full'[x]
  BY <1>1 DEF SkipWrite, Written, Emptied
<1>3. pc = WriteAt[x] /\ pc' = AfterWrite[x] /\ ~idle' /\ moved'
  BY <1>1 DEF SkipWrite, Written, LeaveWrite, RoundMoves
<1>4. \A y \in Side : y # x => full'[y] = full[y]
  BY <1>1 DEF SkipWrite, Written, Emptied
<1>5. CASE x = "s"
  <2>1. pc' = "write_r"
    BY <1>3, <1>5 DEF AfterWrite
  <2> QED BY <1>2, <1>3, <1>5, <2>1 DEF ProgressInv, Exempt, RoundMoves
<1>6. CASE x = "r"
  <2>1. pc = "write_r" /\ pc' = "select"
    BY <1>3, <1>6 DEF WriteAt, AfterWrite
  <2>2. ~full'["s"]
    BY <1>4, <1>6, <2>1 DEF RoundMoves, Side
  <2> QED BY <1>2, <1>3, <1>6, <2>1, <2>2 DEF ProgressInv, Exempt, RoundMoves
<1> QED BY <1>5, <1>6 DEF Side

(* The first half of a round.                                              *)
LEMMA ReadProgress ==
  ASSUME IInv, ~Exempt, RoundMoves, NEW x \in Side, SkipRead(x) \/ Read(x)
  PROVE  ProgressInv'
<1>1. full \in [Side -> BOOLEAN] /\ inbound \in [Side -> Seq(Nat)]
  BY DEF IInv, TypeOK
<1>2. pc = ReadAt[x] /\ pc' = AfterRead[x] /\ rset' = rset /\ ~idle'
  BY DEF SkipRead, Read, RoundMoves
<1>3. \A y \in Side : y # x => full'[y] = full[y] /\ inbound'[y] = inbound[y]
  BY <1>1 DEF SkipRead, Read, kernel
<1>4. moved' \/ (~Reads(x) /\ moved' = moved)
  BY ReadTakes DEF SkipRead
<1>5. CASE x = "s"
  <2>1. pc = "read_s" /\ pc' = "read_r"
    BY <1>2, <1>5 DEF ReadAt, AfterRead
  <2>2. ~full'["r"] /\ (Waiting("r") => Waiting("r")')
    BY <1>2, <1>3, <1>5, <2>1 DEF RoundMoves, Waiting, Side
  <2>3. moved' \/ Waiting("r")
    BY <1>4, <1>5, <2>1 DEF RoundMoves, Waiting, Reads
  <2> QED BY <1>2, <2>1, <2>2, <2>3 DEF ProgressInv, RoundMoves
<1>6. CASE x = "r"
  <2>1. pc = "read_r" /\ pc' = "wselect"
    BY <1>2, <1>6 DEF ReadAt, AfterRead
  <2>2. moved'
    BY <1>4, <1>6, <2>1 DEF RoundMoves, Waiting, Reads
  <2> QED BY <1>2, <2>1, <2>2 DEF ProgressInv, RoundMoves
<1> QED BY <1>5, <1>6 DEF Side

(* A peer that sends adds to what waits; the others change no queue to the *)
(* relay, or exempt the round.                                             *)
LEMMA PeerProgress ==
  ASSUME IInv, ~Exempt, RoundMoves, Peer
  PROVE  ProgressInv'
<1>1. ASSUME NEW x \in Side, Send(x) PROVE ProgressInv'
  <2>1. inbound[x] \in Seq(Nat) /\ sent[x] + 1 \in Nat
    BY DEF IInv, TypeOK
  <2>2. Append(inbound[x], sent[x] + 1) # <<>>
    BY <2>1, AppendFacts, EmptyFollows
  <2>3. inbound' = [inbound EXCEPT ![x] = Append(inbound[x], sent[x] + 1)]
    BY <1>1 DEF Send
  <2>4. \A y \in Side : inbound[y] # <<>> => inbound'[y] # <<>>
    BY <2>2, <2>3 DEF IInv, TypeOK
  <2>5. UNCHANGED <<pc, rset, full, moved, idle>>
    BY <1>1 DEF Send, loop
  <2> QED BY <2>4, <2>5 DEF ProgressInv, RoundMoves, Waiting, Side
<1>2. ASSUME NEW x \in Side, Receive(x) PROVE ProgressInv'
  BY <1>2 DEF Receive, loop, ProgressInv, RoundMoves, Waiting
<1>3. ASSUME NEW x \in Side, Finish(x) \/ Break(x) PROVE ProgressInv'
  BY <1>3 DEF Finish, Break, ProgressInv, Exempt
<1> QED BY <1>1, <1>2, <1>3 DEF Peer

(* An exemption is for good.                                               *)
LEMMA ExemptStays ==
  ASSUME IInv, Exempt, [Next]_vars
  PROVE  Exempt'
<1> USE DEF Exempt, kernel, peers
<1>1. CASE Select \/ SelectWrite \/ Timeout
  BY <1>1 DEF Select, SelectWrite, Timeout
<1>2. ASSUME NEW x \in Side, SkipRead(x) \/ Read(x) \/ ReadFails(x) PROVE Exempt'
  BY <1>2 DEF SkipRead, Read, ReadFails
<1>3. ASSUME NEW x \in Side, SkipWrite(x) \/ Push(x) \/ Written(x) \/ WriteFails(x)
      PROVE  Exempt'
  BY <1>3 DEF SkipWrite, Push, Written, WriteFails
<1>4. ASSUME NEW x \in Side, Send(x) \/ Receive(x) \/ Finish(x) \/ Break(x) PROVE Exempt'
  BY <1>4 DEF Send, Receive, Finish, Break, loop
<1>5. CASE UNCHANGED vars
  BY <1>5 DEF vars
<1> QED BY <1>1, <1>2, <1>3, <1>4, <1>5 DEF Next, Loop, Peer

(* Every step keeps it.                                                    *)
LEMMA StepProgress == IInv /\ ProgressInv /\ [Next]_vars => ProgressInv'
<1> SUFFICES ASSUME IInv, ProgressInv, [Next]_vars PROVE ProgressInv'
  OBVIOUS
<1>1. CASE Exempt
  BY <1>1, ExemptStays DEF ProgressInv
<1>2. CASE ~Exempt
  <2> USE <1>2
  <2>1. RoundMoves
    BY DEF ProgressInv
  <2>2. CASE Select
    <3>1. pc = "select" /\ pc' = "read_s" /\ rset' = Readable /\ Readable # {}
      BY <2>2 DEF Select, Exempt
    <3>2. UNCHANGED <<full, inbound, idle>>
      BY <2>2 DEF Select, kernel
    <3>3. \A x \in Readable : x \in Side /\ inbound[x] # <<>>
      BY DEF Readable, Exempt
    <3>4. Waiting("s")' \/ Waiting("r")'
      BY <3>1, <3>2, <3>3 DEF Waiting, Side
    <3> QED BY <2>1, <3>1, <3>2, <3>4 DEF ProgressInv, RoundMoves
  <2>3. CASE SelectWrite
    BY <2>1, <2>3 DEF SelectWrite, ProgressInv, RoundMoves
  <2>4. CASE Timeout
    BY <2>1, <2>4 DEF Timeout, ProgressInv, RoundMoves
  <2>5. ASSUME NEW x \in Side, SkipRead(x) \/ Read(x) PROVE ProgressInv'
    BY <2>1, <2>5, ReadProgress
  <2>6. ASSUME NEW x \in Side, SkipWrite(x) \/ Written(x) PROVE ProgressInv'
    BY <2>1, <2>6, HalfProgress
  <2>7. ASSUME NEW x \in Side, ReadFails(x) \/ WriteFails(x) PROVE ProgressInv'
    BY <2>7 DEF ReadFails, WriteFails, Exempt
  <2>8. ASSUME NEW x \in Side, Push(x) PROVE ProgressInv'
    BY <2>1, <2>8 DEF Push, WriteAt, Side, ProgressInv, RoundMoves
  <2>9. CASE Peer
    BY <2>1, <2>9, PeerProgress
  <2>10. CASE UNCHANGED vars
    BY <2>1, <2>10 DEF vars, kernel, ProgressInv, RoundMoves, Waiting
  <2> QED BY <2>2, <2>3, <2>4, <2>5, <2>6, <2>7, <2>8, <2>9, <2>10 DEF Next, Loop
<1> QED BY <1>1, <1>2

(* redirectData() spins only once a stream has ended, a write was put off, *)
(* a connection broke, or tv_usec is negative.                             *)
THEOREM RoundsMoveBytes == TransferSpec => []SpinsOnlyIf
<1>1. InitTransfer => IInv /\ ProgressInv
  BY InitInvariant, InitProgress DEF InitTransfer
<1>2. IInv /\ ProgressInv /\ [NextTransfer]_<<vars, bindVars, cd>> => (IInv /\ ProgressInv)'
  <2>1. [NextTransfer]_<<vars, bindVars, cd>> => [Next]_vars
    BY DEF NextTransfer, Connected, Bound
  <2> QED BY <2>1, StepInvariant, StepProgress
<1>3. IInv /\ ProgressInv => SpinsOnlyIf
  BY DEF ProgressInv, Exempt, RoundMoves, SpinsOnlyIf
<1> QED BY <1>1, <1>2, <1>3, PTL DEF TransferSpec

-----------------------------------------------------------------------------
(* The two streams of a BIND *)

(* One sequence after another, with its elements by their places.          *)
LEMMA ConcatFacts ==
  ASSUME NEW q \in Seq(Nat), NEW r \in Seq(Nat)
  PROVE  /\ q \o r \in Seq(Nat) /\ Len(q \o r) = Len(q) + Len(r)
         /\ \A i \in 1 .. Len(q) : (q \o r)[i] = q[i]
         /\ \A i \in Len(q) + 1 .. Len(q) + Len(r) : (q \o r)[i] = r[i - Len(q)]
  BY SMT

LEMMA ConcatFollows ==
  ASSUME NEW q \in Seq(Nat), NEW r \in Seq(Nat), Follows(q, 0), Follows(r, Len(q))
  PROVE  Follows(q \o r, 0)
<1>1. ASSUME NEW i \in 1 .. Len(q) + Len(r) PROVE (q \o r)[i] = 0 + i
  <2>1. CASE i \in 1 .. Len(q)
    BY <2>1, ConcatFacts DEF Follows
  <2>2. CASE i \in Len(q) + 1 .. Len(q) + Len(r)
    <3>1. i - Len(q) \in 1 .. Len(r) /\ (q \o r)[i] = r[i - Len(q)]
      BY <2>2, ConcatFacts
    <3>2. r[i - Len(q)] = Len(q) + (i - Len(q))
      BY <3>1 DEF Follows
    <3> QED BY <3>1, <3>2
  <2> QED BY <1>1, <2>1, <2>2
<1>2. Len(q \o r) = Len(q) + Len(r)
  BY ConcatFacts
<1> QED BY <1>1, <1>2 DEF Follows

(* What reaches one who may miss pieces: in order, and all of it from      *)
(* before the pieces that are still to be read.                            *)
UpTo(q, n) == \A i \in 1 .. Len(q) : q[i] <= n
Gappy(q, i, k, s) ==
  /\ Ascending(q) /\ UpTo(q, k) /\ Follows(i, k) /\ k + Len(i) <= s

LEMMA ConcatAscends ==
  ASSUME NEW q \in Seq(Nat), NEW r \in Seq(Nat), NEW k \in Nat,
         Ascending(q), UpTo(q, k), Follows(r, k)
  PROVE  Ascending(q \o r) /\ UpTo(q \o r, k + Len(r))
<1>1. Len(q \o r) = Len(q) + Len(r) /\ Len(q) \in Nat /\ Len(r) \in Nat
  BY ConcatFacts
<1>2. ASSUME NEW i \in Len(q) + 1 .. Len(q) + Len(r)
      PROVE  (q \o r)[i] = k + (i - Len(q))
  <2>1. i - Len(q) \in 1 .. Len(r) /\ (q \o r)[i] = r[i - Len(q)]
    BY <1>2, ConcatFacts
  <2> QED BY <2>1 DEF Follows
<1>3. \A i \in 1 .. Len(q) : (q \o r)[i] = q[i] /\ q[i] \in Nat /\ q[i] <= k
  BY ConcatFacts DEF UpTo
<1>4. ASSUME NEW i \in 1 .. Len(q) + Len(r), NEW j \in 1 .. Len(q) + Len(r), i < j
      PROVE  (q \o r)[i] < (q \o r)[j]
  <2>1. CASE j \in 1 .. Len(q)
    BY <1>1, <1>3, <1>4, <2>1 DEF Ascending
  <2>2. CASE i \in 1 .. Len(q) /\ j \notin 1 .. Len(q)
    BY <1>1, <1>2, <1>3, <2>2, SMTT(30)
  <2>3. CASE i \notin 1 .. Len(q)
    BY <1>1, <1>2, <1>4, <2>3, SMTT(30)
  <2> QED BY <2>1, <2>2, <2>3
<1>5. ASSUME NEW i \in 1 .. Len(q) + Len(r) PROVE (q \o r)[i] <= k + Len(r)
  BY <1>1, <1>2, <1>3
<1> QED BY <1>1, <1>4, <1>5 DEF Ascending, UpTo

(* A read() of n pieces that are passed on, or, towards the other side,    *)
(* lost.                                                                   *)
Both(q, i, s) == Follows(i, Len(q)) /\ Len(q) + Len(i) = s
LEMMA BothRead ==
  ASSUME NEW q \in Seq(Nat), NEW i \in Seq(Nat), NEW s \in Nat, NEW n \in 0 .. Len(i),
         Follows(q, 0), Both(q, i, s)
  PROVE  /\ Follows(q \o SubSeq(i, 1, n), 0)
         /\ Both(q \o SubSeq(i, 1, n), SubSeq(i, n + 1, Len(i)), s)
<1>1. Follows(SubSeq(i, 1, n), Len(q)) /\ Follows(SubSeq(i, n + 1, Len(i)), Len(q) + n)
  BY SplitFollows DEF Both
<1>2. /\ SubSeq(i, 1, n) \in Seq(Nat) /\ Len(SubSeq(i, 1, n)) = n
      /\ Len(SubSeq(i, n + 1, Len(i))) = Len(i) - n
  BY SplitFacts
<1>3. Len(q \o SubSeq(i, 1, n)) = Len(q) + n
  BY <1>2, ConcatFacts, ZenonT(30)
<1>4. Len(q) + n + (Len(i) - n) = s
  <2>1. Len(q) \in Nat /\ Len(i) \in Nat /\ n \in 0 .. Len(i) /\ Len(q) + Len(i) = s
    BY DEF Both
  <2>2. \A a, l \in Nat : \A k \in 0 .. l : a + l = s => a + k + (l - k) = s
    BY TakeSum
  <2> QED BY ONLY <2>1, <2>2, Zenon
<1>5. Follows(q \o SubSeq(i, 1, n), 0)
  BY <1>1, <1>2, ConcatFollows
<1> QED BY <1>1, <1>2, <1>3, <1>4, <1>5 DEF Both

LEMMA GappyRead ==
  ASSUME NEW q \in Seq(Nat), NEW i \in Seq(Nat), NEW s \in Nat, NEW k \in Nat,
         NEW n \in 0 .. Len(i), Gappy(q, i, k, s)
  PROVE  /\ Gappy(q, SubSeq(i, n + 1, Len(i)), k + n, s)
         /\ Gappy(q \o SubSeq(i, 1, n), SubSeq(i, n + 1, Len(i)), k + n, s)
         /\ k + n + Len(SubSeq(i, n + 1, Len(i))) = k + Len(i)
<1>1. Follows(SubSeq(i, 1, n), k) /\ Follows(SubSeq(i, n + 1, Len(i)), k + n)
  BY SplitFollows DEF Gappy
<1>2. /\ SubSeq(i, 1, n) \in Seq(Nat) /\ Len(SubSeq(i, 1, n)) = n
      /\ Len(SubSeq(i, n + 1, Len(i))) = Len(i) - n
  BY SplitFacts
<1>3. Ascending(q \o SubSeq(i, 1, n)) /\ UpTo(q \o SubSeq(i, 1, n), k + n)
  BY <1>1, <1>2, ConcatAscends DEF Gappy
<1>4. UpTo(q, k + n)
  BY DEF Gappy, UpTo
<1>5. k + n + (Len(i) - n) = k + Len(i)
  OBVIOUS
<1> QED BY <1>1, <1>2, <1>3, <1>4, <1>5 DEF Gappy

(* The next piece is sent.                                                 *)
LEMMA GappySend ==
  ASSUME NEW q \in Seq(Nat), NEW i \in Seq(Nat), NEW s \in Nat, NEW k \in Nat,
         Gappy(q, i, k, s), k + Len(i) = s
  PROVE  Gappy(q, Append(i, s + 1), k, s + 1) /\ k + Len(Append(i, s + 1)) = s + 1
<1>1. Follows(Append(i, k + Len(i) + 1), k) /\ Len(Append(i, s + 1)) = Len(i) + 1
  BY AppendFollows, AppendFacts DEF Gappy
<1> QED BY <1>1 DEF Gappy

LEMMA BothSend ==
  ASSUME NEW q \in Seq(Nat), NEW i \in Seq(Nat), NEW s \in Nat, Both(q, i, s)
  PROVE  Both(q, Append(i, s + 1), s + 1)
<1>1. Len(q) \in Nat /\ Len(i) \in Nat /\ Len(q) + Len(i) = s /\ Follows(i, Len(q))
  BY DEF Both
<1>2. Follows(Append(i, s + 1), Len(q)) /\ Len(Append(i, s + 1)) = Len(i) + 1
  <2>1. Follows(Append(i, Len(q) + Len(i) + 1), Len(q))
    BY <1>1, AppendFollows
  <2>2. Len(q) + Len(i) + 1 = s + 1 /\ s + 1 \in Nat
    BY <1>1
  <2> QED BY <2>1, <2>2, AppendFacts
<1>3. Len(q) + (Len(i) + 1) = s + 1
  BY <1>1, GrowSum
<1> QED BY <1>2, <1>3 DEF Both

(* What has not arrived is lost.                                           *)
LEMMA GappyCut ==
  ASSUME NEW q \in Seq(Nat), NEW i \in Seq(Nat), NEW s \in Nat, NEW k \in Nat,
         NEW n \in 0 .. Len(i), Gappy(q, i, k, s)
  PROVE  Gappy(q, SubSeq(i, 1, n), k, s)
<1>1. Follows(SubSeq(i, 1, n), k) /\ Len(SubSeq(i, 1, n)) = n
  BY SplitFollows, SplitFacts DEF Gappy
<1> QED BY <1>1 DEF Gappy

(* The two streams: whole towards a client that is connected, with gaps    *)
(* towards the other side.                                                 *)
BindTypes ==
  /\ from \in [Bind!Peer -> Seq(Nat)] /\ bgot \in [Bind!Peer -> Seq(Nat)]
  /\ bsent \in [Bind!Peer -> Nat]
ToClient ==
  /\ Follows(bgot["client"], 0)
  /\ reset = "no" => Both(bgot["client"], from["terminal"], bsent["terminal"])
FromClient ==
  \E k \in Nat : /\ Gappy(bgot["terminal"], from["client"], k, bsent["client"])
                 /\ reset = "no" => k + Len(from["client"]) = bsent["client"]
BindInv == BindTypes /\ ToClient /\ FromClient

LEMMA BindInit == Bind!Init => BindInv
<1> SUFFICES ASSUME Bind!Init PROVE BindInv
  OBVIOUS
<1>1. BindTypes
  BY EmptyFollows DEF Bind!Init, BindTypes, Bind!Peer
<1>2. ToClient
  BY EmptyFollows DEF Bind!Init, ToClient, Both, Bind!Peer
<1>3. Gappy(<<>>, <<>>, 0, 0) /\ 0 + Len(<<>>) = 0
  BY EmptyFollows DEF Gappy, Ascending, UpTo
<1>4. FromClient
  BY <1>3 DEF Bind!Init, FromClient, Bind!Peer
<1> QED BY <1>1, <1>2, <1>4 DEF BindInv

(* Steps that move nothing, whatever they learn of the connection.         *)
LEMMA BindStill ==
  ASSUME BindInv, UNCHANGED <<from, bgot, bsent>>, reset' = "no" => reset = "no"
  PROVE  BindInv'
<1>1. BindTypes'
  BY DEF BindInv, BindTypes
<1>2. ToClient'
  BY DEF BindInv, ToClient, Both
<1>3. PICK k \in Nat : /\ Gappy(bgot["terminal"], from["client"], k, bsent["client"])
                       /\ reset = "no" => k + Len(from["client"]) = bsent["client"]
  BY DEF BindInv, FromClient
<1>4. FromClient'
  BY <1>3 DEF FromClient
<1> QED BY <1>1, <1>2, <1>4 DEF BindInv

(* A write to the client of what was just read.                            *)
LEMMA BindWrites ==
  ASSUME BindInv, NEW n \in 0 .. Len(from["terminal"]), NEW next,
         from' = Bind!Remaining("terminal", n),
         Bind!WriteClient(Bind!Taken("terminal", n), next), UNCHANGED bsent
  PROVE  BindInv'
<1> DEFINE rest == SubSeq(from["terminal"], n + 1, Len(from["terminal"]))
           data == SubSeq(from["terminal"], 1, n)
<1>1. /\ from \in [Bind!Peer -> Seq(Nat)] /\ bgot \in [Bind!Peer -> Seq(Nat)]
      /\ from' = [from EXCEPT !["terminal"] = rest]
      /\ rest \in Seq(Nat) /\ data \in Seq(Nat)
  BY SplitFacts DEF BindInv, BindTypes, Bind!Remaining, Bind!Peer
<1>2. bgot["client"] \o data \in Seq(Nat)
  BY <1>1, ConcatFacts DEF Bind!Peer
<1>3. CASE reset = "no"
  <2>1. reset' = "no" /\ bgot' = [bgot EXCEPT !["client"] = @ \o data]
    BY <1>3 DEF Bind!WriteClient, Bind!Taken
  <2>2. Follows(bgot["client"] \o data, 0) /\ Both(bgot["client"] \o data, rest, bsent["terminal"])
    BY <1>1, <1>3, BothRead DEF BindInv, BindTypes, ToClient, Bind!Peer
  <2>3. ToClient'
    BY <1>1, <2>1, <2>2 DEF ToClient, Bind!Peer
  <2>4. BindTypes'
    BY <1>1, <1>2, <2>1 DEF BindInv, BindTypes, Bind!Peer
  <2>5. PICK k \in Nat : /\ Gappy(bgot["terminal"], from["client"], k, bsent["client"])
                         /\ reset = "no" => k + Len(from["client"]) = bsent["client"]
    BY DEF BindInv, FromClient
  <2>6. bgot'["terminal"] = bgot["terminal"] /\ from'["client"] = from["client"]
    BY <1>1, <2>1 DEF Bind!Peer
  <2>7. FromClient'
    BY <2>1, <2>5, <2>6, <1>3 DEF FromClient
  <2> QED BY <2>3, <2>4, <2>7 DEF BindInv
<1>4. CASE reset # "no"
  <2>1. reset' # "no" /\ bgot' = bgot
    BY <1>4 DEF Bind!WriteClient
  <2>2. ToClient'
    BY <2>1 DEF BindInv, ToClient
  <2>3. BindTypes'
    BY <1>1, <2>1 DEF BindInv, BindTypes, Bind!Peer
  <2>4. PICK k \in Nat : Gappy(bgot["terminal"], from["client"], k, bsent["client"])
    BY DEF BindInv, FromClient
  <2>5. from'["client"] = from["client"]
    BY <1>1 DEF Bind!Peer
  <2>6. FromClient'
    BY <2>1, <2>4, <2>5 DEF FromClient
  <2> QED BY <2>2, <2>3, <2>6 DEF BindInv
<1> QED BY <1>3, <1>4

(* A read() of what the client sent.                                       *)
LEMMA BindReads ==
  ASSUME BindInv, NEW n \in 1 .. Len(from["client"]),
         from' = Bind!Remaining("client", n),
         bgot' \in {bgot, [bgot EXCEPT !["terminal"] = @ \o Bind!Taken("client", n)]},
         UNCHANGED <<bsent, reset>>
  PROVE  BindInv'
<1> DEFINE rest == SubSeq(from["client"], n + 1, Len(from["client"]))
           data == SubSeq(from["client"], 1, n)
           q == bgot["terminal"]
<1>1. /\ from \in [Bind!Peer -> Seq(Nat)] /\ bgot \in [Bind!Peer -> Seq(Nat)]
      /\ from' = [from EXCEPT !["client"] = rest]
      /\ rest \in Seq(Nat) /\ data \in Seq(Nat) /\ from["client"] \in Seq(Nat)
      /\ n \in 0 .. Len(from["client"]) /\ n \in Nat
  <2>1. /\ from \in [Bind!Peer -> Seq(Nat)] /\ bgot \in [Bind!Peer -> Seq(Nat)]
        /\ from["client"] \in Seq(Nat)
    BY DEF BindInv, BindTypes, Bind!Peer
  <2>2. n \in 0 .. Len(from["client"]) /\ n \in Nat
    BY <2>1
  <2> QED BY <2>1, <2>2, SplitFacts DEF Bind!Remaining
<1>2. bgot' \in {bgot, [bgot EXCEPT !["terminal"] = q \o data]} /\ q \o data \in Seq(Nat)
  BY <1>1, ConcatFacts DEF Bind!Peer, Bind!Taken
<1>3. BindTypes'
  BY <1>1, <1>2, ZenonT(30) DEF BindInv, BindTypes, Bind!Peer
<1>4. bgot'["client"] = bgot["client"] /\ from'["terminal"] = from["terminal"]
  BY <1>1, <1>2 DEF Bind!Peer
<1>5. ToClient'
  BY <1>4 DEF BindInv, ToClient, Both
<1>6. PICK k \in Nat : /\ Gappy(q, from["client"], k, bsent["client"])
                       /\ reset = "no" => k + Len(from["client"]) = bsent["client"]
  BY DEF BindInv, FromClient
<1>7. /\ Gappy(q, rest, k + n, bsent["client"]) /\ Gappy(q \o data, rest, k + n, bsent["client"])
      /\ k + n + Len(rest) = k + Len(from["client"]) /\ k + n \in Nat
  <2>1. bsent["client"] \in Nat /\ q \in Seq(Nat) /\ k + n \in Nat
    BY <1>1 DEF BindInv, BindTypes, Bind!Peer
  <2>2. /\ from["client"] \in Seq(Nat) /\ n \in 0 .. Len(from["client"])
        /\ Gappy(q, from["client"], k, bsent["client"])
    BY <1>1, <1>6
  <2> HIDE DEF q
  <2>3. /\ Gappy(q, rest, k + n, bsent["client"])
        /\ Gappy(q \o data, rest, k + n, bsent["client"])
        /\ k + n + Len(rest) = k + Len(from["client"])
    <3>1. \A i \in Seq(Nat), s \in Nat : \A m \in 0 .. Len(i) :
            Gappy(q, i, k, s) =>
              /\ Gappy(q, SubSeq(i, m + 1, Len(i)), k + m, s)
              /\ Gappy(q \o SubSeq(i, 1, m), SubSeq(i, m + 1, Len(i)), k + m, s)
              /\ k + m + Len(SubSeq(i, m + 1, Len(i))) = k + Len(i)
      BY <2>1, GappyRead, ZenonT(30)
    <3> QED BY ONLY <2>1, <2>2, <3>1, Zenon
  <2> QED BY <2>1, <2>3
<1>8. bgot'["terminal"] \in {q, q \o data} /\ from'["client"] = rest
  BY <1>1, <1>2 DEF Bind!Peer
<1>9. FromClient'
  <2> HIDE DEF rest, data, q
  <2> QED BY <1>6, <1>7, <1>8 DEF FromClient
<1> QED BY <1>3, <1>5, <1>9 DEF BindInv

(* A peer sends its next piece.                                            *)
LEMMA BindSend ==
  ASSUME BindInv, NEW p \in Bind!Peer, Bind!Send(p)
  PROVE  BindInv'
<1> DEFINE more == Append(from[p], bsent[p] + 1)
<1>1. /\ from' = [from EXCEPT ![p] = more] /\ bsent' = [bsent EXCEPT ![p] = bsent[p] + 1]
      /\ UNCHANGED <<bgot, reset>> /\ (p = "client" => reset = "no")
  BY DEF Bind!Send
<1>2. /\ from \in [Bind!Peer -> Seq(Nat)] /\ bgot \in [Bind!Peer -> Seq(Nat)]
      /\ bsent \in [Bind!Peer -> Nat] /\ bsent[p] + 1 \in Nat
  BY DEF BindInv, BindTypes
<1>3. more \in Seq(Nat)
  BY <1>2, AppendFacts
<1>4. BindTypes'
  <2> HIDE DEF more
  <2> QED BY <1>1, <1>2, <1>3 DEF BindTypes
<1>5. ToClient'
  <2>1. CASE p = "terminal"
    <3>1. reset = "no" => Both(bgot["client"], more, bsent[p] + 1)
      BY <1>2, <2>1, BothSend DEF BindInv, ToClient, Bind!Peer
    <3>2. from'["terminal"] = more /\ bsent'["terminal"] = bsent[p] + 1
      BY <1>1, <1>2, <2>1 DEF Bind!Peer
    <3> HIDE DEF more
    <3> QED BY <1>1, <3>1, <3>2 DEF BindInv, ToClient
  <2>2. CASE p # "terminal"
    <3>1. from'["terminal"] = from["terminal"] /\ bsent'["terminal"] = bsent["terminal"]
      BY <1>1, <1>2, <2>2 DEF Bind!Peer
    <3> QED BY <1>1, <3>1 DEF BindInv, ToClient
  <2> QED BY <2>1, <2>2
<1>6. PICK k \in Nat : /\ Gappy(bgot["terminal"], from["client"], k, bsent["client"])
                       /\ reset = "no" => k + Len(from["client"]) = bsent["client"]
  BY DEF BindInv, FromClient
<1>7. FromClient'
  <2>1. CASE p = "client"
    <3>1. Gappy(bgot["terminal"], more, k, bsent[p] + 1) /\ k + Len(more) = bsent[p] + 1
      BY <1>1, <1>2, <1>6, <2>1, GappySend DEF Bind!Peer
    <3>2. from'["client"] = more /\ bsent'["client"] = bsent[p] + 1
      BY <1>1, <1>2, <2>1 DEF Bind!Peer
    <3> HIDE DEF more
    <3> QED BY <1>1, <3>1, <3>2 DEF FromClient
  <2>2. CASE p # "client"
    <3>1. from'["client"] = from["client"] /\ bsent'["client"] = bsent["client"]
      BY <1>1, <1>2, <2>2 DEF Bind!Peer
    <3> QED BY <1>1, <1>6, <3>1 DEF FromClient
  <2> QED BY <2>1, <2>2
<1> QED BY <1>4, <1>5, <1>7 DEF BindInv

(* The client's connection is reset.                                       *)
LEMMA BindReset ==
  ASSUME BindInv, Bind!Reset
  PROVE  BindInv'
<1>1. PICK n \in 0 .. Len(from["client"]) :
        from' = [from EXCEPT !["client"] = SubSeq(from["client"], 1, n)]
  BY DEF Bind!Reset
<1>2. reset' # "no" /\ UNCHANGED <<bsent, bgot>>
  BY DEF Bind!Reset
<1>3. /\ from \in [Bind!Peer -> Seq(Nat)] /\ bgot \in [Bind!Peer -> Seq(Nat)]
      /\ bsent \in [Bind!Peer -> Nat]
      /\ SubSeq(from["client"], 1, n) \in Seq(Nat) /\ from["client"] \in Seq(Nat)
  BY SplitFacts DEF BindInv, BindTypes, Bind!Peer
<1>4. BindTypes'
  BY <1>1, <1>2, <1>3 DEF BindTypes
<1>5. ToClient'
  BY <1>2 DEF BindInv, ToClient
<1>6. PICK k \in Nat : Gappy(bgot["terminal"], from["client"], k, bsent["client"])
  BY DEF BindInv, FromClient
<1>7. Gappy(bgot["terminal"], SubSeq(from["client"], 1, n), k, bsent["client"])
  BY <1>3, <1>6, GappyCut DEF Bind!Peer
<1>8. from'["client"] = SubSeq(from["client"], 1, n)
  BY <1>1, <1>3 DEF Bind!Peer
<1>9. FromClient'
  BY <1>2, <1>7, <1>8 DEF FromClient
<1> QED BY <1>4, <1>5, <1>9 DEF BindInv

(* A write of nothing to the client.                                       *)
LEMMA WritesNothing ==
  ASSUME BindInv, NEW next, Bind!WriteClient(<<>>, next), UNCHANGED <<from, bsent>>
  PROVE  BindInv'
<1>1. /\ bgot \in [Bind!Peer -> Seq(Nat)] /\ "client" \in Bind!Peer
  BY DEF BindInv, BindTypes, Bind!Peer
<1>2. bgot["client"] \o <<>> = bgot["client"]
  BY <1>1
<1>3. bgot' = bgot
  BY <1>1, <1>2 DEF Bind!WriteClient
<1>4. reset' = "no" => reset = "no"
  BY DEF Bind!WriteClient
<1> QED BY <1>3, <1>4, BindStill

LEMMA BindStep ==
  ASSUME BindInv, [NextTransfer]_<<vars, bindVars, cd>>
  PROVE  BindInv'
<1>1. CASE UNCHANGED bindVars
  BY <1>1, BindStill DEF bindVars
<1>2. CASE Bind!Accept
  BY <1>2, WritesNothing DEF Bind!Accept
<1>3. CASE Bind!Select \/ Bind!ReadFails \/ Bind!ClientEnds \/ Bind!FtpFails
  <2>1. UNCHANGED <<from, bgot, bsent>> /\ (reset' = "no" => reset = "no")
    BY <1>3 DEF Bind!Select, Bind!ReadFails, Bind!ClientEnds, Bind!FtpFails, Bind!peers
  <2> QED BY <2>1, BindStill
<1>4. CASE Bind!ServeClient
  BY <1>4, BindReads DEF Bind!ServeClient
<1>5. CASE Bind!ServeFtp
  <2>1. CASE \E n \in 1 .. Len(from["terminal"]) :
               /\ from' = Bind!Remaining("terminal", n)
               /\ Bind!WriteClient(Bind!Taken("terminal", n), "select")
    <3>1. PICK n \in 1 .. Len(from["terminal"]) :
                 /\ from' = Bind!Remaining("terminal", n)
                 /\ Bind!WriteClient(Bind!Taken("terminal", n), "select")
      BY <2>1
    <3>2. Len(from["terminal"]) \in Nat
      BY DEF BindInv, BindTypes, Bind!Peer
    <3>3. n \in 0 .. Len(from["terminal"])
      BY <3>2
    <3>4. UNCHANGED bsent
      BY <1>5 DEF Bind!ServeFtp
    <3> QED BY <3>1, <3>3, <3>4, BindWrites
  <2>2. CASE Bind!WriteClient(<<>>, "select") /\ UNCHANGED from
    BY <1>5, <2>2, WritesNothing DEF Bind!ServeFtp
  <2> QED BY <1>5, <2>1, <2>2 DEF Bind!ServeFtp
<1>6. CASE Bind!Reset
  BY <1>6, BindReset
<1>7. ASSUME NEW p \in Bind!Peer, Bind!Send(p) PROVE BindInv'
  BY <1>7, BindSend
<1>8. ASSUME NEW p \in Bind!Peer, Bind!Close(p) PROVE BindInv'
  BY <1>8, BindStill DEF Bind!Close
<1> QED BY <1>1, <1>2, <1>3, <1>4, <1>5, <1>6, <1>7, <1>8
        DEF NextTransfer, Bound, Connected, Bind!Next, Bind!Loop

(* The loop of a BIND (main() of socks_server) passes each piece on in     *)
(* order and once; to its client all of them, as long as the connection is *)
(* not reset, whatever the accept() before returned.                       *)
THEOREM BindKeepsStreams == TransferSpec => []BindKept
<1>1. InitTransfer => BindInv
  BY BindInit DEF InitTransfer
<1>2. BindInv /\ [NextTransfer]_<<vars, bindVars, cd>> => BindInv'
  BY BindStep
<1>3. BindInv => BindKept
  <2> SUFFICES ASSUME BindInv PROVE BindKept
    OBVIOUS
  <2>1. PICK k \in Nat : Gappy(bgot["terminal"], from["client"], k, bsent["client"])
    BY DEF BindInv, FromClient
  <2>2. /\ bgot["terminal"] \in Seq(Nat) /\ from["client"] \in Seq(Nat)
        /\ bsent["client"] \in Nat
    BY DEF BindInv, BindTypes, Bind!Peer
  <2>3. k <= bsent["client"]
    BY <2>1, <2>2 DEF Gappy
  <2>4. \A i \in 1 .. Len(bgot["terminal"]) : bgot["terminal"][i] <= bsent["client"]
    BY <2>1, <2>2, <2>3 DEF Gappy, UpTo
  <2> QED BY <2>1, <2>4 DEF BindInv, ToClient, Both, Gappy, BindKept
<1> QED BY <1>1, <1>2, <1>3, PTL DEF TransferSpec

-----------------------------------------------------------------------------
(* The state half of Delivered                                             *)

(* A round begins with both buffers empty, even after a stream has ended   *)
(* or a connection broke, unless a write was ever put off.                 *)
EmptyAtFirst ==
  /\ pc \in {"select", "read_s", "write_r"} => ~full["s"]
  /\ pc \in {"select", "read_s", "read_r"} => ~full["r"]
BuffersEmpty == skipped \/ EmptyAtFirst

(* When the first select() sleeps, no byte is left with the relay or on    *)
(* the way to it.                                                          *)
SleepsOnNothing ==
  pc = "select" /\ Readable = {} /\ ~skipped => \A x \in Side : sent[x] = Passed(x)

(* A half of a round that is over has emptied its buffer, or has put its   *)
(* write off.                                                              *)
LEMMA HalfEmpties ==
  ASSUME IInv, BuffersEmpty, NEW x \in Side, SkipWrite(x) \/ Written(x) \/ WriteFails(x)
  PROVE  BuffersEmpty'
<1>1. full \in [Side -> BOOLEAN]
  BY DEF IInv, TypeOK
<1>2. CASE skipped
  BY <1>2 DEF SkipWrite, Written, WriteFails, BuffersEmpty
<1>3. CASE pc' = "dead"
  BY <1>3 DEF BuffersEmpty, EmptyAtFirst
<1>4. CASE ~skipped /\ pc' # "dead"
  <2>1. pc = WriteAt[x] /\ pc' = AfterWrite[x]
    BY <1>4 DEF SkipWrite, Written, WriteFails, LeaveWrite
  <2>2. skipped' \/ ~full'[x]
    BY <1>1, <1>4 DEF SkipWrite, Written, WriteFails, Emptied
  <2>3. \A y \in Side : y # x => full'[y] = full[y]
    BY <1>1, <1>4 DEF SkipWrite, Written, WriteFails, Emptied
  <2>4. CASE x = "s"
    BY <2>1, <2>2, <2>4 DEF AfterWrite, BuffersEmpty, EmptyAtFirst
  <2>5. CASE x = "r"
    <3>1. pc = "write_r" /\ pc' = "select"
      BY <2>1, <2>5 DEF WriteAt, AfterWrite
    <3>2. ~full'["s"]
      BY <1>4, <2>3, <2>5, <3>1 DEF BuffersEmpty, EmptyAtFirst, Side
    <3> QED BY <2>2, <2>5, <3>1, <3>2 DEF BuffersEmpty, EmptyAtFirst
  <2> QED BY <2>4, <2>5 DEF Side
<1> QED BY <1>2, <1>3, <1>4

(* No other step fills a buffer that is to be empty.                       *)
LEMMA StepEmpty == IInv /\ BuffersEmpty /\ [Next]_vars => BuffersEmpty'
<1> SUFFICES ASSUME IInv, BuffersEmpty, [Next]_vars PROVE BuffersEmpty'
  OBVIOUS
<1>1. CASE Select \/ SelectWrite \/ Timeout
  BY <1>1 DEF Select, SelectWrite, Timeout, BuffersEmpty, EmptyAtFirst
<1>2. ASSUME NEW x \in Side, SkipRead(x) \/ Read(x) PROVE BuffersEmpty'
  <2>1. /\ pc = ReadAt[x] /\ pc' = AfterRead[x] /\ skipped' = skipped
        /\ \A y \in Side : y # x => full'[y] = full[y]
    BY <1>2 DEF SkipRead, Read, IInv, TypeOK
  <2> QED BY <2>1 DEF ReadAt, AfterRead, Side, BuffersEmpty, EmptyAtFirst
<1>3. ASSUME NEW x \in Side, SkipWrite(x) \/ Written(x) \/ WriteFails(x) PROVE BuffersEmpty'
  BY <1>3, HalfEmpties
<1>4. ASSUME NEW x \in Side, ReadFails(x) \/ Push(x) PROVE BuffersEmpty'
  BY <1>4 DEF ReadFails, Push, BuffersEmpty, EmptyAtFirst
<1>5. CASE Peer
  BY <1>5 DEF Peer, Send, Receive, Finish, Break, loop, BuffersEmpty, EmptyAtFirst
<1>6. CASE UNCHANGED vars
  BY <1>6 DEF vars, BuffersEmpty, EmptyAtFirst
<1> QED BY <1>1, <1>2, <1>3, <1>4, <1>5, <1>6 DEF Next, Loop

(* The first select(), which asks about reading only, never sleeps on      *)
(* bytes that the relay could still deliver, unless a write was ever put   *)
(* off: all that was sent is then with its receiver or in the kernel for   *)
(* it.  What Delivered adds is that the process runs and the peers read.   *)
THEOREM NeverSleepsOnBytes == TransferSpec => []SleepsOnNothing
<1>1. InitTransfer => IInv /\ BuffersEmpty
  BY InitInvariant DEF InitTransfer, Init, BuffersEmpty, EmptyAtFirst, Side
<1>2. IInv /\ BuffersEmpty /\ [NextTransfer]_<<vars, bindVars, cd>> => (IInv /\ BuffersEmpty)'
  <2>1. [NextTransfer]_<<vars, bindVars, cd>> => [Next]_vars
    BY DEF NextTransfer, Connected, Bound
  <2> QED BY <2>1, StepInvariant, StepEmpty
<1>3. IInv /\ BuffersEmpty => SleepsOnNothing
  <2> SUFFICES ASSUME IInv, EmptyAtFirst, pc = "select", Readable = {}, NEW x \in Side
               PROVE  sent[x] = Passed(x)
    BY DEF BuffersEmpty, SleepsOnNothing
  <2>1. held[x] = <<>> /\ inbound[x] = <<>> /\ broken = {}
    BY DEF IInv, TypeOK, Drained, EmptyAtFirst, Readable, Side
  <2> DEFINE y == Other(x)
  <2>2. Len(got[y]) \in Nat /\ Len(outbound[y]) \in Nat
    <3>1. got[y] \in Seq(Nat) /\ outbound[y] \in Seq(Nat)
      BY SideFacts, TypesOf
    <3> HIDE DEF y
    <3> QED BY <3>1
  <2>3. Whole(got[y], outbound[y], <<>>, <<>>, sent[x])
    BY <2>1 DEF IInv, InOrder, Ordered
  <2> HIDE DEF y
  <2>4. Len(got[y]) + Len(outbound[y]) = sent[x]
    <3>1. Len(got[y]) + Len(outbound[y]) + Len(<<>>) + Len(<<>>) = sent[x] /\ Len(<<>>) = 0
      BY <2>3, EmptyFollows DEF Whole
    <3>2. \A a, b \in Nat : a + b + 0 + 0 = a + b
      OBVIOUS
    <3> QED BY <2>2, <3>1, <3>2, Zenon
  <2> QED BY <2>4 DEF Passed, y
<1> QED BY <1>1, <1>2, <1>3, PTL DEF TransferSpec
=============================================================================
