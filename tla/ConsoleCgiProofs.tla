-------------------------- MODULE ConsoleCgiProofs --------------------------
(***************************************************************************)
(* What ConsoleCgi keeps for every number of sessions, length of script    *)
(* and splitting of the shells' output over the reads: the prompts that    *)
(* were read and answered, those read and missed, and those on the way are *)
(* as many as the shell has printed, so that a session whose two ends wait *)
(* for each other has missed one prompt more than the lookalikes whose     *)
(* lines were not lost, and at least one.  That needs a prompt that two    *)
(* reads have cut to be counted once: with the first byte read it is on    *)
(* the way by half.                                                        *)
(*                                                                         *)
(* And what console.cgi makes of its query string, for every form: as far  *)
(* as no session is half filled in, the marks of the first pass are those  *)
(* of the sessions filled in, and the second stands at the tokens of the   *)
(* session it counts.                                                      *)
(***************************************************************************)
EXTENDS ConsoleCgi, FiniteSetTheorems, SequenceTheorems, WellFoundedInduction, TLAPS

-----------------------------------------------------------------------------
(* Prompts in a sequence of bytes *)

Byte == {"percent", "blank", "other"}

(* Where they begin.                                                       *)
Marks(w) == {i \in 1 .. Len(w) - 1 : w[i] = "percent" /\ w[i + 1] = "blank"}

(* A prompt is the two bytes at a mark.                                    *)
LEMMA PromptsAtMarks ==
  ASSUME NEW w \in Seq(Byte)
  PROVE  /\ Prompts(w) = Cardinality(Marks(w)) /\ IsFiniteSet(Marks(w))
         /\ Prompts(w) \in Nat
         /\ Found(w) <=> Marks(w) # {}
         /\ Found(w) <=> Prompts(w) # 0
<1>1. ASSUME NEW i \in 1 .. Len(w) - 1
      PROVE  SubSeq(w, i, i + 1) = Prompt <=> w[i] = "percent" /\ w[i + 1] = "blank"
  <2>1. Len(w) \in Nat /\ i \in Int /\ i + 1 \in Int /\ i + 1 \in 1 .. Len(w) /\ i \in 1 .. Len(w)
    BY LenProperties
  <2>2. \A j \in i .. i + 1 : w[j] \in Byte
    BY <2>1, ElementOfSeq
  <2>3. /\ SubSeq(w, i, i + 1) \in Seq(Byte) /\ Len(SubSeq(w, i, i + 1)) = 2
        /\ \A k \in 1 .. (i + 1) - i + 1 : SubSeq(w, i, i + 1)[k] = w[i + k - 1]
    <3>1. (i + 1) - i + 1 = 2 /\ i <= i + 1
      BY <2>1
    <3> QED BY <2>1, <2>2, <3>1, SubSeqProperties, SMTT(20)
  <2>4. SubSeq(w, i, i + 1)[1] = w[i] /\ SubSeq(w, i, i + 1)[2] = w[i + 1]
    <3>1. 1 \in 1 .. (i + 1) - i + 1 /\ 2 \in 1 .. (i + 1) - i + 1 /\ i + 1 - 1 = i /\ i + 2 - 1 = i + 1
      BY <2>1
    <3> QED BY <2>3, <3>1
  <2>5. Prompt \in Seq(Byte) /\ Len(Prompt) = 2 /\ Prompt[1] = "percent" /\ Prompt[2] = "blank"
    BY DEF Prompt, Byte
  <2>6. ASSUME w[i] = "percent", w[i + 1] = "blank" PROVE SubSeq(w, i, i + 1) = Prompt
    <3>1. \A k \in 1 .. 2 : SubSeq(w, i, i + 1)[k] = Prompt[k]
      BY <2>4, <2>5, <2>6
    <3> QED BY <2>3, <2>5, <3>1, SeqEqual
  <2> QED BY <2>4, <2>5, <2>6
<1>2. Marks(w) = {i \in 1 .. Len(w) - 1 : SubSeq(w, i, i + 1) = Prompt}
  BY <1>1 DEF Marks
<1>3. IsFiniteSet(Marks(w))
  <2>1. IsFiniteSet(1 .. Len(w) - 1) /\ Marks(w) \subseteq 1 .. Len(w) - 1
    BY LenProperties, FS_Interval DEF Marks
  <2> QED BY <2>1, FS_Subset
<1>4. Prompts(w) = Cardinality(Marks(w)) /\ (Found(w) <=> Marks(w) # {})
  BY <1>2 DEF Prompts, Found
<1> QED BY <1>3, <1>4, FS_CardinalityType, FS_EmptySet

(* The mark where two sequences meet.                                      *)
Joint(u, v) == IF u # <<>> /\ v # <<>> /\ u[Len(u)] = "percent" /\ v[1] = "blank" THEN 1 ELSE 0

(* The prompts of two sequences put together are those of the two, and the *)
(* one where they meet.                                                    *)
LEMMA PromptsAdd ==
  ASSUME NEW u \in Seq(Byte), NEW v \in Seq(Byte)
  PROVE  Prompts(u \o v) = Prompts(u) + Prompts(v) + Joint(u, v)
<1> DEFINE m == Len(u)
           n == Len(v)
           w == u \o v
           J == {i \in {m} : Joint(u, v) = 1}
           V == {i + m : i \in Marks(v)}
<1>1. m \in Nat /\ n \in Nat /\ (u = <<>> <=> m = 0) /\ (v = <<>> <=> n = 0)
  BY EmptySeq, LenProperties
<1>2. /\ w \in Seq(Byte) /\ Len(w) = m + n
      /\ \A i \in 1 .. m + n : w[i] = IF i <= m THEN u[i] ELSE v[i - m]
  BY ConcatProperties
<1>3. IsFiniteSet(Marks(u)) /\ IsFiniteSet(Marks(v))
  BY PromptsAtMarks
<1> HIDE DEF w
<1>4. Joint(u, v) = 1 <=> m > 0 /\ n > 0 /\ u[m] = "percent" /\ v[1] = "blank"
  BY <1>1 DEF Joint
<1>5. Marks(w) = (Marks(u) \cup J) \cup V
  <2>0. Marks(w) \subseteq Int /\ Marks(u) \subseteq Int /\ J \subseteq Int /\ V \subseteq Int
    <3>1. \A z : Marks(z) \subseteq Int
      BY DEF Marks
    <3>2. J \subseteq Int /\ V \subseteq Int
      BY <1>1, <3>1
    <3> QED BY <3>1, <3>2
  <2> SUFFICES ASSUME NEW i \in Int PROVE i \in Marks(w) <=> i \in Marks(u) \/ i \in J \/ i \in V
    <3> HIDE DEF J, V
    <3> QED BY <2>0
  <2>1. CASE i < 1
    BY <1>1, <1>4, <2>1 DEF Marks
  <2>2. CASE i >= 1 /\ i < m
    <3>1. i \in Marks(u) <=> u[i] = "percent" /\ u[i + 1] = "blank"
      BY <1>1, <2>2 DEF Marks
    <3>2. w[i] = u[i] /\ w[i + 1] = u[i + 1]
      BY <1>1, <1>2, <2>2
    <3>3. i \in Marks(w) <=> w[i] = "percent" /\ w[i + 1] = "blank"
      BY <1>1, <1>2, <2>2 DEF Marks
    <3>4. i \notin J /\ i \notin V
      BY <1>1, <2>2 DEF Marks
    <3> QED BY <3>1, <3>2, <3>3, <3>4
  <2>3. CASE i >= 1 /\ i = m
    <3>1. i \notin Marks(u) /\ i \notin V
      BY <1>1, <2>3 DEF Marks
    <3>2. CASE n = 0
      BY <1>1, <1>2, <1>4, <2>3, <3>1, <3>2 DEF Marks
    <3>3. CASE n > 0
      <4>1. w[i] = u[m] /\ w[i + 1] = v[1]
        <5>1. m + 1 \in 1 .. m + n /\ m \in 1 .. m + n /\ ~(m + 1 <= m) /\ (m + 1) - m = 1
          BY <1>1, <2>3, <3>3
        <5> QED BY <1>2, <2>3, <5>1
      <4>2. i \in Marks(w) <=> w[i] = "percent" /\ w[i + 1] = "blank"
        BY <1>1, <1>2, <2>3, <3>3 DEF Marks
      <4> QED BY <1>4, <2>3, <3>1, <3>3, <4>1, <4>2
    <3> QED BY <1>1, <3>2, <3>3
  <2>4. CASE i > m
    <3>1. i \notin Marks(u) /\ i \notin J
      BY <1>1, <2>4 DEF Marks
    <3>2. i \in V <=> i - m \in Marks(v)
      <4>1. i \in V => i - m \in Marks(v)
        <5> SUFFICES ASSUME NEW k \in Marks(v), i = k + m PROVE i - m \in Marks(v)
          OBVIOUS
        <5>1. k \in Int
          BY <1>1 DEF Marks
        <5>2. i - m = k
          BY <1>1, <5>1
        <5> QED BY <5>2
      <4>2. i - m + m = i
        BY <1>1
      <4> QED BY <4>1, <4>2
    <3>3. i - m \in Marks(v) <=> i - m \in 1 .. n - 1 /\ v[i - m] = "percent" /\ v[i - m + 1] = "blank"
      BY DEF Marks
    <3>4. i - m \in 1 .. n - 1 <=> i \in 1 .. (m + n) - 1
      BY <1>1, <2>4
    <3>5. i \in 1 .. (m + n) - 1 => w[i] = v[i - m] /\ w[i + 1] = v[i - m + 1]
      <4> SUFFICES ASSUME i \in 1 .. (m + n) - 1 PROVE w[i] = v[i - m] /\ w[i + 1] = v[i - m + 1]
        OBVIOUS
      <4>1. /\ i \in 1 .. m + n /\ i + 1 \in 1 .. m + n /\ ~(i <= m) /\ ~(i + 1 <= m)
            /\ (i + 1) - m = i - m + 1
        BY <1>1, <2>4
      <4> QED BY <1>2, <4>1
    <3>6. i \in Marks(w) <=> i \in 1 .. (m + n) - 1 /\ w[i] = "percent" /\ w[i + 1] = "blank"
      BY <1>2 DEF Marks
    <3> QED BY <3>1, <3>2, <3>3, <3>4, <3>5, <3>6
  <2> QED BY <1>1, <2>1, <2>2, <2>3, <2>4
<1>6. IsFiniteSet(V) /\ Cardinality(V) = Cardinality(Marks(v))
  <2> DEFINE f == [i \in Marks(v) |-> i + m]
  <2>1. Marks(v) \subseteq Int
    BY DEF Marks
  <2>2. f \in Bijection(Marks(v), V)
    <3>1. f \in [Marks(v) -> V] /\ \A y \in V : \E x \in Marks(v) : f[x] = y
      OBVIOUS
    <3>2. \A x, y \in Marks(v) : f[x] = f[y] => x = y
      BY <1>1, <2>1
    <3> QED BY <3>1, <3>2 DEF Bijection, Injection, Surjection, IsInjective
  <2>3. ExistsBijection(Marks(v), V)
    BY <2>2 DEF ExistsBijection
  <2> QED BY <1>3, <2>3, FS_Bijection
<1>7. IsFiniteSet(J) /\ Cardinality(J) = Joint(u, v)
  <2>1. CASE Joint(u, v) = 1
    <3>1. J = {m}
      BY <2>1
    <3> QED BY <2>1, <3>1, FS_Singleton
  <2>2. CASE Joint(u, v) # 1
    <3>1. J = {} /\ Joint(u, v) = 0
      BY <2>2 DEF Joint
    <3> QED BY <3>1, FS_EmptySet
  <2> QED BY <2>1, <2>2
<1>8. Marks(u) \cap J = {} /\ (Marks(u) \cup J) \cap V = {}
  BY <1>1 DEF Marks
<1> HIDE DEF J, V, m, n
<1>9. /\ IsFiniteSet(Marks(u) \cup J)
      /\ Cardinality(Marks(u) \cup J) = Cardinality(Marks(u)) + Joint(u, v)
  <2>1. Cardinality(Marks(u)) \in Nat /\ Joint(u, v) \in Nat /\ Cardinality({}) = 0
    BY <1>3, FS_CardinalityType, FS_EmptySet DEF Joint
  <2>2. /\ IsFiniteSet(Marks(u) \cup J)
        /\ Cardinality(Marks(u) \cup J)
             = Cardinality(Marks(u)) + Cardinality(J) - Cardinality(Marks(u) \cap J)
    <3>1. IsFiniteSet(Marks(u)) /\ IsFiniteSet(J)
      BY <1>3, <1>7
    <3> QED BY <3>1, FS_Union
  <2>3. Cardinality(Marks(u) \cap J) = 0
    BY <1>8, FS_EmptySet
  <2> QED BY <1>7, <2>1, <2>2, <2>3
<1>10. Cardinality(Marks(w)) = Cardinality(Marks(u)) + Joint(u, v) + Cardinality(Marks(v))
  <2>1. /\ Cardinality(Marks(u)) \in Nat /\ Cardinality(Marks(v)) \in Nat /\ Joint(u, v) \in Nat
        /\ Cardinality({}) = 0
    BY <1>3, FS_CardinalityType, FS_EmptySet DEF Joint
  <2>2. Cardinality(Marks(w)) = Cardinality(Marks(u) \cup J) + Cardinality(V) - Cardinality({})
    BY <1>5, <1>6, <1>8, <1>9, FS_Union
  <2> QED BY <1>6, <1>9, <2>1, <2>2
<1>11. /\ Prompts(w) = Cardinality(Marks(w)) /\ Prompts(u) = Cardinality(Marks(u))
       /\ Prompts(v) = Cardinality(Marks(v))
       /\ Prompts(u) \in Nat /\ Prompts(v) \in Nat /\ Joint(u, v) \in Nat
  BY <1>2, PromptsAtMarks DEF Joint
<1>12. Prompts(w) = Prompts(u) + Prompts(v) + Joint(u, v)
  BY <1>10, <1>11
<1> QED BY <1>12 DEF w

(* A prompt is one prompt and no other byte begins one.                    *)
LEMMA PromptFacts ==
  /\ Prompt \in Seq(Byte) /\ Prompt # <<>> /\ Prompt[1] = "percent" /\ Prompts(Prompt) = 1
  /\ <<"other">> \in Seq(Byte) /\ <<"other">> # <<>> /\ <<"other">>[1] = "other"
  /\ Prompts(<<"other">>) = 0 /\ Prompts(<<>>) = 0
<1>1. /\ Prompt \in Seq(Byte) /\ Prompt # <<>> /\ Len(Prompt) = 2
      /\ Prompt[1] = "percent" /\ Prompt[2] = "blank"
  BY DEF Prompt, Byte
<1>2. /\ <<"other">> \in Seq(Byte) /\ <<"other">> # <<>> /\ Len(<<"other">>) = 1
      /\ <<"other">>[1] = "other"
      /\ <<>> \in Seq(Byte) /\ Len(<<>>) = 0
  BY DEF Byte
<1>3. Marks(Prompt) = {1} /\ Marks(<<"other">>) = {} /\ Marks(<<>>) = {}
  BY <1>1, <1>2 DEF Marks
<1> QED BY <1>1, <1>2, <1>3, PromptsAtMarks, FS_Singleton, FS_EmptySet

-----------------------------------------------------------------------------
(* Prompts on the way *)

(* What is still to be read, h telling whether the byte read last was a    *)
(* percent sign.                                                           *)
Coming(h, w) == Prompts(w) + (IF h /\ w # <<>> /\ w[1] = "blank" THEN 1 ELSE 0)

(* A read takes a beginning of it: what it takes and completes has come.   *)
LEMMA ComingRead ==
  ASSUME NEW w \in Seq(Byte), NEW n \in 1 .. Len(w), NEW h \in BOOLEAN,
         NEW g \in BOOLEAN, g <=> SubSeq(w, 1, n)[n] = "percent"
  PROVE  /\ SubSeq(w, 1, n) \in Seq(Byte) /\ SubSeq(w, n + 1, Len(w)) \in Seq(Byte)
         /\ Coming(h, w) = Prompts(SubSeq(w, 1, n)) + Coming(g, SubSeq(w, n + 1, Len(w)))
                           + (IF h /\ Head(SubSeq(w, 1, n)) = "blank" THEN 1 ELSE 0)
<1> DEFINE chunk == SubSeq(w, 1, n)
           rest == SubSeq(w, n + 1, Len(w))
<1>1. Len(w) \in Nat /\ n \in Nat /\ n >= 1 /\ n <= Len(w) /\ n + 1 \in Nat
  BY LenProperties
<1>2. \A i \in 1 .. Len(w) : w[i] \in Byte
  BY ElementOfSeq
<1>3. /\ chunk \in Seq(Byte) /\ Len(chunk) = n
      /\ \A i \in 1 .. n : chunk[i] = w[i]
  <2>1. \A i \in 1 .. n : w[i] \in Byte
    BY <1>1, <1>2
  <2>2. /\ chunk \in Seq(Byte) /\ Len(chunk) = (IF 1 <= n THEN n - 1 + 1 ELSE 0)
        /\ \A i \in 1 .. n - 1 + 1 : chunk[i] = w[1 + i - 1]
    BY <1>1, <2>1, SubSeqProperties
  <2>3. n - 1 + 1 = n /\ \A i \in 1 .. n : 1 + i - 1 = i
    BY <1>1
  <2> QED BY <1>1, <2>2, <2>3
<1>4. /\ rest \in Seq(Byte) /\ Len(rest) = Len(w) - n
  <2>1. \A i \in n + 1 .. Len(w) : w[i] \in Byte
    BY <1>1, <1>2
  <2>2. /\ rest \in Seq(Byte)
        /\ Len(rest) = IF n + 1 <= Len(w) THEN Len(w) - (n + 1) + 1 ELSE 0
    BY <1>1, <2>1, SubSeqProperties
  <2> QED BY <1>1, <2>2
<1>5. w = chunk \o rest
  <2>1. SubSeq(w, 1, n) \o SubSeq(w, n + 1, Len(w)) = SubSeq(w, 1, Len(w))
    <3>1. 1 \in 1 .. Len(w) + 1 /\ n \in 1 - 1 .. Len(w) /\ Len(w) \in n .. Len(w)
      BY <1>1
    <3> QED BY <3>1, ConcatAdjacentSubSeq
  <2> QED BY <2>1, SubSeqFull
<1>6. Prompts(w) = Prompts(chunk) + Prompts(rest) + Joint(chunk, rest)
  BY <1>3, <1>4, <1>5, PromptsAdd
<1>7. /\ chunk # <<>> /\ w # <<>> /\ chunk[1] = w[1] /\ Head(chunk) = chunk[1]
  <2>1. chunk[1] = w[1]
    <3>1. 1 \in 1 .. n
      BY <1>1
    <3> QED BY <1>3, <3>1
  <2>2. Len(<<>>) = 0 /\ Len(chunk) # 0 /\ Len(w) # 0
    BY <1>1, <1>3
  <2>3. chunk # <<>> /\ w # <<>>
    BY <2>2
  <2>4. Head(chunk) = chunk[1]
    BY <1>3, <2>3
  <2> QED BY <2>1, <2>3, <2>4
<1>8. Joint(chunk, rest)
        = IF chunk[n] = "percent" /\ rest # <<>> /\ rest[1] = "blank" THEN 1 ELSE 0
  BY <1>3, <1>7 DEF Joint
<1>9. Prompts(chunk) \in Nat /\ Prompts(rest) \in Nat
  BY <1>3, <1>4, PromptsAtMarks
<1> HIDE DEF chunk, rest
<1>10. Coming(h, w) = Prompts(chunk) + Coming(g, rest) + (IF h /\ Head(chunk) = "blank" THEN 1 ELSE 0)
  BY <1>6, <1>7, <1>8, <1>9 DEF Coming, chunk
<1> QED BY <1>3, <1>4, <1>10 DEF chunk, rest

(* What is printed comes, unless it begins with a blank.                   *)
LEMMA ComingPrinted ==
  ASSUME NEW w \in Seq(Byte), NEW u \in Seq(Byte), u # <<>>, u[1] # "blank", NEW h \in BOOLEAN
  PROVE  /\ w \o u \in Seq(Byte)
         /\ Coming(h, w \o u) = Coming(h, w) + Prompts(u)
<1>1. w \o u \in Seq(Byte)
  BY ConcatProperties
<1>2. Prompts(w \o u) = Prompts(w) + Prompts(u) /\ Prompts(w) \in Nat /\ Prompts(u) \in Nat
  BY PromptsAdd, PromptsAtMarks DEF Joint
<1>3. CASE w = <<>>
  <2>1. w \o u = u
    BY <1>3, ConcatEmptySeq
  <2> QED BY <1>1, <1>2, <1>3, <2>1 DEF Coming
<1>4. CASE w # <<>>
  <2>1. Len(w) \in Nat /\ Len(u) \in Nat /\ Len(w) >= 1
    BY <1>4, EmptySeq, LenProperties
  <2>2. (w \o u)[1] = w[1]
    <3>1. 1 \in 1 .. Len(w) + Len(u) /\ 1 <= Len(w)
      BY <2>1
    <3> QED BY <3>1, ConcatProperties
  <2>3. w \o u # <<>>
    BY <1>4, ConcatEqualIffEmpty
  <2> QED BY <1>1, <1>2, <1>4, <2>2, <2>3 DEF Coming
<1> QED BY <1>3, <1>4

(* A prompt that is printed is one more; any other byte is none.           *)
LEMMA PromptPrinted ==
  ASSUME NEW w \in Seq(Byte), NEW h \in BOOLEAN
  PROVE  w \o Prompt \in Seq(Byte) /\ Coming(h, w \o Prompt) = Coming(h, w) + 1
<1>1. Prompt \in Seq(Byte) /\ Prompt # <<>> /\ Prompt[1] # "blank" /\ Prompts(Prompt) = 1
  BY PromptFacts
<1> QED BY <1>1, ComingPrinted

LEMMA OtherPrinted ==
  ASSUME NEW w \in Seq(Byte), NEW h \in BOOLEAN
  PROVE  w \o <<"other">> \in Seq(Byte) /\ Coming(h, w \o <<"other">>) = Coming(h, w)
<1> DEFINE o == <<"other">>
<1>1. o \in Seq(Byte) /\ o # <<>> /\ o[1] # "blank" /\ Prompts(o) = 0
  BY PromptFacts
<1>2. Prompts(w) \in Nat
  BY PromptsAtMarks
<1> HIDE DEF o
<1>3. w \o o \in Seq(Byte) /\ Coming(h, w \o o) = Coming(h, w) + Prompts(o)
  BY <1>1, ComingPrinted
<1>4. Coming(h, w) \in Nat
  BY <1>2 DEF Coming
<1>5. Coming(h, w) + 0 = Coming(h, w)
  BY <1>4
<1> QED BY <1>1, <1>3, <1>5 DEF o

-----------------------------------------------------------------------------
(* The inductive invariant *)

(* Every prompt of a shell has been answered, missed, or is on the way:    *)
(* it prints one when it starts, one after every command and one for every *)
(* lookalike.  A session that has sent all its lines answers none.  Only   *)
(* lines sent for a lookalike wait together, and one of those is executed. *)
Accounted(s) ==
  /\ pc[s] \in {"off", "resolve", "connect"} =>
       left[s] = Lines /\ ~half[s] /\ missed[s] = 0 /\ fake[s] = 0 /\ ran[s] = 0 /\ lost[s] = 0
  /\ pc[s] = "read" /\ shell[s] = "up" /\ left[s] > 0 =>
       /\ missed[s] + (Lines - left[s]) + Coming(half[s], wire[s]) = 1 + ran[s] + fake[s]
       /\ lost[s] <= fake[s]

IInv == TypeOK /\ \A s \in Session : Accounted(s)

(* A step leaves a session alone.                                          *)
Same(s) ==
  /\ pc'[s] = pc[s] /\ left'[s] = left[s] /\ typed'[s] = typed[s] /\ wire'[s] = wire[s]
  /\ shell'[s] = shell[s] /\ ran'[s] = ran[s] /\ lost'[s] = lost[s] /\ fake'[s] = fake[s]
  /\ half'[s] = half[s] /\ missed'[s] = missed[s]

(* Its account does not change then.                                       *)
LEMMA SameAccounted ==
  ASSUME NEW s \in Session, Same(s), Accounted(s)
  PROVE  Accounted(s)'
BY DEF Same, Accounted

(* Before the sessions start nothing is printed, sent or missed.           *)
LEMMA InitInv == Init => IInv
<1> SUFFICES ASSUME Init PROVE IInv
  OBVIOUS
<1>1. TypeOK
  <2>1. <<>> \in Seq({"percent", "blank", "other"})
    OBVIOUS
  <2> QED BY <2>1, BoundAssumption DEF Init, TypeOK
<1>2. \A s \in Session : Accounted(s)
  BY DEF Init, Accounted
<1> QED BY <1>1, <1>2 DEF IInv

(* Starting them prints nothing.                                           *)
LEMMA StartInv == ASSUME IInv, NEW n, Start(n) PROVE IInv'
<1>1. /\ \A s \in Session : pc[s] = "off" /\ pc'[s] \in {"resolve", "ended"}
      /\ pc' \in [Session -> {"resolve", "ended"}]
      /\ noFile' \subseteq Session /\ bare' \subseteq Session
      /\ UNCHANGED <<alive, left, wire, typed, shell, ran, lost, fake, half, missed>>
  BY DEF Start, remote
<1>2. TypeOK'
  BY <1>1 DEF IInv, TypeOK
<1>3. \A s \in Session : Accounted(s)'
  BY <1>1 DEF IInv, Accounted
<1> QED BY <1>2, <1>3 DEF IInv

(* Nor does a session that ends, or the end of all of them, or a shell's.  *)
LEMMA QuietInv ==
  ASSUME IInv, NEW s \in Session, Resolve(s) \/ EndOfShell(s) \/ (\E n \in 1 .. Len(wire[s]) : Crash(s, n))
  PROVE  IInv'
<1>1. /\ pc' \in [Session -> {"off", "resolve", "connect", "read", "ended"}]
      /\ \A t \in Session : t # s => pc'[t] = pc[t]
      /\ pc'[s] = pc[s] \/ (pc[s] \in {"resolve", "read"} /\ pc'[s] = "ended")
                        \/ (pc[s] = "resolve" /\ pc'[s] = "connect")
      /\ alive' \in BOOLEAN
      /\ UNCHANGED <<noFile, bare, left, wire, typed, shell, ran, lost, fake, half, missed>>
  BY DEF Resolve, EndOfShell, Crash, Go, setup, remote, IInv, TypeOK
<1>2. TypeOK'
  BY <1>1 DEF IInv, TypeOK
<1>3. \A t \in Session : Accounted(t)'
  BY <1>1 DEF IInv, Accounted
<1> QED BY <1>2, <1>3 DEF IInv

LEMMA GoneInv == ASSUME IInv, NEW s \in Session, Gone(s) PROVE IInv'
<1>1. /\ shell' \in [Session -> {"off", "up", "closed"}]
      /\ shell'[s] = "closed" /\ shell[s] = "up"
      /\ \A t \in Session : t # s => shell'[t] = shell[t]
      /\ UNCHANGED <<pc, alive, noFile, bare, left, wire, typed, ran, lost, fake, half, missed>>
  BY DEF Gone, setup, IInv, TypeOK
<1>2. TypeOK'
  BY <1>1 DEF IInv, TypeOK
<1>3. \A t \in Session : shell'[t] = "up" => shell[t] = "up"
  BY <1>1
<1>4. \A t \in Session : Accounted(t)'
  BY <1>1, <1>3 DEF IInv, Accounted
<1> QED BY <1>2, <1>4 DEF IInv

(* A shell that is connected to prints its first prompt.                   *)
LEMMA ConnectInv == ASSUME IInv, NEW s \in Session, Connect(s) PROVE IInv'
<1>1. /\ pc' \in [Session -> {"off", "resolve", "connect", "read", "ended"}]
      /\ \A t \in Session : t # s => pc'[t] = pc[t]
      /\ pc[s] = "connect"
      /\ UNCHANGED <<alive, noFile, bare, left, typed, ran, lost, fake, half, missed>>
      /\ \/ /\ pc'[s] = "read" /\ shell' = [shell EXCEPT ![s] = "up"]
            /\ wire' = [wire EXCEPT ![s] = Prompt]
         \/ pc'[s] = "ended" /\ UNCHANGED <<shell, wire>>
  BY DEF Connect, Go, setup, IInv, TypeOK
<1>2. TypeOK'
  <2>1. wire' \in [Session -> Seq(Byte)]
    <3>1. wire \in [Session -> Seq(Byte)] /\ Prompt \in Seq(Byte)
      BY PromptFacts DEF IInv, TypeOK, Byte
    <3> QED BY <1>1, <3>1
  <2>2. shell' \in [Session -> {"off", "up", "closed"}]
    BY <1>1 DEF IInv, TypeOK
  <2>3. wire' \in [Session -> Seq({"percent", "blank", "other"})]
    BY <2>1 DEF Byte
  <2> QED BY <1>1, <2>2, <2>3 DEF IInv, TypeOK
<1>3. ASSUME NEW t \in Session, t # s PROVE Accounted(t)'
  <2>1. Same(t)
    BY <1>1, <1>3 DEF Same, IInv, TypeOK
  <2> QED BY <2>1, SameAccounted DEF IInv
<1>4. Accounted(s)'
  <2>1. left[s] = Lines /\ ~half[s] /\ missed[s] = 0 /\ fake[s] = 0 /\ ran[s] = 0 /\ lost[s] = 0
    BY <1>1 DEF IInv, Accounted
  <2>2. CASE pc'[s] = "ended"
    BY <2>2 DEF Accounted
  <2>3. CASE pc'[s] = "read"
    <3>1. wire'[s] = Prompt
      BY <1>1, <2>3 DEF IInv, TypeOK
    <3>2. Coming(half'[s], wire'[s]) = 1
      BY <1>1, <2>1, <3>1, PromptFacts DEF Coming
    <3>3. /\ left'[s] = Lines /\ missed'[s] = 0 /\ fake'[s] = 0 /\ ran'[s] = 0 /\ lost'[s] = 0
          /\ Lines \in Nat
      BY <1>1, <2>1, BoundAssumption
    <3> QED BY <2>3, <3>2, <3>3 DEF Accounted
  <2> QED BY <1>1, <2>2, <2>3
<1> QED BY <1>2, <1>3, <1>4 DEF IInv

(* A read answers one of the prompts it holds, while lines are left, and   *)
(* misses the others and one that it has only completed.                   *)
LEMMA ReceiveInv ==
  ASSUME IInv, NEW s \in Session, NEW n \in 1 .. Len(wire[s]), Receive(s, n)
  PROVE  IInv'
<1> DEFINE chunk == SubSeq(wire[s], 1, n)
           rest == SubSeq(wire[s], n + 1, Len(wire[s]))
           split == IF half[s] /\ Head(chunk) = "blank" THEN 1 ELSE 0
<1>0. wire[s] \in Seq(Byte) /\ half[s] \in BOOLEAN
  BY DEF IInv, TypeOK, Byte
<1>1. /\ missed[s] \in Nat
      /\ left[s] \in 0 .. Lines /\ typed[s] \in 0 .. Lines /\ ran[s] \in 0 .. Lines
      /\ lost[s] \in 0 .. Lines /\ fake[s] \in Nat /\ Lines \in Nat
      /\ left[s] + typed[s] + ran[s] + lost[s] = Lines
  BY BoundAssumption DEF IInv, TypeOK
<1>2. /\ wire' = [wire EXCEPT ![s] = rest]
      /\ half' = [half EXCEPT ![s] = chunk[n] = "percent"]
      /\ missed' = [missed EXCEPT ![s] = @ + Prompts(chunk) - Answered(chunk) + split]
      /\ IF Found(chunk) THEN SendLine(s) ELSE UNCHANGED <<left, typed>>
      /\ pc[s] = "read" /\ UNCHANGED <<pc, alive, noFile, bare, shell, ran, lost, fake>>
  BY DEF Receive, Completed, setup, remote
<1>3. /\ half' \in [Session -> BOOLEAN] /\ half'[s] \in BOOLEAN
      /\ half'[s] <=> chunk[n] = "percent"
      /\ \A t \in Session : t # s => half'[t] = half[t]
  BY <1>2 DEF IInv, TypeOK
<1>4. /\ chunk \in Seq(Byte) /\ rest \in Seq(Byte)
      /\ Coming(half[s], wire[s]) = Prompts(chunk) + Coming(half'[s], rest) + split
  <2> HIDE DEF chunk, rest
  <2>1. chunk = SubSeq(wire[s], 1, n) /\ rest = SubSeq(wire[s], n + 1, Len(wire[s]))
    BY DEF chunk, rest
  <2>2. ASSUME NEW h \in BOOLEAN, NEW g \in BOOLEAN, g <=> chunk[n] = "percent"
        PROVE  /\ chunk \in Seq(Byte) /\ rest \in Seq(Byte)
               /\ Coming(h, wire[s]) = Prompts(chunk) + Coming(g, rest)
                                       + (IF h /\ Head(chunk) = "blank" THEN 1 ELSE 0)
    <3>1. wire[s] \in Seq(Byte)
      BY <1>0
    <3> HIDE DEF split
    <3>2. n \in 1 .. Len(wire[s])
      OBVIOUS
    <3>3. /\ SubSeq(wire[s], 1, n) \in Seq(Byte)
          /\ SubSeq(wire[s], n + 1, Len(wire[s])) \in Seq(Byte)
          /\ Coming(h, wire[s]) = Prompts(SubSeq(wire[s], 1, n))
                                  + Coming(g, SubSeq(wire[s], n + 1, Len(wire[s])))
                                  + (IF h /\ Head(SubSeq(wire[s], 1, n)) = "blank" THEN 1 ELSE 0)
      <4>1. g <=> SubSeq(wire[s], 1, n)[n] = "percent"
        BY <2>1, <2>2
      <4> QED BY <3>1, <3>2, <4>1, ComingRead
    <3> QED BY <2>1, <3>3
  <2>3. half[s] \in BOOLEAN /\ half'[s] \in BOOLEAN /\ (half'[s] <=> chunk[n] = "percent")
    BY <1>0, <1>3
  <2> QED BY <2>2, <2>3, Zenon
<1>5. /\ Prompts(chunk) \in Nat /\ Coming(half'[s], rest) \in Nat /\ split \in {0, 1}
      /\ Answered(chunk) = IF Prompts(chunk) = 0 THEN 0 ELSE 1
      /\ Found(chunk) <=> Prompts(chunk) # 0
  <2> HIDE DEF chunk, rest
  <2>1. Prompts(chunk) \in Nat /\ Prompts(rest) \in Nat /\ (Found(chunk) <=> Prompts(chunk) # 0)
    BY <1>4, PromptsAtMarks
  <2>2. Coming(half'[s], rest) \in Nat
    BY <2>1 DEF Coming
  <2>3. split \in {0, 1}
    OBVIOUS
  <2> QED BY <2>1, <2>2, <2>3 DEF Answered
<1> HIDE DEF chunk, rest, split
<1>6. /\ left' \in [Session -> 0 .. Lines] /\ typed' \in [Session -> 0 .. Lines]
      /\ \A t \in Session : t # s => left'[t] = left[t] /\ typed'[t] = typed[t]
      /\ left'[s] = (IF Found(chunk) /\ left[s] > 0 THEN left[s] - 1 ELSE left[s])
      /\ left'[s] + typed'[s] = left[s] + typed[s]
  <2>1. CASE Found(chunk) /\ left[s] > 0
    <3>1. left' = [left EXCEPT ![s] = @ - 1] /\ typed' = [typed EXCEPT ![s] = @ + 1]
      BY <1>2, <2>1 DEF SendLine
    <3>2. /\ left[s] \in Nat /\ typed[s] \in Nat /\ ran[s] \in Nat /\ lost[s] \in Nat
          /\ left[s] <= Lines /\ typed[s] <= Lines
      BY <1>1
    <3>3. left[s] - 1 \in 0 .. Lines /\ typed[s] + 1 \in 0 .. Lines
      <4>1. \A l, y, x, o \in Nat : l > 0 => y + 1 <= l + y + x + o
        OBVIOUS
      <4>2. typed[s] + 1 <= Lines
        BY <1>1, <2>1, <3>2, <4>1
      <4>3. Lines \in Nat /\ left[s] > 0
        BY <1>1, <2>1
      <4> QED BY <3>2, <4>2, <4>3
    <3>4. left' \in [Session -> 0 .. Lines] /\ typed' \in [Session -> 0 .. Lines]
      BY <3>1, <3>3 DEF IInv, TypeOK
    <3>5. /\ left'[s] = left[s] - 1 /\ typed'[s] = typed[s] + 1
          /\ \A t \in Session : t # s => left'[t] = left[t] /\ typed'[t] = typed[t]
      BY <3>1 DEF IInv, TypeOK
    <3>6. left'[s] + typed'[s] = left[s] + typed[s]
      <4>1. \A l, y \in Int : (l - 1) + (y + 1) = l + y
        OBVIOUS
      <4>2. left[s] \in Int /\ typed[s] \in Int
        BY <1>1
      <4> QED BY <3>5, <4>1, <4>2
    <3>7. left'[s] = IF Found(chunk) /\ left[s] > 0 THEN left[s] - 1 ELSE left[s]
      BY <2>1, <3>5
    <3> QED BY <3>4, <3>5, <3>6, <3>7
  <2>2. CASE ~(Found(chunk) /\ left[s] > 0)
    <3>1. UNCHANGED <<left, typed>>
      BY <1>2, <2>2 DEF SendLine
    <3> QED BY <2>2, <3>1 DEF IInv, TypeOK
  <2> QED BY <2>1, <2>2
<1>7. TypeOK'
  <2>1. wire' \in [Session -> Seq({"percent", "blank", "other"})]
    BY <1>2, <1>4 DEF IInv, TypeOK, Byte
  <2>2. missed' \in [Session -> Nat]
    <3>1. missed[s] + Prompts(chunk) - Answered(chunk) + split \in Nat
      BY <1>1, <1>5
    <3> QED BY <1>2, <3>1 DEF IInv, TypeOK
  <2>3. \A t \in Session : left'[t] + typed'[t] + ran'[t] + lost'[t] = Lines
    <3> SUFFICES ASSUME NEW t \in Session PROVE left'[t] + typed'[t] + ran[t] + lost[t] = Lines
      BY <1>2
    <3>1. CASE t = s
      BY <1>1, <1>6, <3>1
    <3>2. CASE t # s
      BY <1>6, <3>2 DEF IInv, TypeOK
    <3> QED BY <3>1, <3>2
  <2> QED BY <1>2, <1>3, <1>6, <2>1, <2>2, <2>3 DEF IInv, TypeOK
<1>8. ASSUME NEW t \in Session, t # s PROVE Accounted(t)'
  <2>1. Same(t)
    BY <1>2, <1>3, <1>6, <1>8 DEF Same, IInv, TypeOK
  <2> QED BY <2>1, SameAccounted DEF IInv
<1>9. Accounted(s)'
  <2>1. /\ pc'[s] = "read" /\ shell'[s] = shell[s] /\ ran'[s] = ran[s] /\ fake'[s] = fake[s]
        /\ lost'[s] = lost[s]
    BY <1>2
  <2>2. ASSUME shell[s] = "up", left'[s] > 0
        PROVE  missed'[s] + (Lines - left'[s]) + Coming(half'[s], wire'[s]) = 1 + ran[s] + fake[s]
    <3>1. left[s] > 0
      BY <1>1, <1>6, <2>2
    <3>2. missed[s] + (Lines - left[s]) + Coming(half[s], wire[s]) = 1 + ran[s] + fake[s]
      BY <1>2, <2>2, <3>1 DEF IInv, Accounted
    <3>3. /\ wire'[s] = rest
          /\ missed'[s] = missed[s] + Prompts(chunk) - Answered(chunk) + split
      BY <1>2 DEF IInv, TypeOK
    <3>4. left'[s] = left[s] - Answered(chunk) /\ Answered(chunk) \in {0, 1}
      BY <1>1, <1>5, <1>6, <3>1
    <3> DEFINE sent == Lines - left[s]
               way == Coming(half'[s], rest)
    <3>5. sent \in Int /\ way \in Int /\ Lines - left'[s] = sent + Answered(chunk)
      BY <1>1, <1>5, <3>4
    <3>6. missed[s] + sent + (Prompts(chunk) + way + split) = 1 + ran[s] + fake[s]
      BY <1>4, <3>2
    <3> HIDE DEF sent, way
    <3>7. missed'[s] + (sent + Answered(chunk)) + way
            = missed[s] + sent + (Prompts(chunk) + way + split)
      <4>1. \A m, d, p, a, q, c \in Int : (m + p - a + q) + (d + a) + c = m + d + (p + c + q)
        OBVIOUS
      <4>2. /\ missed[s] \in Int /\ sent \in Int /\ Prompts(chunk) \in Int
            /\ Answered(chunk) \in Int /\ split \in Int /\ way \in Int
        BY <1>1, <1>5, <3>4, <3>5
      <4> QED BY <3>3, <4>1, <4>2
    <3>8. missed'[s] + (Lines - left'[s]) + way = 1 + ran[s] + fake[s]
      BY <3>5, <3>6, <3>7
    <3> QED BY <3>3, <3>8 DEF way
  <2>3. shell[s] = "up" /\ left'[s] > 0 => lost[s] <= fake[s]
    <3> SUFFICES ASSUME shell[s] = "up", left'[s] > 0 PROVE lost[s] <= fake[s]
      OBVIOUS
    <3>1. left[s] > 0
      BY <1>1, <1>6
    <3> QED BY <1>2, <3>1 DEF IInv, Accounted
  <2> QED BY <2>1, <2>2, <2>3 DEF Accounted
<1> QED BY <1>7, <1>8, <1>9 DEF IInv

(* A command prints a prompt, with a lookalike one more; the lines that    *)
(* are lost with it were sent for lookalikes.                              *)
LEMMA RunInv == ASSUME IInv, NEW s \in Session, Run(s) PROVE IInv'
<1> DEFINE w == wire[s]
           h == half[s]
<1>0. w \in Seq(Byte) /\ h \in BOOLEAN
  BY DEF IInv, TypeOK, Byte
<1>1. /\ missed[s] \in Nat
      /\ left[s] \in 0 .. Lines /\ typed[s] \in 0 .. Lines /\ ran[s] \in 0 .. Lines
      /\ lost[s] \in 0 .. Lines /\ fake[s] \in Nat /\ Lines \in Nat
      /\ left[s] + typed[s] + ran[s] + lost[s] = Lines
  BY BoundAssumption DEF IInv, TypeOK
<1>2. shell[s] = "up" /\ UNCHANGED <<pc, alive, noFile, bare, left, half, missed>>
  BY DEF Run, setup
<1>3. /\ typed' \in [Session -> 0 .. Lines] /\ ran' \in [Session -> 0 .. Lines]
      /\ lost' \in [Session -> 0 .. Lines]
      /\ ran'[s] = ran[s] + 1 /\ typed[s] > 0 /\ lost'[s] + 1 <= lost[s] + typed[s]
      /\ typed'[s] + lost'[s] + 1 = typed[s] + lost[s]
      /\ \A t \in Session : t # s => typed'[t] = typed[t] /\ ran'[t] = ran[t] /\ lost'[t] = lost[t]
  <2> PICK k \in 1 .. typed[s] : Takes(s, k)
    BY DEF Run
  <2>1. k \in Nat /\ k >= 1 /\ k <= typed[s]
    BY <1>1
  <2>2. typed[s] - k \in 0 .. Lines /\ ran[s] + 1 \in 0 .. Lines /\ lost[s] + k - 1 \in 0 .. Lines
    BY <1>1, <2>1
  <2>3. /\ typed' = [typed EXCEPT ![s] = @ - k] /\ ran' = [ran EXCEPT ![s] = @ + 1]
        /\ lost' = [lost EXCEPT ![s] = @ + k - 1]
    BY DEF Takes
  <2>4. /\ typed'[s] = typed[s] - k /\ lost'[s] = lost[s] + k - 1 /\ ran'[s] = ran[s] + 1
        /\ \A t \in Session : t # s => typed'[t] = typed[t] /\ ran'[t] = ran[t] /\ lost'[t] = lost[t]
    BY <2>3 DEF IInv, TypeOK
  <2>5. typed'[s] + lost'[s] + 1 = typed[s] + lost[s] /\ lost'[s] + 1 <= lost[s] + typed[s]
    BY <1>1, <2>1, <2>4
  <2>6. /\ typed' \in [Session -> 0 .. Lines] /\ ran' \in [Session -> 0 .. Lines]
        /\ lost' \in [Session -> 0 .. Lines]
    BY <2>2, <2>3 DEF IInv, TypeOK
  <2> QED BY <1>1, <2>1, <2>4, <2>5, <2>6
<1>4. Coming(h, w) \in Nat
  BY <1>0, PromptsAtMarks DEF Coming
<1>5. \/ /\ shell' = [shell EXCEPT ![s] = "closed"] /\ UNCHANGED <<wire, fake>>
      \/ /\ UNCHANGED shell /\ fake' \in [Session -> 0 .. Lookalikes]
         /\ \A t \in Session : t # s => fake'[t] = fake[t]
         /\ \E u \in Seq(Byte) :
              /\ wire' = [wire EXCEPT ![s] = u]
              /\ Coming(h, u) - Coming(h, w) = 1 + fake'[s] - fake[s]
  <2>1. CASE /\ ~IsExit(s) /\ UNCHANGED <<shell, fake>>
             /\ wire' = [wire EXCEPT ![s] = @ \o Prompt]
    <3> DEFINE u == w \o Prompt
    <3>1. u \in Seq(Byte) /\ Coming(h, u) = Coming(h, w) + 1
      BY <1>0, PromptPrinted
    <3>2. wire' = [wire EXCEPT ![s] = u]
      BY <2>1
    <3> HIDE DEF u
    <3>3. Coming(h, u) - Coming(h, w) = 1 + fake'[s] - fake[s]
      BY <1>1, <1>4, <2>1, <3>1
    <3>4. fake' \in [Session -> 0 .. Lookalikes]
      BY <2>1 DEF IInv, TypeOK
    <3> QED BY <2>1, <3>1, <3>2, <3>3, <3>4
  <2>2. CASE /\ ~IsExit(s) /\ UNCHANGED <<shell, fake>>
             /\ wire' = [wire EXCEPT ![s] = @ \o <<"other">> \o Prompt]
    <3> DEFINE v == w \o <<"other">>
               u == v \o Prompt
    <3>1. v \in Seq(Byte) /\ Coming(h, v) = Coming(h, w)
      BY <1>0, OtherPrinted
    <3>2. wire' = [wire EXCEPT ![s] = u]
      BY <2>2
    <3> HIDE DEF v
    <3>3. u \in Seq(Byte) /\ Coming(h, u) = Coming(h, v) + 1
      BY <1>0, <3>1, PromptPrinted
    <3> HIDE DEF u
    <3>4. Coming(h, u) - Coming(h, w) = 1 + fake'[s] - fake[s]
      BY <1>1, <1>4, <2>2, <3>1, <3>3
    <3>5. fake' \in [Session -> 0 .. Lookalikes]
      BY <2>2 DEF IInv, TypeOK
    <3> QED BY <2>2, <3>2, <3>3, <3>4, <3>5
  <2>3. CASE /\ ~IsExit(s) /\ UNCHANGED shell /\ fake[s] < Lookalikes
             /\ wire' = [wire EXCEPT ![s] = @ \o Prompt \o <<"other">> \o Prompt]
             /\ fake' = [fake EXCEPT ![s] = @ + 1]
    <3> DEFINE v == w \o Prompt
               x == v \o <<"other">>
               u == x \o Prompt
    <3>1. v \in Seq(Byte) /\ Coming(h, v) = Coming(h, w) + 1
      BY <1>0, PromptPrinted
    <3>2. wire' = [wire EXCEPT ![s] = u]
      BY <2>3
    <3> HIDE DEF v
    <3>3. x \in Seq(Byte) /\ Coming(h, x) = Coming(h, v)
      BY <1>0, <3>1, OtherPrinted
    <3> HIDE DEF x
    <3>4. u \in Seq(Byte) /\ Coming(h, u) = Coming(h, x) + 1
      BY <1>0, <3>3, PromptPrinted
    <3> HIDE DEF u
    <3>5. fake'[s] = fake[s] + 1 /\ \A t \in Session : t # s => fake'[t] = fake[t]
      BY <2>3 DEF IInv, TypeOK
    <3>6. Coming(h, u) - Coming(h, w) = 1 + fake'[s] - fake[s]
      BY <1>1, <1>4, <3>1, <3>3, <3>4, <3>5
    <3>7. fake' \in [Session -> 0 .. Lookalikes]
      <4>1. fake[s] + 1 \in 0 .. Lookalikes
        BY <1>1, <2>3, BoundAssumption, SMTT(30)
      <4> QED BY <2>3, <4>1 DEF IInv, TypeOK
    <3> QED BY <2>3, <3>2, <3>4, <3>5, <3>6, <3>7
  <2>4. CASE IsExit(s) /\ shell' = [shell EXCEPT ![s] = "closed"] /\ UNCHANGED <<wire, fake>>
    BY <2>4
  <2> QED BY <2>1, <2>2, <2>3, <2>4 DEF Run
<1>6. /\ wire' \in [Session -> Seq(Byte)] /\ fake' \in [Session -> 0 .. Lookalikes]
      /\ shell' \in [Session -> {"off", "up", "closed"}]
      /\ \A t \in Session : t # s => wire'[t] = wire[t] /\ fake'[t] = fake[t] /\ shell'[t] = shell[t]
  <2>1. wire \in [Session -> Seq(Byte)]
    BY DEF IInv, TypeOK, Byte
  <2>2. /\ fake \in [Session -> 0 .. Lookalikes]
        /\ shell \in [Session -> {"off", "up", "closed"}]
    BY DEF IInv, TypeOK
  <2>3. CASE shell' = [shell EXCEPT ![s] = "closed"] /\ UNCHANGED <<wire, fake>>
    BY <2>1, <2>2, <2>3
  <2>4. ASSUME UNCHANGED shell, NEW u \in Seq(Byte), wire' = [wire EXCEPT ![s] = u]
        PROVE  /\ wire' \in [Session -> Seq(Byte)] /\ UNCHANGED shell
               /\ \A t \in Session : t # s => wire'[t] = wire[t] /\ shell'[t] = shell[t]
    BY <2>1, <2>4
  <2> QED BY <1>5, <2>2, <2>3, <2>4
<1>7. TypeOK'
  <2>1. wire' \in [Session -> Seq({"percent", "blank", "other"})]
    BY <1>6 DEF Byte
  <2>2. \A t \in Session : left'[t] + typed'[t] + ran'[t] + lost'[t] = Lines
    <3> SUFFICES ASSUME NEW t \in Session PROVE left[t] + typed'[t] + ran'[t] + lost'[t] = Lines
      BY <1>2
    <3>1. CASE t = s
      <4>1. left[s] + typed'[s] + (ran[s] + 1) + lost'[s] = Lines
        <5>1. \A l, y, x, o, z, p \in Int : z + p + 1 = y + o => l + z + (x + 1) + p = l + y + x + o
          OBVIOUS
        <5>2. /\ left[s] \in Int /\ typed[s] \in Int /\ ran[s] \in Int /\ lost[s] \in Int
              /\ typed'[s] \in Int /\ lost'[s] \in Int
          BY <1>1, <1>3
        <5> QED BY <1>1, <1>3, <5>1, <5>2
      <4> QED BY <1>3, <3>1, <4>1
    <3>2. CASE t # s
      BY <1>3, <3>2 DEF IInv, TypeOK
    <3> QED BY <3>1, <3>2
  <2> QED BY <1>2, <1>3, <1>6, <2>1, <2>2 DEF IInv, TypeOK
<1>8. ASSUME NEW t \in Session, t # s PROVE Accounted(t)'
  <2>1. Same(t)
    BY <1>2, <1>3, <1>6, <1>8 DEF Same
  <2> QED BY <2>1, SameAccounted DEF IInv
<1>9. Accounted(s)'
  <2>1. pc[s] \notin {"off", "resolve", "connect"}
    <3> SUFFICES ASSUME pc[s] \in {"off", "resolve", "connect"} PROVE FALSE
      OBVIOUS
    <3>1. left[s] = Lines
      BY DEF IInv, Accounted
    <3> QED BY <1>1, <1>3, <3>1
  <2>2. ASSUME pc[s] = "read", shell'[s] = "up", left[s] > 0
        PROVE  missed[s] + (Lines - left[s]) + Coming(h, wire'[s]) = 1 + ran'[s] + fake'[s]
    <3>1. missed[s] + (Lines - left[s]) + Coming(h, w) = 1 + ran[s] + fake[s]
      BY <1>2, <2>2 DEF IInv, Accounted
    <3>2. PICK u \in Seq(Byte) : /\ wire' = [wire EXCEPT ![s] = u]
                                 /\ Coming(h, u) - Coming(h, w) = 1 + fake'[s] - fake[s]
      BY <1>5, <2>2 DEF IInv, TypeOK
    <3>3. wire'[s] = u /\ Coming(h, u) \in Nat /\ fake'[s] \in Nat
      <4>1. Coming(h, u) \in Nat
        BY PromptsAtMarks DEF Coming
      <4>2. fake'[s] \in 0 .. Lookalikes
        BY <1>6
      <4>3. wire'[s] = u
        BY <3>2 DEF IInv, TypeOK
      <4> QED BY <4>1, <4>2, <4>3, BoundAssumption
    <3>4. Coming(h, u) - Coming(h, w) = 1 + fake'[s] - fake[s]
      BY <3>2
    <3> DEFINE gone == missed[s] + (Lines - left[s])
               old == Coming(h, w)
               new == Coming(h, u)
    <3>5. gone \in Int /\ old \in Int /\ new \in Int /\ fake[s] \in Int /\ ran[s] \in Int
      <4>1. old \in Nat /\ new \in Nat
        BY <1>4, <3>3
      <4> HIDE DEF old, new
      <4>2. gone \in Int /\ fake[s] \in Int /\ ran[s] \in Int
        BY <1>1
      <4> QED BY <4>1, <4>2, SMTT(30)
    <3>6. gone + old = 1 + ran[s] + fake[s] /\ new - old = 1 + fake'[s] - fake[s]
      BY <3>1, <3>4
    <3> HIDE DEF gone, old, new
    <3>7. gone + new = 1 + (ran[s] + 1) + fake'[s]
      <4>1. fake'[s] \in Int
        BY <3>3
      <4> QED BY ONLY <3>5, <3>6, <4>1, SMTT(30)
    <3> QED BY <1>3, <3>3, <3>7 DEF gone, new
  <2>3. ASSUME pc[s] = "read", shell'[s] = "up", left[s] > 0 PROVE lost'[s] <= fake'[s]
    <3>1. /\ missed[s] + (Lines - left[s]) + Coming(h, w) = 1 + ran[s] + fake[s]
          /\ missed'[s] = missed[s]
      BY <1>2, <2>3 DEF IInv, Accounted
    <3>2. fake'[s] \in Int /\ fake[s] <= fake'[s]
      <4>1. fake' = fake \/ fake' = [fake EXCEPT ![s] = @ + 1]
        BY DEF Run
      <4> QED BY <1>1, <4>1 DEF IInv, TypeOK
    <3>3. Lines - left[s] = typed[s] + ran[s] + lost[s]
      BY <1>1
    <3> DEFINE old == Coming(h, w)
    <3>4. old \in Nat
      BY <1>4
    <3>5. missed[s] + (typed[s] + ran[s] + lost[s]) + old = 1 + ran[s] + fake[s]
      BY <3>1, <3>3
    <3> HIDE DEF old
    <3>6. lost[s] + typed[s] <= 1 + fake[s]
      BY <1>1, <3>4, <3>5
    <3>7. lost'[s] \in Int
      BY <1>3
    <3> QED BY <1>1, <1>3, <3>2, <3>6, <3>7
  <2> QED BY <1>2, <2>1, <2>2, <2>3 DEF Accounted
<1> QED BY <1>7, <1>8, <1>9 DEF IInv

(* Every step keeps the invariant.                                         *)
LEMMA StepInv == IInv /\ [CgiNext]_cgiVars => IInv'
<1> SUFFICES ASSUME IInv, [CgiNext]_cgiVars PROVE IInv'
  OBVIOUS
<1>1. ASSUME UNCHANGED vars PROVE IInv'
  <2>1. TypeOK'
    BY <1>1 DEF IInv, TypeOK, vars, setup, remote
  <2>2. \A s \in Session : Accounted(s)'
    BY <1>1 DEF IInv, Accounted, vars, setup, remote
  <2> QED BY <2>1, <2>2 DEF IInv
<1>2. CASE ReadQuery
  BY <1>1, <1>2 DEF ReadQuery
<1>3. CASE StartSessions
  BY <1>3, StartInv DEF StartSessions
<1>4. ASSUME NEW s \in Session, SessionStep(s) PROVE IInv'
  <2>1. CASE Resolve(s) \/ EndOfShell(s) \/ (\E n \in 1 .. Len(wire[s]) : Crash(s, n))
    BY <2>1, QuietInv
  <2>2. CASE Connect(s)
    BY <2>2, ConnectInv
  <2>3. CASE \E n \in 1 .. Len(wire[s]) : Receive(s, n)
    BY <2>3, ReceiveInv
  <2>4. CASE Run(s)
    BY <2>4, RunInv
  <2>5. CASE Gone(s)
    BY <2>5, GoneInv
  <2> QED BY <1>4, <2>1, <2>2, <2>3, <2>4, <2>5 DEF SessionStep, Handler
<1>5. CASE UNCHANGED cgiVars
  BY <1>1, <1>5 DEF cgiVars
<1> QED BY <1>2, <1>3, <1>4, <1>5 DEF CgiNext

LEMMA IInvHolds == FairSpec => []IInv
<1>1. CgiInit => IInv
  BY InitInv DEF CgiInit
<1> QED BY <1>1, StepInv, PTL DEF FairSpec

-----------------------------------------------------------------------------
(* Every line of every script is still in its file, on the way to its      *)
(* shell, executed, or read by the shell with the one executed: SendLine   *)
(* sends what it takes, once, whatever was read.                           *)
THEOREM ConsoleTypes == FairSpec => []TypeOK
<1>1. IInv => TypeOK
  BY DEF IInv
<1> QED BY <1>1, IInvHolds, PTL

(* A session whose two ends wait for each other has missed a prompt:       *)
(* do_read() looks at each read alone and sends one line for it.  It has   *)
(* missed one more than its shell printed lookalikes, less the lines that  *)
(* single_shell() lost; these alone never stop it.                         *)
THEOREM StuckNeedsMissedPrompt == FairSpec => []StuckOnlyIfMissed
<1>1. IInv => StuckOnlyIfMissed
  <2> SUFFICES ASSUME IInv, NEW s \in Session, Stuck(s)
               PROVE  missed[s] > 0 /\ missed[s] + lost[s] = 1 + fake[s]
    BY DEF StuckOnlyIfMissed
  <2> DEFINE way == Coming(half[s], wire[s])
  <2>1. missed[s] + (Lines - left[s]) + way = 1 + ran[s] + fake[s] /\ lost[s] <= fake[s]
    BY DEF IInv, Accounted, Stuck
  <2>2. way = 0
    BY PromptFacts DEF Stuck, Coming
  <2>3. /\ missed[s] \in Nat /\ left[s] \in 0 .. Lines /\ ran[s] \in 0 .. Lines
        /\ fake[s] \in 0 .. Lookalikes /\ Lines \in Nat /\ Lookalikes \in Nat
        /\ lost[s] \in 0 .. Lines /\ typed[s] = 0 /\ left[s] + typed[s] + ran[s] + lost[s] = Lines
    BY BoundAssumption DEF IInv, TypeOK, Stuck
  <2> HIDE DEF way
  <2>4. Lines - left[s] = ran[s] + lost[s]
    BY <2>3
  <2> QED BY <2>1, <2>2, <2>3, <2>4
<1> QED BY <1>1, IInvHolds, PTL

-----------------------------------------------------------------------------
(* How the form is read *)

Token == {"key", "value"} \X Nat

(* The tokens of the first n fields, and what is left after c sessions.    *)
Before(n) == n + Cardinality({f \in filled : f <= n})
Rest(c) == SubSeq(Query!AllTokens, Before(3 * c) + 1, Before(3 * Sessions))

FormTypes ==
  /\ step \in {"scan", "walk", "done", "crash", "run"}
  /\ filled \subseteq Query!Field
  /\ count \in Nat /\ values \in Nat /\ valid \subseteq Int
  /\ tokens \in Seq(Token) /\ query \in Seq(Token \X Token \X Token)

(* The marks are right as far as the form is clean: a count of values that *)
(* starts at a session's first field reaches three at its last, or not at  *)
(* all.                                                                    *)
Marked(k) == \A s \in 1 .. k : s - 1 \in valid <=> Query!Whole(s)
OneIf(f) == IF f \in filled /\ f <= count THEN 1 ELSE 0
Scanned ==
  step = "scan" =>
    /\ count <= 3 * Sessions /\ query = <<>>
    /\ \A x \in valid : 3 * (x + 1) <= count
    /\ \A k \in 0 .. Sessions : Query!Clean(k) /\ 3 * k <= count =>
         /\ Marked(k)
         /\ k < Sessions /\ count < 3 * (k + 1) =>
              values = OneIf(3 * k + 1) + OneIf(3 * k + 2)

(* The walk is at the session it counts as long as those before are clean, *)
(* and what it has found of those stays found.                             *)
InStep ==
  /\ step # "crash" /\ tokens = Rest(count) /\ Len(query) = Query!Rank(count)
Walked ==
  step \in {"walk", "done", "crash"} =>
    /\ \A k \in 0 .. Sessions : Query!Clean(k) =>
         /\ Marked(k)
         /\ k <= count => Query!Begins(k)
         /\ step = "done" => k <= count
    /\ count <= Sessions /\ Query!Clean(count) => InStep
    /\ Query!Clean(Sessions) => count <= Sessions

FormInv == FormTypes /\ Scanned /\ Walked

(* A nonempty set of naturals has a least element.                         *)
LEMMA LeastNatural ==
  ASSUME NEW S \in SUBSET Nat, S # {}
  PROVE  \E m \in S : \A x \in S : m <= x
<1> DEFINE Less == {p \in Nat \X Nat : p[1] < p[2]}
<1>1. IsWellFoundedOn(Less, Nat)
  BY NatLessThanWellFounded DEF OpToRel
<1>2. PICK m \in S : \A x \in S : <<x, m>> \notin Less
  <2> HIDE DEF Less
  <2> QED BY <1>1, WFMin
<1>3. ASSUME NEW x \in S PROVE m <= x
  <2>1. x \in Nat /\ m \in Nat /\ ~(x < m)
    <3>1. <<x, m>> \in Nat \X Nat => <<x, m>>[1] = x /\ <<x, m>>[2] = m
      OBVIOUS
    <3> QED BY <1>2, <3>1
  <2> QED BY <2>1
<1> QED BY <1>3

(* FlattenSeq is defined by a function that glues one sequence more to     *)
(* what it has; there is one for the first n of them, for every n.         *)
Gluing(s, n, g) == [i \in 1 .. n |-> IF i = 1 THEN s[i] ELSE g[i - 1] \o s[i]]
Glued(s) == CHOOSE g : g = Gluing(s, Len(s), g)

LEMMA GluingExists ==
  ASSUME NEW s, NEW n \in Nat
  PROVE  \E g : g = Gluing(s, n, g)
<1> DEFINE Open == {m \in Nat : ~ \E g : g = Gluing(s, m, g)}
<1> SUFFICES ASSUME Open # {} PROVE FALSE
  OBVIOUS
<1>1. PICK m \in Open : \A x \in Open : m <= x
  BY LeastNatural
<1>2. m # 0
  <2>1. <<>> = [i \in 1 .. 0 |-> IF i = 1 THEN s[i] ELSE <<>>[i - 1] \o s[i]]
    OBVIOUS
  <2> QED BY <2>1 DEF Gluing
<1>3. m - 1 \in Nat /\ m - 1 \notin Open
  BY <1>1, <1>2
<1>4. PICK g : g = Gluing(s, m - 1, g)
  BY <1>3
<1> DEFINE h == [i \in 1 .. m |-> IF i = 1 THEN s[i] ELSE g[i - 1] \o s[i]]
<1>5. \A i \in 1 .. m - 1 : h[i] = g[i]
  <2>1. \A i \in 1 .. m - 1 : g[i] = IF i = 1 THEN s[i] ELSE g[i - 1] \o s[i]
    BY <1>4 DEF Gluing
  <2>2. \A i \in 1 .. m - 1 : i \in 1 .. m
    BY <1>3
  <2> QED BY <2>1, <2>2
<1>6. h = Gluing(s, m, h)
  <2>1. ASSUME NEW i \in 1 .. m, i # 1 PROVE i - 1 \in 1 .. m - 1
    BY <2>1
  <2>2. \A i \in 1 .. m : i # 1 => h[i - 1] = g[i - 1]
    BY <1>5, <2>1
  <2> QED BY <2>2 DEF Gluing
<1> QED BY <1>1, <1>6

LEMMA FlattenGlues ==
  ASSUME NEW s, Len(s) \in Nat, Len(s) # 0
  PROVE  \E g : /\ Query!FlattenSeq(s) = g[Len(s)]
                /\ \A i \in 1 .. Len(s) : g[i] = IF i = 1 THEN s[i] ELSE g[i - 1] \o s[i]
<1>1. Glued(s) = Gluing(s, Len(s), Glued(s))
  BY GluingExists, Zenon DEF Glued
<1>2. Query!FlattenSeq(s) = Glued(s)[Len(s)]
  BY DEF Query!FlattenSeq, Glued, Gluing
<1>3. \A i \in 1 .. Len(s) : Glued(s)[i] = IF i = 1 THEN s[i] ELSE Glued(s)[i - 1] \o s[i]
  <2> DEFINE g == Glued(s)
  <2>1. g = Gluing(s, Len(s), g)
    BY <1>1
  <2> HIDE DEF g
  <2>2. \A i \in 1 .. Len(s) : g[i] = IF i = 1 THEN s[i] ELSE g[i - 1] \o s[i]
    BY <2>1 DEF Gluing
  <2> QED BY <2>2 DEF g
<1> QED BY <1>2, <1>3

(* How many tokens the first n fields have.                                *)
LEMMA BeforeFacts ==
  ASSUME filled \subseteq Query!Field
  PROVE  /\ Before(0) = 0
         /\ \A n \in Nat : Before(n) \in Nat
         /\ \A n \in Nat : Before(n + 1) = Before(n) + (IF n + 1 \in filled THEN 2 ELSE 1)
<1> DEFINE F(n) == {f \in filled : f <= n}
<1>1. IsFiniteSet(filled) /\ \A f \in filled : f \in Int /\ 1 <= f
  <2>1. 3 * Sessions \in Int /\ 1 \in Int
    BY SessionsAssumption
  <2>2. IsFiniteSet(1 .. 3 * Sessions)
    BY <2>1, FS_Interval
  <2>3. filled \subseteq 1 .. 3 * Sessions /\ \A f \in 1 .. 3 * Sessions : f \in Int /\ 1 <= f
    BY <2>1 DEF Query!Field
  <2>4. IsFiniteSet(filled)
    BY <2>2, <2>3, FS_Subset
  <2> QED BY <2>3, <2>4
<1>2. \A n \in Nat : IsFiniteSet(F(n)) /\ Cardinality(F(n)) \in Nat
  <2> SUFFICES ASSUME NEW n \in Nat PROVE IsFiniteSet(F(n)) /\ Cardinality(F(n)) \in Nat
    OBVIOUS
  <2>1. F(n) \subseteq filled
    OBVIOUS
  <2>2. IsFiniteSet(F(n))
    BY <1>1, <2>1, FS_Subset
  <2> QED BY <2>2, FS_CardinalityType
<1>3. F(0) = {}
  BY <1>1
<1>4. ASSUME NEW n \in Nat
      PROVE  Cardinality(F(n + 1)) = Cardinality(F(n)) + (IF n + 1 \in filled THEN 1 ELSE 0)
  <2>1. CASE n + 1 \in filled
    <3>1. F(n + 1) = F(n) \cup {n + 1} /\ n + 1 \notin F(n)
      BY <1>1, <2>1
    <3>2. Cardinality(F(n) \cup {n + 1}) = Cardinality(F(n)) + 1
      BY <1>2, <3>1, FS_AddElement
    <3> QED BY <2>1, <3>1, <3>2
  <2>2. CASE n + 1 \notin filled
    <3>1. F(n + 1) = F(n)
      BY <1>1, <2>2
    <3>2. Cardinality(F(n)) \in Nat
      BY <1>2
    <3> QED BY <2>2, <3>1, <3>2
  <2> QED BY <2>1, <2>2
<1>5. Cardinality(F(0)) = 0
  BY <1>3, FS_EmptySet
<1>6. \A n \in Nat : /\ n + 1 \in Nat /\ Before(n) = n + Cardinality(F(n))
                     /\ Before(n + 1) = n + 1 + Cardinality(F(n + 1))
  BY DEF Before
<1>7. Before(0) = 0 + Cardinality(F(0))
  BY DEF Before
<1> HIDE DEF F
<1> QED BY <1>2, <1>4, <1>5, <1>6, <1>7

(* How many of the first k sessions are filled in.                         *)
LEMMA SameCardinality == \A S : Query!Cardinality(S) = Cardinality(S)
BY DEF Query!Cardinality, Cardinality

LEMMA RankFacts ==
  /\ Query!Rank(0) = 0
  /\ \A k \in Nat : Query!Rank(k) \in Nat
  /\ \A k \in Nat : Query!Rank(k + 1) = Query!Rank(k) + (IF Query!Whole(k + 1) THEN 1 ELSE 0)
<1> DEFINE F(k) == {r \in 1 .. k : Query!Whole(r)}
<1>1. \A k \in Nat : IsFiniteSet(F(k)) /\ Cardinality(F(k)) \in Nat
  <2> SUFFICES ASSUME NEW k \in Nat PROVE IsFiniteSet(F(k)) /\ Cardinality(F(k)) \in Nat
    OBVIOUS
  <2>1. F(k) \subseteq 1 .. k
    OBVIOUS
  <2>2. IsFiniteSet(1 .. k)
    BY FS_Interval
  <2>3. IsFiniteSet(F(k))
    BY <2>1, <2>2, FS_Subset
  <2> QED BY <2>3, FS_CardinalityType
<1>2. Cardinality(F(0)) = 0
  <2>1. F(0) = {}
    OBVIOUS
  <2> QED BY <2>1, FS_EmptySet
<1>3. ASSUME NEW k \in Nat
      PROVE  Cardinality(F(k + 1)) = Cardinality(F(k)) + (IF Query!Whole(k + 1) THEN 1 ELSE 0)
  <2> DEFINE w(r) == Query!Whole(r)
  <2> HIDE DEF w
  <2>1. 1 .. (k + 1) = (1 .. k) \cup {k + 1} /\ k + 1 \notin 1 .. k
    OBVIOUS
  <2>2. CASE w(k + 1)
    <3>1. /\ {r \in 1 .. (k + 1) : w(r)} = {r \in 1 .. k : w(r)} \cup {k + 1}
          /\ k + 1 \notin {r \in 1 .. k : w(r)}
      BY <2>1, <2>2
    <3>2. Cardinality(F(k) \cup {k + 1}) = Cardinality(F(k)) + 1
      BY <1>1, <3>1, FS_AddElement DEF w
    <3> QED BY <2>2, <3>1, <3>2 DEF w
  <2>3. CASE ~w(k + 1)
    <3>1. {r \in 1 .. (k + 1) : w(r)} = {r \in 1 .. k : w(r)}
      BY <2>1, <2>3
    <3>2. F(k + 1) = F(k)
      BY <3>1 DEF w
    <3>3. Cardinality(F(k)) \in Nat /\ ~Query!Whole(k + 1)
      BY <1>1, <2>3 DEF w
    <3> HIDE DEF F
    <3> QED BY <3>2, <3>3
  <2> QED BY <2>2, <2>3
<1>4. \A k \in Nat : /\ k + 1 \in Nat /\ Query!Rank(k) = Cardinality(F(k))
                     /\ Query!Rank(k + 1) = Cardinality(F(k + 1))
  BY SameCardinality DEF Query!Rank
<1>5. Query!Rank(0) = Cardinality(F(0))
  BY SameCardinality DEF Query!Rank
<1> HIDE DEF F
<1> QED BY <1>1, <1>2, <1>3, <1>4, <1>5

(* The tokens of the form: a field's value stands behind its key.          *)
LEMMA OfFieldFacts ==
  ASSUME NEW f \in Nat
  PROVE  /\ Query!OfField(f) \in Seq(Token)
         /\ Len(Query!OfField(f)) = IF f \in filled THEN 2 ELSE 1
         /\ f \in filled => Query!OfField(f)[2] = <<"value", f>>
<1>1. <<"key", f>> \in Token /\ <<"value", f>> \in Token
  BY DEF Token
<1>2. CASE f \in filled
  <2>1. Query!OfField(f) = <<<<"key", f>>, <<"value", f>>>>
    BY <1>2 DEF Query!OfField
  <2> HIDE DEF Token
  <2> QED BY <1>1, <1>2, <2>1
<1>3. CASE f \notin filled
  <2>1. Query!OfField(f) = <<<<"key", f>>>>
    BY <1>3 DEF Query!OfField
  <2> QED BY <1>1, <1>3, <2>1
<1> QED BY <1>2, <1>3

LEMMA FormTokens ==
  ASSUME filled \subseteq Query!Field
  PROVE  /\ Query!AllTokens \in Seq(Token) /\ Len(Query!AllTokens) = Before(3 * Sessions)
         /\ \A f \in Query!Field : f \in filled =>
              /\ Before(f - 1) + 2 \in 1 .. Before(3 * Sessions)
              /\ Query!AllTokens[Before(f - 1) + 2] = <<"value", f>>
<1> DEFINE N == 3 * Sessions
           s == [f \in Query!Field |-> Query!OfField(f)]
<1>1. N \in Nat /\ N # 0 /\ Query!Field = 1 .. N
  BY SessionsAssumption DEF Query!Field
<1> HIDE DEF N
<1>2. Len(s) = N /\ \A i \in 1 .. N : s[i] = Query!OfField(i)
  BY <1>1
<1>3. Query!AllTokens = Query!FlattenSeq(s)
  BY DEF Query!AllTokens
<1> HIDE DEF s
<1>4. PICK g : /\ Query!AllTokens = g[N]
               /\ \A i \in 1 .. N : g[i] = IF i = 1 THEN Query!OfField(i)
                                                    ELSE g[i - 1] \o Query!OfField(i)
  <2>1. PICK g : /\ Query!FlattenSeq(s) = g[Len(s)]
                 /\ \A i \in 1 .. Len(s) : g[i] = IF i = 1 THEN s[i] ELSE g[i - 1] \o s[i]
    BY <1>1, <1>2, FlattenGlues
  <2>2. \A i \in 1 .. N : g[i] = IF i = 1 THEN Query!OfField(i) ELSE g[i - 1] \o Query!OfField(i)
    BY <1>2, <2>1
  <2> QED BY <1>2, <1>3, <2>1, <2>2
<1> DEFINE Good(n) ==
             /\ g[n] \in Seq(Token) /\ Len(g[n]) = Before(n)
             /\ \A f \in 1 .. n : f \in filled =>
                  Before(f - 1) + 2 \in 1 .. Before(n) /\ g[n][Before(f - 1) + 2] = <<"value", f>>
<1>5. Good(1)
  <2>1. g[1] = Query!OfField(1)
    BY <1>1, <1>4
  <2>2. Before(0) \in Nat /\ Before(0 + 1) = Before(0) + IF 0 + 1 \in filled THEN 2 ELSE 1
    BY BeforeFacts
  <2>3. Before(0) = 0 /\ 0 + 1 = 1
    BY BeforeFacts
  <2>4. Before(1) = IF 1 \in filled THEN 2 ELSE 1
    BY <2>2, <2>3
  <2>5. /\ g[1] \in Seq(Token) /\ Len(g[1]) = IF 1 \in filled THEN 2 ELSE 1
        /\ 1 \in filled => g[1][2] = <<"value", 1>>
    BY <2>1, OfFieldFacts
  <2> HIDE DEF Token
  <2>6. ASSUME NEW f \in 1 .. 1, f \in filled
        PROVE  Before(f - 1) + 2 \in 1 .. Before(1) /\ g[1][Before(f - 1) + 2] = <<"value", f>>
    <3>1. f = 1 /\ f - 1 = 0
      OBVIOUS
    <3>2. Before(f - 1) + 2 = 2 /\ 1 \in filled
      BY <2>3, <2>6, <3>1
    <3> QED BY <2>4, <2>5, <3>1, <3>2
  <2> QED BY <2>4, <2>5, <2>6
<1>6. ASSUME NEW n \in Nat, n + 1 \in 1 .. N, n # 0, Good(n) PROVE Good(n + 1)
  <2> DEFINE t == Query!OfField(n + 1)
  <2>a. /\ g[n] \in Seq(Token) /\ Len(g[n]) = Before(n)
    BY <1>6
  <2>b. \A f \in 1 .. n : f \in filled =>
          Before(f - 1) + 2 \in 1 .. Before(n) /\ g[n][Before(f - 1) + 2] = <<"value", f>>
    BY <1>6
  <2> HIDE DEF Good
  <2>0. n + 1 \in Nat /\ n + 1 # 1 /\ n + 1 - 1 = n
    BY <1>6
  <2>1. /\ t \in Seq(Token) /\ Len(t) = (IF n + 1 \in filled THEN 2 ELSE 1)
        /\ n + 1 \in filled => t[2] = <<"value", n + 1>>
    BY <2>0, OfFieldFacts
  <2>2. g[n + 1] = g[n] \o t
    <3> DEFINE m == n + 1
    <3>1. m \in 1 .. N /\ m # 1 /\ m - 1 = n
      BY <1>6, <2>0
    <3> HIDE DEF m
    <3>2. g[m] = g[m - 1] \o Query!OfField(m)
      BY <1>4, <3>1
    <3>3. g[m] = g[n] \o Query!OfField(m)
      BY <3>1, <3>2
    <3> QED BY <3>3 DEF m
  <2>3. /\ Before(n) \in Nat /\ Before(n + 1) = Before(n) + (IF n + 1 \in filled THEN 2 ELSE 1)
    BY BeforeFacts
  <2> HIDE DEF t
  <2> DEFINE h == g[n]
  <2>4. /\ g[n + 1] \in Seq(Token) /\ Len(g[n + 1]) = Before(n + 1)
        /\ \A i \in 1 .. Before(n) : g[n + 1][i] = g[n][i]
        /\ n + 1 \in filled => g[n + 1][Before(n) + 2] = t[2]
    <3>0. h \in Seq(Token) /\ Len(h) = Before(n)
      BY <2>a
    <3> HIDE DEF h, Token
    <3>1. /\ h \o t \in Seq(Token) /\ Len(h \o t) = Len(h) + Len(t)
          /\ \A i \in 1 .. Len(h) + Len(t) : (h \o t)[i] =
                     IF i <= Len(h) THEN h[i] ELSE t[i - Len(h)]
      BY <2>1, <3>0, ConcatProperties
    <3>2. Len(t) \in {1, 2} /\ Len(h) \in Nat
      BY <2>1, <2>3, <3>0
    <3>3. \A i \in 1 .. Before(n) : (h \o t)[i] = h[i]
      BY <3>0, <3>1, <3>2
    <3>4. ASSUME n + 1 \in filled PROVE (h \o t)[Before(n) + 2] = t[2]
      <4>1. /\ Len(h) + 2 \in 1 .. Len(h) + Len(t) /\ ~(Len(h) + 2 <= Len(h))
            /\ Len(h) + 2 - Len(h) = 2
        BY <2>1, <3>2, <3>4
      <4> QED BY <3>0, <3>1, <4>1
    <3>5. Len(h) + Len(t) = Before(n + 1)
      BY <2>1, <2>3, <3>0
    <3> QED BY <2>2, <3>1, <3>3, <3>4, <3>5 DEF h
  <2> HIDE DEF h
  <2>5. ASSUME NEW f \in 1 .. n + 1, f \in filled
        PROVE  Before(f - 1) + 2 \in 1 .. Before(n + 1) /\ g[n + 1][Before(f - 1) + 2] = <<"value", f>>
    <3>1. CASE f = n + 1
      <4>1. f - 1 = n
        BY <3>1
      <4>2. Before(f - 1) + 2 = Before(n + 1) /\ g[n + 1][Before(f - 1) + 2] = t[2]
        BY <2>3, <2>4, <2>5, <3>1, <4>1
      <4>3. Before(n + 1) \in 1 .. Before(n + 1)
        BY <2>3
      <4> QED BY <2>1, <2>5, <3>1, <4>2, <4>3
    <3>2. CASE f # n + 1
      <4>1. f \in 1 .. n
        BY <2>5, <3>2
      <4>2. Before(f - 1) + 2 \in 1 .. Before(n) /\ g[n][Before(f - 1) + 2] = <<"value", f>>
        BY <2>b, <2>5, <4>1
      <4>3. Before(f - 1) + 2 \in 1 .. Before(n + 1)
        BY <2>3, <4>2
      <4> QED BY <2>4, <4>2, <4>3
    <3> QED BY <3>1, <3>2
  <2> QED BY <2>4, <2>5 DEF Good
<1> HIDE DEF Good
<1>7. Good(N)
  <2> DEFINE Open == {n \in Nat : n \in 1 .. N /\ ~Good(n)}
  <2> SUFFICES ASSUME Open # {} PROVE FALSE
    BY <1>1
  <2>1. PICK n \in Open : \A x \in Open : n <= x
    BY LeastNatural
  <2>2. n \in Nat /\ n \in 1 .. N /\ ~Good(n)
    BY <2>1
  <2>3. n # 1
    BY <1>5, <2>2
  <2>4. n - 1 \in Nat /\ n - 1 # 0 /\ (n - 1) + 1 = n /\ n - 1 \in 1 .. N /\ ~(n <= n - 1)
    BY <1>1, <2>2, <2>3
  <2>5. Good(n - 1)
    BY <2>1, <2>4
  <2>6. Good((n - 1) + 1)
    BY <1>6, <2>2, <2>4, <2>5
  <2> QED BY <2>2, <2>4, <2>6
<1> USE DEF Good
<1>8. /\ Query!AllTokens \in Seq(Token) /\ Len(Query!AllTokens) = Before(N)
  BY <1>4, <1>7
<1>9. \A f \in 1 .. N : f \in filled =>
        Before(f - 1) + 2 \in 1 .. Before(N) /\ Query!AllTokens[Before(f - 1) + 2] = <<"value", f>>
  BY <1>4, <1>7
<1> HIDE DEF Good
<1> QED BY <1>1, <1>8, <1>9 DEF N

(* Dropping tokens twice drops them at once.                               *)
Dropping(q, k) == SubSeq(q, k + 1, Len(q))

LEMMA DroppedOnce ==
  ASSUME NEW q \in Seq(Token), NEW k \in Nat, k <= Len(q)
  PROVE  /\ Dropping(q, k) \in Seq(Token) /\ Len(Dropping(q, k)) = Len(q) - k
         /\ \A i \in 1 .. Len(q) - k : Dropping(q, k)[i] = q[k + i]
<1> HIDE DEF Token
<1> DEFINE L == Len(q)
           r == SubSeq(q, k + 1, L)
<1>1. L \in Nat /\ k <= L
  BY LenProperties
<1>2. k + 1 \in Int /\ L \in Int /\ \A i \in k + 1 .. L : q[i] \in Token
  BY <1>1, ElementOfSeq
<1> HIDE DEF L
<1>3. /\ r \in Seq(Token) /\ Len(r) = (IF k + 1 <= L THEN L - (k + 1) + 1 ELSE 0)
      /\ \A i \in 1 .. L - (k + 1) + 1 : r[i] = q[k + 1 + i - 1]
  BY <1>2, SubSeqProperties
<1>4. Dropping(q, k) = r
  BY DEF Dropping, L
<1> HIDE DEF r
<1>5. /\ L - (k + 1) + 1 = L - k /\ (IF k + 1 <= L THEN L - (k + 1) + 1 ELSE 0) = L - k
      /\ \A i \in 1 .. L - k : k + 1 + i - 1 = k + i
  BY <1>1
<1>6. Len(r) = L - k /\ \A i \in 1 .. L - k : r[i] = q[k + i]
  BY <1>3, <1>5
<1> QED BY <1>3, <1>4, <1>6 DEF L

LEMMA DroppedTwice ==
  ASSUME NEW q \in Seq(Token), NEW a \in Nat, NEW d \in Nat, a + d <= Len(q)
  PROVE  Dropping(Dropping(q, a), d) = Dropping(q, a + d)
<1> HIDE DEF Token
<1> DEFINE r == Dropping(q, a)
           x == Dropping(r, d)
           y == Dropping(q, a + d)
           M == Len(q) - (a + d)
<1>1. Len(q) \in Nat /\ a <= Len(q) /\ a + d \in Nat
  BY LenProperties
<1>2. r \in Seq(Token) /\ Len(r) = Len(q) - a /\ \A i \in 1 .. Len(q) - a : r[i] = q[a + i]
  BY <1>1, DroppedOnce
<1>3. y \in Seq(Token) /\ Len(y) = M /\ \A i \in 1 .. M : y[i] = q[a + d + i]
  BY <1>1, DroppedOnce
<1> HIDE DEF r, y
<1>4. d <= Len(r) /\ Len(r) - d = M /\ M \in Nat
  BY <1>1, <1>2, SMTT(30)
<1>5. x \in Seq(Token) /\ Len(x) = M /\ \A i \in 1 .. M : x[i] = r[d + i]
  BY <1>2, <1>4, DroppedOnce
<1> HIDE DEF x
<1>6. \A i \in 1 .. M : d + i \in 1 .. Len(q) - a /\ a + (d + i) = a + d + i
  BY <1>1, SMTT(30)
<1> HIDE DEF M
<1>7. \A i \in 1 .. M : x[i] = y[i]
  BY <1>2, <1>3, <1>5, <1>6
<1>8. x = y
  BY <1>3, <1>5, <1>7, SeqEqual
<1> QED BY <1>8 DEF x, y, r

(* More fields have more tokens.                                           *)
LEMMA BeforeGrows ==
  ASSUME filled \subseteq Query!Field, NEW m \in Nat, NEW n \in Nat, m <= n
  PROVE  Before(m) <= Before(n)
<1> DEFINE G(k) == {f \in filled : f <= k}
<1>1. IsFiniteSet(G(n)) /\ G(m) \subseteq G(n)
  <2>1. filled \subseteq 1 .. 3 * Sessions /\ \A f \in filled : f \in Int
    BY SessionsAssumption DEF Query!Field
  <2>2. IsFiniteSet(1 .. 3 * Sessions)
    <3>1. 1 \in Int /\ 3 * Sessions \in Int
      BY SessionsAssumption
    <3> QED BY <3>1, FS_Interval
  <2>3. G(n) \subseteq 1 .. 3 * Sessions
    BY <2>1
  <2>4. IsFiniteSet(G(n))
    BY <2>2, <2>3, FS_Subset
  <2>5. G(m) \subseteq G(n)
    <3>1. \A f \in filled : f <= m => f <= n
      BY <2>1
    <3> QED BY <3>1
  <2> QED BY <2>4, <2>5
<1>2. Cardinality(G(m)) <= Cardinality(G(n)) /\ Cardinality(G(m)) \in Nat /\ Cardinality(G(n)) \in Nat
  <2>1. IsFiniteSet(G(m)) /\ Cardinality(G(m)) <= Cardinality(G(n))
    BY <1>1, FS_Subset
  <2> QED BY <1>1, <2>1, FS_CardinalityType
<1>3. Before(m) = m + Cardinality(G(m)) /\ Before(n) = n + Cardinality(G(n))
  BY DEF Before
<1> HIDE DEF G
<1> QED BY <1>2, <1>3

(* What the walk finds before it: the tokens of the sessions still to      *)
(* come, the first of them six if that session is filled in, three if it   *)
(* is empty.                                                               *)
LEMMA RestFacts ==
  ASSUME filled \subseteq Query!Field
  PROVE  /\ Rest(0) = Query!AllTokens /\ Rest(Sessions) = <<>>
         /\ \A c \in 0 .. Sessions - 1 :
              /\ Rest(c) \in Seq(Token) /\ Rest(c) # <<>>
              /\ Query!Whole(c + 1) =>
                   /\ Len(Rest(c)) >= 6
                   /\ <<Rest(c)[2], Rest(c)[4], Rest(c)[6]>> = Query!Values(c + 1)
                   /\ SubSeq(Rest(c), 7, Len(Rest(c))) = Rest(c + 1)
              /\ Query!Of(c + 1) \cap filled = {} =>
                   SubSeq(Rest(c), 4, Len(Rest(c))) = Rest(c + 1)
<1> DEFINE A == Query!AllTokens
           L == Before(3 * Sessions)
<1>1. A \in Seq(Token) /\ Len(A) = L /\ L \in Nat
  <2>1. 3 * Sessions \in Nat
    BY SessionsAssumption
  <2> QED BY <2>1, FormTokens, BeforeFacts
<1>2. Rest(0) = A
  <2>1. Before(3 * 0) + 1 = 1
    BY BeforeFacts
  <2>2. Rest(0) = SubSeq(A, 1, Len(A))
    BY <1>1, <2>1 DEF Rest
  <2> HIDE DEF A, Token
  <2> QED BY <1>1, <2>2, SubSeqFull
<1>3. Rest(Sessions) = <<>>
  <2>1. L + 1 \in Int /\ L \in Int /\ L < L + 1
    BY <1>1
  <2> HIDE DEF L
  <2>2. SubSeq(A, L + 1, L) = <<>>
    BY <2>1, SubSeqEmpty
  <2> QED BY <2>2 DEF Rest, L
<1>4. ASSUME NEW c \in 0 .. Sessions - 1
      PROVE  /\ Rest(c) \in Seq(Token) /\ Rest(c) # <<>>
             /\ Query!Whole(c + 1) =>
                  /\ Len(Rest(c)) >= 6
                  /\ <<Rest(c)[2], Rest(c)[4], Rest(c)[6]>> = Query!Values(c + 1)
                  /\ SubSeq(Rest(c), 7, Len(Rest(c))) = Rest(c + 1)
             /\ Query!Of(c + 1) \cap filled = {} =>
                  SubSeq(Rest(c), 4, Len(Rest(c))) = Rest(c + 1)
  <2> DEFINE n == 3 * c
             a == Before(n)
             r == Rest(c)
             f1 == n + 1
             f2 == n + 2
             f3 == n + 3
  <2>1. /\ n \in Nat /\ n + 3 <= 3 * Sessions /\ 3 * (c + 1) = n + 3
        /\ 3 * Sessions \in Nat /\ n + 1 \in Nat /\ n + 2 \in Nat /\ n + 3 \in Nat
        /\ n + 1 + 1 = n + 2 /\ n + 2 + 1 = n + 3
        /\ n + 1 - 1 = n /\ n + 2 - 1 = n + 1 /\ n + 3 - 1 = n + 2
    BY SessionsAssumption
  <2>2. /\ a \in Nat /\ Before(n + 3) <= L
        /\ Before(n + 1) = a + (IF n + 1 \in filled THEN 2 ELSE 1)
        /\ Before(n + 2) = Before(n + 1) + (IF n + 2 \in filled THEN 2 ELSE 1)
        /\ Before(n + 3) = Before(n + 2) + (IF n + 3 \in filled THEN 2 ELSE 1)
    <3> HIDE DEF n
    <3>1. a \in Nat /\ Before(n + 3) <= L
      BY <2>1, BeforeFacts, BeforeGrows
    <3>2. /\ Before(n + 1) = a + (IF n + 1 \in filled THEN 2 ELSE 1)
          /\ Before(n + 1 + 1) = Before(n + 1) + (IF n + 1 + 1 \in filled THEN 2 ELSE 1)
          /\ Before(n + 2 + 1) = Before(n + 2) + (IF n + 2 + 1 \in filled THEN 2 ELSE 1)
      BY <2>1, BeforeFacts
    <3> QED BY <2>1, <3>1, <3>2
  <2>3. r = SubSeq(A, a + 1, Len(A))
    BY <1>1 DEF Rest
  <2>4. Rest(c + 1) = SubSeq(A, Before(n + 3) + 1, Len(A))
    BY <1>1, <2>1 DEF Rest
  <2>5. Query!Of(c + 1) = {n + 1, n + 2, n + 3}
    <3>1. 3 * (c + 1) - 2 = n + 1 /\ 3 * (c + 1) - 1 = n + 2 /\ 3 * (c + 1) = n + 3
      OBVIOUS
    <3> HIDE DEF n
    <3> QED BY <3>1 DEF Query!Of
  <2>6. \A f \in {n + 1, n + 2, n + 3} : f \in filled =>
          Before(f - 1) + 2 \in 1 .. L /\ A[Before(f - 1) + 2] = <<"value", f>>
    BY FormTokens
  <2>7. Query!Values(c + 1) = <<<<"value", n + 1>>, <<"value", n + 2>>, <<"value", n + 3>>>>
    <3>1. 3 * (c + 1) - 2 = n + 1 /\ 3 * (c + 1) - 1 = n + 2 /\ 3 * (c + 1) = n + 3
      OBVIOUS
    <3> HIDE DEF n
    <3> QED BY <3>1 DEF Query!Values
  <2> HIDE DEF n, L, A, Token, r
  <2> DEFINE b == Before(n)
  <2>b. L \in Nat
    BY <1>1
  <2>a. b \in Nat /\ b + 3 <= L
    <3>1. Before(n + 1) \in Nat /\ Before(n + 2) \in Nat /\ Before(n + 3) \in Nat
      BY <2>1, BeforeFacts
    <3>2. Before(n + 1) >= b + 1 /\ Before(n + 2) >= Before(n + 1) + 1 /\ Before(n + 3) >= Before(n + 2) + 1
      BY <2>2, <3>1
    <3>3. b \in Nat /\ Before(n + 3) <= L
      BY <2>2
    <3> HIDE DEF b
    <3>4. \A x, y, z \in Nat : x >= b + 1 /\ y >= x + 1 /\ z >= y + 1 /\ z <= L => b + 3 <= L
      BY <2>b, <3>3
    <3> QED BY <3>1, <3>2, <3>3, <3>4
  <2> HIDE DEF b
  <2>8. ASSUME NEW d \in Nat, b + d <= L
        PROVE  SubSeq(r, d + 1, Len(r)) = SubSeq(A, b + d + 1, Len(A))
    <3>1. Dropping(Dropping(A, b), d) = Dropping(A, b + d)
      BY <1>1, <2>a, <2>8, DroppedTwice
    <3>2. r = Dropping(A, b)
      BY <2>3 DEF Dropping, b
    <3> QED BY <3>1, <3>2 DEF Dropping
  <2>9. /\ r \in Seq(Token) /\ Len(r) = L - b /\ L - b >= 3
        /\ \A i \in 1 .. L - b : r[i] = A[b + i]
    <3>1. r = Dropping(A, b)
      BY <2>3 DEF Dropping, b
    <3>2. b <= Len(A) /\ L - b >= 3
      BY <1>1, <2>a
    <3> QED BY <1>1, <2>a, <3>1, <3>2, DroppedOnce
  <2>10. r # <<>>
    BY <2>9
  <2>11. ASSUME Query!Whole(c + 1)
         PROVE  /\ Len(r) >= 6
                /\ <<r[2], r[4], r[6]>> = Query!Values(c + 1)
                /\ SubSeq(r, 7, Len(r)) = Rest(c + 1)
    <3>1. n + 1 \in filled /\ n + 2 \in filled /\ n + 3 \in filled
      BY <2>5, <2>11 DEF Query!Whole
    <3>2. Before(n + 1) = b + 2 /\ Before(n + 2) = b + 4 /\ Before(n + 3) = b + 6 /\ b + 6 <= L
      BY <2>2, <2>a, <3>1 DEF b
    <3>3. r[2] = A[b + 2] /\ r[4] = A[b + 4] /\ r[6] = A[b + 6]
      <4>1. 2 \in 1 .. L - b /\ 4 \in 1 .. L - b /\ 6 \in 1 .. L - b /\ L - b >= 6
        BY <2>a, <2>b, <3>2
      <4> QED BY <2>9, <4>1
    <3>4. /\ A[Before(n) + 2] = <<"value", n + 1>> /\ A[Before(n + 1) + 2] = <<"value", n + 2>>
          /\ A[Before(n + 2) + 2] = <<"value", n + 3>>
      BY <2>1, <2>6, <3>1
    <3>5. b + 2 + 2 = b + 4 /\ b + 4 + 2 = b + 6 /\ 6 + 1 = 7 /\ b + 6 + 1 = Before(n + 3) + 1
      BY <2>a, <3>2
    <3>6. <<r[2], r[4], r[6]>> = Query!Values(c + 1)
      BY <2>7, <3>2, <3>3, <3>4, <3>5 DEF b
    <3>7. 6 \in Nat /\ b + 6 <= L
      BY <3>2
    <3>8. SubSeq(r, 6 + 1, Len(r)) = SubSeq(A, b + 6 + 1, Len(A))
      BY <2>8, <3>7
    <3>9. Len(r) >= 6
      <4>1. L - b >= 6 /\ Len(r) = L - b
        BY <2>9, <2>a, <2>b, <3>2
      <4> QED BY <4>1
    <3>10. SubSeq(r, 7, Len(r)) = Rest(c + 1)
      BY <2>4, <3>5, <3>8
    <3> QED BY <3>6, <3>9, <3>10
  <2>12. ASSUME Query!Of(c + 1) \cap filled = {}
         PROVE  SubSeq(r, 4, Len(r)) = Rest(c + 1)
    <3>1. n + 1 \notin filled /\ n + 2 \notin filled /\ n + 3 \notin filled
      BY <2>5, <2>12
    <3>2. Before(n + 3) = b + 3 /\ 3 \in Nat /\ b + 3 <= L
      BY <1>1, <2>2, <2>a, <3>1 DEF b
    <3>3. SubSeq(r, 3 + 1, Len(r)) = SubSeq(A, b + 3 + 1, Len(A))
      BY <2>8, <3>2
    <3>4. 3 + 1 = 4 /\ b + 3 + 1 = Before(n + 3) + 1
      BY <2>a, <3>2
    <3> QED BY <2>4, <3>3, <3>4
  <2> QED BY <2>9, <2>10, <2>11, <2>12 DEF r
<1> QED BY <1>2, <1>3, <1>4

-----------------------------------------------------------------------------
(* Every step of the two passes *)

(* What is said of the form alone stays as the form does.                  *)
LEMMA SameForm ==
  ASSUME filled' = filled
  PROVE  /\ \A s : /\ Query!Whole(s)' <=> Query!Whole(s)
                   /\ Query!Clean(s)' <=> Query!Clean(s)
                   /\ Query!Rank(s)' = Query!Rank(s)
                   /\ Rest(s)' = Rest(s)
         /\ Query!AllTokens' = Query!AllTokens
<1>1. \A s : Query!Whole(s)' <=> Query!Whole(s)
  BY DEF Query!Whole, Query!Of
<1>2. \A s : Query!Clean(s)' <=> Query!Clean(s)
  BY DEF Query!Clean, Query!Whole, Query!Of
<1>3. \A s : Query!Rank(s)' = Query!Rank(s)
  BY DEF Query!Rank, Query!Whole, Query!Of
<1>4. Query!AllTokens' = Query!AllTokens
  BY DEF Query!AllTokens, Query!OfField, Query!Field
<1>5. \A n : Before(n)' = Before(n)
  BY DEF Before
<1>6. \A s : Rest(s)' = Rest(s)
  BY <1>4, <1>5 DEF Rest
<1> QED BY <1>1, <1>2, <1>3, <1>4, <1>6

(* A form that is clean up to a session is clean up to those before it.    *)
LEMMA CleanFacts ==
  ASSUME NEW k \in Nat
  PROVE  /\ Query!Clean(k) => \A j \in 0 .. k : Query!Clean(j)
         /\ \A s \in 1 .. k : Query!Clean(k) =>
              Query!Whole(s) \/ (~Query!Whole(s) /\ Query!Of(s) \cap filled = {})
         /\ Query!Of(k + 1) = {3 * k + 1, 3 * k + 2, 3 * k + 3}
<1>1. Query!Clean(k) => \A j \in 0 .. k : Query!Clean(j)
  <2>1. \A j \in 0 .. k : 1 .. j \subseteq 1 .. k
    OBVIOUS
  <2> QED BY <2>1 DEF Query!Clean
<1>2. ASSUME NEW s \in 1 .. k, Query!Clean(k)
      PROVE  Query!Whole(s) \/ (~Query!Whole(s) /\ Query!Of(s) \cap filled = {})
  BY <1>2 DEF Query!Clean
<1>3. 3 * (k + 1) - 2 = 3 * k + 1 /\ 3 * (k + 1) - 1 = 3 * k + 2 /\ 3 * (k + 1) = 3 * k + 3
  OBVIOUS
<1>4. Query!Of(k + 1) = {3 * k + 1, 3 * k + 2, 3 * k + 3}
  BY <1>3 DEF Query!Of
<1> QED BY <1>1, <1>2, <1>4

LEMMA Thirds ==
  ASSUME NEW m \in Nat
  PROVE  m \div 3 \in Nat /\ 3 * (m \div 3) <= m /\ m < 3 * (m \div 3) + 3
OBVIOUS

LEMMA FormInit == Query!Init => FormInv
<1> SUFFICES ASSUME Query!Init PROVE FormInv
  OBVIOUS
<1>1. /\ step = "scan" /\ filled \subseteq Query!Field /\ count = 0 /\ values = 0 /\ valid = {}
      /\ tokens = <<>> /\ query = <<>>
  BY DEF Query!Init
<1>2. FormTypes
  BY <1>1 DEF FormTypes
<1>3. ASSUME NEW k \in 0 .. Sessions, 3 * k <= 0 PROVE k = 0
  BY <1>3, SessionsAssumption
<1>4. Marked(0)
  BY DEF Marked
<1>5. OneIf(3 * 0 + 1) + OneIf(3 * 0 + 2) = 0
  BY <1>1 DEF OneIf
<1>6. Scanned
  <2>1. 0 <= 3 * Sessions
    BY SessionsAssumption
  <2> QED BY <1>1, <1>3, <1>4, <1>5, <2>1 DEF Scanned
<1>7. Walked
  BY <1>1 DEF Walked
<1> QED BY <1>2, <1>6, <1>7 DEF FormInv

(* An '=' of the first pass: three values make a mark.  Inside a clean     *)
(* session there are never three of them before its last field.            *)
LEMMA FormScan == FormInv /\ Query!Scan => FormInv'
<1> SUFFICES ASSUME FormInv, Query!Scan PROVE FormInv'
  OBVIOUS
<1> DEFINE c == count'
           add == IF Query!Counts(c) THEN 1 ELSE 0
           n == values + add
<1>1. /\ step = "scan" /\ step' = "scan" /\ count < 3 * Sessions /\ c = count + 1
      /\ values' = (IF n = 3 THEN 0 ELSE n)
      /\ valid' = (IF n = 3 THEN valid \cup {c \div 3 - 1} ELSE valid)
      /\ filled' = filled /\ tokens' = tokens /\ query' = query
  BY DEF Query!Scan, Query!AfterMark
<1>2. /\ filled \subseteq Query!Field /\ count \in Nat /\ values \in Nat /\ valid \subseteq Int
      /\ tokens \in Seq(Token) /\ query \in Seq(Token \X Token \X Token)
  BY DEF FormInv, FormTypes
<1>3. /\ query = <<>> /\ \A x \in valid : 3 * (x + 1) <= count
      /\ \A k \in 0 .. Sessions : Query!Clean(k) /\ 3 * k <= count =>
           /\ Marked(k)
           /\ k < Sessions /\ count < 3 * (k + 1) =>
                values = OneIf(3 * k + 1) + OneIf(3 * k + 2)
  BY <1>1 DEF FormInv, Scanned
<1>4. c \in Nat /\ n \in Nat /\ add \in {0, 1} /\ (c = 3 * Sessions \/ (add = 1 <=> c \in filled))
  BY <1>1, <1>2 DEF Query!Counts
<1>5. c \div 3 \in Nat /\ 3 * (c \div 3) <= c /\ c < 3 * (c \div 3) + 3
  BY <1>4, Thirds
<1> DEFINE d == c \div 3
<1> HIDE DEF n, c, add, d, Token
<1>6. FormTypes'
  <2>1. (d - 1 \in Int) /\ values' \in Nat
    BY <1>1, <1>4, <1>5 DEF d
  <2>2. valid' \subseteq Int
    BY <1>1, <1>2, <2>1 DEF d
  <2>3. Query!Field' = Query!Field
    BY DEF Query!Field
  <2> QED BY <1>1, <1>2, <1>4, <2>1, <2>2, <2>3 DEF FormTypes, c
<1>7. /\ c <= 3 * Sessions /\ \A x \in valid' : 3 * (x + 1) <= c
  <2>1. Sessions \in Nat
    BY SessionsAssumption
  <2>2. \A x \in valid : 3 * (x + 1) <= c
    BY <1>1, <1>2, <1>3
  <2>3. 3 * ((d - 1) + 1) <= c
    BY <1>4, <1>5 DEF d
  <2> QED BY <1>1, <1>2, <1>4, <2>1, <2>2, <2>3 DEF d
<1>8. ASSUME NEW k \in 0 .. Sessions, Query!Clean(k), 3 * k <= c
      PROVE  /\ \A s \in 1 .. k : s - 1 \in valid' <=> Query!Whole(s)
             /\ k < Sessions /\ c < 3 * (k + 1) =>
                  values' = (IF 3 * k + 1 \in filled /\ 3 * k + 1 <= c THEN 1 ELSE 0)
                              + (IF 3 * k + 2 \in filled /\ 3 * k + 2 <= c THEN 1 ELSE 0)
  <2>1. k \in Nat /\ Sessions \in Nat /\ k <= Sessions
    BY SessionsAssumption
  <2>2. CASE 3 * k <= count
    <3>1. \A s \in 1 .. k : s - 1 \in valid <=> Query!Whole(s)
      BY <1>3, <1>8, <2>2 DEF Marked
    <3>2. k < Sessions
      BY <1>1, <1>2, <2>1, <2>2
    <3>3. count < 3 * (k + 1) =>
            values = (IF 3 * k + 1 \in filled /\ 3 * k + 1 <= count THEN 1 ELSE 0)
                       + (IF 3 * k + 2 \in filled /\ 3 * k + 2 <= count THEN 1 ELSE 0)
      BY <1>3, <1>8, <2>2, <3>2 DEF OneIf
    <3>4. c < 3 * (k + 1) => 
             /\ c = 3 * k + 1 \/ c = 3 * k + 2
             /\ c # 3 * Sessions
             /\ n = (IF 3 * k + 1 \in filled /\ 3 * k + 1 <= c THEN 1 ELSE 0)
                      + (IF 3 * k + 2 \in filled /\ 3 * k + 2 <= c THEN 1 ELSE 0)
             /\ n <= 2
      <4> SUFFICES ASSUME c < 3 * (k + 1)
                   PROVE  /\ c = 3 * k + 1 \/ c = 3 * k + 2
                          /\ c # 3 * Sessions
                          /\ n = (IF 3 * k + 1 \in filled /\ 3 * k + 1 <= c THEN 1 ELSE 0)
                                   + (IF 3 * k + 2 \in filled /\ 3 * k + 2 <= c THEN 1 ELSE 0)
                          /\ n <= 2
        OBVIOUS
      <4>1. (c = 3 * k + 1 \/ c = 3 * k + 2) /\ c # 3 * Sessions /\ count < 3 * (k + 1)
        BY <1>1, <1>2, <2>1, <2>2, <3>2
      <4>2. add = IF c \in filled THEN 1 ELSE 0
        BY <1>4, <4>1
      <4>3. n = values + add
        BY DEF n
      <4>4. CASE c = 3 * k + 1
        <5>1. values = 0
          BY <1>1, <1>2, <2>1, <3>3, <4>1, <4>4
        <5>2. ~(3 * k + 2 <= c) /\ 3 * k + 1 <= c
          BY <2>1, <4>4
        <5> QED BY <4>1, <4>2, <4>3, <4>4, <5>1, <5>2
      <4>5. CASE c = 3 * k + 2
        <5>1. values = IF 3 * k + 1 \in filled THEN 1 ELSE 0
          BY <1>1, <1>2, <2>1, <3>3, <4>1, <4>5
        <5>2. 3 * k + 2 <= c /\ 3 * k + 1 <= c
          BY <2>1, <4>5
        <5> QED BY <4>1, <4>2, <4>3, <4>5, <5>1, <5>2
      <4> QED BY <4>1, <4>4, <4>5
    <3>5. ASSUME NEW s \in 1 .. k, n = 3 PROVE d - 1 # s - 1
      <4>1. ~(c < 3 * (k + 1))
        BY <3>4, <3>5
      <4>2. s \in Nat /\ s <= k
        BY <2>1
      <4> QED BY <1>4, <1>5, <2>1, <4>1, <4>2 DEF d
    <3>6. \A s \in 1 .. k : s - 1 \in valid' <=> s - 1 \in valid
      BY <1>1, <3>5 DEF d
    <3>7. c < 3 * (k + 1) => values' = n
      BY <1>1, <1>4, <3>4
    <3> QED BY <3>1, <3>4, <3>6, <3>7
  <2>3. CASE ~(3 * k <= count)
    <3>1. c = 3 * k /\ k # 0 /\ count = 3 * (k - 1) + 2 /\ k - 1 \in Nat
      BY <1>1, <1>2, <1>8, <2>1, <2>3
    <3> DEFINE j == k - 1
    <3>2. /\ j \in Nat /\ j \in 0 .. Sessions /\ j < Sessions /\ k = j + 1 /\ 3 * j <= count
          /\ count < 3 * (j + 1) /\ j \in 0 .. k /\ k \in 1 .. k
          /\ 3 * j + 1 <= count /\ 3 * j + 2 <= count /\ 3 * j + 3 = c
      BY <1>2, <2>1, <3>1
    <3>3. Query!Clean(j) /\ (Query!Whole(k) \/ (~Query!Whole(k) /\ Query!Of(k) \cap filled = {}))
      BY <1>8, <2>1, <3>2, CleanFacts
    <3>4. Query!Of(k) = {3 * j + 1, 3 * j + 2, 3 * j + 3}
      BY <3>2, CleanFacts
    <3> HIDE DEF j
    <3>5. /\ \A s \in 1 .. j : s - 1 \in valid <=> Query!Whole(s)
          /\ values = (IF 3 * j + 1 \in filled THEN 1 ELSE 0) + (IF 3 * j + 2 \in filled THEN 1 ELSE 0)
      BY <1>3, <3>2, <3>3 DEF Marked, OneIf
    <3>6. d = k
      BY <1>4, <1>5, <2>1, <3>1 DEF d
    <3>7. k - 1 \notin valid
      BY <1>2, <1>3, <3>1
    <3>8. ~(3 * k + 1 <= c) /\ ~(3 * k + 2 <= c)
      BY <2>1, <3>1
    <3>9. CASE Query!Whole(k)
      <4>1. 3 * j + 1 \in filled /\ 3 * j + 2 \in filled /\ c \in filled
        BY <3>2, <3>4, <3>9 DEF Query!Whole
      <4>2. add = 1 /\ n = 3
        BY <3>5, <4>1 DEF n, add, Query!Counts
      <4>3. valid' = valid \cup {k - 1} /\ values' = 0
        BY <1>1, <3>6, <4>2 DEF d
      <4>4. \A s \in 1 .. j : s - 1 # k - 1
        BY <2>1, <3>2
      <4>5. \A s \in 1 .. k : s = k \/ s \in 1 .. j
        BY <2>1, <3>2
      <4> QED BY <3>5, <3>8, <3>9, <4>3, <4>4, <4>5
    <3>10. CASE ~Query!Whole(k) /\ Query!Of(k) \cap filled = {}
      <4>1. 3 * j + 1 \notin filled /\ 3 * j + 2 \notin filled /\ c \notin filled
        BY <3>2, <3>4, <3>10
      <4>2. values = 0 /\ n = add
        BY <1>4, <3>5, <4>1 DEF n
      <4>3. n # 3 /\ (k < Sessions => n = 0)
        BY <1>4, <2>1, <3>1, <4>1, <4>2
      <4>4. valid' = valid /\ (k < Sessions => values' = 0)
        BY <1>1, <4>3
      <4>5. \A s \in 1 .. k : s = k \/ s \in 1 .. j
        BY <2>1, <3>2
      <4> QED BY <3>5, <3>7, <3>8, <3>10, <4>4, <4>5
    <3> QED BY <3>3, <3>9, <3>10
  <2> QED BY <2>2, <2>3
<1>9. Scanned'
  <2>1. \A s : (Query!Whole(s)' <=> Query!Whole(s)) /\ (Query!Clean(s)' <=> Query!Clean(s))
    BY <1>1, SameForm
  <2>2. \A k \in 0 .. Sessions : (Query!Clean(k) /\ 3 * k <= c) => Marked(k)'
    BY <1>8, <2>1 DEF Marked
  <2>3. \A k \in 0 .. Sessions : (Query!Clean(k) /\ 3 * k <= c) =>
          (k < Sessions /\ c < 3 * (k + 1) =>
             values' = OneIf(3 * k + 1)' + OneIf(3 * k + 2)')
    BY <1>1, <1>8 DEF OneIf, c
  <2> QED BY <1>1, <1>3, <1>7, <2>1, <2>2, <2>3 DEF Scanned, c
<1>10. Walked'
  BY <1>1 DEF Walked
<1> QED BY <1>6, <1>9, <1>10 DEF FormInv

(* The walk starts before all the tokens, with nothing found.              *)
LEMMA FormScanEnds == FormInv /\ Query!ScanEnds => FormInv'
<1> SUFFICES ASSUME FormInv, Query!ScanEnds PROVE FormInv'
  OBVIOUS
<1>1. /\ step = "scan" /\ step' = "walk" /\ count = 3 * Sessions /\ count' = 0
      /\ tokens' = Query!AllTokens
      /\ filled' = filled /\ values' = values /\ valid' = valid /\ query' = query
  BY DEF Query!ScanEnds
<1>2. /\ filled \subseteq Query!Field /\ values \in Nat /\ valid \subseteq Int
      /\ query \in Seq(Token \X Token \X Token)
  BY DEF FormInv, FormTypes
<1>3. query = <<>> /\ \A k \in 0 .. Sessions : Query!Clean(k) /\ 3 * k <= 3 * Sessions => Marked(k)
  BY <1>1 DEF FormInv, Scanned
<1>4. /\ \A s : /\ Query!Whole(s)' <=> Query!Whole(s)
                /\ Query!Clean(s)' <=> Query!Clean(s)
                /\ Query!Rank(s)' = Query!Rank(s)
                /\ Rest(s)' = Rest(s)
  BY <1>1, SameForm
<1>5. FormTypes'
  <2>1. Query!Field' = Query!Field
    BY DEF Query!Field
  <2>2. Query!AllTokens \in Seq(Token)
    BY <1>2, FormTokens
  <2> HIDE DEF Token
  <2> QED BY <1>1, <1>2, <2>1, <2>2 DEF FormTypes
<1>6. \A k \in 0 .. Sessions : Query!Clean(k)' => Marked(k)'
  <2>1. \A k \in 0 .. Sessions : 3 * k <= 3 * Sessions
    BY SessionsAssumption
  <2> QED BY <1>1, <1>3, <1>4, <2>1 DEF Marked
<1>7. \A k \in 0 .. Sessions : k <= count' => Query!Begins(k)'
  <2>1. \A k \in 0 .. Sessions : k <= 0 => 1 .. k = {}
    BY SessionsAssumption
  <2> QED BY <1>1, <2>1 DEF Query!Begins
<1>8. InStep'
  <2>1. Rest(count') = Query!AllTokens /\ Query!Rank(count') = 0
    BY <1>1, <1>2, RestFacts, RankFacts
  <2>2. Rest(count)' = Rest(count') /\ Query!Rank(count)' = Query!Rank(count')
    BY <1>1 DEF Rest, Before, Query!AllTokens, Query!OfField, Query!Rank, Query!Whole, Query!Of, Query!Field
  <2>3. Len(query') = 0
    BY <1>1, <1>3
  <2> QED BY <1>1, <2>1, <2>2, <2>3 DEF InStep
<1>9. count' <= Sessions
  BY <1>1, SessionsAssumption
<1>10. Walked'
  BY <1>1, <1>6, <1>7, <1>8, <1>9 DEF Walked
<1>11. Scanned'
  BY <1>1 DEF Scanned
<1> QED BY <1>5, <1>10, <1>11 DEF FormInv

(* What the query begins with it goes on beginning with.                   *)
LEMMA StillBegins ==
  ASSUME filled' = filled, query \in Seq(Token \X Token \X Token),
         NEW e \in Token \X Token \X Token, query' = query \/ query' = Append(query, e),
         NEW k \in Nat, Query!Begins(k)
  PROVE  Query!Begins(k)'
<1> DEFINE T3 == Token \X Token \X Token
<1> HIDE DEF T3
<1>1. Len(query) \in Nat /\ Len(query') >= Len(query) /\ \A i \in 1 .. Len(query) : query'[i] = query[i]
  <2>1. Len(query) \in Nat
    BY LenProperties DEF T3
  <2>2. CASE query' = query
    BY <2>1, <2>2
  <2>3. CASE query' = Append(query, e)
    <3>1. Len(Append(query, e)) = Len(query) + 1 /\ \A i \in 1 .. Len(query) : Append(query, e)[i] = query[i]
      BY AppendProperties
    <3> QED BY <2>1, <2>3, <3>1
  <2> QED BY <2>2, <2>3
<1>2. ASSUME NEW s \in 1 .. k, Query!Whole(s)
      PROVE  Query!Rank(s) <= Len(query') /\ query'[Query!Rank(s)] = Query!Values(s)
  <2>1. s - 1 \in Nat /\ (s - 1) + 1 = s
    OBVIOUS
  <2>2. /\ Query!Rank(s - 1) \in Nat
        /\ Query!Rank((s - 1) + 1) =
             Query!Rank(s - 1) + (IF Query!Whole((s - 1) + 1) THEN 1 ELSE 0)
    BY <2>1, RankFacts
  <2>3. Query!Rank(s) = Query!Rank(s - 1) + 1
    BY <1>2, <2>1, <2>2
  <2>4. Query!Rank(s) <= Len(query) /\ query[Query!Rank(s)] = Query!Values(s)
    BY <1>2 DEF Query!Begins
  <2>5. Query!Rank(s) \in 1 .. Len(query)
    BY <1>1, <2>2, <2>3, <2>4
  <2> QED BY <1>1, <2>4, <2>5
<1>3. \A s : (Query!Whole(s)' <=> Query!Whole(s)) /\ Query!Rank(s)' = Query!Rank(s)
  BY SameForm
<1>4. \A s \in 1 .. k : Query!Whole(s)' =>
        Query!Rank(s)' <= Len(query') /\ query'[Query!Rank(s)'] = Query!Values(s)
  BY <1>2, <1>3
<1>5. \A s : Query!Values(s)' = Query!Values(s)
  BY DEF Query!Values
<1> QED BY <1>4, <1>5 DEF Query!Begins

(* A round of the second pass: where the form is clean so far, the mark    *)
(* says whether six tokens or three are the session's.                     *)
LEMMA FormWalk == FormInv /\ Query!Walk => FormInv'
<1> SUFFICES ASSUME FormInv, Query!Walk PROVE FormInv'
  OBVIOUS
<1> DEFINE T3 == Token \X Token \X Token
           e == <<tokens[2], tokens[4], tokens[6]>>
<1>1. /\ step = "walk" /\ tokens # <<>> /\ count' = count + 1
      /\ filled' = filled /\ values' = values /\ valid' = valid
  BY DEF Query!Walk
<1>2. /\ filled \subseteq Query!Field /\ count \in Nat /\ values \in Nat /\ valid \subseteq Int
      /\ tokens \in Seq(Token) /\ query \in Seq(T3)
  BY DEF FormInv, FormTypes
<1>3. \/ /\ count \in valid \/ count \notin 0 .. 4
         /\ Len(tokens) >= 6 /\ step' = step
         /\ query' = Append(query, e) /\ tokens' = SubSeq(tokens, 7, Len(tokens))
      \/ /\ count \in valid \/ count \notin 0 .. 4
         /\ ~(Len(tokens) >= 6) /\ step' = "crash" /\ query' = query /\ tokens' = tokens
      \/ /\ count \notin valid
         /\ step' = step /\ query' = query /\ tokens' = SubSeq(tokens, 4, Len(tokens))
  <2>1. 6 + 1 = 7 /\ 3 + 1 = 4
    OBVIOUS
  <2> QED BY <2>1 DEF Query!Walk, Query!TakeSession, Query!SkipSession, Query!Dropped,
                      Query!RoundOfSix, Query!Slot
<1>4. /\ \A k \in 0 .. Sessions : Query!Clean(k) =>
           /\ \A s \in 1 .. k : s - 1 \in valid <=> Query!Whole(s)
           /\ k <= count => Query!Begins(k)
      /\ count <= Sessions /\ Query!Clean(count) => tokens = Rest(count) /\ Len(query) = Query!Rank(count)
      /\ Query!Clean(Sessions) => count <= Sessions
  BY <1>1 DEF FormInv, Walked, InStep, Marked
<1>5. /\ \A s : /\ Query!Whole(s)' <=> Query!Whole(s)
                /\ Query!Clean(s)' <=> Query!Clean(s)
                /\ Query!Rank(s)' = Query!Rank(s)
                /\ Rest(s)' = Rest(s)
  BY <1>1, SameForm
<1>6. Sessions \in Nat /\ Sessions <= 5 /\ Sessions \in 0 .. Sessions
  BY SessionsAssumption
<1>7. \A m \in Nat : SubSeq(tokens, m + 1, Len(tokens)) \in Seq(Token)
  <2> SUFFICES ASSUME NEW m \in Nat PROVE SubSeq(tokens, m + 1, Len(tokens)) \in Seq(Token)
    OBVIOUS
  <2> HIDE DEF Token
  <2>1. Len(tokens) \in Nat
    BY <1>2, LenProperties
  <2>2. m + 1 \in Int /\ Len(tokens) \in Int /\ \A i \in m + 1 .. Len(tokens) : tokens[i] \in Token
    BY <1>2, <2>1, ElementOfSeq
  <2> QED BY <2>2, SubSeqProperties
<1>8. tokens' \in Seq(Token)
  <2>1. 6 \in Nat /\ 3 \in Nat /\ 6 + 1 = 7 /\ 3 + 1 = 4
    OBVIOUS
  <2>2. SubSeq(tokens, 7, Len(tokens)) \in Seq(Token) /\ SubSeq(tokens, 4, Len(tokens)) \in Seq(Token)
    BY <1>7, <2>1
  <2> QED BY <1>2, <1>3, <2>2
<1>9. Len(tokens) >= 6 => e \in T3
  <2> SUFFICES ASSUME Len(tokens) >= 6 PROVE e \in T3
    OBVIOUS
  <2> HIDE DEF Token
  <2>1. Len(tokens) \in Nat
    BY <1>2, LenProperties
  <2>2. tokens[2] \in Token /\ tokens[4] \in Token /\ tokens[6] \in Token
    <3>1. 2 \in 1 .. Len(tokens) /\ 4 \in 1 .. Len(tokens) /\ 6 \in 1 .. Len(tokens)
      BY <2>1
    <3> QED BY <1>2, <3>1, ElementOfSeq
  <2> QED BY <2>2
<1>10. query' = query \/ (e \in T3 /\ query' = Append(query, e))
  BY <1>3, <1>9
<1> HIDE DEF e, T3
<1>11. FormTypes'
  <2>1. query' \in Seq(T3)
    BY <1>2, <1>10, AppendProperties
  <2>2. count' \in Nat /\ step' \in {"walk", "crash"}
    BY <1>1, <1>2, <1>3
  <2>3. Query!Field' = Query!Field /\ Token' = Token
    BY DEF Query!Field, Token
  <2> HIDE DEF Token
  <2> QED BY <1>1, <1>2, <1>8, <2>1, <2>2, <2>3 DEF FormTypes, T3
<1>12. ASSUME NEW k \in 0 .. Sessions, Query!Clean(k), k <= count
       PROVE  Query!Begins(k)'
  <2>1. Query!Begins(k) /\ k \in Nat
    BY <1>4, <1>6, <1>12
  <2>2. \E x \in T3 : query' = query \/ query' = Append(query, x)
    <3>1. <<<<"key", 0>>, <<"key", 0>>, <<"key", 0>>>> \in T3
      BY DEF T3, Token
    <3> QED BY <1>10, <3>1
  <2> QED BY <1>1, <1>2, <2>1, <2>2, StillBegins DEF T3
<1>13. ASSUME NEW k \in 0 .. Sessions, Query!Clean(k), k = count + 1
       PROVE  /\ step' = "walk" /\ tokens' = Rest(k) /\ Len(query') = Query!Rank(k)
              /\ Query!Begins(k)'
  <2>1. /\ count \in 0 .. Sessions /\ count \in 0 .. Sessions - 1
        /\ count \in 0 .. k /\ k \in 1 .. k /\ k \in Nat
        /\ k - 1 = count /\ count \in 0 .. 4 /\ count <= Sessions
    BY <1>2, <1>6, <1>13
  <2>2. Query!Clean(count) /\ (Query!Whole(k) \/ (~Query!Whole(k) /\ Query!Of(k) \cap filled = {}))
    BY <1>13, <2>1, CleanFacts
  <2>3. tokens = Rest(count) /\ Len(query) = Query!Rank(count)
    BY <1>4, <2>1, <2>2
  <2>4. count \in valid <=> Query!Whole(k)
    BY <1>4, <1>13, <2>1
  <2>5. /\ Query!Whole(k) =>
             /\ Len(tokens) >= 6 /\ e = Query!Values(k)
             /\ SubSeq(tokens, 7, Len(tokens)) = Rest(k)
        /\ Query!Of(k) \cap filled = {} => SubSeq(tokens, 4, Len(tokens)) = Rest(k)
    BY <1>2, <1>13, <2>1, <2>3, RestFacts DEF e
  <2>6. /\ Query!Rank(count) \in Nat
        /\ Query!Rank(k) = Query!Rank(count) + (IF Query!Whole(k) THEN 1 ELSE 0)
    BY <1>2, <1>13, RankFacts
  <2> PICK m \in 0 .. Sessions : m = count
    BY <2>1
  <2>7. Query!Begins(m)'
    BY <1>2, <1>12, <2>1, <2>2
  <2>8. \A s \in 1 .. k : s = k \/ s \in 1 .. m
    BY <1>13, <2>1
  <2>9. CASE Query!Whole(k)
    <3>1. step' = "walk" /\ query' = Append(query, e) /\ tokens' = Rest(k) /\ e \in T3
      BY <1>1, <1>3, <1>9, <2>4, <2>5, <2>9 DEF e, T3
    <3>2. Len(query') = Len(query) + 1 /\ query'[Len(query) + 1] = e
      BY <1>2, <3>1, AppendProperties
    <3>3. Len(query') = Query!Rank(k) /\ query'[Query!Rank(k)] = Query!Values(k) /\ Query!Rank(k) \in Nat
      BY <2>3, <2>5, <2>6, <2>9, <3>2
    <3>4. Query!Rank(k) <= Len(query')
      BY <3>3
    <3>5. Query!Values(k)' = Query!Values(k)
      BY DEF Query!Values
    <3>6. \A s \in 1 .. m : Query!Whole(s)' =>
            /\ Query!Rank(s)' <= Len(query')
            /\ query'[Query!Rank(s)'] = Query!Values(s)'
      BY <2>7 DEF Query!Begins
    <3>7. Query!Rank(k)' <= Len(query') /\ query'[Query!Rank(k)'] = Query!Values(k)'
      BY <1>5, <3>3, <3>4, <3>5
    <3>8. \A s \in 1 .. k : Query!Whole(s)' =>
            /\ Query!Rank(s)' <= Len(query')
            /\ query'[Query!Rank(s)'] = Query!Values(s)'
      BY <2>8, <3>6, <3>7
    <3> QED BY <3>1, <3>3, <3>8 DEF Query!Begins
  <2>10. CASE ~Query!Whole(k) /\ Query!Of(k) \cap filled = {}
    <3>1. step' = "walk" /\ query' = query /\ tokens' = Rest(k)
      BY <1>1, <1>3, <2>1, <2>4, <2>5, <2>10
    <3>2. Len(query') = Query!Rank(k)
      BY <2>3, <2>6, <2>10, <3>1
    <3>3. \A s \in 1 .. m : Query!Whole(s)' =>
            /\ Query!Rank(s)' <= Len(query')
            /\ query'[Query!Rank(s)'] = Query!Values(s)'
      BY <2>7 DEF Query!Begins
    <3>4. \A s \in 1 .. k : Query!Whole(s)' =>
            /\ Query!Rank(s)' <= Len(query')
            /\ query'[Query!Rank(s)'] = Query!Values(s)'
      BY <1>5, <2>8, <2>10, <3>3
    <3> QED BY <3>1, <3>2, <3>4 DEF Query!Begins
  <2> QED BY <2>2, <2>9, <2>10
<1>14. Query!Clean(Sessions) => count' <= Sessions
  <2> SUFFICES ASSUME Query!Clean(Sessions), ~(count' <= Sessions) PROVE FALSE
    OBVIOUS
  <2>1. count = Sessions
    BY <1>1, <1>2, <1>4, <1>6
  <2>2. tokens = Rest(Sessions)
    BY <1>4, <1>6, <2>1
  <2> QED BY <1>1, <1>2, <2>2, RestFacts
<1>15. count' <= Sessions /\ Query!Clean(count') => InStep'
  <2> SUFFICES ASSUME count' <= Sessions, Query!Clean(count') PROVE InStep'
    OBVIOUS
  <2>1. count' \in 0 .. Sessions /\ count' = count + 1
    BY <1>1, <1>2, <1>6
  <2>2. step' = "walk" /\ tokens' = Rest(count') /\ Len(query') = Query!Rank(count')
    BY <1>13, <2>1
  <2>3. Rest(count)' = Rest(count') /\ Query!Rank(count)' = Query!Rank(count')
    BY <1>1 DEF Rest, Before, Query!AllTokens, Query!OfField, Query!Rank, Query!Whole, Query!Of, Query!Field
  <2> QED BY <2>2, <2>3 DEF InStep
<1>16. Walked'
  <2>1. step' \in {"walk", "crash"}
    BY <1>1, <1>3
  <2>2. ASSUME NEW k \in 0 .. Sessions, Query!Clean(k), k <= count'
        PROVE  Query!Begins(k)'
    <3>1. k <= count \/ k = count + 1
      BY <1>1, <1>2, <1>6, <2>2
    <3> QED BY <1>12, <1>13, <2>2, <3>1
  <2>3. ASSUME NEW k \in 0 .. Sessions, Query!Clean(k) PROVE Marked(k)'
    <3>1. \A s \in 1 .. k : s - 1 \in valid <=> Query!Whole(s)
      BY <1>4, <2>3
    <3> QED BY <1>1, <1>5, <3>1 DEF Marked
  <2>4. Query!Clean(count)' <=> Query!Clean(count')
    BY <1>1 DEF Query!Clean, Query!Whole, Query!Of
  <2> QED BY <1>5, <1>14, <1>15, <2>1, <2>2, <2>3, <2>4 DEF Walked
<1>17. Scanned'
  BY <1>1, <1>3 DEF Scanned
<1> QED BY <1>11, <1>16, <1>17 DEF FormInv

(* It ends when no token is left, and so not before a clean session.       *)
LEMMA FormWalkEnds == FormInv /\ Query!WalkEnds => FormInv'
<1> SUFFICES ASSUME FormInv, Query!WalkEnds PROVE FormInv'
  OBVIOUS
<1>1. /\ step = "walk" /\ step' = "done" /\ tokens = <<>> /\ count' = count
      /\ filled' = filled /\ values' = values /\ valid' = valid /\ tokens' = tokens /\ query' = query
  BY DEF Query!WalkEnds
<1>2. filled \subseteq Query!Field /\ count \in Nat
  BY DEF FormInv, FormTypes
<1>3. FormTypes'
  <2>1. Query!Field' = Query!Field
    BY DEF Query!Field
  <2> HIDE DEF Token
  <2> QED BY <1>1, <2>1 DEF FormInv, FormTypes
<1>4. /\ \A s : (Query!Whole(s)' <=> Query!Whole(s)) /\ (Query!Clean(s)' <=> Query!Clean(s))
      /\ \A k : Query!Begins(k)' <=> Query!Begins(k)
      /\ \A k : Marked(k)' <=> Marked(k)
      /\ Rest(count)' = Rest(count) /\ Query!Rank(count)' = Query!Rank(count)
      /\ Query!Clean(count)' <=> Query!Clean(count)
  <2>1. \A s : /\ Query!Whole(s)' <=> Query!Whole(s)
               /\ Query!Clean(s)' <=> Query!Clean(s)
               /\ Query!Rank(s)' = Query!Rank(s)
    BY <1>1, SameForm
  <2>2. \A k : Query!Begins(k)' <=> Query!Begins(k)
    BY <1>1, <2>1 DEF Query!Begins, Query!Values
  <2>3. \A k : Marked(k)' <=> Marked(k)
    BY <1>1, <2>1 DEF Marked
  <2>4. /\ Rest(count)' = Rest(count) /\ Query!Rank(count)' = Query!Rank(count)
        /\ Query!Clean(count)' <=> Query!Clean(count)
    BY <1>1 DEF Rest, Before, Query!AllTokens, Query!OfField, Query!Field, Query!Rank, Query!Clean,
                Query!Whole, Query!Of
  <2> QED BY <2>1, <2>2, <2>3, <2>4
<1>5. Walked
  BY DEF FormInv
<1>6. ASSUME NEW k \in 0 .. Sessions, Query!Clean(k) PROVE k <= count
  <2> SUFFICES ASSUME ~(k <= count) PROVE FALSE
    OBVIOUS
  <2>1. k \in Nat /\ count \in 0 .. k /\ count <= Sessions /\ count \in 0 .. Sessions - 1
    BY <1>2, SessionsAssumption
  <2>2. Query!Clean(count)
    BY <1>6, <2>1, CleanFacts
  <2>3. tokens = Rest(count)
    BY <1>1, <1>5, <2>1, <2>2 DEF Walked, InStep
  <2> QED BY <1>1, <1>2, <2>1, <2>3, RestFacts
<1>7. InStep => InStep'
  BY <1>1, <1>4 DEF InStep
<1>8. Walked'
  BY <1>1, <1>4, <1>5, <1>6, <1>7 DEF Walked
<1>9. Scanned'
  BY <1>1 DEF Scanned
<1> QED BY <1>3, <1>8, <1>9 DEF FormInv

(* The sessions' steps leave the form alone; their start lets it go.       *)
LEMMA FormStart == FormInv /\ StartSessions => FormInv'
<1> SUFFICES ASSUME FormInv, StartSessions PROVE FormInv'
  OBVIOUS
<1>1. /\ step' = "run" /\ filled' = {} /\ count' = 0 /\ values' = 0 /\ valid' = {}
      /\ tokens' = <<>> /\ query' = <<>>
  BY DEF StartSessions, Forget
<1> QED BY <1>1 DEF FormInv, FormTypes, Scanned, Walked

LEMMA FormSame == FormInv /\ UNCHANGED form => FormInv'
<1> SUFFICES ASSUME FormInv, UNCHANGED form PROVE FormInv'
  OBVIOUS
<1>1. /\ step' = step /\ filled' = filled /\ count' = count /\ values' = values /\ valid' = valid
      /\ tokens' = tokens /\ query' = query
  BY DEF form
<1>2. FormTypes'
  <2>1. Query!Field' = Query!Field
    BY DEF Query!Field
  <2> HIDE DEF Token
  <2> QED BY <1>1, <2>1 DEF FormInv, FormTypes
<1>3. /\ \A s : /\ Query!Clean(s)' <=> Query!Clean(s)
                /\ Query!Begins(s)' <=> Query!Begins(s)
                /\ Marked(s)' <=> Marked(s)
                /\ OneIf(s)' = OneIf(s)
      /\ InStep' <=> InStep
      /\ Query!Clean(count)' <=> Query!Clean(count)
  BY <1>1 DEF InStep, Marked, OneIf, Rest, Before, Query!Field,
        Query!Clean, Query!Whole, Query!Of, Query!Begins, Query!Rank, Query!Values,
        Query!AllTokens, Query!OfField
<1>4. Scanned'
  BY <1>1, <1>3 DEF FormInv, Scanned
<1>5. Walked'
  BY <1>1, <1>3 DEF FormInv, Walked
<1> QED BY <1>2, <1>4, <1>5 DEF FormInv

(* Where the invariant holds, the form is read as it is meant.             *)
LEMMA FormReads == FormInv => ReadsForm
<1> SUFFICES ASSUME FormInv PROVE Query!ReadsForm
  BY DEF ReadsForm
<1>1. Sessions \in Nat /\ Sessions \in 0 .. Sessions /\ \A k \in 1 .. Sessions : k \in 0 .. Sessions
  BY SessionsAssumption
<1>2. Walked /\ count \in Nat
  BY DEF FormInv, FormTypes
<1>3. ASSUME step \in {"done", "crash"}, Query!Clean(Sessions)
      PROVE  step = "done" /\ Query!Begins(Sessions) /\ Len(query) = Query!Rank(Sessions)
  <2>1. count <= Sessions
    BY <1>2, <1>3 DEF Walked
  <2>2. Query!Clean(count)
    <3>1. count \in 0 .. Sessions
      BY <1>1, <1>2, <2>1
    <3> QED BY <1>1, <1>3, <3>1, CleanFacts
  <2>3. step = "done" /\ Len(query) = Query!Rank(count)
    BY <1>2, <1>3, <2>1, <2>2 DEF Walked, InStep
  <2>4. Sessions <= count /\ Query!Begins(Sessions)
    BY <1>1, <1>2, <1>3, <2>3 DEF Walked
  <2>5. count = Sessions
    BY <1>1, <1>2, <2>1, <2>4
  <2> QED BY <2>3, <2>4, <2>5
<1>4. ASSUME step = "done", NEW k \in 1 .. Sessions, Query!Clean(k) PROVE Query!Begins(k)
  BY <1>1, <1>2, <1>4 DEF Walked
<1> QED BY <1>3, <1>4 DEF Query!ReadsForm

(* ReadsForm: the sessions started are those the form's user filled in,    *)
(* each with its own host, port and file, as long as no half-filled one    *)
(* stands before them.                                                     *)
THEOREM FormIsRead == FairSpec => []ReadsForm
<1>1. CgiInit => FormInv
  BY FormInit DEF CgiInit
<1>2. FormInv /\ [CgiNext]_cgiVars => FormInv'
  <2> SUFFICES ASSUME FormInv, [CgiNext]_cgiVars PROVE FormInv'
    OBVIOUS
  <2>1. CASE ReadQuery
    BY <2>1, FormScan, FormScanEnds, FormWalk, FormWalkEnds DEF ReadQuery, Query!Next
  <2>2. CASE StartSessions
    BY <2>2, FormStart
  <2>3. CASE UNCHANGED form
    BY <2>3, FormSame
  <2> QED BY <2>1, <2>2, <2>3 DEF CgiNext, SessionStep, cgiVars
<1>3. FormInv => ReadsForm
  BY FormReads
<1> QED BY <1>1, <1>2, <1>3, PTL DEF FairSpec
=============================================================================
