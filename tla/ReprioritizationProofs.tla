----------------------- MODULE ReprioritizationProofs -----------------------
(***************************************************************************)
(* Proofs about Reprioritization, for every set of plans that coverage.py  *)
(* takes, of any length and with any identifiers, and for any arguments of *)
(* a command.                                                              *)
(*                                                                         *)
(* The module goes from bytes to behaviours: varints, fields, messages,    *)
(* identifiers, goals, the robot's messages whole and cut short, the       *)
(* codec's request, the order it puts the goals in, and last the inductive *)
(* invariant IInv and the theorems.                                        *)
(*                                                                         *)
(* The last two sections go the other way, and RequestProofs goes on from  *)
(* there: what is written tells what it was written from, first of fields, *)
(* messages and lists, then of the payloads of motion and of coverages.    *)
(***************************************************************************)
EXTENDS Reprioritization, SequenceTheorems, WellFoundedInduction, TLAPS

------------------------------------------------------------------------------
\* Numbers and sequences.

\* Every nonempty set of numbers has a least element.
LEMMA LeastNumber ==
    ASSUME NEW T \in SUBSET Nat, T # {}
    PROVE  \E x \in T : \A y \in T : x <= y
<1>1. PICK x \in T : \A y \in T : ~ (<<y, x>> \in OpToRel(<, Nat))
  BY NatLessThanWellFounded, WFMin
<1>2. \A y \in T : ~(y < x) BY <1>1 DEF OpToRel
<1> QED BY <1>2

\* Induction over a set of numbers.
LEMMA EveryNumber ==
    ASSUME NEW T \in SUBSET Nat, 0 \in T, \A n \in T : n + 1 \in T
    PROVE  T = Nat
<1>1. SUFFICES ASSUME Nat \ T # {} PROVE FALSE OBVIOUS
<1>2. PICK x \in Nat \ T : \A y \in Nat \ T : x <= y BY <1>1, LeastNumber
<1>3. x - 1 \in Nat /\ x - 1 < x BY <1>2
<1>4. x - 1 \in T BY <1>2, <1>3
<1> QED BY <1>2, <1>4

\* Concatenation, as a symbol, for steps that look at how it is grouped or what
\* it cancels and not into the sequences.
Cat(a, b) == a \o b

LEMMA CatGroups ==
    ASSUME NEW S, NEW a \in Seq(S), NEW b \in Seq(S), NEW c \in Seq(S)
    PROVE  Cat(Cat(a, b), c) = Cat(a, Cat(b, c))
BY ConcatAssociative DEF Cat

\* f[i] is the concatenation of the first i sequences.
Joins(f, seqs) ==
    f = [i \in 1..Len(seqs) |-> IF i = 1 THEN seqs[i] ELSE f[i - 1] \o seqs[i]]

\* FlattenSeq takes the last value of such a function,
LEMMA FlattenIsJoin ==
    ASSUME NEW seqs, Len(seqs) # 0
    PROVE  FlattenSeq(seqs) = (CHOOSE f : Joins(f, seqs))[Len(seqs)]
BY DEF FlattenSeq, Joins

\* which exists,
LEMMA JoinExists ==
    ASSUME NEW S, NEW seqs \in Seq(Seq(S))
    PROVE  \E f \in [1..Len(seqs) -> Seq(S)] : Joins(f, seqs)
<1> DEFINE Step(f, i) == IF i = 1 THEN seqs[i] ELSE f[i - 1] \o seqs[i]
           P(n) == \E f \in [1..n -> Seq(S)] : \A i \in 1..n : f[i] = Step(f, i)
           T == {n \in Nat : n <= Len(seqs) => P(n)}
<1>1. 0 \in T
  <2>1. P(0)
    <3>1. [i \in 1..0 |-> <<>>] \in [1..0 -> Seq(S)] OBVIOUS
    <3>2. 1..0 = {} OBVIOUS
    <3> QED BY <3>1, <3>2
  <2> HIDE DEF P
  <2> QED BY <2>1
<1>2. ASSUME NEW n \in T PROVE n + 1 \in T
  <2>1. n \in Nat OBVIOUS
  <2>2. SUFFICES ASSUME n + 1 <= Len(seqs) PROVE P(n + 1)
    <3> HIDE DEF P
    <3> QED BY <2>1
  <2>3. PICK f \in [1..n -> Seq(S)] : \A i \in 1..n : f[i] = Step(f, i)
    BY <2>1, <2>2
  <2>4. n + 1 \in 1..Len(seqs) /\ seqs[n + 1] \in Seq(S) BY <2>1, <2>2
  <2> DEFINE last == Step(f, n + 1)
             g == [i \in 1..(n + 1) |-> IF i = n + 1 THEN last ELSE f[i]]
  <2>5. last \in Seq(S)
    <3>1. CASE n = 0 BY <2>4, <3>1
    <3>2. CASE n # 0
      <4>1. n \in 1..n /\ n + 1 # 1 /\ n + 1 - 1 = n BY <2>1, <3>2
      <4>2. f[n] \in Seq(S) BY <4>1
      <4>3. last = f[n] \o seqs[n + 1] BY <4>1
      <4> HIDE DEF last
      <4> QED BY <4>2, <4>3, <2>4
    <3> QED BY <3>1, <3>2
  <2>6. g \in [1..(n + 1) -> Seq(S)]
    <3> HIDE DEF last
    <3> QED BY <2>1, <2>5
  <2>7. ASSUME NEW i \in 1..(n + 1) PROVE g[i] = Step(g, i)
    <3>1. CASE i = 1
      <4>1. CASE n = 0 BY <3>1, <4>1
      <4>2. CASE n # 0
        <5>1. g[1] = f[1] BY <4>2, <2>1
        <5>2. 1 \in 1..n BY <4>2, <2>1
        <5>3. f[1] = seqs[1] BY <2>3, <5>2
        <5> QED BY <3>1, <5>1, <5>3
      <4> QED BY <4>1, <4>2
    <3>2. CASE i # 1
      <4>1. i - 1 \in 1..n /\ i - 1 \in 1..(n + 1) /\ i - 1 # n + 1 BY <2>1, <3>2
      <4>2. g[i - 1] = f[i - 1] BY <4>1
      <4>3. CASE i = n + 1 BY <3>2, <4>2, <4>3
      <4>4. CASE i # n + 1
        <5>1. i \in 1..n BY <2>1, <4>4
        <5>2. g[i] = f[i] BY <4>4
        <5>3. f[i] = f[i - 1] \o seqs[i] BY <2>3, <3>2, <5>1
        <5> QED BY <3>2, <4>2, <5>2, <5>3
      <4> QED BY <4>3, <4>4
    <3> QED BY <3>1, <3>2
  <2> HIDE DEF g, Step
  <2> QED BY <2>6, <2>7
<1>3. T = Nat
  <2> HIDE DEF P
  <2> SUFFICES /\ T \in SUBSET Nat
               /\ 0 \in T
               /\ \A n \in T : n + 1 \in T
    BY EveryNumber
  <2> HIDE DEF T
  <2>1. T \in SUBSET Nat BY DEF T
  <2> QED BY <1>1, <1>2, <2>1
<1>4. P(Len(seqs))
  <2> HIDE DEF P
  <2>1. Len(seqs) \in Nat BY LenProperties
  <2>2. Len(seqs) \in T BY <1>3, <2>1
  <2> QED BY <2>1, <2>2
<1>5. PICK f \in [1..Len(seqs) -> Seq(S)] : \A i \in 1..Len(seqs) : f[i] = Step(f, i)
  BY <1>4
<1>6. f = [i \in 1..Len(seqs) |-> Step(f, i)]
  <2> HIDE DEF Step
  <2> QED BY <1>5
<1> QED BY <1>6 DEF Joins

\* One element of such a function from the one before it.
LEMMA JoinStep ==
    ASSUME NEW s, NEW f, Len(s) \in Nat, Joins(f, s), NEW i \in 1..Len(s)
    PROVE  f[i] = IF i = 1 THEN s[i] ELSE f[i - 1] \o s[i]
<1> DEFINE F(j) == IF j = 1 THEN s[j] ELSE f[j - 1] \o s[j]
<1>1. f = [j \in 1..Len(s) |-> F(j)] BY DEF Joins
<1>2. f[i] = F(i)
  <2> HIDE DEF F
  <2> QED BY <1>1
<1> QED BY <1>2

\* Two functions agree up to n.
Agree(s, t, n) == \A i \in 1..n : s[i] = t[i]

\* Two functions that join the same sequences agree as far as both go.
LEMMA JoinsAgree ==
    ASSUME NEW s, NEW t, NEW f, NEW g, NEW n \in Nat,
           n <= Len(s), n <= Len(t), Len(s) \in Nat, Len(t) \in Nat,
           Agree(s, t, n), Joins(f, s), Joins(g, t)
    PROVE  Agree(f, g, n)
<1> DEFINE T == {i \in Nat : i \in 1..n => f[i] = g[i]}
<1>1. 0 \in T OBVIOUS
<1>2. ASSUME NEW i \in T PROVE i + 1 \in T
  <2>1. i \in Nat OBVIOUS
  <2>2. SUFFICES ASSUME i + 1 \in 1..n PROVE f[i + 1] = g[i + 1] BY <2>1
  <2> DEFINE k == i + 1
  <2>3. k \in 1..Len(s) /\ k \in 1..Len(t) /\ s[k] = t[k] /\ k - 1 = i BY <2>1, <2>2 DEF Agree
  <2>4. i # 0 => f[i] = g[i] BY <2>1, <2>2
  <2>5. k = 1 <=> i = 0 BY <2>1
  <2> HIDE DEF k
  <2>6. f[k] = IF k = 1 THEN s[k] ELSE f[k - 1] \o s[k] BY <2>3, JoinStep
  <2>7. g[k] = IF k = 1 THEN t[k] ELSE g[k - 1] \o t[k] BY <2>3, JoinStep
  <2>8. CASE k = 1
    <3>1. f[k] = s[k] /\ g[k] = t[k] BY <2>6, <2>7, <2>8
    <3> QED BY <2>3, <3>1 DEF k
  <2>9. CASE k # 1
    <3>1. f[k] = f[k - 1] \o s[k] BY <2>6, <2>9
    <3>2. g[k] = g[k - 1] \o t[k] BY <2>7, <2>9
    <3>3. f[k - 1] = g[k - 1] BY <2>3, <2>4, <2>5, <2>9
    <3> QED BY <2>3, <3>1, <3>2, <3>3 DEF k
  <2> QED BY <2>8, <2>9
<1>3. T = Nat
  <2>1. T \in SUBSET Nat OBVIOUS
  <2> HIDE DEF T
  <2> QED BY <1>1, <1>2, <2>1, EveryNumber
<1> QED BY <1>3 DEF Agree

\* The first n sequences, concatenated: one more appends to it.
First(seqs, n) == [i \in 1..n |-> seqs[i]]

LEMMA FlattenFirst ==
    ASSUME NEW S, NEW seqs \in Seq(Seq(S))
    PROVE  /\ FlattenSeq(First(seqs, 0)) = <<>>
           /\ \A n \in 1..Len(seqs) : FlattenSeq(First(seqs, n)) \in Seq(S)
           /\ \A n \in 0..Len(seqs) - 1 :
                 FlattenSeq(First(seqs, n + 1)) = FlattenSeq(First(seqs, n)) \o seqs[n + 1]
<1> USE DEF First
<1>1. Len(seqs) \in Nat BY LenProperties
<1>2. ASSUME NEW n \in 1..Len(seqs)
      PROVE  /\ First(seqs, n) \in Seq(Seq(S)) /\ Len(First(seqs, n)) = n
             /\ \A i \in 1..n : First(seqs, n)[i] = seqs[i]
  BY <1>1, IsASeq
<1>3. ASSUME NEW n \in 1..Len(seqs)
      PROVE  \E f \in [1..n -> Seq(S)] :
               Joins(f, First(seqs, n)) /\ FlattenSeq(First(seqs, n)) = f[n]
  <2> HIDE DEF First
  <2> DEFINE s == First(seqs, n)
  <2>1. Len(s) = n /\ Len(s) # 0 /\ s \in Seq(Seq(S)) BY <1>2
  <2>2. PICK f \in [1..n -> Seq(S)] : Joins(f, s)
    <3> HIDE DEF s
    <3> QED BY <2>1, JoinExists
  <2>3. Joins(CHOOSE g : Joins(g, s), s)
    <3> HIDE DEF s
    <3> QED BY <2>2
  <2>4. FlattenSeq(s) = (CHOOSE g : Joins(g, s))[Len(s)]
    <3> HIDE DEF s
    <3> QED BY <2>1, FlattenIsJoin
  <2>5. \A i \in 1..n : f[i] = (CHOOSE g : Joins(g, s))[i]
    <3> HIDE DEF s
    <3> DEFINE h == CHOOSE g : Joins(g, s)
    <3>1. Joins(h, s) BY <2>3
    <3> HIDE DEF h
    <3>2. n \in Nat /\ n <= Len(s) /\ Len(s) \in Nat BY <1>1, <2>1
    <3>3. Agree(s, s, n) BY DEF Agree
    <3>4. Agree(f, h, n) BY <2>2, <3>1, <3>2, <3>3, JoinsAgree
    <3> QED BY <3>4 DEF h, Agree
  <2>6. n \in 1..n BY <1>1
  <2> QED BY <2>1, <2>2, <2>4, <2>5, <2>6
<1>4. FlattenSeq(First(seqs, 0)) = <<>>
  <2>1. First(seqs, 0) = <<>> BY SMT
  <2>2. Len(First(seqs, 0)) = 0 BY <2>1
  <2> HIDE DEF First
  <2> QED BY <2>1, <2>2 DEF FlattenSeq
<1>5. ASSUME NEW n \in 1..Len(seqs) PROVE FlattenSeq(First(seqs, n)) \in Seq(S)
  <2>1. n \in 1..n BY <1>1
  <2> HIDE DEF First
  <2> QED BY <1>3, <2>1
<1>6. ASSUME NEW n \in 0..Len(seqs) - 1
      PROVE  FlattenSeq(First(seqs, n + 1)) = FlattenSeq(First(seqs, n)) \o seqs[n + 1]
  <2>1. n \in Nat /\ n + 1 \in 1..Len(seqs) /\ n + 1 \in 1..(n + 1) BY <1>1
  <2> DEFINE t == First(seqs, n + 1)
  <2> HIDE DEF First
  <2>2. PICK g : Joins(g, t) /\ FlattenSeq(t) = g[n + 1] BY <1>3, <2>1
  <2>3. Len(t) = n + 1 /\ t[n + 1] = seqs[n + 1] BY <1>2, <2>1
  <2>4. g[n + 1] = IF n + 1 = 1 THEN t[n + 1] ELSE g[n + 1 - 1] \o t[n + 1]
    <3>1. n + 1 \in 1..Len(t) /\ Len(t) \in Nat BY <2>1, <2>3
    <3> HIDE DEF t
    <3> QED BY <2>2, <3>1, JoinStep
  <2>5. CASE n = 0
    <3>1. FlattenSeq(t) = seqs[1] BY <2>2, <2>3, <2>4, <2>5
    <3>2. seqs[1] \in Seq(S) BY <2>1, <2>5, ElementOfSeq
    <3>3. <<>> \o seqs[1] = seqs[1] BY <3>2
    <3> QED BY <2>5, <3>1, <3>3, <1>4
  <2>6. CASE n # 0
    <3>1. n \in 1..Len(seqs) /\ n \in 1..n BY <1>1, <2>6
    <3> DEFINE s == First(seqs, n)
    <3>2. PICK f : Joins(f, s) /\ FlattenSeq(s) = f[n] BY <1>3, <3>1
    <3>3. Len(s) = n /\ \A i \in 1..n : s[i] = t[i] BY <1>2, <2>1, <3>1
    <3>4. f[n] = g[n]
      <4>1. n <= Len(s) /\ n <= Len(t) /\ Len(s) \in Nat /\ Len(t) \in Nat BY <2>1, <2>3, <3>3
      <4> HIDE DEF s, t
      <4>2. Joins(f, s) /\ Joins(g, t) BY <2>2, <3>2
      <4>3. Agree(s, t, n) BY <3>3 DEF Agree
      <4>4. Agree(f, g, n) BY <2>1, <4>1, <4>2, <4>3, JoinsAgree
      <4> QED BY <3>1, <4>4 DEF Agree
    <3>5. n + 1 # 1 /\ n + 1 - 1 = n BY <2>1, <2>6
    <3> HIDE DEF s, t
    <3>6. FlattenSeq(t) = g[n] \o seqs[n + 1] BY <2>2, <2>3, <2>4, <3>5
    <3>7. FlattenSeq(t) = FlattenSeq(s) \o seqs[n + 1] BY <3>2, <3>4, <3>6
    <3> QED BY <3>7 DEF s, t
  <2> QED BY <2>5, <2>6
<1> HIDE DEF First
<1> QED BY <1>4, <1>5, <1>6

\* Concatenating one sequence more.
LEMMA FlattenAppend ==
    ASSUME NEW S, NEW seqs \in Seq(Seq(S)), NEW x \in Seq(S)
    PROVE  FlattenSeq(Append(seqs, x)) = FlattenSeq(seqs) \o x
<1> DEFINE t == Append(seqs, x)
           n == Len(seqs)
<1>1. n \in Nat /\ t \in Seq(Seq(S)) /\ Len(t) = n + 1 BY LenProperties, AppendProperties
<1>2. t[n + 1] = x /\ \A i \in 1..n : t[i] = seqs[i] BY AppendProperties
<1> HIDE DEF t, n
<1>3. First(t, n) \in Seq(Seq(S)) /\ Len(First(t, n)) = n
      /\ \A i \in 1..n : First(t, n)[i] = t[i]
  BY <1>1, IsASeq DEF First
<1>4. First(t, n) = seqs BY <1>2, <1>3, SeqEqual DEF n
<1>5. First(t, n + 1) = t
  <2>1. First(t, n + 1) \in Seq(Seq(S)) /\ Len(First(t, n + 1)) = n + 1
        /\ \A i \in 1..(n + 1) : First(t, n + 1)[i] = t[i]
    BY <1>1, IsASeq DEF First
  <2> QED BY <2>1, <1>1, SeqEqual
<1>6. n \in 0..Len(t) - 1 BY <1>1
<1>7. FlattenSeq(First(t, n + 1)) = FlattenSeq(First(t, n)) \o t[n + 1]
  BY <1>1, <1>6, FlattenFirst
<1> QED BY <1>2, <1>4, <1>5, <1>7 DEF t

LEMMA FlattenEmpty == FlattenSeq(<<>>) = <<>> BY DEF FlattenSeq

\* Every sequence is reached from the empty one.
LEMMA EverySequence ==
    ASSUME NEW S, NEW T \in SUBSET Seq(S), <<>> \in T,
           \A s \in T, e \in S : Append(s, e) \in T
    PROVE  T = Seq(S)
<1> DEFINE N == {n \in Nat : \A s \in Seq(S) : Len(s) = n => s \in T}
<1>1. 0 \in N BY EmptySeq
<1>2. ASSUME NEW n \in N PROVE n + 1 \in N
  <2>1. n \in Nat OBVIOUS
  <2>2. ASSUME NEW s \in Seq(S), Len(s) = n + 1 PROVE s \in T
    <3>1. s # <<>> BY <2>1, <2>2, EmptySeq
    <3>2. PICK r \in Seq(S), e \in S : s = Append(r, e) BY <3>1, SequenceEmptyOrAppend
    <3>3. Len(s) = Len(r) + 1 /\ Len(r) \in Nat BY <3>2, AppendProperties, LenProperties
    <3>4. Len(r) = n BY <2>1, <2>2, <3>3
    <3>5. r \in T BY <3>4
    <3> QED BY <3>2, <3>5
  <2> QED BY <2>1, <2>2
<1>3. N = Nat
  <2>1. N \in SUBSET Nat OBVIOUS
  <2> HIDE DEF N
  <2> QED BY <1>1, <1>2, <2>1, EveryNumber
<1>4. ASSUME NEW s \in Seq(S) PROVE s \in T
  <2>1. Len(s) \in Nat BY LenProperties
  <2> QED BY <1>3, <2>1
<1> QED BY <1>4

\* A concatenation of sequences over S is one.
LEMMA FlattenType ==
    ASSUME NEW S, NEW seqs \in Seq(Seq(S))
    PROVE  FlattenSeq(seqs) \in Seq(S)
<1> DEFINE T == {s \in Seq(Seq(S)) : FlattenSeq(s) \in Seq(S)}
<1>1. <<>> \in T BY FlattenEmpty, EmptySeq
<1>2. ASSUME NEW s \in T, NEW e \in Seq(S) PROVE Append(s, e) \in T
  <2>1. Append(s, e) \in Seq(Seq(S)) BY AppendProperties
  <2>2. FlattenSeq(Append(s, e)) = FlattenSeq(s) \o e BY FlattenAppend
  <2>3. FlattenSeq(s) \o e \in Seq(S) BY ConcatProperties
  <2> QED BY <2>1, <2>2, <2>3
<1>3. T = Seq(Seq(S))
  <2>1. T \in SUBSET Seq(Seq(S)) OBVIOUS
  <2> HIDE DEF T
  <2> QED BY <1>1, <1>2, <2>1, EverySequence
<1> QED BY <1>3

\* One element between two sequences.
LEMMA OneBetween ==
    ASSUME NEW S, NEW a \in Seq(S), NEW e \in S, NEW b \in Seq(S)
    PROVE  (a \o <<e>>) \o b = a \o (<<e>> \o b)
<1> DEFINE one == <<e>>
<1>1. a \in Seq(S) /\ one \in Seq(S) /\ b \in Seq(S) OBVIOUS
<1> HIDE DEF one
<1>2. (a \o one) \o b = a \o (one \o b) BY ONLY <1>1, ConcatAssociative
<1> QED BY <1>2 DEF one

\* One element before two.
LEMMA OneBefore ==
    ASSUME NEW S, NEW a \in Seq(S), NEW e \in S, NEW b \in Seq(S)
    PROVE  (<<e>> \o a) \o b = <<e>> \o (a \o b)
<1> DEFINE one == <<e>>
<1>1. a \in Seq(S) /\ one \in Seq(S) /\ b \in Seq(S) OBVIOUS
<1> HIDE DEF one
<1>2. (one \o a) \o b = one \o (a \o b) BY ONLY <1>1, ConcatAssociative
<1> QED BY <1>2 DEF one

\* Concatenating the lists of two lists.
LEMMA FlattenConcat ==
    ASSUME NEW S, NEW a \in Seq(Seq(S)), NEW b \in Seq(Seq(S))
    PROVE  FlattenSeq(a \o b) = FlattenSeq(a) \o FlattenSeq(b)
<1> DEFINE T == {s \in Seq(Seq(S)) : FlattenSeq(a \o s) = FlattenSeq(a) \o FlattenSeq(s)}
<1>1. <<>> \in T
  <2>1. a \o <<>> = a BY ConcatEmptySeq
  <2>2. FlattenSeq(a) \o <<>> = FlattenSeq(a) BY ConcatEmptySeq, FlattenType
  <2> QED BY <2>1, <2>2, FlattenEmpty, EmptySeq
<1>2. ASSUME NEW s \in T, NEW e \in Seq(S) PROVE Append(s, e) \in T
  <2>1. Append(s, e) \in Seq(Seq(S)) BY AppendProperties
  <2>2. a \o s \in Seq(Seq(S)) BY ConcatProperties
  <2>3. a \o Append(s, e) = Append(a \o s, e)
    <3>1. Append(s, e) = s \o <<e>> BY AppendIsConcat
    <3>2. Append(a \o s, e) = (a \o s) \o <<e>> BY <2>2, AppendIsConcat
    <3> DEFINE one == <<e>>
    <3>3. a \in Seq(Seq(S)) /\ s \in Seq(Seq(S)) /\ one \in Seq(Seq(S)) OBVIOUS
    <3> HIDE DEF one
    <3>4. (a \o s) \o one = a \o (s \o one) BY ONLY SMTT(20), <3>3, ConcatAssociative
    <3> QED BY <3>1, <3>2, <3>4 DEF one
  <2>4. FlattenSeq(Append(a \o s, e)) = FlattenSeq(a \o s) \o e BY <2>2, FlattenAppend
  <2>5. FlattenSeq(a \o s) = FlattenSeq(a) \o FlattenSeq(s) OBVIOUS
  <2>6. FlattenSeq(a) \in Seq(S) /\ FlattenSeq(s) \in Seq(S) BY FlattenType
  <2>7. (FlattenSeq(a) \o FlattenSeq(s)) \o e = FlattenSeq(a) \o (FlattenSeq(s) \o e)
    BY <2>6, ConcatAssociative
  <2>8. FlattenSeq(Append(s, e)) = FlattenSeq(s) \o e BY FlattenAppend
  <2>9. FlattenSeq(a \o Append(s, e)) = FlattenSeq(a) \o FlattenSeq(Append(s, e))
    BY <2>3, <2>4, <2>5, <2>7, <2>8
  <2> HIDE DEF T
  <2> QED BY <2>1, <2>9 DEF T
<1>3. T = Seq(Seq(S))
  <2>1. T \in SUBSET Seq(Seq(S)) OBVIOUS
  <2> HIDE DEF T
  <2> QED BY <1>1, <1>2, <2>1, EverySequence
<1> QED BY <1>3

LEMMA FlattenOne ==
    ASSUME NEW S, NEW x \in Seq(S)
    PROVE  FlattenSeq(<<x>>) = x
<1>1. Append(<<>>, x) = <<x>> OBVIOUS
<1>2. <<>> \in Seq(Seq(S)) BY EmptySeq
<1>3. FlattenSeq(Append(<<>>, x)) = FlattenSeq(<<>>) \o x BY <1>2, FlattenAppend
<1>4. <<>> \o x = x BY ConcatEmptySeq
<1> QED BY <1>1, <1>3, <1>4, FlattenEmpty

------------------------------------------------------------------------------
(* The bytes of a varint, and the number that is read back from them (wire.py
   encode_varint, decode_varint). *)

\* Varints.

Less(v) == v \div 128
Low(v) == 128 + (v % 128)

\* A number by its groups of seven bits.
LEMMA Groups128 ==
    ASSUME NEW v \in Nat
    PROVE  /\ Less(v) \in Nat /\ Low(v) \in Nat /\ Low(v) >= 128
           /\ v >= 128 => Less(v) < v
           /\ v = Low(v) - 128 + 128 * Less(v)
BY DEF Less, Low

\* One turn of encode_varint.
Encoded(f, v) == IF v < 128 THEN <<v>> ELSE <<Low(v)>> \o f[Less(v)]
EncodesTo(f, n) == \A v \in 0..n : f[v] = Encoded(f, v)

\* The recursive function encode_varint stands for exists and is the only one.
LEMMA EncodersExist == \A n \in Nat : \E f : EncodesTo(f, n)
<1> DEFINE T == {n \in Nat : \E f : EncodesTo(f, n)}
<1>1. 0 \in T
  <2>1. EncodesTo([v \in 0..0 |-> <<v>>], 0) BY DEF EncodesTo, Encoded
  <2> QED BY <2>1
<1>2. ASSUME NEW n \in T PROVE n + 1 \in T
  <2>1. n \in Nat OBVIOUS
  <2>2. PICK f : EncodesTo(f, n) OBVIOUS
  <2> DEFINE g == [v \in 0..(n + 1) |-> IF v = n + 1 THEN Encoded(f, v) ELSE f[v]]
  <2>3. ASSUME NEW v \in 0..(n + 1) PROVE g[v] = Encoded(g, v)
    <3>1. v \in Nat BY <2>1
    <3>2. v >= 128 => Less(v) \in 0..n
      <4>1. Less(v) \in Nat /\ (v >= 128 => Less(v) < v) BY <3>1, Groups128
      <4> QED BY <2>1, <3>1, <4>1
    <3>3. v >= 128 => g[Less(v)] = f[Less(v)]
      <4>1. n + 1 \notin 0..n /\ \A k \in 0..n : k \in 0..(n + 1) BY <2>1
      <4> QED BY <3>2, <4>1
    <3>4. Encoded(g, v) = Encoded(f, v)
      <4> HIDE DEF g
      <4> QED BY <3>1, <3>3 DEF Encoded
    <3>5. g[v] = Encoded(f, v)
      <4>1. CASE v = n + 1 BY <4>1
      <4>2. CASE v # n + 1
        <5>1. v \in 0..n BY <2>1, <4>2
        <5> QED BY <2>2, <4>2, <5>1 DEF EncodesTo
      <4> QED BY <4>1, <4>2
    <3> QED BY <3>4, <3>5
  <2> HIDE DEF g
  <2>4. EncodesTo(g, n + 1) BY <2>3 DEF EncodesTo
  <2> QED BY <2>1, <2>4
<1>3. T = Nat
  <2>1. T \in SUBSET Nat OBVIOUS
  <2> HIDE DEF T
  <2> QED BY <1>1, <1>2, <2>1, EveryNumber
<1> QED BY <1>3

LEMMA EncodersAgree ==
    ASSUME NEW f, NEW g, NEW n \in Nat, NEW m \in Nat, EncodesTo(f, n), EncodesTo(g, m),
           NEW v \in Nat, v <= n, v <= m
    PROVE  f[v] = g[v]
<1> DEFINE T == {k \in Nat : \A i \in 0..k : i <= v => f[i] = g[i]}
<1>0. ASSUME NEW i \in Nat, i <= v, i >= 128 => f[Less(i)] = g[Less(i)] PROVE f[i] = g[i]
  <2>1. i \in 0..n /\ i \in 0..m BY <1>0
  <2>2. f[i] = Encoded(f, i) /\ g[i] = Encoded(g, i) BY <2>1 DEF EncodesTo
  <2>3. Encoded(f, i) = Encoded(g, i) BY <1>0 DEF Encoded
  <2> QED BY <2>2, <2>3
<1>1. 0 \in T BY <1>0
<1>2. ASSUME NEW k \in T PROVE k + 1 \in T
  <2>1. k \in Nat OBVIOUS
  <2>2. ASSUME NEW i \in 0..(k + 1), i <= v PROVE f[i] = g[i]
    <3>1. i \in Nat BY <2>1
    <3>2. i >= 128 => Less(i) \in 0..k /\ Less(i) <= v
      <4>1. Less(i) \in Nat /\ (i >= 128 => Less(i) < i) BY <3>1, Groups128
      <4> QED BY <2>1, <2>2, <3>1, <4>1
    <3>3. i >= 128 => f[Less(i)] = g[Less(i)] BY <3>2
    <3> QED BY <1>0, <2>2, <3>1, <3>3
  <2> QED BY <2>1, <2>2
<1>3. T = Nat
  <2>1. T \in SUBSET Nat OBVIOUS
  <2> HIDE DEF T
  <2> QED BY <1>1, <1>2, <2>1, EveryNumber
<1> QED BY <1>3

\* encode_varint, as an equation.
LEMMA VarintIs ==
    ASSUME NEW v \in Nat
    PROVE  EncodeVarint[v] = IF v < 128 THEN <<v>> ELSE <<Low(v)>> \o EncodeVarint[Less(v)]
<1> DEFINE h == [n \in Nat |-> (CHOOSE f : EncodesTo(f, n))[n]]
<1>1. ASSUME NEW n \in Nat PROVE h[n] = Encoded(h, n)
  <2> DEFINE f == CHOOSE f : EncodesTo(f, n)
             k == Less(n)
             g == CHOOSE g : EncodesTo(g, k)
  <2>1. EncodesTo(f, n) BY EncodersExist
  <2>2. k \in Nat BY Groups128
  <2>3. EncodesTo(g, k)
    <3> HIDE DEF k
    <3> QED BY <2>2, EncodersExist
  <2>4. h[n] = f[n] OBVIOUS
  <2>5. h[k] = g[k]
    <3> HIDE DEF k
    <3> QED BY <2>2
  <2>6. n >= 128 => f[k] = g[k]
    <3>1. n >= 128 => k <= n BY Groups128
    <3> HIDE DEF f, g, k
    <3> QED BY <2>1, <2>2, <2>3, <3>1, EncodersAgree
  <2>7. n \in 0..n OBVIOUS
  <2> HIDE DEF h, f, g
  <2>8. f[n] = Encoded(f, n) BY <2>1, <2>7 DEF EncodesTo
  <2>9. Encoded(f, n) = Encoded(h, n) BY <2>5, <2>6 DEF Encoded
  <2> QED BY <2>4, <2>8, <2>9
<1>2. h = [n \in Nat |-> Encoded(h, n)]
  <2> DEFINE u == h
  <2>1. u = [n \in Nat |-> u[n]] OBVIOUS
  <2> HIDE DEF h
  <2> QED BY <1>1, <2>1
<1> HIDE DEF h
<1>3. EncodeVarint = CHOOSE f : f = [n \in Nat |-> Encoded(f, n)]
  BY DEF EncodeVarint, Encoded, Low, Less
<1>4. EncodeVarint = [n \in Nat |-> Encoded(EncodeVarint, n)]
  <2> DEFINE e == CHOOSE f : f = [n \in Nat |-> Encoded(f, n)]
  <2>1. e = [n \in Nat |-> Encoded(e, n)] BY <1>2
  <2> HIDE DEF e
  <2>2. EncodeVarint = e BY <1>3 DEF e
  <2> QED BY <2>1, <2>2
<1>5. EncodeVarint[v] = Encoded(EncodeVarint, v)
  <2> DEFINE e == EncodeVarint
  <2>1. e = [n \in Nat |-> Encoded(e, n)] BY <1>4
  <2> HIDE DEF e
  <2>2. e[v] = Encoded(e, v) BY <2>1
  <2> QED BY <2>2 DEF e
<1> QED BY <1>5 DEF Encoded

\* Induction from all smaller numbers.
LEMMA FromSmaller ==
    ASSUME NEW T \in SUBSET Nat, \A n \in Nat : (\A m \in Nat : m < n => m \in T) => n \in T
    PROVE  T = Nat
<1>1. SUFFICES ASSUME Nat \ T # {} PROVE FALSE OBVIOUS
<1>2. PICK x \in Nat \ T : \A y \in Nat \ T : x <= y BY <1>1, LeastNumber
<1>3. \A m \in Nat : m < x => m \in T BY <1>2
<1> QED BY <1>2, <1>3

\* encode_varint: one byte below 128, else a group and the rest.
LEMMA VarintSmall ==
    ASSUME NEW v \in Nat, v < 128
    PROVE  EncodeVarint[v] = <<v>>
<1> DEFINE e == EncodeVarint[v]
           r == <<Low(v)>> \o EncodeVarint[Less(v)]
<1>1. e = IF v < 128 THEN <<v>> ELSE r BY VarintIs
<1> HIDE DEF e, r
<1>2. e = <<v>> BY <1>1
<1> QED BY <1>2 DEF e
LEMMA VarintLarge ==
    ASSUME NEW v \in Nat, v >= 128
    PROVE  EncodeVarint[v] = <<Low(v)>> \o EncodeVarint[Less(v)]
<1> DEFINE e == EncodeVarint[v]
           r == <<Low(v)>> \o EncodeVarint[Less(v)]
<1>1. e = IF v < 128 THEN <<v>> ELSE r BY VarintIs
<1> HIDE DEF e, r
<1>2. ~(v < 128) OBVIOUS
<1>3. e = r BY <1>1, <1>2
<1> QED BY <1>3 DEF e, r

\* All groups of a varint but the last one say that there is another.
IsVarint(e) ==
    /\ e \in Seq(Nat) /\ Len(e) >= 1 /\ e[Len(e)] < 128
    /\ \A i \in 1..Len(e) - 1 : e[i] >= 128

\* Its bytes: every one but the last has the continuation bit.
LEMMA VarintBytes ==
    ASSUME NEW v \in Nat
    PROVE  IsVarint(EncodeVarint[v])
<1> DEFINE T == {n \in Nat : IsVarint(EncodeVarint[n])}
<1>1. ASSUME NEW n \in Nat, \A m \in Nat : m < n => m \in T PROVE n \in T
  <2>1. CASE n < 128
    <3>1. EncodeVarint[n] = <<n>> BY <2>1, VarintSmall
    <3>2. IsVarint(<<n>>)
      <4>1. <<n>> \in Seq(Nat) /\ Len(<<n>>) = 1 /\ <<n>>[1] = n OBVIOUS
      <4> QED BY <2>1, <4>1 DEF IsVarint
    <3> QED BY <3>1, <3>2
  <2>2. CASE n >= 128
    <3> DEFINE r == EncodeVarint[Less(n)]
               b == Low(n)
    <3>1. Less(n) \in Nat /\ Less(n) < n /\ b \in Nat /\ b >= 128 BY <2>2, Groups128
    <3>2. IsVarint(r) BY <1>1, <3>1
    <3>3. EncodeVarint[n] = <<b>> \o r BY <2>2, VarintLarge
    <3> HIDE DEF r, b
    <3>4. <<b>> \in Seq(Nat) /\ Len(<<b>>) = 1 /\ <<b>>[1] = b BY <3>1
    <3>5. r \in Seq(Nat) /\ Len(r) \in Nat BY <3>2, LenProperties DEF IsVarint
    <3>6. /\ <<b>> \o r \in Seq(Nat) /\ Len(<<b>> \o r) = 1 + Len(r)
          /\ \A i \in 1..1 + Len(r) : (<<b>> \o r)[i] = IF i <= 1 THEN <<b>>[i] ELSE r[i - 1]
      BY <3>4, <3>5, ConcatProperties
    <3>7. IsVarint(<<b>> \o r)
      <4> DEFINE s == <<b>> \o r
      <4> HIDE DEF s
      <4>1. s \in Seq(Nat) /\ Len(s) = 1 + Len(r)
            /\ \A i \in 1..1 + Len(r) : s[i] = IF i <= 1 THEN b ELSE r[i - 1]
        BY <3>4, <3>6 DEF s
      <4>2. s[Len(s)] < 128
        <5>1. Len(r) >= 1 /\ r[Len(r)] < 128 BY <3>2 DEF IsVarint
        <5>2. Len(s) \in 1..1 + Len(r) /\ ~(Len(s) <= 1) /\ Len(s) - 1 = Len(r) BY <3>5, <4>1, <5>1
        <5>3. s[Len(s)] = r[Len(r)] BY <4>1, <5>2
        <5> QED BY <5>1, <5>3
      <4>3. \A i \in 1..Len(s) - 1 : s[i] >= 128
        <5> SUFFICES ASSUME NEW i \in 1..Len(s) - 1 PROVE s[i] >= 128 OBVIOUS
        <5>1. i \in 1..Len(r) /\ i \in 1..1 + Len(r) BY <3>5, <4>1
        <5>2. CASE i = 1 BY <3>1, <4>1, <5>1, <5>2
        <5>3. CASE i # 1
          <6>1. i - 1 \in 1..Len(r) - 1 /\ ~(i <= 1) BY <3>5, <5>1, <5>3
          <6>2. s[i] = r[i - 1] BY <4>1, <5>1, <6>1
          <6> QED BY <3>2, <6>1, <6>2 DEF IsVarint
        <5> QED BY <5>2, <5>3
      <4>4. Len(s) >= 1 BY <3>5, <4>1
      <4> QED BY <4>1, <4>2, <4>3, <4>4 DEF IsVarint, s
    <3> QED BY <3>3, <3>7
  <2> QED BY <2>1, <2>2
<1>2. T = Nat
  <2>1. T \in SUBSET Nat OBVIOUS
  <2> HIDE DEF T
  <2> QED BY <1>1, <2>1, FromSmaller
<1> QED BY <1>2

\* How many groups a number takes.
LEMMA VarintLength ==
    ASSUME NEW v \in Nat
    PROVE  /\ v < 128 => Len(EncodeVarint[v]) = 1
           /\ v >= 128 => Len(EncodeVarint[v]) = 1 + Len(EncodeVarint[Less(v)])
<1>1. ASSUME v < 128 PROVE Len(EncodeVarint[v]) = 1 BY <1>1, VarintSmall
<1>2. ASSUME v >= 128 PROVE Len(EncodeVarint[v]) = 1 + Len(EncodeVarint[Less(v)])
  <2> DEFINE r == EncodeVarint[Less(v)]
             b == Low(v)
  <2>1. Less(v) \in Nat /\ b \in Nat BY Groups128
  <2>2. r \in Seq(Nat) BY <2>1, VarintBytes DEF IsVarint
  <2>3. EncodeVarint[v] = <<b>> \o r BY <1>2, VarintLarge
  <2> HIDE DEF r, b
  <2>4. <<b>> \in Seq(Nat) /\ Len(<<b>>) = 1 BY <2>1
  <2>5. Len(<<b>> \o r) = 1 + Len(r) BY <2>2, <2>4, ConcatProperties
  <2> QED BY <2>3, <2>5 DEF r
<1> QED BY <1>1, <1>2

Ample == 268435456

\* Numbers that need only a few groups.
LEMMA FewGroups ==
    ASSUME NEW v \in Nat, v < Ample
    PROVE  Len(EncodeVarint[v]) \in 1..4
<1>1. \A n \in Nat : n < 128 => Len(EncodeVarint[n]) \in 1..1 BY VarintLength
<1>2. \A n \in Nat : n < 16384 => Len(EncodeVarint[n]) \in 1..2
  <2> SUFFICES ASSUME NEW n \in Nat, n < 16384 PROVE Len(EncodeVarint[n]) \in 1..2 BY SMT
  <2>1. Less(n) \in Nat /\ Less(n) < 128 BY SMT DEF Less
  <2>2. Len(EncodeVarint[Less(n)]) \in 1..1 BY SMT, <1>1, <2>1
  <2> DEFINE a == Len(EncodeVarint[n])
             b == Len(EncodeVarint[Less(n)])
  <2>3. (n < 128 => a = 1) /\ (n >= 128 => a = 1 + b) BY VarintLength
  <2> HIDE DEF a, b
  <2>4. b \in 1..1 BY <2>2 DEF b
  <2>5. a \in 1..2 BY SMT, <2>3, <2>4
  <2> QED BY <2>5 DEF a
<1>3. \A n \in Nat : n < 2097152 => Len(EncodeVarint[n]) \in 1..3
  <2> SUFFICES ASSUME NEW n \in Nat, n < 2097152 PROVE Len(EncodeVarint[n]) \in 1..3 BY SMT
  <2>1. Less(n) \in Nat /\ Less(n) < 16384 BY SMT DEF Less
  <2>2. Len(EncodeVarint[Less(n)]) \in 1..2 BY SMT, <1>2, <2>1
  <2> DEFINE a == Len(EncodeVarint[n])
             b == Len(EncodeVarint[Less(n)])
  <2>3. (n < 128 => a = 1) /\ (n >= 128 => a = 1 + b) BY VarintLength
  <2> HIDE DEF a, b
  <2>4. b \in 1..2 BY <2>2 DEF b
  <2>5. a \in 1..3 BY SMT, <2>3, <2>4
  <2> QED BY <2>5 DEF a
<1>4. Less(v) \in Nat /\ Less(v) < 2097152 BY SMT DEF Less, Ample
<1>5. Len(EncodeVarint[Less(v)]) \in 1..3 BY SMT, <1>3, <1>4
<1> DEFINE a == Len(EncodeVarint[v])
           b == Len(EncodeVarint[Less(v)])
<1>6. (v < 128 => a = 1) /\ (v >= 128 => a = 1 + b) BY VarintLength
<1>7. b \in 1..3 BY <1>5
<1> HIDE DEF a, b
<1>8. a \in 1..4 BY SMT, <1>6, <1>7
<1> QED BY <1>8 DEF a

\* What decode_varint has summed up from a byte to the last one.
Summed(g, data, i, last) ==
    IF i = last THEN data[i] ELSE data[i] - 128 + 128 * g[i + 1]
Sums(g, data, first, last) == \A i \in first..last : g[i] = Summed(g, data, i, last)

\* decode_varint adds up the groups; the sum is read off the encoding.
LEMMA SumsExist ==
    ASSUME NEW data, NEW first \in Nat, NEW last \in Nat, first <= last
    PROVE  \E g : g = [i \in first..last |-> Summed(g, data, i, last)]
<1> DEFINE F == [first..last -> {0}]
           P(k) == \E g : DOMAIN g = first..last /\ g = [i \in first..last |-> g[i]]
                          /\ Sums(g, data, last - k, last)
           T == {k \in Nat : k <= last - first => P(k)}
<1>1. 0 \in T
  <2>1. last - 0 = last BY SMT
  <2> DEFINE g == [i \in first..last |-> data[last]]
  <2>2. DOMAIN g = first..last /\ g = [i \in first..last |-> g[i]] OBVIOUS
  <2>3. Sums(g, data, last, last)
    <3>1. \A i \in last..last : i = last /\ i \in first..last OBVIOUS
    <3> QED BY <3>1 DEF Sums, Summed
  <2> HIDE DEF g
  <2>4. P(0) BY <2>1, <2>2, <2>3
  <2> HIDE DEF P
  <2> QED BY <2>4
<1>2. ASSUME NEW k \in T PROVE k + 1 \in T
  <2>1. k \in Nat OBVIOUS
  <2>2. SUFFICES ASSUME k + 1 <= last - first PROVE P(k + 1)
    <3> HIDE DEF P
    <3> QED BY <2>1
  <2> DEFINE m == last - (k + 1)
  <2>3. /\ m \in first..last /\ m # last /\ m + 1 = last - k /\ m \in Nat
        /\ m + 1 \in first..last
    <3>1. k + 1 \in Nat /\ k + 1 >= 1 /\ m \in Int BY <2>1
    <3>2. m >= first /\ m <= last - 1 BY <2>1, <2>2
    <3> QED BY <2>1, <3>1, <3>2
  <2>4. k <= last - first BY <2>1, <2>2
  <2>5. PICK f : DOMAIN f = first..last /\ f = [i \in first..last |-> f[i]]
                 /\ Sums(f, data, last - k, last)
    BY <2>4
  <2> HIDE DEF m
  <2> DEFINE g == [i \in first..last |-> IF i = m THEN Summed(f, data, m, last) ELSE f[i]]
  <2>6. DOMAIN g = first..last /\ g = [i \in first..last |-> g[i]] OBVIOUS
  <2>7. ASSUME NEW i \in m..last PROVE g[i] = Summed(g, data, i, last)
    <3>1. i \in first..last /\ (i # last => i + 1 \in first..last /\ i + 1 # m) BY <2>3
    <3>2. i # last => g[i + 1] = f[i + 1] BY <3>1
    <3>3. Summed(g, data, i, last) = Summed(f, data, i, last)
      <4> HIDE DEF g
      <4> QED BY <3>2 DEF Summed
    <3>4. CASE i = m BY <3>1, <3>3, <3>4
    <3>5. CASE i # m
      <4>1. i \in (last - k)..last BY <2>3, <3>5
      <4>2. f[i] = Summed(f, data, i, last) BY <2>5, <4>1 DEF Sums
      <4> QED BY <3>1, <3>3, <3>5, <4>2
    <3> QED BY <3>4, <3>5
  <2> HIDE DEF g
  <2>8. Sums(g, data, m, last) BY <2>7 DEF Sums
  <2> QED BY <2>6, <2>8 DEF m
<1>3. T = Nat
  <2> HIDE DEF P
  <2>1. T \in SUBSET Nat OBVIOUS
  <2> HIDE DEF T
  <2> QED BY <1>1, <1>2, <2>1, EveryNumber
<1>4. last - first \in Nat /\ last - (last - first) = first OBVIOUS
<1>5. P(last - first)
  <2> HIDE DEF P
  <2> QED BY <1>3, <1>4
<1>6. PICK g : g = [i \in first..last |-> g[i]] /\ Sums(g, data, first, last) BY <1>4, <1>5
<1>7. [i \in first..last |-> g[i]] = [i \in first..last |-> Summed(g, data, i, last)]
  BY <1>6 DEF Sums
<1> QED BY <1>6, <1>7

\* What is at an offset, when the bytes there are those of a varint.
LEMMA VarintInIs ==
    ASSUME NEW data, NEW first \in Nat, NEW last \in Nat, first <= last
    PROVE  \E g : Sums(g, data, first, last) /\ VarintIn(data, first, last) = <<g[first], last>>
<1> DEFINE g == CHOOSE g : g = [i \in first..last |-> Summed(g, data, i, last)]
<1>1. g = [i \in first..last |-> Summed(g, data, i, last)] BY SumsExist
<1>2. VarintIn(data, first, last) = <<g[first], last>> BY DEF VarintIn, Summed
<1> HIDE DEF g
<1>3. Sums(g, data, first, last)
  <2> SUFFICES ASSUME NEW i \in first..last PROVE g[i] = Summed(g, data, i, last) BY DEF Sums
  <2> QED BY <1>1
<1> QED BY <1>2, <1>3

\* The bytes behind an offset are those of s, as far as there are any.
Follows(data, offset, s) ==
    \A i \in 1..Len(s) : offset + i <= Len(data) => data[offset + i] = s[i]

\* From the k-th byte to the last, data is the varint of w.
Spelled(data, last, k, w) ==
    /\ k - 1 + Len(EncodeVarint[w]) = last
    /\ \A i \in 1..Len(EncodeVarint[w]) : data[k - 1 + i] = EncodeVarint[w][i]

\* A varint at an offset is read back,
LEMMA VarintInReads ==
    ASSUME NEW data \in Seq(Nat), NEW first \in Nat, NEW v \in Nat,
           Follows(data, first, EncodeVarint[v]),
           first + Len(EncodeVarint[v]) <= Len(data)
    PROVE  VarintIn(data, first + 1, first + Len(EncodeVarint[v]))
              = <<v, first + Len(EncodeVarint[v])>>
<1> DEFINE last == first + Len(EncodeVarint[v])
<1>1. \A w \in Nat : IsVarint(EncodeVarint[w]) /\ Len(EncodeVarint[w]) \in Nat
                     /\ Len(EncodeVarint[w]) >= 1
  BY VarintBytes, LenProperties DEF IsVarint
<1>2. last \in Nat /\ first + 1 \in Nat /\ first + 1 <= last BY <1>1
<1>3. PICK g : /\ Sums(g, data, first + 1, last)
               /\ VarintIn(data, first + 1, last) = <<g[first + 1], last>>
  <2> HIDE DEF last
  <2> QED BY <1>2, VarintInIs
<1> DEFINE T == {w \in Nat : \A k \in (first + 1)..last : Spelled(data, last, k, w) => g[k] = w}
<1>4. ASSUME NEW w \in Nat, \A m \in Nat : m < w => m \in T PROVE w \in T
  <2> SUFFICES ASSUME NEW k \in (first + 1)..last, Spelled(data, last, k, w) PROVE g[k] = w
    OBVIOUS
  <2> DEFINE e == EncodeVarint[w]
             r == EncodeVarint[Less(w)]
  <2>1. k \in Nat BY <1>2
  <2>2. g[k] = Summed(g, data, k, last) BY <1>3 DEF Sums
  <2>3. k - 1 + Len(e) = last /\ \A i \in 1..Len(e) : data[k - 1 + i] = e[i] BY DEF Spelled
  <2> HIDE DEF last
  <2>4. CASE w < 128
    <3>1. e = <<w>> BY <2>4, VarintSmall
    <3>2. Len(e) = 1 /\ e[1] = w BY <3>1
    <3> HIDE DEF e
    <3>3. k = last /\ data[k] = w
      <4>1. k = last BY <1>2, <2>1, <2>3, <3>2
      <4>2. 1 \in 1..Len(e) /\ k - 1 + 1 = k BY <2>1, <3>2
      <4>3. data[k - 1 + 1] = e[1] BY <2>3, <4>2
      <4> QED BY <3>2, <4>1, <4>2, <4>3
    <3> QED BY <2>2, <3>3 DEF Summed
  <2>5. CASE w >= 128
    <3>1. Less(w) \in Nat /\ Less(w) < w /\ Low(w) \in Nat /\ w = Low(w) - 128 + 128 * Less(w)
      BY <2>5, Groups128
    <3>2. e = <<Low(w)>> \o r BY <2>5, VarintLarge
    <3>3. r \in Seq(Nat) /\ Len(r) \in Nat /\ Len(r) >= 1 BY <1>1, <3>1 DEF IsVarint
    <3> DEFINE b == <<Low(w)>>
    <3>4. b \in Seq(Nat) /\ Len(b) = 1 /\ b[1] = Low(w) BY <3>1
    <3> HIDE DEF e, r, b
    <3>5. e = b \o r BY <3>2 DEF b
    <3>6. Len(e) = 1 + Len(r)
          /\ \A i \in 1..1 + Len(r) : e[i] = IF i <= 1 THEN b[i] ELSE r[i - 1]
      <4>1. /\ Len(b \o r) = Len(b) + Len(r)
            /\ \A i \in 1..Len(b) + Len(r) : (b \o r)[i] = IF i <= Len(b) THEN b[i] ELSE r[i - Len(b)]
        <5>1. b \in Seq(Nat) /\ r \in Seq(Nat) BY <3>3, <3>4
        <5> QED BY ONLY <5>1, ConcatProperties
      <4> QED BY <3>4, <3>5, <4>1
    <3>7. data[k] = Low(w)
      <4>1. 1 \in 1..Len(e) /\ 1 \in 1..1 + Len(r) /\ k - 1 + 1 = k BY <2>1, <3>3, <3>6
      <4>2. data[k - 1 + 1] = e[1] /\ e[1] = b[1] BY <2>3, <3>6, <4>1
      <4> QED BY <3>4, <4>1, <4>2
    <3>8. k # last /\ k + 1 \in (first + 1)..last BY <1>2, <2>1, <2>3, <3>3, <3>6
    <3>9. g[k + 1] = Less(w)
      <4>1. k + 1 - 1 + Len(r) = last
        <5>1. k - 1 + Len(e) = last /\ Len(e) = 1 + Len(r) BY <2>3, <3>6
        <5>2. k - 1 + (1 + Len(r)) = k + 1 - 1 + Len(r) BY <2>1, <3>3
        <5> QED BY <5>1, <5>2
      <4>2. ASSUME NEW i \in 1..Len(r) PROVE data[k + 1 - 1 + i] = r[i]
        <5>1. i + 1 \in 1..Len(e) /\ i + 1 \in 1..1 + Len(r) /\ ~(i + 1 <= 1) /\ i + 1 - 1 = i
              /\ k + 1 - 1 + i = k - 1 + (i + 1)
          BY <2>1, <3>3, <3>6
        <5>2. e[i + 1] = r[i + 1 - 1] BY <3>6, <5>1
        <5>3. data[k - 1 + (i + 1)] = e[i + 1] BY <2>3, <5>1
        <5> QED BY <5>1, <5>2, <5>3
      <4>3. Spelled(data, last, k + 1, Less(w))
        <5>1. k + 1 - 1 + Len(EncodeVarint[Less(w)]) = first + Len(EncodeVarint[v])
          BY <4>1 DEF r, last
        <5>2. \A i \in 1..Len(EncodeVarint[Less(w)]) :
                 data[k + 1 - 1 + i] = EncodeVarint[Less(w)][i]
          BY <4>2 DEF r
        <5>3. k + 1 - 1 + Len(EncodeVarint[Less(w)]) = last BY <5>1 DEF last
        <5> QED BY <5>2, <5>3 DEF Spelled
      <4>4. Less(w) \in T BY <1>4, <3>1
      <4> QED BY <3>8, <4>3, <4>4
    <3>10. g[k] = data[k] - 128 + 128 * g[k + 1] BY <2>2, <3>8 DEF Summed
    <3> QED BY <3>1, <3>7, <3>9, <3>10
  <2> QED BY <2>4, <2>5
<1>5. T = Nat
  <2>1. T \in SUBSET Nat OBVIOUS
  <2> HIDE DEF T
  <2> QED BY <1>4, <2>1, FromSmaller
<1>6. Spelled(data, last, first + 1, v)
  <2>1. first + 1 - 1 = first OBVIOUS
  <2>2. ASSUME NEW i \in 1..Len(EncodeVarint[v])
        PROVE  data[first + i] = EncodeVarint[v][i]
    <3>1. Len(EncodeVarint[v]) \in Nat /\ Len(data) \in Nat BY <1>1, LenProperties
    <3>2. first + i <= Len(data) BY <3>1
    <3> QED BY <3>2 DEF Follows
  <2> QED BY <2>1, <2>2 DEF Spelled
<1>7. g[first + 1] = v
  <2>1. v \in T BY <1>5
  <2> QED BY <1>2, <1>6, <2>1
<1> QED BY <1>3, <1>7

\* and any other one has a number.
LEMMA VarintInNumber ==
    ASSUME NEW data \in Seq(Nat), NEW first \in Nat, NEW last \in Nat, first <= last,
           first >= 1, last <= Len(data), \A i \in first..last - 1 : data[i] >= 128
    PROVE  \E n \in Nat : VarintIn(data, first, last) = <<n, last>>
<1>1. PICK g : /\ Sums(g, data, first, last)
               /\ VarintIn(data, first, last) = <<g[first], last>>
  BY VarintInIs
<1> DEFINE T == {d \in Nat : d <= last - first => g[last - d] \in Nat}
<1>2. Len(data) \in Nat /\ \A i \in first..last : data[i] \in Nat
  <2>1. Len(data) \in Nat BY LenProperties
  <2>2. \A i \in first..last : i \in 1..Len(data) BY <2>1
  <2> QED BY <2>1, <2>2, ElementOfSeq
<1>3. 0 \in T
  <2>1. last \in first..last /\ last - 0 = last OBVIOUS
  <2>2. g[last] = data[last] BY <1>1, <2>1 DEF Sums, Summed
  <2> QED BY <1>2, <2>1, <2>2
<1>4. ASSUME NEW d \in T PROVE d + 1 \in T
  <2>1. d \in Nat OBVIOUS
  <2>2. SUFFICES ASSUME d + 1 <= last - first PROVE g[last - (d + 1)] \in Nat BY <2>1
  <2> DEFINE m == last - (d + 1)
  <2>3. m \in Nat /\ m >= first /\ m <= last - 1 /\ m + 1 = last - d
    <3>1. d + 1 \in Nat /\ d + 1 >= 1 BY <2>1
    <3> QED BY <2>1, <2>2, <3>1
  <2>4. g[last - d] \in Nat
    <3>1. d <= last - first BY <2>1, <2>2
    <3> QED BY <3>1
  <2> HIDE DEF m
  <2>5. m \in first..last /\ m # last /\ m \in first..last - 1 BY <2>3
  <2>6. g[m] = data[m] - 128 + 128 * g[m + 1] BY <1>1, <2>5 DEF Sums, Summed
  <2>7. data[m] \in Nat /\ data[m] >= 128 /\ g[m + 1] \in Nat BY <1>2, <2>3, <2>4, <2>5
  <2>8. g[m] \in Nat BY <2>6, <2>7
  <2> QED BY <2>8 DEF m
<1>5. T = Nat
  <2>1. T \in SUBSET Nat OBVIOUS
  <2> HIDE DEF T
  <2> QED BY <1>3, <1>4, <2>1, EveryNumber
<1>6. g[first] \in Nat
  <2>1. last - first \in Nat /\ last - (last - first) = first OBVIOUS
  <2>2. last - first \in T
    <3> HIDE DEF T
    <3> QED BY <1>5, <2>1
  <2> QED BY <2>1, <2>2
<1> QED BY <1>1, <1>6
------------------------------------------------------------------------------
\* decode_varint: where the varint ends.
Ends(data, offset) ==
    {i \in offset + 1 .. Len(data) : i <= offset + MaxGroups /\ data[i] < 128}

\* decode_varint, of bytes that end in the middle of a number.
LEMMA DecodeEnd ==
    ASSUME NEW data \in Seq(Nat), NEW offset \in Nat
    PROVE  /\ Ends(data, offset) = {} => DecodeVarint(data, offset) = Malformed
           /\ Ends(data, offset) # {} =>
                 \E last \in Ends(data, offset) :
                    /\ \A j \in Ends(data, offset) : last <= j
                    /\ DecodeVarint(data, offset) = VarintIn(data, offset + 1, last)
<1> DEFINE E == Ends(data, offset)
           last == CHOOSE i \in E : \A j \in E : i <= j
<1>1. DecodeVarint(data, offset) =
         IF E = {} THEN Malformed ELSE VarintIn(data, offset + 1, last)
  BY DEF DecodeVarint, Ends
<1>2. E \in SUBSET Nat
  <2>1. Len(data) \in Nat BY LenProperties
  <2> QED BY <2>1 DEF Ends
<1>3. ASSUME E # {} PROVE last \in E /\ \A j \in E : last <= j
  <2>1. \E i \in E : \A j \in E : i <= j
    <3> HIDE DEF E
    <3> QED BY <1>2, <1>3, LeastNumber
  <2> HIDE DEF E
  <2> QED BY <2>1
<1> HIDE DEF last, E
<1>4. /\ E = {} => DecodeVarint(data, offset) = Malformed
      /\ E # {} => DecodeVarint(data, offset) = VarintIn(data, offset + 1, last)
  BY <1>1
<1>5. E # {} => \E l \in E : (\A j \in E : l <= j) /\ DecodeVarint(data, offset) = VarintIn(data, offset + 1, l)
  BY <1>3, <1>4
<1> QED BY <1>4, <1>5 DEF E

\* What it returns on any bytes,
IsCount(count, data, offset) ==
    count = Malformed \/ \E n \in Nat, e \in offset + 1 .. Len(data) : count = <<n, e>>
LEMMA DecodeAny ==
    ASSUME NEW data \in Seq(Nat), NEW offset \in Nat
    PROVE  IsCount(DecodeVarint(data, offset), data, offset)
<1>1. CASE Ends(data, offset) = {} BY <1>1, DecodeEnd DEF IsCount
<1>2. CASE Ends(data, offset) # {}
  <2>1. PICK last \in Ends(data, offset) :
                    /\ \A j \in Ends(data, offset) : last <= j
                    /\ DecodeVarint(data, offset) = VarintIn(data, offset + 1, last)
    BY <1>2, DecodeEnd
  <2>2. Len(data) \in Nat BY LenProperties
  <2>3. last \in offset + 1 .. Len(data) /\ last <= offset + MaxGroups /\ last \in Nat
    BY <2>2 DEF Ends
  <2>4. ASSUME NEW i \in offset + 1 .. last - 1 PROVE data[i] >= 128
    <3>1. i \in offset + 1 .. Len(data) /\ i <= offset + MaxGroups /\ ~(last <= i)
      BY <2>2, <2>3 DEF MaxGroups
    <3>2. i \notin Ends(data, offset) BY <2>1, <3>1
    <3>3. ~(data[i] < 128) BY <3>1, <3>2 DEF Ends
    <3>4. data[i] \in Nat
      <4>1. i \in 1..Len(data) BY <2>2, <3>1
      <4> QED BY <4>1, ElementOfSeq
    <3> QED BY <3>3, <3>4
  <2>5. \E n \in Nat : VarintIn(data, offset + 1, last) = <<n, last>>
    <3>1. offset + 1 \in Nat /\ offset + 1 >= 1 /\ offset + 1 <= last /\ last <= Len(data)
      BY <2>2, <2>3
    <3> QED BY <2>3, <2>4, <3>1, VarintInNumber
  <2> QED BY <2>1, <2>3, <2>5 DEF IsCount
<1> QED BY <1>1, <1>2

\* on the bytes of a varint,
LEMMA DecodeWhole ==
    ASSUME NEW data \in Seq(Nat), NEW offset \in Nat, NEW v \in Nat,
           Follows(data, offset, EncodeVarint[v]),
           offset + Len(EncodeVarint[v]) <= Len(data)
    PROVE  DecodeVarint(data, offset) =
              IF Len(EncodeVarint[v]) <= MaxGroups THEN <<v, offset + Len(EncodeVarint[v])>>
              ELSE Malformed
<1> DEFINE n == Len(EncodeVarint[v])
           end == offset + n
<1>1. IsVarint(EncodeVarint[v]) BY VarintBytes
<1>2. n \in Nat /\ n >= 1 /\ Len(data) \in Nat BY <1>1, LenProperties DEF IsVarint
<1>3. ASSUME NEW i \in 1..n PROVE data[offset + i] = EncodeVarint[v][i]
  <2>1. offset + i <= Len(data) BY <1>2
  <2> QED BY <2>1 DEF Follows
<1>4. data[end] < 128
  <2>1. n \in 1..n BY <1>2
  <2> QED BY <1>1, <1>3, <2>1 DEF IsVarint
<1>5. ASSUME NEW i \in offset + 1 .. end - 1 PROVE data[i] >= 128
  <2>1. i - offset \in 1..n - 1 /\ i - offset \in 1..n /\ offset + (i - offset) = i BY <1>2
  <2>2. data[offset + (i - offset)] = EncodeVarint[v][i - offset] BY <1>3, <2>1
  <2>3. EncodeVarint[v][i - offset] >= 128 BY <1>1, <2>1 DEF IsVarint
  <2> QED BY <2>1, <2>2, <2>3
<1>6. \A i \in Ends(data, offset) : i >= end
  <2> SUFFICES ASSUME NEW i \in Ends(data, offset), ~(i >= end) PROVE FALSE OBVIOUS
  <2>1. i \in offset + 1 .. Len(data) /\ data[i] < 128 BY DEF Ends
  <2>2. i \in offset + 1 .. end - 1 BY <1>2, <2>1
  <2>3. data[i] >= 128 BY <1>5, <2>2
  <2>4. data[i] \in Nat
    <3>1. i \in 1..Len(data) BY <1>2, <2>1
    <3> QED BY <3>1, ElementOfSeq
  <2> QED BY <2>1, <2>3, <2>4
<1>7. CASE n <= MaxGroups
  <2>1. end \in Ends(data, offset) BY <1>2, <1>4, <1>7 DEF Ends, MaxGroups
  <2>2. PICK last \in Ends(data, offset) :
                    /\ \A j \in Ends(data, offset) : last <= j
                    /\ DecodeVarint(data, offset) = VarintIn(data, offset + 1, last)
    BY <2>1, DecodeEnd
  <2>3. last = end
    <3>1. last <= end /\ last >= end BY <1>6, <2>1, <2>2
    <3>2. last \in Int BY <1>2 DEF Ends
    <3> QED BY <1>2, <3>1, <3>2
  <2>4. VarintIn(data, offset + 1, end) = <<v, end>> BY VarintInReads
  <2> QED BY <1>7, <2>2, <2>3, <2>4
<1>8. CASE ~(n <= MaxGroups)
  <2>1. Ends(data, offset) = {}
    <3> SUFFICES ASSUME NEW i \in Ends(data, offset) PROVE FALSE OBVIOUS
    <3>1. i >= end BY <1>6
    <3>2. i <= offset + MaxGroups /\ i \in Int BY <1>2 DEF Ends
    <3> QED BY <1>2, <1>8, <3>1, <3>2 DEF MaxGroups
  <2> QED BY <1>8, <2>1, DecodeEnd
<1> QED BY <1>7, <1>8

\* and on those of one that is cut.
LEMMA DecodeCut ==
    ASSUME NEW data \in Seq(Nat), NEW offset \in Nat, NEW v \in Nat,
           Follows(data, offset, EncodeVarint[v]),
           offset + Len(EncodeVarint[v]) > Len(data)
    PROVE  DecodeVarint(data, offset) = Malformed
<1> DEFINE n == Len(EncodeVarint[v])
<1>1. IsVarint(EncodeVarint[v]) BY VarintBytes
<1>2. n \in Nat /\ Len(data) \in Nat BY <1>1, LenProperties DEF IsVarint
<1>3. Ends(data, offset) = {}
  <2> SUFFICES ASSUME NEW i \in Ends(data, offset) PROVE FALSE OBVIOUS
  <2>1. i \in offset + 1 .. Len(data) /\ data[i] < 128 BY DEF Ends
  <2>2. i - offset \in 1..n - 1 /\ i - offset \in 1..n /\ offset + (i - offset) = i BY <1>2, <2>1
  <2>3. data[offset + (i - offset)] = EncodeVarint[v][i - offset]
    <3>1. offset + (i - offset) <= Len(data) BY <1>2, <2>1
    <3> QED BY <2>2, <3>1 DEF Follows
  <2>4. EncodeVarint[v][i - offset] >= 128 BY <1>1, <2>2 DEF IsVarint
  <2>5. data[i] \in Nat
    <3>1. i \in 1..Len(data) BY <1>2, <2>1
    <3> QED BY <3>1, ElementOfSeq
  <2> QED BY SMTT(20), <2>1, <2>2, <2>3, <2>4, <2>5
<1> QED BY <1>3, DecodeEnd

------------------------------------------------------------------------------
(* The bytes of a field, and the field that is read back from them
   (wire.py parse_fields). *)

\* Bytes in front of bytes.
LEMMA FollowsParts ==
    ASSUME NEW data \in Seq(Nat), NEW offset \in Nat, NEW a \in Seq(Nat), NEW b \in Seq(Nat),
           Follows(data, offset, a \o b)
    PROVE  Follows(data, offset, a) /\ Follows(data, offset + Len(a), b)
<1> DEFINE la == Len(a)
           lb == Len(b)
           ab == a \o b
<1>1. la \in Nat /\ lb \in Nat /\ Len(data) \in Nat BY LenProperties
<1>2. Len(ab) = la + lb /\ \A i \in 1..la + lb : ab[i] = IF i <= la THEN a[i] ELSE b[i - la]
  <2>1. a \in Seq(Nat) /\ b \in Seq(Nat) OBVIOUS
  <2> QED BY ONLY <2>1, ConcatProperties DEF la, lb, ab
<1>3. \A i \in 1..la + lb : offset + i <= Len(data) => data[offset + i] = ab[i]
  BY <1>2 DEF Follows
<1> HIDE DEF la, lb, ab
<1>4. ASSUME NEW i \in 1..la, offset + i <= Len(data) PROVE data[offset + i] = a[i]
  <2>1. i \in 1..la + lb /\ i <= la BY <1>1
  <2> QED BY <1>2, <1>3, <1>4, <2>1
<1>4a. ASSUME NEW k \in la + 1 .. la + lb, offset + k <= Len(data)
       PROVE  data[offset + k] = b[k - la]
  <2>1. k \in 1..la + lb /\ ~(k <= la) BY <1>1
  <2> QED BY <1>2, <1>3, <1>4a, <2>1
<1>5. ASSUME NEW i \in 1..lb, offset + la + i <= Len(data) PROVE data[offset + la + i] = b[i]
  <2>1. PICK k \in la + 1 .. la + lb : k = la + i BY <1>1
  <2>2. k - la = i /\ offset + k = offset + la + i /\ offset + k <= Len(data) BY <1>1, <1>5, <2>1
  <2>3. data[offset + k] = b[k - la] BY <1>4a, <2>2
  <2> QED BY <2>2, <2>3
<1>6. Follows(data, offset, a) BY <1>4 DEF Follows, la
<1>7. Follows(data, offset + la, b) BY <1>5 DEF Follows, lb
<1> QED BY <1>6, <1>7 DEF la

\* What parse_fields makes of a field: its value has the bytes there were.
IsField(field, data, offset) ==
    field = Malformed \/ (field \in WireFields /\ field.end \in offset + 1 .. Len(data))

\* _slice: a value whose bytes are all there, and one that is cut.
LEMMA SliceAny ==
    ASSUME NEW data \in Seq(Nat), NEW number \in Nat, NEW type \in Nat,
           NEW from \in Nat, NEW size \in Nat, NEW offset \in Nat, from > offset
    PROVE  IsField(Slice(data, number, type, from, size), data, offset)
<1>1. Len(data) \in Nat BY LenProperties
<1>2. CASE from + size > Len(data) BY <1>2 DEF Slice, IsField
<1>3. CASE ~(from + size > Len(data))
  <2> DEFINE value == SubSeq(data, from + 1, from + size)
  <2>1. value \in Seq(Nat)
    <3>1. from + 1 \in 1..Len(data) + 1 /\ from + size \in 0..Len(data) BY <1>1, <1>3
    <3>2. \A i \in from + 1 .. from + size : data[i] \in Nat
      <4>1. \A i \in from + 1 .. from + size : i \in 1..Len(data) BY <1>1, <1>3
      <4> QED BY <4>1, ElementOfSeq
    <3> QED BY <3>1, <3>2, SubSeqProperties
  <2> HIDE DEF value
  <2>2. Slice(data, number, type, from, size) = Field(number, type, value, from + size)
    BY <1>3 DEF Slice, value
  <2>3. from + size \in offset + 1 .. Len(data) /\ from + size \in Nat BY <1>1, <1>3
  <2> QED BY <2>1, <2>2, <2>3 DEF IsField, WireFields, Field
<1> QED BY <1>2, <1>3

\* What parse_fields makes of the bytes behind a tag.
LEMMA FieldAny ==
    ASSUME NEW data \in Seq(Nat), NEW offset \in Nat
    PROVE  IsField(FieldAfter(data, DecodeVarint(data, offset)), data, offset)
<1> DEFINE tag == DecodeVarint(data, offset)
<1>1. IsCount(tag, data, offset) BY DecodeAny
<1> HIDE DEF tag
<1>2. CASE tag = Malformed BY <1>2 DEF FieldAfter, IsField, tag
<1>3. CASE tag # Malformed
  <2>0. Len(data) \in Nat BY LenProperties
  <2>1. PICK n \in Nat, e \in offset + 1 .. Len(data) : tag = <<n, e>> BY <1>1, <1>3 DEF IsCount
  <2>2. e \in Nat /\ e > offset BY <2>0
  <2> DEFINE number == n \div 8
             type == n % 8
  <2>3. number \in Nat /\ type \in Nat OBVIOUS
  <2>4. tag[1] = n /\ tag[2] = e BY <2>1
  <2>5. FieldAfter(data, tag) = FieldAt(data, number, type, e) BY <1>3, <2>4 DEF FieldAfter
  <2> HIDE DEF number, type
  <2>6. CASE number = 0 BY <2>5, <2>6 DEF FieldAt, IsField, tag
  <2>7. CASE number # 0
    <3>1. FieldAfter(data, tag) = FieldOf(data, number, type, e) BY <2>5, <2>7 DEF FieldAt
    <3>2. CASE type = 1
      <4>1. FieldOf(data, number, type, e) = Slice(data, number, 1, e, 8) BY <3>2 DEF FieldOf
      <4> QED BY <2>2, <2>3, <3>1, <4>1, SliceAny DEF tag
    <3>3. CASE type = 5
      <4>1. FieldOf(data, number, type, e) = Slice(data, number, 5, e, 4) BY <3>3 DEF FieldOf
      <4> QED BY <2>2, <2>3, <3>1, <4>1, SliceAny DEF tag
    <3>4. CASE type \in {0, 2}
      <4> DEFINE count == DecodeVarint(data, e)
      <4>1. FieldOf(data, number, type, e) = Counted(data, number, type, count)
        BY <3>4 DEF FieldOf
      <4>2. IsCount(count, data, e) BY <2>2, DecodeAny
      <4> HIDE DEF count
      <4>3. CASE count = Malformed BY <3>1, <4>1, <4>3 DEF Counted, IsField, tag
      <4>4. CASE count # Malformed
        <5>1. PICK m \in Nat, l \in e + 1 .. Len(data) : count = <<m, l>>
          BY <4>2, <4>4 DEF IsCount
        <5>2. count[1] = m /\ count[2] = l BY <5>1
        <5>3. l \in Nat /\ l > offset /\ l \in offset + 1 .. Len(data) BY <2>0, <2>2
        <5>4. CASE type = 0
          <6>1. Counted(data, number, type, count) = Field(number, 0, <<m>>, l)
            BY <4>4, <5>2, <5>4 DEF Counted
          <6>2. Field(number, 0, <<m>>, l) \in WireFields /\ Field(number, 0, <<m>>, l).end = l
            BY <2>3, <5>3 DEF Field, WireFields
          <6> QED BY <3>1, <4>1, <5>3, <6>1, <6>2 DEF IsField, tag
        <5>5. CASE type # 0
          <6>1. Counted(data, number, type, count) = Slice(data, number, 2, l, m)
            BY <4>4, <5>2, <5>5 DEF Counted
          <6> QED BY <2>3, <3>1, <4>1, <5>3, <6>1, SliceAny DEF tag
        <5> QED BY <5>4, <5>5
      <4> QED BY <4>3, <4>4
    <3>5. CASE type \notin {0, 1, 2, 5}
      <4>1. FieldOf(data, number, type, e) = Malformed BY <3>5 DEF FieldOf
      <4> QED BY <3>1, <4>1 DEF IsField, tag
    <3> QED BY <3>2, <3>3, <3>4, <3>5
  <2> QED BY <2>6, <2>7
<1> QED BY <1>2, <1>3 DEF tag
------------------------------------------------------------------------------
\* A field as the SDK writes it, with its value as it is read back.
Fixed(size) == {v \in Seq(Nat) : Len(v) = size}
Written ==
    [number: Nat \ {0}, type: {2}, value: Seq(Nat)] \cup
    [number: Nat \ {0}, type: {0}, value: Fixed(1)] \cup
    [number: Nat \ {0}, type: {1}, value: Fixed(8)] \cup
    [number: Nat \ {0}, type: {5}, value: Fixed(4)]
Head0(w) == EncodeVarint[8 * w.number + w.type]
Body(w) ==
    IF w.type = 0 THEN EncodeVarint[w.value[1]]
    ELSE IF w.type = 2 THEN EncodeVarint[Len(w.value)] \o w.value
    ELSE w.value
WireOf(w) == Head0(w) \o Body(w)
\* None of its varints is longer than the decoder allows.
Short(w) ==
    /\ Len(Head0(w)) <= MaxGroups
    /\ w.type = 0 => Len(EncodeVarint[w.value[1]]) <= MaxGroups
    /\ w.type = 2 => Len(EncodeVarint[Len(w.value)]) <= MaxGroups

\* The fields that the codecs and the robot write.
LEMMA WrittenParts ==
    ASSUME NEW w \in Written
    PROVE  /\ w.number \in Nat /\ w.number # 0 /\ w.type \in {0, 1, 2, 5}
           /\ w.value \in Seq(Nat) /\ 8 * w.number + w.type \in Nat
           /\ w.type = 0 => Len(w.value) = 1 /\ w.value[1] \in Nat /\ w.value = <<w.value[1]>>
           /\ w.type = 1 => Len(w.value) = 8
           /\ w.type = 5 => Len(w.value) = 4
           /\ Len(w.value) \in Nat
<1>1. /\ w.number \in Nat /\ w.number # 0 /\ w.type \in {0, 1, 2, 5}
      /\ w.value \in Seq(Nat)
      /\ w.type = 0 => Len(w.value) = 1
      /\ w.type = 1 => Len(w.value) = 8
      /\ w.type = 5 => Len(w.value) = 4
  BY DEF Written, Fixed
<1>2. 8 * w.number + w.type \in Nat BY <1>1
<1>3. Len(w.value) \in Nat BY <1>1, LenProperties
<1>4. ASSUME w.type = 0 PROVE w.value[1] \in Nat /\ w.value = <<w.value[1]>>
  <2>0. Len(w.value) = 1 BY <1>1, <1>4
  <2>1. 1 \in 1..Len(w.value) BY <2>0
  <2>2. w.value[1] \in Nat BY <1>1, <2>1, ElementOfSeq
  <2>3. <<w.value[1]>> \in Seq(Nat) /\ Len(<<w.value[1]>>) = 1
        /\ \A i \in 1..1 : <<w.value[1]>>[i] = w.value[i] BY <2>2
  <2>4. Len(w.value) = 1 BY <1>1, <1>4
  <2> QED BY <1>1, <2>2, <2>3, <2>4, SeqEqual
<1> QED BY <1>1, <1>2, <1>3, <1>4

LEMMA WrittenIs ==
    ASSUME NEW w \in Written
    PROVE  w.number \in Nat /\ w.type \in Nat /\ w.value \in Seq(Nat)
BY DEF Written, Fixed

LEMMA WireType ==
    ASSUME NEW w \in Written
    PROVE  /\ Head0(w) \in Seq(Nat) /\ Body(w) \in Seq(Nat) /\ WireOf(w) \in Seq(Nat)
           /\ Len(Head0(w)) \in Nat /\ Len(Head0(w)) >= 1 /\ Len(Body(w)) \in Nat
           /\ Len(WireOf(w)) = Len(Head0(w)) + Len(Body(w))
<1>1. \A v \in Nat : EncodeVarint[v] \in Seq(Nat) /\ Len(EncodeVarint[v]) \in Nat
                     /\ Len(EncodeVarint[v]) >= 1
  BY VarintBytes, LenProperties DEF IsVarint
<1>2. Head0(w) \in Seq(Nat) /\ Len(Head0(w)) \in Nat /\ Len(Head0(w)) >= 1
  BY <1>1, WrittenParts DEF Head0
<1>3. Body(w) \in Seq(Nat)
  <2>1. CASE w.type = 0 BY <1>1, <2>1, WrittenParts DEF Body
  <2>2. CASE w.type = 2
    <3>1. EncodeVarint[Len(w.value)] \in Seq(Nat) /\ w.value \in Seq(Nat) BY <1>1, WrittenParts
    <3>2. EncodeVarint[Len(w.value)] \o w.value \in Seq(Nat) BY ONLY <3>1, ConcatProperties
    <3> QED BY <2>2, <3>2 DEF Body
  <2>3. CASE w.type \notin {0, 2} BY <2>3, WrittenParts DEF Body
  <2> QED BY <2>1, <2>2, <2>3
<1>4. WireOf(w) \in Seq(Nat) /\ Len(WireOf(w)) = Len(Head0(w)) + Len(Body(w))
  <2>1. Head0(w) \o Body(w) \in Seq(Nat) /\ Len(Head0(w) \o Body(w)) = Len(Head0(w)) + Len(Body(w))
    BY ONLY <1>2, <1>3, ConcatProperties
  <2> QED BY <2>1 DEF WireOf
<1> QED BY <1>2, <1>3, <1>4, LenProperties

\* A tag's number and wire type.
LEMMA TagParts ==
    ASSUME NEW n \in Nat, NEW t \in {0, 1, 2, 5}
    PROVE  (8 * n + t) \div 8 = n /\ (8 * n + t) % 8 = t
OBVIOUS

LEMMA SliceWhole ==
    ASSUME NEW data \in Seq(Nat), NEW number, NEW type, NEW from \in Nat, NEW value \in Seq(Nat),
           Follows(data, from, value), from + Len(value) <= Len(data)
    PROVE  Slice(data, number, type, from, Len(value))
              = Field(number, type, value, from + Len(value))
<1> DEFINE n == Len(value)
           got == SubSeq(data, from + 1, from + n)
<1>1. n \in Nat /\ Len(data) \in Nat BY LenProperties
<1>2. ASSUME NEW i \in 1..n PROVE data[from + i] = value[i]
  <2>1. from + i <= Len(data) BY <1>1
  <2> QED BY <2>1 DEF Follows
<1>3. got \in Seq(Nat) /\ Len(got) = n /\ \A i \in 1..n : got[i] = data[from + i]
  <2>1. from + 1 \in 1..Len(data) + 1 /\ from + n \in 0..Len(data)
        /\ \A i \in from + 1 .. from + n : i \in 1..Len(data)
        /\ from + n - (from + 1) + 1 = n BY <1>1
  <2>2. \A i \in from + 1 .. from + n : data[i] \in Nat BY <2>1, ElementOfSeq
  <2>3. /\ got \in Seq(Nat)
        /\ Len(got) = IF from + 1 <= from + n THEN from + n - (from + 1) + 1 ELSE 0
        /\ \A i \in 1 .. from + n - (from + 1) + 1 : got[i] = data[from + 1 + i - 1]
    <3>1. PICK first \in Int : first = from + 1 BY <2>1
    <3>2. PICK last \in Int : last = from + n BY <1>1
    <3>3. \A i \in first .. last : data[i] \in Nat BY <2>2, <3>1, <3>2
    <3>4. /\ SubSeq(data, first, last) \in Seq(Nat)
          /\ Len(SubSeq(data, first, last)) = IF first <= last THEN last - first + 1 ELSE 0
          /\ \A i \in 1 .. last - first + 1 : SubSeq(data, first, last)[i] = data[first + i - 1]
      BY ONLY <3>3, SubSeqProperties
    <3> QED BY <3>1, <3>2, <3>4
  <2>4. Len(got) = n
    <3> HIDE DEF n, got
    <3> QED BY <1>1, <2>1, <2>3
  <2>5. \A i \in 1..n : got[i] = data[from + i]
    <3> HIDE DEF n, got
    <3>1. ASSUME NEW i \in 1..n PROVE got[i] = data[from + i]
      <4>1. from + 1 + i - 1 = from + i BY <1>1
      <4>2. i \in 1 .. from + n - (from + 1) + 1 BY <1>1, <2>1
      <4>3. got[i] = data[from + 1 + i - 1] BY <2>3, <4>2
      <4> QED BY <4>1, <4>3
    <3> QED BY <3>1
  <2> QED BY <2>3, <2>4, <2>5
<1>4. got = value
  <2> HIDE DEF got
  <2> QED BY <1>2, <1>3, SeqEqual
<1>5. ~(from + n > Len(data)) BY <1>1
<1> HIDE DEF got
<1> QED BY <1>4, <1>5 DEF Slice, got

\* A field that was written is read back, unless the data ends before it does.
LEMMA FieldRead ==
    ASSUME NEW data \in Seq(Nat), NEW offset \in Nat, NEW w \in Written,
           Follows(data, offset, WireOf(w)), offset <= Len(data)
    PROVE  LET field == FieldAfter(data, DecodeVarint(data, offset))
               end == offset + Len(WireOf(w))
           IN /\ end > Len(data) => field = Malformed
              /\ end <= Len(data) =>
                    \/ field = Field(w.number, w.type, w.value, end)
                    \/ field = Malformed /\ ~Short(w)
<1> DEFINE field == FieldAfter(data, DecodeVarint(data, offset))
           end == offset + Len(WireOf(w))
           h == Head0(w)
           b == Body(w)
           o == offset + Len(h)
           Goal == /\ end > Len(data) => field = Malformed
                   /\ end <= Len(data) =>
                         \/ field = Field(w.number, w.type, w.value, end)
                         \/ field = Malformed /\ ~Short(w)
<1>1. /\ h \in Seq(Nat) /\ b \in Seq(Nat) /\ Len(h) \in Nat /\ Len(h) >= 1
      /\ Len(b) \in Nat /\ Len(WireOf(w)) = Len(h) + Len(b) /\ Len(data) \in Nat
  BY WireType, LenProperties
<1>2. Follows(data, offset, h) /\ Follows(data, o, b)
  <2>1. Follows(data, offset, h \o b) BY DEF WireOf
  <2> HIDE DEF h, b
  <2> QED BY <1>1, <2>1, FollowsParts
<1>3. /\ w.number \in Nat /\ w.number # 0 /\ w.type \in {0, 1, 2, 5}
      /\ w.value \in Seq(Nat) /\ 8 * w.number + w.type \in Nat /\ Len(w.value) \in Nat
  BY WrittenParts
<1>4. o \in Nat /\ end = o + Len(b) /\ end \in Nat /\ o <= end
  <2> HIDE DEF h, b
  <2> QED BY <1>1
<1>5. CASE o > Len(data)
  <2>1. DecodeVarint(data, offset) = Malformed BY <1>2, <1>3, <1>5, DecodeCut DEF Head0
  <2>2. field = Malformed BY <2>1 DEF FieldAfter
  <2>3. end > Len(data)
    <3> HIDE DEF o, end
    <3> QED BY <1>1, <1>4, <1>5
  <2> HIDE DEF field, end
  <2>4. Goal BY <1>1, <1>4, <2>2, <2>3
  <2> QED BY <2>4 DEF field, end
<1>6. CASE ~(o > Len(data)) /\ ~(Len(h) <= MaxGroups)
  <2>1. o <= Len(data)
    <3> HIDE DEF o
    <3> QED BY <1>1, <1>4, <1>6
  <2>2. DecodeVarint(data, offset) = Malformed BY <1>2, <1>3, <1>6, <2>1, DecodeWhole DEF Head0
  <2>3. field = Malformed BY <2>2 DEF FieldAfter
  <2>4. ~Short(w) BY <1>6 DEF Short
  <2> HIDE DEF field, end
  <2>5. Goal BY <2>3, <2>4
  <2> QED BY <2>5 DEF field, end
<1>7. CASE o <= Len(data) /\ Len(h) <= MaxGroups
  <2>1. DecodeVarint(data, offset) = <<8 * w.number + w.type, o>>
    BY <1>2, <1>3, <1>7, DecodeWhole DEF Head0
  <2>2. field = FieldAt(data, w.number, w.type, o)
    <3> DEFINE v == 8 * w.number + w.type
               tag == DecodeVarint(data, offset)
    <3>1. tag = <<v, o>> /\ tag # Malformed
      <4>1. <<v, o>> \in Nat \X Nat BY <1>3, <1>4
      <4> QED BY <2>1, <4>1, MalformedAssumption
    <3>2. v \div 8 = w.number /\ v % 8 = w.type BY <1>3, TagParts
    <3> HIDE DEF v, tag, o
    <3>3. tag[1] = v /\ tag[2] = o BY <3>1
    <3> QED BY <3>1, <3>2, <3>3 DEF FieldAfter, tag
  <2>3. field = FieldOf(data, w.number, w.type, o) BY <1>3, <2>2 DEF FieldAt
  <2> DEFINE Whole == Field(w.number, w.type, w.value, end)
  <2>4. CASE w.type \in {1, 5}
    <3>1. b = w.value BY <2>4 DEF Body
    <3>2. FieldOf(data, w.number, w.type, o) = Slice(data, w.number, w.type, o, Len(w.value))
      <4>1. w.type = 1 => Len(w.value) = 8 BY WrittenParts
      <4>2. w.type = 5 => Len(w.value) = 4 BY WrittenParts
      <4>3. FieldOf(data, w.number, 1, o) = Slice(data, w.number, 1, o, 8) BY DEF FieldOf
      <4>4. FieldOf(data, w.number, 5, o) = Slice(data, w.number, 5, o, 4) BY DEF FieldOf
      <4> QED BY <2>4, <4>1, <4>2, <4>3, <4>4
    <3>3. ASSUME end <= Len(data) PROVE field = Whole
      <4>1. Slice(data, w.number, w.type, o, Len(w.value))
               = Field(w.number, w.type, w.value, o + Len(w.value))
        <5>1. Follows(data, o, w.value) BY <1>2, <3>1
        <5>2. o + Len(w.value) <= Len(data) BY <1>4, <3>1, <3>3
        <5>3. PICK v \in Seq(Nat) : v = w.value BY <1>3
        <5>4. Follows(data, o, v) /\ o + Len(v) <= Len(data) BY <5>1, <5>2, <5>3
        <5>5. o \in Nat BY <1>4
        <5> HIDE DEF o
        <5>6. Slice(data, w.number, w.type, o, Len(v)) = Field(w.number, w.type, v, o + Len(v))
          BY <5>4, <5>5, SliceWhole
        <5> QED BY <5>3, <5>6
      <4> QED BY <1>4, <2>3, <3>1, <3>2, <4>1
    <3>4. ASSUME end > Len(data) PROVE field = Malformed
      <4>1. o + Len(w.value) > Len(data) BY <1>4, <3>1, <3>4
      <4> QED BY <2>3, <3>2, <4>1 DEF Slice
    <3> HIDE DEF field, end, Whole
    <3>5. Goal BY <1>1, <1>4, <3>3, <3>4 DEF Whole
    <3> QED BY <3>5 DEF field, end
  <2>5. CASE w.type = 0
    <3> DEFINE v == w.value[1]
               count == DecodeVarint(data, o)
    <3>1. b = EncodeVarint[v] /\ v \in Nat /\ w.value = <<v>> BY <2>5, WrittenParts DEF Body
    <3>2. field = Counted(data, w.number, 0, count) BY <2>3, <2>5 DEF FieldOf
    <3>3. ASSUME end > Len(data) PROVE field = Malformed
      <4>1. count = Malformed BY <1>2, <1>4, <3>1, <3>3, DecodeCut
      <4> QED BY <3>2, <4>1 DEF Counted
    <3>4. ASSUME end <= Len(data), Len(b) <= MaxGroups PROVE field = Whole
      <4>1. count = <<v, end>> BY <1>2, <1>4, <3>1, <3>4, DecodeWhole
      <4>2. <<v, end>> \in Nat \X Nat BY <1>4, <3>1
      <4>3. count # Malformed /\ count[1] = v /\ count[2] = end
        <5> HIDE DEF count, v, end
        <5> QED BY <4>1, <4>2, MalformedAssumption
      <4> HIDE DEF count, v, end
      <4>4. Counted(data, w.number, 0, count) = Field(w.number, 0, <<v>>, end)
        BY <4>3 DEF Counted
      <4> QED BY <2>5, <3>1, <3>2, <4>4
    <3>5. ASSUME end <= Len(data), ~(Len(b) <= MaxGroups) PROVE field = Malformed /\ ~Short(w)
      <4>1. count = Malformed BY <1>2, <1>4, <3>1, <3>5, DecodeWhole
      <4>2. field = Malformed BY <3>2, <4>1 DEF Counted
      <4>3. ~Short(w) BY <2>5, <3>1, <3>5 DEF Short
      <4> QED BY <4>2, <4>3
    <3> HIDE DEF field, end, Whole, b
    <3>6. Goal BY <1>1, <1>4, <3>3, <3>4, <3>5 DEF Whole
    <3> QED BY <3>6 DEF field, end
  <2>6. CASE w.type = 2
    <3> DEFINE n == Len(w.value)
               e == EncodeVarint[n]
               count == DecodeVarint(data, o)
               p == o + Len(e)
    <3>1. b = e \o w.value BY <2>6 DEF Body
    <3>2. field = Counted(data, w.number, 2, count) BY <2>3, <2>6 DEF FieldOf
    <3>3. e \in Seq(Nat) /\ Len(e) \in Nat BY <1>3, VarintBytes, LenProperties DEF IsVarint
    <3>4. Len(b) = Len(e) + n
      <4> HIDE DEF e, n, b
      <4>1. Len(e \o w.value) = Len(e) + Len(w.value) BY ONLY <1>3, <3>3, ConcatProperties
      <4> QED BY <3>1, <4>1 DEF n
    <3>5. Follows(data, o, e) /\ Follows(data, p, w.value)
      <4>1. Follows(data, o, e \o w.value) BY <1>2, <3>1
      <4> HIDE DEF e, n, b, o
      <4> QED BY <1>3, <1>4, <3>3, <4>1, FollowsParts
    <3>6. n \in Nat /\ p \in Nat /\ end = p + n /\ p <= end
      <4>1. n \in Nat BY <1>3
      <4> HIDE DEF e, n, b, o, end
      <4> QED BY <1>4, <3>3, <3>4, <4>1
    <3>7. CASE p > Len(data)
      <4>1. count = Malformed BY <1>4, <3>5, <3>6, <3>7, DecodeCut
      <4>2. field = Malformed BY <3>2, <4>1 DEF Counted
      <4>3. end > Len(data)
        <5> HIDE DEF p, end, n
        <5> QED BY <1>1, <3>6, <3>7
      <4> HIDE DEF field, end, Whole, b
      <4>4. Goal BY <1>1, <1>4, <4>2, <4>3 DEF Whole
      <4> QED BY <4>4 DEF field, end
    <3>8. CASE p <= Len(data) /\ ~(Len(e) <= MaxGroups)
      <4>1. count = Malformed BY <1>4, <3>5, <3>6, <3>8, DecodeWhole
      <4>2. field = Malformed BY <3>2, <4>1 DEF Counted
      <4>3. ~Short(w) BY <2>6, <3>8 DEF Short
      <4> HIDE DEF field, end, Whole, b
      <4>4. Goal BY <4>2, <4>3 DEF Whole
      <4> QED BY <4>4 DEF field, end
    <3>9. CASE p <= Len(data) /\ Len(e) <= MaxGroups
      <4>1. count = <<n, p>> BY <1>4, <3>5, <3>6, <3>9, DecodeWhole
      <4>2. <<n, p>> \in Nat \X Nat BY <3>6
      <4>3. count # Malformed /\ count[1] = n /\ count[2] = p
        <5> HIDE DEF count, n, p
        <5> QED BY <4>1, <4>2, MalformedAssumption
      <4>4. Counted(data, w.number, 2, count) = Slice(data, w.number, 2, p, n)
        <5> HIDE DEF count, n, p
        <5> QED BY <4>3 DEF Counted
      <4>5. ASSUME end <= Len(data) PROVE field = Whole
        <5>1. p + Len(w.value) <= Len(data) BY <3>6, <4>5
        <5>2. Slice(data, w.number, 2, p, n) = Field(w.number, 2, w.value, p + n)
          <6>1. Slice(data, w.number, 2, p, Len(w.value))
                   = Field(w.number, 2, w.value, p + Len(w.value))
            <7> HIDE DEF p
            <7> QED BY SMTT(20), <1>3, <3>5, <3>6, <5>1, SliceWhole
          <6> QED BY <6>1
        <5> QED BY <2>6, <3>2, <3>6, <4>4, <5>2
      <4>6. ASSUME end > Len(data) PROVE field = Malformed
        <5>1. p + n > Len(data) BY <3>6, <4>6
        <5> HIDE DEF field, count, n, p
        <5> QED BY <3>2, <4>4, <5>1 DEF Slice
      <4> HIDE DEF field, end, Whole, b
      <4>7. Goal BY <1>1, <1>4, <4>5, <4>6 DEF Whole
      <4> QED BY <4>7 DEF field, end
    <3>10. \/ p > Len(data)
           \/ p <= Len(data) /\ ~(Len(e) <= MaxGroups)
           \/ p <= Len(data) /\ Len(e) <= MaxGroups
      <4> HIDE DEF p, e
      <4> QED BY <1>1, <3>6
    <3> QED BY <3>7, <3>8, <3>9, <3>10
  <2> QED BY <1>3, <2>4, <2>5, <2>6
<1>8. \/ o > Len(data)
      \/ ~(o > Len(data)) /\ ~(Len(h) <= MaxGroups)
      \/ o <= Len(data) /\ Len(h) <= MaxGroups
  <2> HIDE DEF o, h
  <2> QED BY <1>1, <1>4
<1> QED BY <1>5, <1>6, <1>7, <1>8

------------------------------------------------------------------------------
(* A message is a list of fields: parse_fields reads them all, and of a
   message that is cut short it reads the fields before the cut, or nothing. *)

\* f is what parse_fields returns from every offset on.
ParsedFrom(f, data, offset) ==
    IF offset = Len(data) THEN <<>>
    ELSE FieldAndRest(FieldAfter(data, DecodeVarint(data, offset)), f)
Parses(f, data, first) == \A o \in first..Len(data) : f[o] = ParsedFrom(f, data, o)

\* It looks at no offset but later ones.
LEMMA ParsedLater ==
    ASSUME NEW data \in Seq(Nat), NEW f, NEW g, NEW offset \in Nat, offset <= Len(data),
           \A o \in offset + 1 .. Len(data) : f[o] = g[o]
    PROVE  ParsedFrom(f, data, offset) = ParsedFrom(g, data, offset)
<1> DEFINE field == FieldAfter(data, DecodeVarint(data, offset))
<1>1. IsField(field, data, offset) BY FieldAny
<1> HIDE DEF field
<1>2. FieldAndRest(field, f) = FieldAndRest(field, g)
  <2>1. CASE field = Malformed BY <2>1 DEF FieldAndRest
  <2>2. CASE field # Malformed
    <3>1. field.end \in offset + 1 .. Len(data) BY <1>1, <2>2 DEF IsField
    <3>2. f[field.end] = g[field.end] BY <3>1
    <3> QED BY <3>2 DEF FieldAndRest
  <2> QED BY <2>1, <2>2
<1> QED BY <1>2 DEF ParsedFrom, field

\* The recursion of parse_fields has one solution.
LEMMA ParseExists ==
    ASSUME NEW data \in Seq(Nat)
    PROVE  \E f : f = [o \in 0..Len(data) |-> ParsedFrom(f, data, o)]
<1> DEFINE last == Len(data)
           P(k) == \E f : f = [o \in 0..last |-> f[o]] /\ Parses(f, data, last - k)
           T == {k \in Nat : k <= last => P(k)}
<1>0. last \in Nat BY LenProperties
<1>1. 0 \in T
  <2> DEFINE f == [o \in 0..last |-> <<>>]
  <2>1. f = [o \in 0..last |-> f[o]] OBVIOUS
  <2>2. Parses(f, data, last)
    <3>1. \A o \in last..Len(data) : o = last /\ o \in 0..last BY <1>0
    <3> QED BY <3>1 DEF Parses, ParsedFrom
  <2>3. last - 0 = last BY <1>0
  <2> HIDE DEF f
  <2>4. P(0) BY <2>1, <2>2, <2>3
  <2> HIDE DEF P
  <2> QED BY <2>4
<1>2. ASSUME NEW k \in T PROVE k + 1 \in T
  <2>1. k \in Nat OBVIOUS
  <2>2. SUFFICES ASSUME k + 1 <= last PROVE P(k + 1)
    <3> HIDE DEF P
    <3> QED BY <2>1
  <2>3. PICK m \in Nat : m = last - (k + 1) BY <1>0, <2>1, <2>2
  <2>4. m \in 0..last /\ m + 1 = last - k /\ m <= Len(data) BY <1>0, <2>1, <2>2, <2>3
  <2>5. PICK f : f = [o \in 0..last |-> f[o]] /\ Parses(f, data, last - k) BY <1>0, <2>1, <2>2
  <2> DEFINE g == [o \in 0..last |-> IF o = m THEN ParsedFrom(f, data, m) ELSE f[o]]
  <2>6. g = [o \in 0..last |-> g[o]] OBVIOUS
  <2>7. ASSUME NEW o \in m..last PROVE g[o] = ParsedFrom(g, data, o)
    <3>1. o \in Nat /\ o <= Len(data) /\ o \in 0..last BY <1>0
    <3>2. \A x \in o + 1 .. Len(data) : f[x] = g[x]
      <4>1. \A x \in o + 1 .. Len(data) : x # m /\ x \in 0..last BY <1>0
      <4> QED BY <4>1
    <3>3. ParsedFrom(f, data, o) = ParsedFrom(g, data, o)
      <4> HIDE DEF g
      <4> QED BY <3>1, <3>2, ParsedLater
    <3>4. CASE o = m BY <3>1, <3>3, <3>4
    <3>5. CASE o # m
      <4>1. o \in (last - k)..Len(data) BY <1>0, <2>4, <3>5
      <4>2. f[o] = ParsedFrom(f, data, o) BY <2>5, <4>1 DEF Parses
      <4> QED BY <3>1, <3>3, <3>5, <4>2
    <3> QED BY <3>4, <3>5
  <2> HIDE DEF g
  <2>8. Parses(g, data, m) BY <2>7 DEF Parses
  <2> QED BY <2>3, <2>6, <2>8
<1>3. T = Nat
  <2> HIDE DEF P
  <2>1. T \in SUBSET Nat OBVIOUS
  <2> HIDE DEF T
  <2> QED BY <1>1, <1>2, <2>1, EveryNumber
<1>4. last - last = 0 /\ last <= last BY <1>0
<1>5. P(last)
  <2> HIDE DEF P, last
  <2>1. last \in T BY <1>0, <1>3
  <2> QED BY <1>4, <2>1
<1>6. PICK f : f = [o \in 0..last |-> f[o]] /\ Parses(f, data, 0) BY <1>4, <1>5
<1>7. [o \in 0..last |-> f[o]] = [o \in 0..last |-> ParsedFrom(f, data, o)]
  BY <1>6 DEF Parses
<1> QED BY <1>6, <1>7

LEMMA ParseIs ==
    ASSUME NEW data \in Seq(Nat)
    PROVE  \E f : Parses(f, data, 0) /\ ParseFields(data) = f[0]
<1> DEFINE f == CHOOSE f : f = [o \in 0..Len(data) |-> ParsedFrom(f, data, o)]
<1>1. f = [o \in 0..Len(data) |-> ParsedFrom(f, data, o)] BY ParseExists
<1>2. ParseFields(data) = f[0] BY DEF ParseFields, ParsedFrom
<1> HIDE DEF f
<1>3. Parses(f, data, 0)
  <2> SUFFICES ASSUME NEW o \in 0..Len(data) PROVE f[o] = ParsedFrom(f, data, o) BY DEF Parses
  <2> QED BY <1>1
<1> QED BY <1>2, <1>3
------------------------------------------------------------------------------
Message(ws) == FlattenSeq([i \in DOMAIN ws |-> WireOf(ws[i])])

\* What is parsed of the fields ws.
ReadsAs(fields, ws) ==
    /\ fields \in Seq(WireFields) /\ Len(fields) = Len(ws)
    /\ \A i \in 1..Len(ws) : /\ fields[i].number = ws[i].number
                             /\ fields[i].type = ws[i].type
                             /\ fields[i].value = ws[i].value

LEMMA MapConcat ==
    ASSUME NEW a \in Seq(Written), NEW b \in Seq(Written)
    PROVE  LET Wires(ws) == [i \in DOMAIN ws |-> WireOf(ws[i])]
           IN /\ Wires(a) \in Seq(Seq(Nat))
              /\ Wires(a \o b) = Wires(a) \o Wires(b)
<1> DEFINE Wires(ws) == [i \in DOMAIN ws |-> WireOf(ws[i])]
<1>1. ASSUME NEW ws \in Seq(Written)
      PROVE  Wires(ws) \in Seq(Seq(Nat)) /\ Len(Wires(ws)) = Len(ws)
             /\ \A i \in 1..Len(ws) : Wires(ws)[i] = WireOf(ws[i])
  <2>1. DOMAIN ws = 1..Len(ws) /\ Len(ws) \in Nat BY LenProperties
  <2>2. \A i \in 1..Len(ws) : WireOf(ws[i]) \in Seq(Nat)
    <3>1. \A i \in 1..Len(ws) : ws[i] \in Written BY ElementOfSeq
    <3> QED BY <3>1, WireType
  <2>3. Wires(ws) = [i \in 1..Len(ws) |-> WireOf(ws[i])] BY <2>1
  <2>4. [i \in 1..Len(ws) |-> WireOf(ws[i])] \in Seq(Seq(Nat)) BY <2>1, <2>2, IsASeq
  <2>5. Len([i \in 1..Len(ws) |-> WireOf(ws[i])]) = Len(ws) BY <2>1
  <2> QED BY <2>3, <2>4, <2>5
<1> HIDE DEF Wires
<1>2. a \o b \in Seq(Written) /\ Len(a \o b) = Len(a) + Len(b)
      /\ \A i \in 1..Len(a) + Len(b) : (a \o b)[i] = IF i <= Len(a) THEN a[i] ELSE b[i - Len(a)]
  BY ConcatProperties
<1> DEFINE c == a \o b
           d == Wires(a) \o Wires(b)
<1>3. Wires(a) \in Seq(Seq(Nat)) /\ Len(Wires(a)) = Len(a)
      /\ \A i \in 1..Len(a) : Wires(a)[i] = WireOf(a[i]) BY <1>1
<1>4. Wires(b) \in Seq(Seq(Nat)) /\ Len(Wires(b)) = Len(b)
      /\ \A i \in 1..Len(b) : Wires(b)[i] = WireOf(b[i]) BY <1>1
<1>5. Wires(c) \in Seq(Seq(Nat)) /\ Len(Wires(c)) = Len(a) + Len(b)
      /\ \A i \in 1..Len(a) + Len(b) : Wires(c)[i] = WireOf(c[i]) BY <1>1, <1>2
<1>6. d \in Seq(Seq(Nat)) /\ Len(d) = Len(a) + Len(b)
      /\ \A i \in 1..Len(a) + Len(b) :
            d[i] = IF i <= Len(a) THEN Wires(a)[i] ELSE Wires(b)[i - Len(a)]
  <2> DEFINE p == Wires(a)
             q == Wires(b)
  <2>1. p \in Seq(Seq(Nat)) /\ q \in Seq(Seq(Nat)) /\ Len(p) = Len(a) /\ Len(q) = Len(b)
    BY <1>3, <1>4
  <2>2. d = p \o q OBVIOUS
  <2> HIDE DEF p, q
  <2>3. /\ p \o q \in Seq(Seq(Nat)) /\ Len(p \o q) = Len(p) + Len(q)
        /\ \A i \in 1..Len(p) + Len(q) : (p \o q)[i] = IF i <= Len(p) THEN p[i] ELSE q[i - Len(p)]
    BY ONLY <2>1, ConcatProperties
  <2> HIDE DEF d
  <2>4. d \in Seq(Seq(Nat)) /\ Len(d) = Len(a) + Len(b)
        /\ \A i \in 1..Len(a) + Len(b) : d[i] = IF i <= Len(a) THEN p[i] ELSE q[i - Len(a)]
    BY <2>1, <2>2, <2>3
  <2> QED BY <2>4 DEF p, q
<1>7. Len(a) \in Nat /\ Len(b) \in Nat BY LenProperties
<1>8. \A i \in 1..Len(a) + Len(b) : c[i] = IF i <= Len(a) THEN a[i] ELSE b[i - Len(a)] BY <1>2
<1> HIDE DEF c, d
<1>9. ASSUME NEW i \in 1..Len(a) + Len(b) PROVE Wires(c)[i] = d[i]
  <2>1. CASE i <= Len(a)
    <3>1. i \in 1..Len(a) BY <1>7, <2>1
    <3> QED BY <1>3, <1>5, <1>6, <1>8, <2>1, <3>1
  <2>2. CASE ~(i <= Len(a))
    <3>0. i - Len(a) \in 1..Len(b)
      <4> DEFINE la == Len(a)
                 lb == Len(b)
      <4>1. la \in Nat /\ lb \in Nat /\ i \in 1..la + lb /\ ~(i <= la) BY <1>7, <2>2
      <4> HIDE DEF la, lb
      <4>2. i - la \in 1..lb BY <4>1
      <4> QED BY <4>2 DEF la, lb
    <3>1. PICK j \in 1..Len(b) : j = i - Len(a) BY <3>0
    <3> QED BY <1>4, <1>5, <1>6, <1>8, <2>2, <3>1
  <2> QED BY <2>1, <2>2
<1>10. Wires(c) = d
  <2>1. \A i \in 1..Len(Wires(c)) : Wires(c)[i] = d[i] BY <1>5, <1>9
  <2> QED BY <1>5, <1>6, <2>1, SeqEqual
<1> QED BY <1>3, <1>10 DEF c, d, Wires

LEMMA MessageEmpty == Message(<<>>) = <<>>
<1>1. [i \in DOMAIN <<>> |-> WireOf(<<>>[i])] = <<>> OBVIOUS
<1> QED BY <1>1, FlattenEmpty DEF Message

\* A message is its fields' bytes, in a row.
LEMMA MessageConcat ==
    ASSUME NEW a \in Seq(Written), NEW b \in Seq(Written)
    PROVE  /\ Message(a) \in Seq(Nat)
           /\ Message(a \o b) = Message(a) \o Message(b)
<1> DEFINE Wires(ws) == [i \in DOMAIN ws |-> WireOf(ws[i])]
<1>1. Wires(a) \in Seq(Seq(Nat)) /\ Wires(b) \in Seq(Seq(Nat))
      /\ Wires(a \o b) = Wires(a) \o Wires(b)
  BY MapConcat
<1>2. Message(a) = FlattenSeq(Wires(a)) /\ Message(b) = FlattenSeq(Wires(b))
      /\ Message(a \o b) = FlattenSeq(Wires(a \o b)) BY DEF Message
<1> DEFINE p == Wires(a)
           q == Wires(b)
<1>3. p \in Seq(Seq(Nat)) /\ q \in Seq(Seq(Nat)) /\ Message(a) = FlattenSeq(p)
      /\ Message(b) = FlattenSeq(q) /\ Message(a \o b) = FlattenSeq(p \o q)
  <2> HIDE DEF Wires
  <2> QED BY <1>1, <1>2
<1> HIDE DEF p, q, Wires
<1>4. FlattenSeq(p) \in Seq(Nat) BY <1>3, FlattenType
<1>5. FlattenSeq(p \o q) = FlattenSeq(p) \o FlattenSeq(q) BY ONLY <1>3, FlattenConcat
<1> QED BY <1>3, <1>4, <1>5

LEMMA MessageOne ==
    ASSUME NEW w \in Written
    PROVE  Message(<<w>>) = WireOf(w)
<1>1. [i \in DOMAIN <<w>> |-> WireOf(<<w>>[i])] = <<WireOf(w)>> OBVIOUS
<1>2. WireOf(w) \in Seq(Nat) BY WireType
<1> QED BY <1>1, <1>2, FlattenOne DEF Message

\* A sequence is its head and its tail.
LEMMA HeadFirst ==
    ASSUME NEW S, NEW s \in Seq(S), s # <<>>
    PROVE  /\ Head(s) \in S /\ Tail(s) \in Seq(S) /\ Len(Tail(s)) = Len(s) - 1
           /\ s = <<Head(s)>> \o Tail(s)
<1> DEFINE h == <<s[1]>>
           t == Tail(s)
<1>1. Head(s) \in S /\ t \in Seq(S) /\ Len(t) = Len(s) - 1
      /\ \A i \in 1 .. Len(t) : t[i] = s[i + 1] BY HeadTailProperties
<1>2. Len(s) \in Nat /\ Len(s) # 0 BY EmptySeq, LenProperties
<1>3. h \in Seq(S) /\ Len(h) = 1 /\ h[1] = s[1] /\ Head(s) = s[1]
  <2>1. 1 \in 1..Len(s) BY <1>2
  <2>2. s[1] \in S BY <2>1, ElementOfSeq
  <2> QED BY <2>2
<1> HIDE DEF h, t
<1>4. /\ h \o t \in Seq(S) /\ Len(h \o t) = Len(h) + Len(t)
      /\ \A i \in 1 .. Len(h) + Len(t) : (h \o t)[i] = IF i <= Len(h) THEN h[i] ELSE t[i - Len(h)]
  <2>1. h \in Seq(S) /\ t \in Seq(S) BY <1>1, <1>3
  <2> QED BY ONLY <2>1, ConcatProperties
<1> DEFINE c == h \o t
<1>5. c \in Seq(S) /\ Len(c) = Len(s) BY <1>1, <1>2, <1>3, <1>4
<1>6. \A i \in 1..Len(s) : c[i] = IF i <= 1 THEN h[i] ELSE t[i - 1] BY <1>1, <1>2, <1>3, <1>4
<1> HIDE DEF c
<1>7. ASSUME NEW i \in 1..Len(s) PROVE c[i] = s[i]
  <2>1. CASE i <= 1
    <3>1. i = 1 BY <2>1
    <3> QED BY <1>3, <1>6, <3>1
  <2>2. CASE ~(i <= 1)
    <3>1. PICK j \in 1..Len(t) : j = i - 1 BY <1>1, <1>2, <2>2
    <3>2. j + 1 = i BY <3>1
    <3> QED BY <1>1, <1>6, <2>2, <3>1, <3>2
  <2> QED BY <2>1, <2>2
<1>8. c = s BY <1>5, <1>7, SeqEqual
<1> QED BY <1>1, <1>3, <1>8 DEF c, h, t

\* One more field in front.
LEMMA ReadsFirst ==
    ASSUME NEW field \in WireFields, NEW fields, NEW w \in Written, NEW ws \in Seq(Written),
           field.number = w.number, field.type = w.type, field.value = w.value,
           ReadsAs(fields, ws)
    PROVE  ReadsAs(<<field>> \o fields, <<w>> \o ws)
<1> DEFINE p == <<field>>
           q == <<w>>
           n == Len(ws)
<1>1. p \in Seq(WireFields) /\ Len(p) = 1 /\ p[1] = field
      /\ q \in Seq(Written) /\ Len(q) = 1 /\ q[1] = w OBVIOUS
<1>2. fields \in Seq(WireFields) /\ Len(fields) = n /\ n \in Nat
      /\ \A i \in 1..n : /\ fields[i].number = ws[i].number
                         /\ fields[i].type = ws[i].type
                         /\ fields[i].value = ws[i].value
  BY LenProperties DEF ReadsAs
<1> HIDE DEF p, q, n
<1> DEFINE c == p \o fields
           d == q \o ws
<1>3. /\ c \in Seq(WireFields) /\ Len(c) = 1 + n
      /\ \A i \in 1..1 + n : c[i] = IF i <= 1 THEN p[i] ELSE fields[i - 1]
  <2>1. p \in Seq(WireFields) /\ fields \in Seq(WireFields) BY <1>1, <1>2
  <2>2. /\ c \in Seq(WireFields) /\ Len(c) = Len(p) + Len(fields)
        /\ \A i \in 1..Len(p) + Len(fields) : c[i] = IF i <= Len(p) THEN p[i] ELSE fields[i - Len(p)]
    BY ONLY <2>1, ConcatProperties
  <2> HIDE DEF c
  <2> QED BY <1>1, <1>2, <2>2
<1>4. /\ d \in Seq(Written) /\ Len(d) = 1 + n
      /\ \A i \in 1..1 + n : d[i] = IF i <= 1 THEN q[i] ELSE ws[i - 1]
  <2>1. q \in Seq(Written) /\ ws \in Seq(Written) BY <1>1
  <2>2. /\ d \in Seq(Written) /\ Len(d) = Len(q) + Len(ws)
        /\ \A i \in 1..Len(q) + Len(ws) : d[i] = IF i <= Len(q) THEN q[i] ELSE ws[i - Len(q)]
    BY ONLY <2>1, ConcatProperties
  <2> HIDE DEF d
  <2>3. Len(ws) = n BY DEF n
  <2> QED BY <1>1, <2>2, <2>3
<1> HIDE DEF c, d
<1>5. ASSUME NEW i \in 1..1 + n
      PROVE  c[i].number = d[i].number /\ c[i].type = d[i].type /\ c[i].value = d[i].value
  <2>1. CASE i <= 1
    <3>1. i = 1 BY <2>1
    <3>2. c[i] = field /\ d[i] = w BY <1>1, <1>3, <1>4, <3>1
    <3> QED BY <3>2
  <2>2. CASE ~(i <= 1)
    <3>1. PICK j \in 1..n : j = i - 1 BY <1>2, <2>2
    <3>2. c[i] = fields[j] /\ d[i] = ws[j] BY <1>3, <1>4, <2>2, <3>1
    <3> QED BY <1>2, <3>2
  <2> QED BY <2>1, <2>2
<1>6. ReadsAs(c, d) BY <1>3, <1>4, <1>5 DEF ReadsAs
<1> QED BY <1>6 DEF c, d, p, q

LEMMA NothingRead == ReadsAs(<<>>, <<>>)
BY EmptySeq DEF ReadsAs

LEMMA MessageLong ==
    ASSUME NEW ws \in Seq(Written), ws # <<>>
    PROVE  Len(Message(ws)) >= 1
<1>1. PICK w \in Written, r \in Seq(Written) : ws = <<w>> \o r BY HeadFirst
<1>2. <<w>> \in Seq(Written) OBVIOUS
<1>3. Message(ws) = WireOf(w) \o Message(r) BY <1>1, <1>2, MessageConcat, MessageOne
<1>4. WireOf(w) \in Seq(Nat) /\ Message(r) \in Seq(Nat) /\ Len(WireOf(w)) \in Nat
      /\ Len(WireOf(w)) >= 1
  <2>1. WireOf(w) \in Seq(Nat) /\ Len(Head0(w)) \in Nat /\ Len(Head0(w)) >= 1 /\ Len(Body(w)) \in Nat
        /\ Len(WireOf(w)) = Len(Head0(w)) + Len(Body(w)) BY WireType
  <2> QED BY <2>1, MessageConcat
<1>5. Len(Message(ws)) = Len(WireOf(w)) + Len(Message(r))
  <2>1. Len(WireOf(w) \o Message(r)) = Len(WireOf(w)) + Len(Message(r)) BY <1>4, ConcatProperties
  <2> QED BY <1>3, <2>1
<1>6. Len(Message(r)) \in Nat BY <1>4, LenProperties
<1> QED BY <1>4, <1>5, <1>6
------------------------------------------------------------------------------
\* The rest of a message, or of the part of it that is there, from the end
\* of one of its fields on.
RestParsed(f, data, a, b) ==
    \/ /\ f[Len(Message(a))] = Malformed
       /\ Len(data) < Len(Message(a \o b)) \/ \E i \in 1..Len(b) : ~Short(b[i])
    \/ \E c, d \in Seq(Written) :
          /\ b = c \o d
          /\ Len(Message(a \o c)) = Len(data)
          /\ ReadsAs(f[Len(Message(a))], c)

(* The heart: whatever has been read, the rest of a message that may end early is
   read as the fields that are whole, or is Malformed.                        *)
LEMMA RestIsParsed ==
    ASSUME NEW data \in Seq(Nat), NEW f, Parses(f, data, 0),
           NEW a \in Seq(Written), NEW b \in Seq(Written),
           Follows(data, 0, Message(a \o b)), Len(data) <= Len(Message(a \o b)),
           Len(Message(a)) <= Len(data)
    PROVE  RestParsed(f, data, a, b)
<1> DEFINE Good(p, q) == /\ Follows(data, 0, Message(p \o q))
                         /\ Len(data) <= Len(Message(p \o q))
                         /\ Len(Message(p)) <= Len(data)
           T == {n \in Nat : \A p, q \in Seq(Written) :
                    Len(q) = n /\ Good(p, q) => RestParsed(f, data, p, q)}
<1>0. Len(data) \in Nat /\ \A s \in Seq(Written) : Len(Message(s)) \in Nat /\ Message(s) \in Seq(Nat)
  <2>1. \A s \in Seq(Written) : Message(s) \in Seq(Nat) BY MessageConcat
  <2> QED BY <2>1, LenProperties
<1>1. \A p, q \in Seq(Written) :
         Good(p, q) /\ Len(Message(p)) = Len(data) => RestParsed(f, data, p, q)
  <2> SUFFICES ASSUME NEW p \in Seq(Written), NEW q \in Seq(Written), Len(Message(p)) = Len(data)
               PROVE  RestParsed(f, data, p, q)
    OBVIOUS
  <2>1. f[Len(data)] = <<>>
    <3>1. Len(data) \in 0..Len(data) BY <1>0
    <3> QED BY <3>1 DEF Parses, ParsedFrom
  <2>2. p \o <<>> = p /\ q = <<>> \o q BY ConcatEmptySeq
  <2>3. <<>> \in Seq(Written) OBVIOUS
  <2> QED BY <2>1, <2>2, <2>3, NothingRead DEF RestParsed
<1>2. 0 \in T
  <2> SUFFICES ASSUME NEW p \in Seq(Written), NEW q \in Seq(Written), Len(q) = 0, Good(p, q)
               PROVE  RestParsed(f, data, p, q)
    OBVIOUS
  <2>1. q = <<>> BY EmptySeq
  <2>2. p \o q = p BY <2>1, ConcatEmptySeq
  <2>3. Len(Message(p)) = Len(data) BY <1>0, <2>2
  <2> QED BY <1>1, <2>3
<1>3. ASSUME NEW n \in T PROVE n + 1 \in T
  <2>0. n \in Nat OBVIOUS
  <2> SUFFICES ASSUME NEW p \in Seq(Written), NEW q \in Seq(Written), Len(q) = n + 1, Good(p, q)
               PROVE  RestParsed(f, data, p, q)
    BY <2>0
  <2>1. q # <<>> BY <2>0, EmptySeq
  <2>2. PICK w \in Written, r \in Seq(Written) : q = <<w>> \o r /\ Len(r) = Len(q) - 1
    BY <2>1, HeadFirst
  <2>3. Len(r) = n BY <2>0, <2>2
  <2> DEFINE pw == p \o <<w>>
             at == Len(Message(p))
             len == Len(WireOf(w))
  <2>4. pw \in Seq(Written) /\ pw \o r = p \o q /\ q \in Seq(Written)
    <3>1. <<w>> \in Seq(Written) OBVIOUS
    <3>2. pw \in Seq(Written) BY <3>1, ConcatProperties
    <3>3. (p \o <<w>>) \o r = p \o (<<w>> \o r)
      <4>1. p \in Seq(Written) /\ w \in Written /\ r \in Seq(Written) BY <2>2
      <4> QED BY ONLY <4>1, OneBetween
    <3> QED BY <2>2, <3>2, <3>3
  <2>5. Message(pw) = Message(p) \o WireOf(w) /\ Len(Message(pw)) = at + len
        /\ len \in Nat /\ len >= 1 /\ at \in Nat
    <3>1. <<w>> \in Seq(Written) OBVIOUS
    <3>2. Message(pw) = Message(p) \o WireOf(w)
      <4>1. p \in Seq(Written) /\ w \in Written OBVIOUS
      <4>2. Message(<<w>>) = WireOf(w) BY ONLY <4>1, MessageOne
      <4>3. Message(p \o <<w>>) = Message(p) \o Message(<<w>>)
        BY ONLY <3>1, <4>1, MessageConcat
      <4> QED BY <4>2, <4>3
    <3>3. WireOf(w) \in Seq(Nat) /\ Len(Head0(w)) \in Nat /\ Len(Head0(w)) >= 1
          /\ Len(Body(w)) \in Nat /\ Len(WireOf(w)) = Len(Head0(w)) + Len(Body(w)) BY WireType
    <3>4. Message(p) \in Seq(Nat) BY <1>0
    <3>5. Len(Message(p) \o WireOf(w)) = Len(Message(p)) + Len(WireOf(w))
      BY ONLY <3>3, <3>4, ConcatProperties
    <3>6. len \in Nat /\ len >= 1
      <4> DEFINE l1 == Len(Head0(w))
                 l2 == Len(Body(w))
      <4>1. l1 \in Nat /\ l1 >= 1 /\ l2 \in Nat /\ len = l1 + l2 BY <3>3
      <4> HIDE DEF l1, l2, len
      <4> QED BY <4>1
    <3>7. Len(Message(pw)) = at + len BY <3>2, <3>5
    <3> QED BY <1>0, <3>2, <3>6, <3>7
  <2>6. Follows(data, at, WireOf(w))
    <3>1. Message(pw \o r) = Message(pw) \o Message(r) BY <2>4, MessageConcat
    <3>2. Message(pw) \in Seq(Nat) /\ Message(r) \in Seq(Nat) BY <1>0, <2>4
    <3>3. Follows(data, 0, Message(pw) \o Message(r)) BY <2>4, <3>1
    <3>4. Follows(data, 0, Message(pw)) BY <3>2, <3>3, FollowsParts
    <3>5. Message(p) \in Seq(Nat) /\ WireOf(w) \in Seq(Nat) BY <1>0, WireType
    <3>6. Follows(data, 0, Message(p) \o WireOf(w)) BY <2>5, <3>4
    <3>7. Follows(data, 0 + Len(Message(p)), WireOf(w)) BY <3>5, <3>6, FollowsParts
    <3>8. 0 + Len(Message(p)) = at BY <2>5
    <3> QED BY <3>7, <3>8
  <2>7. CASE at = Len(data) BY <1>1, <2>7
  <2>8. CASE at # Len(data)
    <3> DEFINE field == FieldAfter(data, DecodeVarint(data, at))
               end == at + len
    <3>1. at \in 0..Len(data) /\ at <= Len(data) BY <1>0, <2>5
    <3>2. f[at] = FieldAndRest(field, f)
      <4>1. f[at] = ParsedFrom(f, data, at) BY <3>1 DEF Parses
      <4> QED BY <2>8, <4>1 DEF ParsedFrom
    <3>3. /\ end > Len(data) => field = Malformed
          /\ end <= Len(data) =>
                \/ field = Field(w.number, w.type, w.value, end)
                \/ field = Malformed /\ ~Short(w)
      BY <2>5, <2>6, <3>1, FieldRead
    <3>4. 1 \in 1..Len(q) /\ q[1] = w
      <4>1. 1 \in 1..Len(q) BY <2>0
      <4>2. <<w>> \in Seq(Written) /\ Len(<<w>>) = 1 /\ <<w>>[1] = w OBVIOUS
      <4>3. (<<w>> \o r)[1] = IF 1 <= Len(<<w>>) THEN <<w>>[1] ELSE r[1 - Len(<<w>>)]
        <5> DEFINE v == <<w>>
        <5>1. v \in Seq(Written) /\ Len(v) = 1 /\ Len(r) \in Nat BY <4>2, LenProperties
        <5> HIDE DEF v
        <5>2. \A i \in 1..Len(v) + Len(r) : (v \o r)[i] = IF i <= Len(v) THEN v[i] ELSE r[i - Len(v)]
          <6>1. r \in Seq(Written) OBVIOUS
          <6> QED BY ONLY <5>1, <6>1, ConcatProperties
        <5>3. 1 \in 1..Len(v) + Len(r) BY <5>1
        <5>4. (v \o r)[1] = IF 1 <= Len(v) THEN v[1] ELSE r[1 - Len(v)] BY <5>2, <5>3
        <5> QED BY <5>4 DEF v
      <4> QED BY <2>2, <4>1, <4>2, <4>3
    <3>5. CASE field = Malformed
      <4>1. f[at] = Malformed BY <3>2, <3>5 DEF FieldAndRest
      <4>2. CASE end > Len(data)
        <5>1. Len(data) < Len(Message(p \o q))
          <6>1. Message(pw \o r) = Message(pw) \o Message(r) BY <2>4, MessageConcat
          <6>2. Message(pw) \in Seq(Nat) /\ Message(r) \in Seq(Nat) /\ Len(Message(r)) \in Nat
            BY <1>0, <2>4
          <6>3. Len(Message(pw) \o Message(r)) = Len(Message(pw)) + Len(Message(r))
            BY <6>2, ConcatProperties
          <6>4. Len(Message(p \o q)) = end + Len(Message(r)) BY <2>4, <2>5, <6>1, <6>3
          <6> HIDE DEF end
          <6>5. end \in Int BY <2>5 DEF end
          <6> QED BY <1>0, <4>2, <6>2, <6>4, <6>5
        <5> QED BY <4>1, <5>1 DEF RestParsed
      <4>3. CASE ~(end > Len(data))
        <5>1. end <= Len(data) BY <1>0, <2>5, <4>3
        <5>2. Field(w.number, w.type, w.value, end) # Malformed
          <6>1. end \in Nat BY <2>5
          <6> HIDE DEF end
          <6>2. Field(w.number, w.type, w.value, end) \in WireFields
            <7>1. w.number \in Nat /\ w.type \in Nat /\ w.value \in Seq(Nat) BY WrittenIs
            <7> QED BY <6>1, <7>1 DEF Field, WireFields
          <6> QED BY <6>2, MalformedAssumption
        <5>3. ~Short(w) BY <3>3, <3>5, <5>1, <5>2
        <5> QED BY <3>4, <4>1, <5>3 DEF RestParsed
      <4> QED BY <4>2, <4>3
    <3>6. CASE field # Malformed
      <4>1. end <= Len(data) /\ field = Field(w.number, w.type, w.value, end)
        BY SMTT(20), <1>0, <2>5, <3>3, <3>6
      <4>2. field \in WireFields /\ field.number = w.number /\ field.type = w.type
            /\ field.value = w.value /\ field.end = end
        <5>1. end \in Nat BY <2>5
        <5> HIDE DEF end, field
        <5>2. w.number \in Nat /\ w.type \in Nat /\ w.value \in Seq(Nat) BY WrittenIs
        <5> QED BY <4>1, <5>1, <5>2 DEF Field, WireFields
      <4>3. f[at] = Before(field, f[end])
        <5> HIDE DEF field, end
        <5> QED BY <3>2, <3>6, <4>2 DEF FieldAndRest
      <4>4. Good(pw, r)
        <5>1. Len(Message(pw)) <= Len(data) BY <2>5, <4>1
        <5> QED BY <2>4, <5>1
      <4>5. RestParsed(f, data, pw, r) BY <2>3, <2>4, <4>4
      <4>6. Len(Message(pw)) = end BY <2>5
      <4> HIDE DEF field, end
      <4>7. CASE f[end] = Malformed
        <5>1. f[at] = Malformed BY <4>3, <4>7 DEF Before
        <5>2. \A c \in Seq(Written) : ~ReadsAs(f[end], c)
          BY <4>7, MalformedAssumption DEF ReadsAs
        <5>3. Len(data) < Len(Message(pw \o r)) \/ \E i \in 1..Len(r) : ~Short(r[i])
          BY <4>5, <4>6, <5>2 DEF RestParsed
        <5>4. CASE Len(data) < Len(Message(pw \o r)) BY <2>4, <5>1, <5>4 DEF RestParsed
        <5>5. CASE \E i \in 1..Len(r) : ~Short(r[i])
          <6>1. PICK i \in 1..Len(r) : ~Short(r[i]) BY <5>5
          <6>2. q[i + 1] = r[i] /\ i + 1 \in 1..Len(q)
            <7> DEFINE v == <<w>>
            <7>1. v \in Seq(Written) /\ Len(v) = 1 /\ Len(r) \in Nat BY LenProperties
            <7> HIDE DEF v
            <7>2. r \in Seq(Written) OBVIOUS
            <7>3. \A k \in 1..Len(v) + Len(r) :
                     (v \o r)[k] = IF k <= Len(v) THEN v[k] ELSE r[k - Len(v)]
              BY ONLY <7>1, <7>2, ConcatProperties
            <7>4. PICK k \in 1..Len(v) + Len(r) : k = i + 1 BY <7>1
            <7>5. k - Len(v) = i /\ ~(k <= Len(v)) BY <7>1, <7>4
            <7>6. (v \o r)[k] = r[i] BY <7>3, <7>5
            <7>7. k \in 1..Len(q) BY <2>0, <2>3, <7>1
            <7> QED BY <2>2, <7>4, <7>6, <7>7 DEF v
          <6> QED BY <5>1, <6>1, <6>2 DEF RestParsed
        <5> QED BY <5>3, <5>4, <5>5
      <4>8. CASE f[end] # Malformed
        <5>1. PICK c \in Seq(Written), d \in Seq(Written) :
                  r = c \o d /\ Len(Message(pw \o c)) = Len(data) /\ ReadsAs(f[end], c)
          BY <4>5, <4>6, <4>8 DEF RestParsed
        <5>2. <<w>> \in Seq(Written) OBVIOUS
        <5>3. f[at] = <<field>> \o f[end] BY <4>3, <4>8 DEF Before
        <5>4. ReadsAs(f[at], <<w>> \o c) BY <4>2, <5>1, <5>3, ReadsFirst
        <5>5. <<w>> \o c \in Seq(Written) BY <5>2, ConcatProperties
        <5>6. (<<w>> \o c) \o d = q
          <6>1. w \in Written /\ c \in Seq(Written) /\ d \in Seq(Written) OBVIOUS
          <6>2. (<<w>> \o c) \o d = <<w>> \o (c \o d) BY ONLY SMTT(40), <6>1, OneBefore
          <6> QED BY <2>2, <5>1, <6>2
        <5>7. p \o (<<w>> \o c) = pw \o c
          <6>1. c \in Seq(Written) /\ p \in Seq(Written) OBVIOUS
          <6>2. w \in Written OBVIOUS
          <6>3. (p \o <<w>>) \o c = p \o (<<w>> \o c) BY ONLY <6>1, <6>2, OneBetween
          <6> QED BY <6>3
        <5> QED BY <5>1, <5>4, <5>5, <5>6, <5>7 DEF RestParsed
      <4> QED BY <4>7, <4>8
    <3> QED BY <3>5, <3>6
  <2> QED BY <2>7, <2>8
<1>4. T = Nat
  <2>1. T \in SUBSET Nat OBVIOUS
  <2> HIDE DEF T
  <2> QED BY <1>2, <1>3, <2>1, EveryNumber
<1>5. Len(b) \in Nat /\ Good(a, b) BY LenProperties
<1>6. Len(b) \in T
  <2> HIDE DEF T
  <2> QED BY <1>4, <1>5
<1> QED BY <1>5, <1>6

------------------------------------------------------------------------------
\* What is asked of a message: the value of one of its fields.

AllShort(ws) == \A i \in 1..Len(ws) : Short(ws[i])

LEMMA FollowsItself ==
    ASSUME NEW s \in Seq(Nat)
    PROVE  Follows(s, 0, s)
<1>1. \A i \in 1..Len(s) : 0 + i = i OBVIOUS
<1> QED BY <1>1 DEF Follows

\* A whole message is read as the fields it was made of.
THEOREM MessageParsed ==
    ASSUME NEW ws \in Seq(Written), AllShort(ws)
    PROVE  ReadsAs(ParseFields(Message(ws)), ws)
<1> DEFINE m == Message(ws)
           none == <<>>
<1>1. m \in Seq(Nat) /\ Len(m) \in Nat
  <2>1. m \in Seq(Nat) BY MessageConcat
  <2> QED BY <2>1, LenProperties
<1>2. none \in Seq(Written) /\ none \o ws = ws /\ Message(none) = <<>> /\ Len(Message(none)) = 0
  BY ConcatEmptySeq, MessageEmpty
<1>3. PICK f : Parses(f, m, 0) /\ ParseFields(m) = f[0]
  <2> HIDE DEF m
  <2> QED BY <1>1, ParseIs
<1>4. Follows(m, 0, m) BY <1>1, FollowsItself
<1> HIDE DEF none
<1>5. RestParsed(f, m, none, ws)
  <2>1. Follows(m, 0, Message(none \o ws)) /\ Len(m) <= Len(Message(none \o ws))
        /\ Len(Message(none)) <= Len(m) BY <1>1, <1>2, <1>4
  <2> HIDE DEF m
  <2> QED BY <1>1, <1>2, <1>3, <2>1, RestIsParsed
<1>6. PICK c \in Seq(Written), d \in Seq(Written) :
         ws = c \o d /\ Len(Message(none \o c)) = Len(m) /\ ReadsAs(f[0], c)
  <2>1. ~(Len(m) < Len(Message(none \o ws))) BY <1>1, <1>2
  <2>2. ~ \E i \in 1..Len(ws) : ~Short(ws[i]) BY DEF AllShort
  <2> HIDE DEF m
  <2> QED BY <1>2, <1>5, <2>1, <2>2 DEF RestParsed
<1>7. none \o c = c BY ConcatEmptySeq DEF none
<1>8. Message(ws) = Message(c) \o Message(d) BY <1>6, MessageConcat
<1>9. Message(c) \in Seq(Nat) /\ Message(d) \in Seq(Nat) /\ Len(Message(c)) \in Nat
      /\ Len(Message(d)) \in Nat
  <2>1. Message(c) \in Seq(Nat) /\ Message(d) \in Seq(Nat) BY MessageConcat
  <2> QED BY <2>1, LenProperties
<1>10. Len(Message(ws)) = Len(Message(c)) + Len(Message(d))
  <2>1. Len(Message(c) \o Message(d)) = Len(Message(c)) + Len(Message(d))
    BY ONLY <1>9, ConcatProperties
  <2> QED BY <1>8, <2>1
<1>11. Len(Message(d)) = 0 BY <1>6, <1>7, <1>9, <1>10
<1>12. d = <<>> BY <1>11, MessageLong
<1>13. ws = c BY <1>6, <1>12, ConcatEmptySeq
<1> QED BY <1>3, <1>6, <1>13

\* What is parsed of a message that is cut: fewer of its fields, or nothing.
THEOREM CutParsed ==
    ASSUME NEW ws \in Seq(Written), NEW n \in 0..Len(Message(ws)) - 1
    PROVE  LET fields == ParseFields(SubSeq(Message(ws), 1, n))
           IN \/ fields = Malformed
              \/ \E c, d \in Seq(Written) : ws = c \o d /\ d # <<>> /\ ReadsAs(fields, c)
<1> DEFINE m == Message(ws)
           none == <<>>
           data == SubSeq(m, 1, n)
<1>1. m \in Seq(Nat) /\ Len(m) \in Nat
  <2>1. m \in Seq(Nat) BY MessageConcat
  <2> QED BY <2>1, LenProperties
<1>2. none \in Seq(Written) /\ none \o ws = ws /\ Message(none) = <<>> /\ Len(Message(none)) = 0
  BY ConcatEmptySeq, MessageEmpty
<1>3. data \in Seq(Nat) /\ Len(data) = n /\ \A i \in 1..n : data[i] = m[i]
  <2>1. n \in Nat /\ 1 \in Int /\ n \in Int /\ \A i \in 1..n : i \in 1..Len(m) BY <1>1
  <2>2. \A i \in 1..n : m[i] \in Nat BY <1>1, <2>1, ElementOfSeq
  <2> HIDE DEF m
  <2>3. /\ data \in Seq(Nat) /\ Len(data) = IF 1 <= n THEN n - 1 + 1 ELSE 0
        /\ \A i \in 1 .. n - 1 + 1 : data[i] = m[1 + i - 1]
    BY <2>1, <2>2, SubSeqProperties
  <2> HIDE DEF data
  <2>4. Len(data) = n BY <2>1, <2>3
  <2>5. ASSUME NEW i \in 1..n PROVE data[i] = m[i]
    <3>1. i \in 1 .. n - 1 + 1 /\ 1 + i - 1 = i BY <2>1
    <3> QED BY <2>3, <3>1
  <2> QED BY <2>3, <2>4, <2>5
<1> HIDE DEF data
<1>4. PICK f : Parses(f, data, 0) /\ ParseFields(data) = f[0] BY <1>3, ParseIs
<1>5. Follows(data, 0, m)
  <2> SUFFICES ASSUME NEW i \in 1..Len(m), 0 + i <= Len(data) PROVE data[0 + i] = m[i]
    BY DEF Follows
  <2>1. 0 + i = i /\ i \in 1..n BY <1>1, <1>3
  <2> QED BY <1>3, <2>1
<1>6. Len(data) < Len(m) BY <1>1, <1>3
<1> HIDE DEF none
<1>7. RestParsed(f, data, none, ws)
  <2>1. Follows(data, 0, Message(none \o ws)) /\ Len(data) <= Len(Message(none \o ws))
        /\ Len(Message(none)) <= Len(data) BY <1>1, <1>2, <1>3, <1>5, <1>6
  <2> HIDE DEF m
  <2> QED BY <1>2, <1>3, <1>4, <2>1, RestIsParsed
<1>8. CASE f[0] = Malformed BY <1>4, <1>8 DEF data
<1>9. CASE f[0] # Malformed
  <2>1. PICK c \in Seq(Written), d \in Seq(Written) :
         ws = c \o d /\ Len(Message(none \o c)) = Len(data) /\ ReadsAs(f[0], c)
    <3> HIDE DEF m
    <3> QED BY <1>2, <1>7, <1>9 DEF RestParsed
  <2>2. none \o c = c BY ConcatEmptySeq DEF none
  <2>3. d # <<>>
    <3> SUFFICES ASSUME d = <<>> PROVE FALSE OBVIOUS
    <3>1. ws = c BY <2>1, ConcatEmptySeq
    <3> QED BY <1>1, <1>3, <1>6, <2>1, <2>2, <3>1
  <2>4. \E p, q \in Seq(Written) : ws = p \o q /\ q # <<>> /\ ReadsAs(f[0], p) BY <2>1, <2>3
  <2> QED BY <1>4, <2>4 DEF data
<1> QED BY <1>8, <1>9
------------------------------------------------------------------------------
\* One field of a message, as the decoders look for it.
Lacks(ws, number) == \A i \in 1..Len(ws) : ws[i].number # number
Has(ws, w) ==
    \E i \in 1..Len(ws) :
       ws[i] = w /\ \A j \in 1..Len(ws) : ws[j].number = w.number => j = i

\* The fields of one number among those that were read.
LEMMA ReadNumbers ==
    ASSUME NEW fields, NEW ws \in Seq(Written), ReadsAs(fields, ws), NEW number
    PROVE  /\ fields # Malformed
           /\ Numbered(fields, number) = {i \in 1..Len(ws) : ws[i].number = number}
           /\ \A i \in 1..Len(ws) : fields[i].type = ws[i].type /\ fields[i].value = ws[i].value
<1>1. fields \in Seq(WireFields) /\ Len(fields) = Len(ws) BY DEF ReadsAs
<1>2. DOMAIN fields = 1..Len(ws) BY <1>1, LenProperties
<1> QED BY <1>1, <1>2, MalformedAssumption DEF ReadsAs, Numbered

LEMMA OptionalLacks ==
    ASSUME NEW fields, NEW ws \in Seq(Written), ReadsAs(fields, ws), NEW number, NEW type,
           Lacks(ws, number)
    PROVE  Optional(fields, number, type) = None
<1>1. fields # Malformed /\ Numbered(fields, number) = {}
  BY ReadNumbers DEF Lacks
<1> QED BY <1>1 DEF Optional

LEMMA OptionalHas ==
    ASSUME NEW fields, NEW ws \in Seq(Written), ReadsAs(fields, ws), NEW w, Has(ws, w)
    PROVE  Optional(fields, w.number, w.type) = w.value
<1>1. PICK i \in 1..Len(ws) : ws[i] = w /\ \A j \in 1..Len(ws) : ws[j].number = w.number => j = i
  BY DEF Has
<1> DEFINE found == Numbered(fields, w.number)
<1>2. fields # Malformed /\ found = {i} /\ fields[i].type = w.type /\ fields[i].value = w.value
  <2>1. /\ fields # Malformed /\ found = {j \in 1..Len(ws) : ws[j].number = w.number}
        /\ fields[i].type = ws[i].type /\ fields[i].value = ws[i].value
    BY <1>1, ReadNumbers
  <2> QED BY <1>1, <2>1
<1>3. Optional(fields, w.number, w.type) =
         IF \/ \E k \in found : fields[k].type # w.type
            \/ \E k, j \in found : k # j
         THEN Malformed
         ELSE IF found = {} THEN None ELSE fields[CHOOSE k \in found : TRUE].value
  BY <1>2 DEF Optional
<1> HIDE DEF found
<1>4. (CHOOSE k \in found : TRUE) = i /\ found # {} BY <1>2
<1>5. ~ \E k \in found : fields[k].type # w.type BY <1>2
<1>6. ~ \E k, j \in found : k # j BY <1>2
<1> QED BY <1>2, <1>3, <1>4, <1>5, <1>6

\* A message that holds one such field, and one that has no such field.
Holds(m, w) == \E ws \in Seq(Written) : AllShort(ws) /\ m = Message(ws) /\ Has(ws, w)
Omits(m, number) ==
    \E ws \in Seq(Written) : AllShort(ws) /\ m = Message(ws) /\ Lacks(ws, number)

\* The value of a field that a message holds once.
LEMMA HoldsRead ==
    ASSUME NEW m, NEW w, Holds(m, w)
    PROVE  /\ m \in Seq(Nat) /\ FieldsOf(m) # Malformed
           /\ Optional(FieldsOf(m), w.number, w.type) = w.value
<1>1. PICK ws \in Seq(Written) : AllShort(ws) /\ m = Message(ws) /\ Has(ws, w) BY DEF Holds
<1>2. m \in Seq(Nat) BY <1>1, MessageConcat
<1>3. FieldsOf(m) = ParseFields(m) BY <1>2, MalformedAssumption DEF FieldsOf
<1>4. ReadsAs(ParseFields(m), ws) BY <1>1, MessageParsed
<1> QED BY <1>1, <1>2, <1>3, <1>4, OptionalHas, ReadNumbers

\* None, for a number that a message does not hold.
LEMMA OmitsRead ==
    ASSUME NEW m, NEW number, Omits(m, number)
    PROVE  /\ m \in Seq(Nat) /\ FieldsOf(m) # Malformed
           /\ \A type : Optional(FieldsOf(m), number, type) = None
<1>1. PICK ws \in Seq(Written) : AllShort(ws) /\ m = Message(ws) /\ Lacks(ws, number) BY DEF Omits
<1>2. m \in Seq(Nat) BY <1>1, MessageConcat
<1>3. FieldsOf(m) = ParseFields(m) BY <1>2, MalformedAssumption DEF FieldsOf
<1>4. ReadsAs(ParseFields(m), ws) BY <1>1, MessageParsed
<1> QED BY <1>1, <1>2, <1>3, <1>4, OptionalLacks, ReadNumbers

LEMMA OmitsEmpty ==
    ASSUME NEW number
    PROVE  Omits(<<>>, number)
<1>1. <<>> \in Seq(Written) /\ AllShort(<<>>) /\ Lacks(<<>>, number) BY DEF AllShort, Lacks
<1> QED BY <1>1, MessageEmpty DEF Omits

\* The elements of a concatenation.
LEMMA Indexed ==
    ASSUME NEW S, NEW a \in Seq(S), NEW b \in Seq(S)
    PROVE  /\ a \o b \in Seq(S) /\ Len(a) \in Nat /\ Len(b) \in Nat /\ Len(a \o b) = Len(a) + Len(b)
           /\ \A i \in 1..Len(a) : i \in 1..Len(a \o b) /\ (a \o b)[i] = a[i]
           /\ \A i \in 1..Len(b) : Len(a) + i \in 1..Len(a \o b) /\ (a \o b)[Len(a) + i] = b[i]
           /\ \A i \in 1..Len(a \o b) :
                 \/ i \in 1..Len(a) /\ (a \o b)[i] = a[i]
                 \/ \E j \in 1..Len(b) : i = Len(a) + j /\ (a \o b)[i] = b[j]
<1> DEFINE c == a \o b
           la == Len(a)
           lb == Len(b)
<1>1. /\ c \in Seq(S) /\ Len(c) = la + lb
      /\ \A i \in 1..la + lb : c[i] = IF i <= la THEN a[i] ELSE b[i - la]
  BY ConcatProperties
<1>2. la \in Nat /\ lb \in Nat BY LenProperties
<1> HIDE DEF c, la, lb
<1>3. ASSUME NEW i \in 1..la PROVE i \in 1..Len(c) /\ c[i] = a[i]
  <2>1. i \in 1..la + lb /\ i <= la BY <1>2
  <2> QED BY <1>1, <2>1
<1>4. ASSUME NEW i \in 1..lb PROVE la + i \in 1..Len(c) /\ c[la + i] = b[i]
  <2>1. PICK k \in 1..la + lb : k = la + i BY <1>2
  <2>2. ~(k <= la) /\ k - la = i BY <1>2, <2>1
  <2> QED BY <1>1, <2>1, <2>2
<1>5. ASSUME NEW i \in 1..Len(c)
      PROVE  \/ i \in 1..la /\ c[i] = a[i]
             \/ \E j \in 1..lb : i = la + j /\ c[i] = b[j]
  <2>1. CASE i <= la
    <3>1. i \in 1..la BY <1>1, <1>2, <2>1
    <3> QED BY <1>3, <3>1
  <2>2. CASE ~(i <= la)
    <3>1. PICK j \in 1..lb : j = i - la BY <1>1, <1>2, <2>2
    <3>2. i = la + j BY <1>1, <1>2, <3>1
    <3>3. c[i] = b[j] BY <1>4, <3>2
    <3> QED BY <3>2, <3>3
  <2> QED BY <2>1, <2>2
<1> QED BY <1>1, <1>2, <1>3, <1>4, <1>5 DEF c, la, lb

\* Every element of a concatenation comes from one of its halves.
LEMMA EveryIndex ==
    ASSUME NEW S, NEW a \in Seq(S), NEW b \in Seq(S)
    PROVE  /\ a \o b \in Seq(S) /\ Len(a \o b) = Len(a) + Len(b)
           /\ \A i \in 1..Len(a \o b) :
                 \/ i \in 1..Len(a) /\ (a \o b)[i] = a[i]
                 \/ \E j \in 1..Len(b) : i = Len(a) + j /\ (a \o b)[i] = b[j]
BY Indexed

LEMMA ShortBoth ==
    ASSUME NEW a \in Seq(Written), NEW b \in Seq(Written), AllShort(a), AllShort(b)
    PROVE  AllShort(a \o b)
BY Indexed DEF AllShort

LEMMA LacksBoth ==
    ASSUME NEW a \in Seq(Written), NEW b \in Seq(Written), NEW n, Lacks(a, n), Lacks(b, n)
    PROVE  Lacks(a \o b, n)
BY Indexed DEF Lacks

LEMMA HasOne ==
    ASSUME NEW a \in Seq(Written), NEW b \in Seq(Written), NEW w
    PROVE  /\ Has(a, w) /\ Lacks(b, w.number) => Has(a \o b, w)
           /\ Lacks(a, w.number) /\ Has(b, w) => Has(a \o b, w)
<1> DEFINE c == a \o b
<1>1. ASSUME Has(a, w), Lacks(b, w.number) PROVE Has(c, w)
  <2>1. PICK i \in 1..Len(a) : a[i] = w /\ \A j \in 1..Len(a) : a[j].number = w.number => j = i
    BY <1>1 DEF Has
  <2>2. i \in 1..Len(c) /\ c[i] = w BY <2>1, Indexed
  <2>3. ASSUME NEW k \in 1..Len(c), c[k].number = w.number PROVE k = i
    <3>1. CASE k \in 1..Len(a) /\ c[k] = a[k] BY <2>1, <2>3, <3>1
    <3>2. CASE \E j \in 1..Len(b) : k = Len(a) + j /\ c[k] = b[j]
      BY <1>1, <2>3, <3>2 DEF Lacks
    <3> QED BY <3>1, <3>2, Indexed
  <2> HIDE DEF c
  <2> QED BY <2>2, <2>3 DEF Has
<1>2. ASSUME Lacks(a, w.number), Has(b, w) PROVE Has(c, w)
  <2>1. PICK i \in 1..Len(b) : b[i] = w /\ \A j \in 1..Len(b) : b[j].number = w.number => j = i
    BY <1>2 DEF Has
  <2>2. Len(a) + i \in 1..Len(c) /\ c[Len(a) + i] = w BY <2>1, Indexed
  <2>3. ASSUME NEW k \in 1..Len(c), c[k].number = w.number PROVE k = Len(a) + i
    <3>1. CASE k \in 1..Len(a) /\ c[k] = a[k] BY <1>2, <2>3, <3>1 DEF Lacks
    <3>2. CASE \E j \in 1..Len(b) : k = Len(a) + j /\ c[k] = b[j] BY <2>1, <2>3, <3>2
    <3> QED BY <3>1, <3>2, Indexed
  <2> HIDE DEF c
  <2> QED BY <2>2, <2>3 DEF Has
<1> QED BY <1>1, <1>2

LEMMA OmitsBoth ==
    ASSUME NEW a, NEW b, NEW number, Omits(a, number), Omits(b, number)
    PROVE  Omits(a \o b, number)
<1>1. PICK p \in Seq(Written) : AllShort(p) /\ a = Message(p) /\ Lacks(p, number) BY DEF Omits
<1>2. PICK q \in Seq(Written) : AllShort(q) /\ b = Message(q) /\ Lacks(q, number) BY DEF Omits
<1>3. p \o q \in Seq(Written) BY Indexed
<1>4. a \o b = Message(p \o q) BY <1>1, <1>2, MessageConcat
<1>5. AllShort(p \o q) /\ Lacks(p \o q, number) BY <1>1, <1>2, ShortBoth, LacksBoth
<1> QED BY <1>3, <1>4, <1>5 DEF Omits

LEMMA HoldsOne ==
    ASSUME NEW a, NEW b, NEW w
    PROVE  /\ Holds(a, w) /\ Omits(b, w.number) => Holds(a \o b, w)
           /\ Omits(a, w.number) /\ Holds(b, w) => Holds(a \o b, w)
<1>1. ASSUME Holds(a, w), Omits(b, w.number) PROVE Holds(a \o b, w)
  <2>1. PICK p \in Seq(Written) : AllShort(p) /\ a = Message(p) /\ Has(p, w) BY <1>1 DEF Holds
  <2>2. PICK q \in Seq(Written) : AllShort(q) /\ b = Message(q) /\ Lacks(q, w.number)
    BY <1>1 DEF Omits
  <2>3. p \o q \in Seq(Written) BY Indexed
  <2>4. a \o b = Message(p \o q) BY <2>1, <2>2, MessageConcat
  <2>5. AllShort(p \o q) /\ Has(p \o q, w) BY <2>1, <2>2, ShortBoth, HasOne
  <2> QED BY <2>3, <2>4, <2>5 DEF Holds
<1>2. ASSUME Omits(a, w.number), Holds(b, w) PROVE Holds(a \o b, w)
  <2>1. PICK p \in Seq(Written) : AllShort(p) /\ a = Message(p) /\ Lacks(p, w.number)
    BY <1>2 DEF Omits
  <2>2. PICK q \in Seq(Written) : AllShort(q) /\ b = Message(q) /\ Has(q, w)
    BY <1>2 DEF Holds
  <2>3. p \o q \in Seq(Written) BY Indexed
  <2>4. a \o b = Message(p \o q) BY <2>1, <2>2, MessageConcat
  <2>5. AllShort(p \o q) /\ Has(p \o q, w) BY <2>1, <2>2, ShortBoth, HasOne
  <2> QED BY <2>3, <2>4, <2>5 DEF Holds
<1> QED BY <1>1, <1>2

\* A message of one field.
LEMMA FieldAlone ==
    ASSUME NEW w \in Written, Short(w)
    PROVE  /\ Holds(WireOf(w), w)
           /\ \A number : number # w.number => Omits(WireOf(w), number)
<1> DEFINE ws == <<w>>
<1>1. ws \in Seq(Written) /\ Len(ws) = 1 /\ ws[1] = w /\ Message(ws) = WireOf(w)
  BY MessageOne
<1> HIDE DEF ws
<1>2. AllShort(ws) BY <1>1 DEF AllShort
<1>3. Has(ws, w) BY <1>1 DEF Has
<1>4. \A number : number # w.number => Lacks(ws, number) BY <1>1 DEF Lacks
<1> QED BY <1>1, <1>2, <1>3, <1>4 DEF Holds, Omits

Piece(number, type, value) == [number |-> number, type |-> type, value |-> value]

LEMMA AmpleTags ==
    ASSUME NEW n \in 1..15, NEW t \in {0, 1, 2, 5}
    PROVE  8 * n + t \in Nat /\ 8 * n + t < Ample
BY SMT DEF Ample

LEMMA PieceParts ==
    ASSUME NEW n \in 1..15, NEW t \in {0, 1, 2, 5}, NEW v
    PROVE  /\ Piece(n, t, v).number = n /\ Piece(n, t, v).type = t /\ Piece(n, t, v).value = v
           /\ Head0(Piece(n, t, v)) = EncodeVarint[8 * n + t] /\ Tag(n, t) = EncodeVarint[8 * n + t]
           /\ Len(EncodeVarint[8 * n + t]) \in 1..4
           /\ EncodeVarint[8 * n + t] \in Seq(Nat)
<1>1. 8 * n + t \in Nat /\ 8 * n + t < Ample BY SMT, AmpleTags
<1>2. Len(EncodeVarint[8 * n + t]) \in 1..4 BY SMT, <1>1, FewGroups
<1>3. EncodeVarint[8 * n + t] \in Seq(Nat) BY SMT, <1>1, VarintBytes DEF IsVarint
<1>4. Piece(n, t, v).number = n /\ Piece(n, t, v).type = t /\ Piece(n, t, v).value = v
  BY DEF Piece
<1>5. Head0(Piece(n, t, v)) = EncodeVarint[8 * n + t] BY <1>4 DEF Head0
<1>6. Tag(n, t) = EncodeVarint[8 * n + t] BY DEF Tag
<1> QED BY <1>2, <1>3, <1>4, <1>5, <1>6

\* What there is to say of a field that is written.
OnItsOwn(m, w, length) ==
    /\ m \in Seq(Nat) /\ Len(m) \in Nat /\ Len(m) <= length
    /\ Holds(m, w)
    /\ \A number : number # w.number => Omits(m, number)

LEMMA AloneFrom ==
    ASSUME NEW w \in Written, Len(Head0(w)) \in 1..4, NEW length \in Nat, Len(Body(w)) <= length,
           w.type = 0 => Len(EncodeVarint[w.value[1]]) \in 1..4,
           w.type = 2 => Len(EncodeVarint[Len(w.value)]) \in 1..4
    PROVE  OnItsOwn(WireOf(w), w, length + 4)
<1>1. \A x \in 1..4 : x <= MaxGroups BY DEF MaxGroups
<1>2. Short(w) BY <1>1 DEF Short
<1>3. WireOf(w) \in Seq(Nat) /\ Len(WireOf(w)) = Len(Head0(w)) + Len(Body(w))
      /\ Len(Body(w)) \in Nat BY WireType
<1>4. Len(WireOf(w)) \in Nat /\ Len(WireOf(w)) <= length + 4
  <2> DEFINE a == Len(Head0(w))
             b == Len(Body(w))
             c == Len(WireOf(w))
  <2>1. c = a + b /\ b \in Nat /\ a \in 1..4 /\ b <= length BY <1>3
  <2> HIDE DEF a, b, c
  <2>2. c \in Nat /\ c <= length + 4 BY <2>1
  <2> QED BY <2>2 DEF c
<1> QED BY <1>2, <1>3, <1>4, FieldAlone DEF OnItsOwn

\* Such messages: a field of bytes, of a varint, of a fixed number.
LEMMA BytesAlone ==
    ASSUME NEW n \in 1..15, NEW v \in Seq(Nat), Len(v) < Ample
    PROVE  OnItsOwn(Bytes(n, v), Piece(n, 2, v), Len(v) + 8)
<1> DEFINE w == Piece(n, 2, v)
<1>1. w.number = n /\ w.type = 2 /\ w.value = v /\ Head0(w) = Tag(n, 2) /\ Len(Head0(w)) \in 1..4
  BY PieceParts
<1>2. w \in Written BY DEF Written, Piece
<1>3. Len(v) \in Nat BY LenProperties
<1>4. Len(EncodeVarint[Len(v)]) \in 1..4 /\ EncodeVarint[Len(v)] \in Seq(Nat)
  BY SMT, <1>3, FewGroups, VarintBytes DEF IsVarint
<1> HIDE DEF w
<1>5. Body(w) = EncodeVarint[Len(v)] \o v BY <1>1 DEF Body
<1>6. Len(Body(w)) <= Len(v) + 4
  <2> DEFINE e == EncodeVarint[Len(v)]
  <2>1. e \in Seq(Nat) /\ Len(e) \in 1..4 /\ Body(w) = e \o v BY <1>4, <1>5
  <2> HIDE DEF e
  <2>2. v \in Seq(Nat) OBVIOUS
  <2>3. Len(e \o v) = Len(e) + Len(v) BY ONLY <2>1, <2>2, ConcatProperties
  <2>4. Len(Body(w)) = Len(e) + Len(v) BY <2>1, <2>3
  <2> DEFINE a == Len(e)
             b == Len(v)
             c == Len(Body(w))
  <2>5. a \in 1..4 /\ b \in Nat /\ c = a + b BY <1>3, <2>1, <2>4
  <2> HIDE DEF a, b, c
  <2>6. c <= b + 4 BY <2>5
  <2> QED BY <2>6 DEF b, c
<1>7. Len(v) + 4 \in Nat BY <1>3
<1>8. OnItsOwn(WireOf(w), w, Len(v) + 4 + 4)
  <2>1. PICK l \in Nat : l = Len(v) + 4 BY <1>7
  <2>2. Len(EncodeVarint[Len(w.value)]) \in 1..4 BY <1>1, <1>4
  <2>3. w.type # 0 BY <1>1
  <2>4. Len(Body(w)) <= l BY <1>6, <2>1
  <2>5. OnItsOwn(WireOf(w), w, l + 4) BY <1>1, <1>2, <2>2, <2>3, <2>4, AloneFrom
  <2> QED BY <2>1, <2>5
<1>9. Bytes(n, v) = WireOf(w)
  <2> DEFINE h == Tag(n, 2)
             e == EncodeVarint[Len(v)]
  <2>1. h \in Seq(Nat) /\ e \in Seq(Nat) /\ v \in Seq(Nat) BY <1>4, PieceParts
  <2>2. Bytes(n, v) = (h \o e) \o v BY DEF Bytes
  <2>3. WireOf(w) = h \o (e \o v) BY <1>1, <1>5 DEF WireOf
  <2> HIDE DEF h, e
  <2>4. (h \o e) \o v = h \o (e \o v) BY ONLY SMTT(20), <2>1, ConcatAssociative
  <2> QED BY <2>2, <2>3, <2>4
<1>10. Len(v) + 4 + 4 = Len(v) + 8 BY <1>3
<1> QED BY <1>8, <1>9, <1>10 DEF w

LEMMA VarintAlone ==
    ASSUME NEW n \in 1..15, NEW v \in Nat, v < Ample
    PROVE  OnItsOwn(Varint(n, v), Piece(n, 0, <<v>>), 8)
<1> DEFINE w == Piece(n, 0, <<v>>)
<1>1. w.number = n /\ w.type = 0 /\ w.value = <<v>> /\ Head0(w) = Tag(n, 0)
      /\ Len(Head0(w)) \in 1..4
  BY PieceParts
<1>2. w \in Written BY DEF Written, Piece, Fixed
<1>3. Len(EncodeVarint[v]) \in 1..4 BY SMT, FewGroups
<1> HIDE DEF w
<1>4. Body(w) = EncodeVarint[v] /\ w.value[1] = v BY <1>1 DEF Body
<1>5. OnItsOwn(WireOf(w), w, 4 + 4)
  <2>1. Len(Body(w)) <= 4
    <3> DEFINE a == Len(EncodeVarint[v])
    <3>1. Len(Body(w)) = a /\ a \in 1..4 BY <1>3, <1>4
    <3> HIDE DEF a
    <3> QED BY <3>1
  <2>2. Len(EncodeVarint[w.value[1]]) \in 1..4 BY <1>3, <1>4
  <2>3. w.type # 2 BY <1>1
  <2> QED BY <1>1, <1>2, <2>1, <2>2, <2>3, AloneFrom
<1>6. Varint(n, v) = WireOf(w) BY <1>1, <1>4 DEF Varint, WireOf
<1> QED BY <1>5, <1>6 DEF w

LEMMA FixedAlone ==
    ASSUME NEW n \in 1..15, NEW v \in Nat
    PROVE  /\ OnItsOwn(Fixed64(n, v), Piece(n, 1, [i \in 1..8 |-> v]), 12)
           /\ OnItsOwn(Fixed32(n, v), Piece(n, 5, [i \in 1..4 |-> v]), 8)
<1>1. ASSUME NEW t \in {1, 5}, NEW s \in {4, 8}, t = 1 <=> s = 8
      PROVE  LET w == Piece(n, t, [i \in 1..s |-> v])
             IN OnItsOwn(Tag(n, t) \o [i \in 1..s |-> v], w, s + 4)
  <2> DEFINE b == [i \in 1..s |-> v]
             w == Piece(n, t, b)
  <2>1. b \in Seq(Nat) /\ Len(b) = s
    <3>1. s \in Nat OBVIOUS
    <3> QED BY <3>1, IsASeq
  <2> HIDE DEF b
  <2>2. w.number = n /\ w.type = t /\ w.value = b /\ Head0(w) = Tag(n, t)
        /\ Len(Head0(w)) \in 1..4
    BY PieceParts
  <2>3. w \in Written
    <3>1. CASE t = 1 BY <1>1, <2>1, <3>1 DEF Written, Piece, Fixed
    <3>2. CASE t = 5
      <4>1. s = 4 BY <1>1, <3>2
      <4> QED BY SMTT(20), <2>1, <3>2, <4>1 DEF Written, Piece, Fixed
    <3> QED BY <3>1, <3>2
  <2> HIDE DEF w
  <2>4. Body(w) = b
    <3>1. t # 0 /\ t # 2 OBVIOUS
    <3> QED BY <2>2, <3>1 DEF Body
  <2>5. OnItsOwn(WireOf(w), w, s + 4)
    <3>1. s \in Nat /\ Len(Body(w)) <= s BY <2>1, <2>4
    <3>2. w.type # 0 /\ w.type # 2 BY <2>2
    <3> QED BY <2>2, <2>3, <3>1, <3>2, AloneFrom
  <2>6. WireOf(w) = Tag(n, t) \o b BY <2>2, <2>4 DEF WireOf
  <2> QED BY <2>5, <2>6 DEF w, b
<1>2. OnItsOwn(Tag(n, 1) \o [i \in 1..8 |-> v], Piece(n, 1, [i \in 1..8 |-> v]), 8 + 4) BY <1>1
<1>3. OnItsOwn(Tag(n, 5) \o [i \in 1..4 |-> v], Piece(n, 5, [i \in 1..4 |-> v]), 4 + 4) BY <1>1
<1> QED BY <1>2, <1>3 DEF Fixed64, Fixed32

------------------------------------------------------------------------------
\* Identifiers, as the SDK and the firmware write them.

Sized(m, length) == m \in Seq(Nat) /\ Len(m) <= length

\* Bounds on the lengths of messages.
LEMMA SizedBoth ==
    ASSUME NEW a, NEW b, NEW x \in Nat, NEW y \in Nat, Sized(a, x), Sized(b, y),
           NEW z \in Nat, x + y <= z
    PROVE  Sized(a \o b, z)
<1>1. a \in Seq(Nat) /\ b \in Seq(Nat) /\ Len(a) <= x /\ Len(b) <= y BY DEF Sized
<1>2. Len(a) \in Nat /\ Len(b) \in Nat BY <1>1, LenProperties
<1>3. a \o b \in Seq(Nat) /\ Len(a \o b) = Len(a) + Len(b) BY ONLY <1>1, ConcatProperties
<1>4. Len(a) + Len(b) <= z BY <1>1, <1>2
<1> QED BY <1>3, <1>4 DEF Sized

LEMMA Nested ==
    ASSUME NEW n \in 1..15, NEW v, NEW k \in Nat, k < Ample, Sized(v, k),
           NEW l \in Nat, k + 8 <= l
    PROVE  /\ Sized(Bytes(n, v), l)
           /\ Holds(Bytes(n, v), Piece(n, 2, v))
           /\ \A number : number # n => Omits(Bytes(n, v), number)
<1>1. v \in Seq(Nat) /\ Len(v) <= k BY DEF Sized
<1>2. Len(v) \in Nat /\ Ample \in Nat BY <1>1, LenProperties DEF Ample
<1>3. Len(v) < Ample BY <1>1, <1>2
<1>4. OnItsOwn(Bytes(n, v), Piece(n, 2, v), Len(v) + 8) BY <1>1, <1>3, BytesAlone
<1>5. Piece(n, 2, v).number = n BY DEF Piece
<1>6. Bytes(n, v) \in Seq(Nat) /\ Len(Bytes(n, v)) \in Nat /\ Len(Bytes(n, v)) <= Len(v) + 8
  BY <1>4 DEF OnItsOwn
<1>7. Len(Bytes(n, v)) <= l BY <1>1, <1>2, <1>6
<1> QED BY <1>4, <1>5, <1>6, <1>7 DEF OnItsOwn, Sized

LEMMA WithinHolds ==
    ASSUME NEW m, NEW n \in 1..15, NEW v \in Seq(Nat), Holds(m, Piece(n, 2, v))
    PROVE  Within(m, n) = v
<1>1. Piece(n, 2, v).number = n /\ Piece(n, 2, v).type = 2 /\ Piece(n, 2, v).value = v
  BY DEF Piece
<1>2. Optional(FieldsOf(m), n, 2) = v BY <1>1, HoldsRead
<1>3. v # None BY MarksAssumption
<1> QED BY <1>2, <1>3 DEF Within, Required

\* One half of a UUID, left out when it is zero.
Half(n, h) == When(h # 0, Fixed64(n, h))

\* Half of an identifier.
LEMMA HalfRead ==
    ASSUME NEW n \in {1, 2}, NEW h \in Nat
    PROVE  /\ Sized(Half(n, h), 12)
           /\ IF h = 0 THEN Omits(Half(n, h), n) ELSE Holds(Half(n, h), Piece(n, 1, [i \in 1..8 |-> h]))
           /\ \A number : number # n => Omits(Half(n, h), number)
<1>1. CASE h = 0
  <2>1. Half(n, h) = <<>> BY <1>1 DEF Half, When
  <2>2. Sized(<<>>, 12)
    <3>1. <<>> \in Seq(Nat) /\ Len(<<>>) = 0 OBVIOUS
    <3> QED BY <3>1 DEF Sized
  <2>3. \A number : Omits(<<>>, number) BY OmitsEmpty
  <2> QED BY <1>1, <2>1, <2>2, <2>3
<1>2. CASE h # 0
  <2>1. Half(n, h) = Fixed64(n, h) BY <1>2 DEF Half, When
  <2>2. n \in 1..15 OBVIOUS
  <2>3. OnItsOwn(Fixed64(n, h), Piece(n, 1, [i \in 1..8 |-> h]), 12) BY <2>2, FixedAlone
  <2>4. Piece(n, 1, [i \in 1..8 |-> h]).number = n BY DEF Piece
  <2>5. Sized(Fixed64(n, h), 12) BY <2>3 DEF OnItsOwn, Sized
  <2>6. Holds(Fixed64(n, h), Piece(n, 1, [i \in 1..8 |-> h]))
        /\ \A number : number # n => Omits(Fixed64(n, h), number) BY <2>3, <2>4 DEF OnItsOwn
  <2> QED BY <1>2, <2>1, <2>5, <2>6
<1> QED BY <1>1, <1>2

\* A number in a field.
LEMMA ScalarRead ==
    ASSUME NEW m, NEW n \in {1, 2}, NEW h \in Nat,
           h = 0 => Omits(m, n), h # 0 => Holds(m, Piece(n, 1, [i \in 1..8 |-> h]))
    PROVE  Scalar(FieldsOf(m), n, 1) = h
<1> DEFINE value == Optional(FieldsOf(m), n, 1)
<1>1. CASE h = 0
  <2>1. value = None BY <1>1, OmitsRead
  <2>2. None # Malformed BY MarksAssumption
  <2> HIDE DEF value
  <2>3. Scalar(FieldsOf(m), n, 1) = 0 BY <2>1, <2>2 DEF Scalar, value
  <2> QED BY <1>1, <2>3
<1>2. CASE h # 0
  <2> DEFINE b == [i \in 1..8 |-> h]
             w == Piece(n, 1, b)
  <2>1. w.number = n /\ w.type = 1 /\ w.value = b BY DEF Piece
  <2>2. Holds(m, w) BY <1>2
  <2> HIDE DEF w
  <2>3. value = b BY <2>1, <2>2, HoldsRead
  <2>4. b \in Seq(Nat) /\ b[1] = h
    <3>1. 8 \in Nat OBVIOUS
    <3> QED BY <3>1, IsASeq
  <2>5. b # None /\ b # Malformed BY <2>4, MarksAssumption
  <2> HIDE DEF b, value
  <2>6. Scalar(FieldsOf(m), n, 1) = b[1] BY <2>3, <2>5 DEF Scalar, value
  <2> QED BY <2>4, <2>6
<1> QED BY <1>1, <1>2

\* Both halves of any UUID are read back.
LEMMA HalvesRead ==
    ASSUME NEW u \in Halves
    PROVE  Sized(Fixed128(u), 24) /\ TwoHalves(FieldsOf(Fixed128(u))) = u
<1>1. PICK h \in Nat, l \in Nat : u = <<h, l>> BY DEF Halves
<1> DEFINE a == Half(1, h)
           b == Half(2, l)
           m == a \o b
<1>2. u[1] = h /\ u[2] = l BY <1>1
<1>3. Fixed128(u) = m BY <1>2 DEF Fixed128, Half
<1>4. /\ Sized(a, 12)
      /\ IF h = 0 THEN Omits(a, 1) ELSE Holds(a, Piece(1, 1, [i \in 1..8 |-> h]))
      /\ \A number : number # 1 => Omits(a, number)
  <2>1. 1 \in {1, 2} OBVIOUS
  <2> QED BY <2>1, HalfRead
<1>5. /\ Sized(b, 12)
      /\ IF l = 0 THEN Omits(b, 2) ELSE Holds(b, Piece(2, 1, [i \in 1..8 |-> l]))
      /\ \A number : number # 2 => Omits(b, number)
  <2>1. 2 \in {1, 2} OBVIOUS
  <2> QED BY <2>1, HalfRead
<1>6. Piece(1, 1, [i \in 1..8 |-> h]).number = 1 /\ Piece(2, 1, [i \in 1..8 |-> l]).number = 2
  BY DEF Piece
<1> HIDE DEF a, b
<1>7. Sized(m, 24)
  <2>1. 12 \in Nat /\ 24 \in Nat /\ 12 + 12 <= 24 OBVIOUS
  <2> QED BY <1>4, <1>5, <2>1, SizedBoth
<1>8. Omits(b, 1) /\ Omits(a, 2)
  <2>1. 1 # 2 OBVIOUS
  <2> QED BY <1>4, <1>5, <2>1
<1>9. Scalar(FieldsOf(m), 1, 1) = h
  <2>1. h = 0 => Omits(m, 1) BY <1>4, <1>8, OmitsBoth
  <2>2. h # 0 => Holds(m, Piece(1, 1, [i \in 1..8 |-> h])) BY <1>4, <1>6, <1>8, HoldsOne
  <2>3. 1 \in {1, 2} OBVIOUS
  <2> HIDE DEF m
  <2> QED BY <2>1, <2>2, <2>3, ScalarRead
<1>10. Scalar(FieldsOf(m), 2, 1) = l
  <2>1. l = 0 => Omits(m, 2) BY <1>5, <1>8, OmitsBoth
  <2>2. l # 0 => Holds(m, Piece(2, 1, [i \in 1..8 |-> l])) BY <1>5, <1>6, <1>8, HoldsOne
  <2>3. 2 \in {1, 2} OBVIOUS
  <2> HIDE DEF m
  <2> QED BY <2>1, <2>2, <2>3, ScalarRead
<1>11. h # Malformed /\ l # Malformed BY MarksAssumption
<1> HIDE DEF m
<1>12. TwoHalves(FieldsOf(m)) = <<h, l>> BY <1>9, <1>10, <1>11 DEF TwoHalves
<1> QED BY <1>1, <1>3, <1>7, <1>12
------------------------------------------------------------------------------
\* m is the message of an identifier.
Names(m, u) == Sized(m, 32) /\ DecodeUuid(m) = u

LEMMA RoomFor ==
    \A n \in Nat : n <= 1000 => n < Ample
BY SMT DEF Ample

\* An identifier in the SDK's form is read as itself.
LEMMA WrappedNames ==
    ASSUME NEW u \in Halves
    PROVE  Names(WrappedUuid(u), u)
<1> DEFINE v == Fixed128(u)
           m == Bytes(2, v)
<1>1. Sized(v, 24) /\ TwoHalves(FieldsOf(v)) = u BY HalvesRead
<1> HIDE DEF v
<1>2. v \in Seq(Nat) BY <1>1 DEF Sized
<1>3. /\ Sized(m, 32) /\ Holds(m, Piece(2, 2, v)) /\ Omits(m, 1)
  <2>1. 24 \in Nat /\ 24 < Ample /\ 32 \in Nat /\ 24 + 8 <= 32 /\ 2 \in 1..15 BY SMT, RoomFor
  <2>2. /\ Sized(m, 32) /\ Holds(m, Piece(2, 2, v)) /\ \A number : number # 2 => Omits(m, number)
    BY <1>1, <2>1, Nested
  <2>3. 1 # 2 OBVIOUS
  <2> QED BY <2>2, <2>3
<1>4. Piece(2, 2, v).number = 2 /\ Piece(2, 2, v).type = 2 /\ Piece(2, 2, v).value = v
  BY DEF Piece
<1> HIDE DEF m
<1>5. Optional(FieldsOf(m), 2, 2) = v BY <1>3, <1>4, HoldsRead
<1>6. Optional(FieldsOf(m), 1, 2) = None BY <1>3, OmitsRead
<1>7. v # None /\ v # Malformed /\ None # Malformed BY <1>2, MarksAssumption
<1>8. Uuid(None, v) = TwoHalves(FieldsOf(v)) BY <1>7 DEF Uuid
<1>9. DecodeUuid(m) = u BY <1>1, <1>5, <1>6, <1>8 DEF DecodeUuid, UuidIn
<1> QED BY <1>3, <1>9 DEF Names, m, v, WrappedUuid

\* Turning a half's bytes around twice changes nothing.
LEMMA BackwardTwice ==
    ASSUME NEW h \in Nat
    PROVE  Backward(h) \in Nat /\ Backward(Backward(h)) = h
<1>1. CASE h = 0 BY <1>1 DEF Backward
<1>2. CASE h # 0 /\ h % 2 = 0
  <2>1. Backward(h) = h - 1 BY <1>2 DEF Backward
  <2>2. PICK k \in Nat : k = h - 1 BY <1>2
  <2>3. k # 0 /\ k % 2 # 0 /\ k + 1 = h BY <1>2, <2>2
  <2>4. Backward(k) = k + 1 BY <2>3 DEF Backward
  <2> QED BY <2>1, <2>2, <2>3, <2>4
<1>3. CASE h # 0 /\ h % 2 # 0
  <2>1. Backward(h) = h + 1 BY <1>3 DEF Backward
  <2>2. PICK k \in Nat : k = h + 1 OBVIOUS
  <2>3. k # 0 /\ k % 2 = 0 /\ k - 1 = h BY <1>3, <2>2
  <2>4. Backward(k) = k - 1 BY <2>3 DEF Backward
  <2> QED BY <2>1, <2>2, <2>3, <2>4
<1> QED BY <1>1, <1>2, <1>3

\* An identifier in either of the firmware's forms is read as itself.
LEMMA RobotNames ==
    ASSUME NEW u \in Halves, NEW style \in Styles
    PROVE  Names(RobotUuid(u, style), u)
<1>1. CASE style = "fixed128" BY <1>1, WrappedNames DEF RobotUuid
<1>2. CASE style # "fixed128"
  <2>1. PICK h \in Nat, l \in Nat : u = <<h, l>> BY DEF Halves
  <2> DEFINE v == [i \in 1..16 |-> IF i <= 8 THEN Backward(h) ELSE Backward(l)]
             m == Bytes(1, v)
  <2>2. RobotUuid(u, style) = m BY <1>2, <2>1 DEF RobotUuid
  <2>3. Backward(h) \in Nat /\ Backward(l) \in Nat
        /\ Backward(Backward(h)) = h /\ Backward(Backward(l)) = l BY BackwardTwice
  <2>4. v \in Seq(Nat) /\ Len(v) = 16
    <3>1. 16 \in Nat /\ \A i \in 1..16 : (IF i <= 8 THEN Backward(h) ELSE Backward(l)) \in Nat
      BY <2>3
    <3> QED BY <3>1, IsASeq
  <2>5. v[1] = Backward(h) /\ v[9] = Backward(l) OBVIOUS
  <2> HIDE DEF v
  <2>6. Sized(v, 16) BY <2>4 DEF Sized
  <2>7. /\ Sized(m, 32) /\ Holds(m, Piece(1, 2, v)) /\ Omits(m, 2)
    <3>1. 16 \in Nat /\ 16 < Ample /\ 32 \in Nat /\ 16 + 8 <= 32 /\ 1 \in 1..15 BY SMT, RoomFor
    <3>2. /\ Sized(m, 32) /\ Holds(m, Piece(1, 2, v)) /\ \A number : number # 1 => Omits(m, number)
      BY <2>6, <3>1, Nested
    <3>3. 1 # 2 OBVIOUS
    <3> QED BY <3>2, <3>3
  <2>8. Piece(1, 2, v).number = 1 /\ Piece(1, 2, v).type = 2 /\ Piece(1, 2, v).value = v
    BY DEF Piece
  <2> HIDE DEF m
  <2>9. Optional(FieldsOf(m), 1, 2) = v BY <2>7, <2>8, HoldsRead
  <2>10. Optional(FieldsOf(m), 2, 2) = None BY <2>7, OmitsRead
  <2>11. v # None /\ v # Malformed /\ None # Malformed BY <2>4, MarksAssumption
  <2>12. Uuid(v, None) = <<Backward(v[1]), Backward(v[9])>> BY <2>4, <2>11 DEF Uuid
  <2>13. DecodeUuid(m) = u
    BY <2>1, <2>3, <2>5, <2>9, <2>10, <2>12 DEF DecodeUuid, UuidIn
  <2> QED BY <2>2, <2>7, <2>13 DEF Names
<1> QED BY <1>1, <1>2

------------------------------------------------------------------------------
\* One goal, as the robot publishes it and as the codec sends it.

\* What is in a message made of two others.
LEMMA Beside ==
    ASSUME NEW a, NEW b, NEW n, NEW t, NEW v
    PROVE  /\ Holds(a, Piece(n, t, v)) /\ Omits(b, n) => Holds(a \o b, Piece(n, t, v))
           /\ Omits(a, n) /\ Holds(b, Piece(n, t, v)) => Holds(a \o b, Piece(n, t, v))
           /\ Omits(a, n) /\ Omits(b, n) => Omits(a \o b, n)
<1>1. Piece(n, t, v).number = n BY DEF Piece
<1> DEFINE w == Piece(n, t, v)
<1>2. w.number = n BY <1>1
<1> HIDE DEF w
<1>3. /\ Holds(a, w) /\ Omits(b, n) => Holds(a \o b, w)
      /\ Omits(a, n) /\ Holds(b, w) => Holds(a \o b, w) BY <1>2, HoldsOne
<1> QED BY <1>3, OmitsBoth DEF w

\* A field that must be there, and is.
LEMMA RequiredHolds ==
    ASSUME NEW m, NEW n, NEW t, NEW v, v # None, Holds(m, Piece(n, t, v))
    PROVE  Required(FieldsOf(m), n, t) = v /\ Optional(FieldsOf(m), n, t) = v
<1> DEFINE w == Piece(n, t, v)
<1>1. w.number = n /\ w.type = t /\ w.value = v BY DEF Piece
<1> HIDE DEF w
<1>2. Holds(m, w) BY DEF w
<1>3. Optional(FieldsOf(m), n, t) = v BY <1>1, <1>2, HoldsRead
<1> QED BY <1>3 DEF Required

\* A message in a field of its own.
LEMMA Wrapped ==
    ASSUME NEW n \in 1..15, NEW v, NEW k \in Nat, k <= 1000, Sized(v, k)
    PROVE  /\ Sized(Bytes(n, v), k + 8)
           /\ Within(Bytes(n, v), n) = v
           /\ Holds(Bytes(n, v), Piece(n, 2, v))
           /\ \A number : number # n => Omits(Bytes(n, v), number)
<1>1. k < Ample BY SMT, RoomFor
<1>2. PICK l \in Nat : l = k + 8 OBVIOUS
<1>3. k + 8 <= l BY <1>2
<1>4. /\ Sized(Bytes(n, v), l) /\ Holds(Bytes(n, v), Piece(n, 2, v))
      /\ \A number : number # n => Omits(Bytes(n, v), number)
  BY <1>1, <1>3, Nested
<1>5. v \in Seq(Nat) BY DEF Sized
<1>6. Within(Bytes(n, v), n) = v BY <1>4, <1>5, WithinHolds
<1> QED BY <1>2, <1>4, <1>6

LEMMA Beneath ==
    ASSUME NEW m, NEW n \in 1..15, NEW v, NEW k, Sized(v, k), Holds(m, Piece(n, 2, v))
    PROVE  Within(m, n) = v
<1>1. v \in Seq(Nat) BY DEF Sized
<1> QED BY <1>1, WithinHolds

LEMMA NumberRead ==
    ASSUME NEW n \in 1..15, NEW v \in 0..3
    PROVE  /\ Sized(Varint(n, v), 8)
           /\ Holds(Varint(n, v), Piece(n, 0, <<v>>))
           /\ \A number : number # n => Omits(Varint(n, v), number)
<1>1. v \in Nat /\ v < Ample BY SMT, RoomFor
<1>2. OnItsOwn(Varint(n, v), Piece(n, 0, <<v>>), 8) BY <1>1, VarintAlone
<1>3. Piece(n, 0, <<v>>).number = n BY DEF Piece
<1> QED BY <1>2, <1>3 DEF OnItsOwn, Sized

GoodSpecs == {s \in CoverageGoalSpecs : ~(s.cleaning_mode = 1 /\ s.floor = 1)}

\* What a goal asks for: passes, intensity, mode and floor.
LEMMA SpecRead ==
    ASSUME NEW s \in GoodSpecs
    PROVE  Sized(SpecFields(s), 32) /\ SpecIn(FieldsOf(SpecFields(s))) = s
<1>1. PICK a \in CoverageGoalSettings, b \in CleaningFloors, c \in CoverageGoalCleaningModes,
           d \in CoverageBehaviors :
           s = CoverageGoalSpec(a, b, c, d) /\ ~(c = 1 /\ b = 1)
  <2>1. s \in CoverageGoalSpecs /\ ~(s.cleaning_mode = 1 /\ s.floor = 1) BY DEF GoodSpecs
  <2>2. /\ s.setting \in CoverageGoalSettings /\ s.floor \in CleaningFloors
        /\ s.cleaning_mode \in CoverageGoalCleaningModes /\ s.behavior \in CoverageBehaviors
        /\ s = CoverageGoalSpec(s.setting, s.floor, s.cleaning_mode, s.behavior)
    BY <2>1 DEF CoverageGoalSpecs, CoverageGoalSpec
  <2> QED BY <2>1, <2>2
<1>2. s.setting = a /\ s.floor = b /\ s.cleaning_mode = c /\ s.behavior = d
  BY <1>1 DEF CoverageGoalSpec
<1>3. a \in 0..3 /\ b \in 0..3 /\ c \in 0..3 /\ d \in 0..3
  BY DEF CoverageGoalSettings, CleaningFloors, CoverageGoalCleaningModes, CoverageBehaviors
<1> DEFINE va == Varint(1, a)
           vb == Varint(2, b)
           vc == Varint(4, c)
           vd == Varint(5, d)
           m == ((va \o vb) \o vc) \o vd
<1>4. SpecFields(s) = m BY <1>2 DEF SpecFields
<1>5. /\ 1 \in 1..15 /\ 2 \in 1..15 /\ 4 \in 1..15 /\ 5 \in 1..15
      /\ 1 # 2 /\ 1 # 4 /\ 1 # 5 /\ 2 # 4 /\ 2 # 5 /\ 4 # 5 OBVIOUS
<1>6. Sized(va, 8) /\ Holds(va, Piece(1, 0, <<a>>)) /\ Omits(va, 2) /\ Omits(va, 4) /\ Omits(va, 5)
  BY <1>3, <1>5, NumberRead
<1>7. Sized(vb, 8) /\ Holds(vb, Piece(2, 0, <<b>>)) /\ Omits(vb, 1) /\ Omits(vb, 4) /\ Omits(vb, 5)
  BY <1>3, <1>5, NumberRead
<1>8. Sized(vc, 8) /\ Holds(vc, Piece(4, 0, <<c>>)) /\ Omits(vc, 1) /\ Omits(vc, 2) /\ Omits(vc, 5)
  BY <1>3, <1>5, NumberRead
<1>9. Sized(vd, 8) /\ Holds(vd, Piece(5, 0, <<d>>)) /\ Omits(vd, 1) /\ Omits(vd, 2) /\ Omits(vd, 4)
  BY <1>3, <1>5, NumberRead
<1> HIDE DEF va, vb, vc, vd
<1>10. Sized(m, 32)
  <2>1. 8 \in Nat /\ 16 \in Nat /\ 24 \in Nat /\ 32 \in Nat
        /\ 8 + 8 <= 16 /\ 16 + 8 <= 24 /\ 24 + 8 <= 32 OBVIOUS
  <2>2. Sized(va \o vb, 16) BY <1>6, <1>7, <2>1, SizedBoth
  <2>3. Sized((va \o vb) \o vc, 24) BY <1>8, <2>1, <2>2, SizedBoth
  <2> QED BY <1>9, <2>1, <2>3, SizedBoth
<1> DEFINE ab == va \o vb
           abc == ab \o vc
<1>11. /\ Holds(ab, Piece(1, 0, <<a>>)) /\ Holds(ab, Piece(2, 0, <<b>>))
       /\ Omits(ab, 4) /\ Omits(ab, 5) BY <1>6, <1>7, Beside
<1>12. m = abc \o vd OBVIOUS
<1> HIDE DEF ab
<1>13. /\ Holds(abc, Piece(1, 0, <<a>>)) /\ Holds(abc, Piece(2, 0, <<b>>))
       /\ Holds(abc, Piece(4, 0, <<c>>)) /\ Omits(abc, 5) BY <1>8, <1>11, Beside
<1> HIDE DEF abc, m
<1>14. /\ Holds(m, Piece(1, 0, <<a>>)) /\ Holds(m, Piece(2, 0, <<b>>))
       /\ Holds(m, Piece(4, 0, <<c>>)) /\ Holds(m, Piece(5, 0, <<d>>))
  BY <1>9, <1>12, <1>13, Beside
<1>15. \A v \in 0..3 : <<v>> # None /\ <<v>> # Malformed
  <2>1. \A v \in 0..3 : <<v>> \in Seq(Nat) OBVIOUS
  <2> QED BY <2>1, MarksAssumption
<1>16. /\ Required(FieldsOf(m), 1, 0) = <<a>> /\ Required(FieldsOf(m), 2, 0) = <<b>>
       /\ Required(FieldsOf(m), 4, 0) = <<c>> /\ Required(FieldsOf(m), 5, 0) = <<d>>
  BY <1>3, <1>14, <1>15, RequiredHolds
<1>17. SpecIn(FieldsOf(m)) = SpecOf(<<a>>, <<b>>, <<c>>, <<d>>) BY <1>16 DEF SpecIn
<1>18. Malformed \notin {<<a>>, <<b>>, <<c>>, <<d>>} BY <1>3, <1>15
<1>19. <<a>>[1] = a /\ <<b>>[1] = b /\ <<c>>[1] = c /\ <<d>>[1] = d OBVIOUS
<1>20. SpecOf(<<a>>, <<b>>, <<c>>, <<d>>) = CoverageGoalSpec(a, b, c, d)
  BY <1>1, <1>18, <1>19 DEF SpecOf
<1> QED BY <1>1, <1>4, <1>10, <1>17, <1>20
------------------------------------------------------------------------------
\* A goal with its identifiers written in any way that is read back.
HeaderBytes(a, spec) == Bytes(1, Bytes(2, a)) \o Bytes(3, SpecFields(spec))
TargetBytes(p, r) ==
    Bytes(1, Bytes(1, p)) \o Bytes(2, Empty(1)) \o Bytes(3, Bytes(3, Bytes(2, r)))
GoalBytes(a, p, r, spec) == Bytes(6, HeaderBytes(a, spec)) \o Bytes(7, TargetBytes(p, r))

LEMMA HeaderRead ==
    ASSUME NEW a, Sized(a, 32), NEW s \in GoodSpecs
    PROVE  LET m == HeaderBytes(a, s)
           IN /\ Sized(m, 88)
              /\ Within(Within(m, 1), 2) = a
              /\ SpecIn(FieldsOf(Within(m, 3))) = s
<1> DEFINE two == Bytes(2, a)
           x == Bytes(1, two)
           f == SpecFields(s)
           y == Bytes(3, f)
           m == x \o y
<1>1. /\ 32 \in Nat /\ 40 \in Nat /\ 48 \in Nat /\ 32 <= 1000 /\ 40 <= 1000
      /\ 32 + 8 = 40 /\ 40 + 8 = 48 /\ 1 \in 1..15 /\ 2 \in 1..15 /\ 3 \in 1..15 /\ 1 # 3
      /\ 88 \in Nat /\ 48 + 40 <= 88 OBVIOUS
<1>2. Sized(two, 40) /\ Within(two, 2) = a
  <2>1. Sized(two, 32 + 8) /\ Within(two, 2) = a BY <1>1, Wrapped
  <2> QED BY <1>1, <2>1
<1>3. Sized(f, 32) /\ SpecIn(FieldsOf(f)) = s BY SpecRead
<1> HIDE DEF two, f
<1>4. Sized(x, 48) /\ Holds(x, Piece(1, 2, two)) /\ Omits(x, 3)
  <2>1. Sized(x, 40 + 8) /\ Holds(x, Piece(1, 2, two)) /\ Omits(x, 3) BY <1>1, <1>2, Wrapped
  <2> QED BY <1>1, <2>1
<1>5. Sized(y, 40) /\ Holds(y, Piece(3, 2, f)) /\ Omits(y, 1)
  <2>1. Sized(y, 32 + 8) /\ Holds(y, Piece(3, 2, f)) /\ Omits(y, 1) BY <1>1, <1>3, Wrapped
  <2> QED BY <1>1, <2>1
<1> HIDE DEF x, y
<1>6. Sized(m, 88) BY <1>1, <1>4, <1>5, SizedBoth
<1>7. Holds(m, Piece(1, 2, two)) /\ Holds(m, Piece(3, 2, f)) BY <1>4, <1>5, Beside
<1>8. HeaderBytes(a, s) = m BY DEF HeaderBytes, x, y, two, f
<1> HIDE DEF m
<1>9. Within(m, 1) = two /\ Within(m, 3) = f BY <1>1, <1>2, <1>3, <1>7, Beneath
<1> QED BY <1>2, <1>3, <1>6, <1>8, <1>9

LEMMA EmptyRead ==
    ASSUME NEW n \in 1..15
    PROVE  /\ Sized(Empty(n), 8) /\ Holds(Empty(n), Piece(n, 2, <<>>))
           /\ \A number : number # n => Omits(Empty(n), number)
<1>1. Sized(<<>>, 0)
  <2>1. <<>> \in Seq(Nat) /\ Len(<<>>) = 0 OBVIOUS
  <2> QED BY <2>1 DEF Sized
<1>2. 0 \in Nat /\ 0 <= 1000 /\ 0 + 8 = 8 OBVIOUS
<1>3. /\ Sized(Bytes(n, <<>>), 0 + 8) /\ Holds(Bytes(n, <<>>), Piece(n, 2, <<>>))
      /\ \A number : number # n => Omits(Bytes(n, <<>>), number)
  BY <1>1, <1>2, Wrapped
<1> QED BY <1>2, <1>3 DEF Empty

\* Where a goal is.
LEMMA TargetRead ==
    ASSUME NEW p, Sized(p, 32), NEW r, Sized(r, 32)
    PROVE  LET m == TargetBytes(p, r)
           IN /\ Sized(m, 120)
              /\ Within(Within(m, 1), 1) = p
              /\ Within(Within(Within(m, 3), 3), 2) = r
              /\ IsRegion(FieldsOf(Within(m, 2)))
              /\ Optional(FieldsOf(Within(m, 3)), 2, 2) = None
<1> DEFINE p1 == Bytes(1, p)
           x == Bytes(1, p1)
           e == Empty(1)
           y == Bytes(2, e)
           r2 == Bytes(2, r)
           r3 == Bytes(3, r2)
           z == Bytes(3, r3)
           xy == x \o y
           m == xy \o z
<1>1. /\ 32 \in Nat /\ 40 \in Nat /\ 48 \in Nat /\ 8 \in Nat /\ 32 <= 1000 /\ 40 <= 1000
      /\ 48 <= 1000 /\ 8 <= 1000 /\ 8 + 8 = 16 /\ 48 + 8 = 56 /\ 16 \in Nat /\ 56 \in Nat
      /\ 32 + 8 = 40 /\ 40 + 8 = 48 /\ 1 \in 1..15 /\ 2 \in 1..15 /\ 3 \in 1..15
      /\ 1 # 3 /\ 1 # 2 /\ 2 # 3
      /\ 64 \in Nat /\ 48 + 16 <= 64 /\ 120 \in Nat /\ 64 + 56 <= 120 OBVIOUS
<1>2. Sized(p1, 40) /\ Within(p1, 1) = p
  <2>1. Sized(p1, 32 + 8) /\ Within(p1, 1) = p BY <1>1, Wrapped
  <2> QED BY <1>1, <2>1
<1>3. Sized(r2, 40) /\ Within(r2, 2) = r
  <2>1. Sized(r2, 32 + 8) /\ Within(r2, 2) = r BY <1>1, Wrapped
  <2> QED BY <1>1, <2>1
<1>4. Sized(e, 8) /\ Holds(e, Piece(1, 2, <<>>)) /\ Omits(e, 3) BY <1>1, EmptyRead
<1> HIDE DEF p1, r2, e
<1>5. Sized(r3, 48) /\ Within(r3, 3) = r2 /\ Omits(r3, 2)
  <2>1. Sized(r3, 40 + 8) /\ Within(r3, 3) = r2 /\ Omits(r3, 2) BY <1>1, <1>3, Wrapped
  <2> QED BY <1>1, <2>1
<1> HIDE DEF r3
<1>6. Sized(x, 48) /\ Holds(x, Piece(1, 2, p1)) /\ Omits(x, 2) /\ Omits(x, 3)
  <2>0. 40 \in Nat /\ 40 <= 1000 /\ 1 \in 1..15 /\ 2 # 1 /\ 3 # 1 OBVIOUS
  <2>1. Sized(x, 40 + 8) /\ Holds(x, Piece(1, 2, p1)) /\ Omits(x, 2) /\ Omits(x, 3)
    BY <2>0, <1>2, Wrapped
  <2> QED BY <1>1, <2>1
<1>7. Sized(y, 16) /\ Holds(y, Piece(2, 2, e)) /\ Omits(y, 1) /\ Omits(y, 3)
  <2>0. 8 \in Nat /\ 8 <= 1000 /\ 2 \in 1..15 /\ 1 # 2 /\ 3 # 2 OBVIOUS
  <2>1. Sized(y, 8 + 8) /\ Holds(y, Piece(2, 2, e)) /\ Omits(y, 1) /\ Omits(y, 3)
    BY <2>0, <1>4, Wrapped
  <2> QED BY <1>1, <2>1
<1>8. Sized(z, 56) /\ Holds(z, Piece(3, 2, r3)) /\ Omits(z, 1) /\ Omits(z, 2)
  <2>0. 48 \in Nat /\ 48 <= 1000 /\ 3 \in 1..15 /\ 1 # 3 /\ 2 # 3 OBVIOUS
  <2>1. Sized(z, 48 + 8) /\ Holds(z, Piece(3, 2, r3)) /\ Omits(z, 1) /\ Omits(z, 2)
    BY <2>0, <1>5, Wrapped
  <2> QED BY <1>1, <2>1
<1>9. TargetBytes(p, r) = m BY DEF TargetBytes, x, y, z, p1, r2, r3, e
<1> HIDE DEF x, y, z
<1>10. Sized(xy, 64) BY <1>1, <1>6, <1>7, SizedBoth
<1>11. Holds(xy, Piece(1, 2, p1)) /\ Holds(xy, Piece(2, 2, e)) /\ Omits(xy, 3)
  BY <1>6, <1>7, Beside
<1> HIDE DEF xy
<1>12. Sized(m, 120) BY <1>1, <1>8, <1>10, SizedBoth
<1>13. Holds(m, Piece(1, 2, p1)) /\ Holds(m, Piece(2, 2, e)) /\ Holds(m, Piece(3, 2, r3))
  BY <1>8, <1>11, Beside
<1> HIDE DEF m
<1>14. Within(m, 1) = p1 /\ Within(m, 2) = e /\ Within(m, 3) = r3
  BY <1>1, <1>2, <1>4, <1>5, <1>13, Beneath
<1>15. IsRegion(FieldsOf(e))
  <2>1. <<>> \in Seq(Nat) OBVIOUS
  <2>2. <<>> # None /\ <<>> # Malformed BY <2>1, MarksAssumption
  <2>3. Optional(FieldsOf(e), 1, 2) = <<>> BY <1>4, <2>2, RequiredHolds
  <2>4. Optional(FieldsOf(e), 3, 2) = None BY <1>4, OmitsRead
  <2> QED BY <2>2, <2>3, <2>4 DEF IsRegion
<1>16. Optional(FieldsOf(r3), 2, 2) = None BY <1>5, OmitsRead
<1> QED BY <1>2, <1>3, <1>5, <1>9, <1>12, <1>14, <1>15, <1>16

\* A goal with its header and its place is read back whole.
LEMMA GoalRead ==
    ASSUME NEW a, NEW p, NEW r, NEW u \in Halves, NEW v \in Halves, NEW x \in Halves,
           Names(a, u), Names(p, v), Names(r, x), NEW s \in GoodSpecs
    PROVE  LET m == GoalBytes(a, p, r, s)
           IN Sized(m, 224) /\ DecodeGoal(m) = CoveragePlanGoal(u, v, x, s)
<1> DEFINE h == HeaderBytes(a, s)
           t == TargetBytes(p, r)
           y == Bytes(6, h)
           z == Bytes(7, t)
           m == y \o z
<1>1. /\ Sized(a, 32) /\ DecodeUuid(a) = u /\ Sized(p, 32) /\ DecodeUuid(p) = v
      /\ Sized(r, 32) /\ DecodeUuid(r) = x BY DEF Names
<1>2. /\ Sized(h, 88) /\ Within(Within(h, 1), 2) = a /\ SpecIn(FieldsOf(Within(h, 3))) = s
  BY <1>1, HeaderRead
<1>3. /\ Sized(t, 120) /\ Within(Within(t, 1), 1) = p /\ Within(Within(Within(t, 3), 3), 2) = r
      /\ IsRegion(FieldsOf(Within(t, 2)))
      /\ Optional(FieldsOf(Within(t, 3)), 2, 2) = None
  BY <1>1, TargetRead
<1>4. GoalBytes(a, p, r, s) = m BY DEF GoalBytes
<1> HIDE DEF h, t
<1>5. /\ 88 \in Nat /\ 120 \in Nat /\ 88 <= 1000 /\ 120 <= 1000 /\ 88 + 8 = 96 /\ 120 + 8 = 128
      /\ 6 \in 1..15 /\ 7 \in 1..15 /\ 6 # 7 /\ 96 \in Nat /\ 128 \in Nat /\ 224 \in Nat
      /\ 96 + 128 <= 224 OBVIOUS
<1>6. Sized(y, 96) /\ Holds(y, Piece(6, 2, h)) /\ Omits(y, 7)
  <2>1. Sized(y, 88 + 8) /\ Holds(y, Piece(6, 2, h)) /\ Omits(y, 7) BY <1>2, <1>5, Wrapped
  <2> QED BY <1>5, <2>1
<1>7. Sized(z, 128) /\ Holds(z, Piece(7, 2, t)) /\ Omits(z, 6)
  <2>1. Sized(z, 120 + 8) /\ Holds(z, Piece(7, 2, t)) /\ Omits(z, 6) BY <1>3, <1>5, Wrapped
  <2> QED BY <1>5, <2>1
<1> HIDE DEF y, z
<1>8. Sized(m, 224) BY <1>5, <1>6, <1>7, SizedBoth
<1>9. Holds(m, Piece(6, 2, h)) /\ Holds(m, Piece(7, 2, t)) BY <1>6, <1>7, Beside
<1> HIDE DEF m
<1>10. Within(m, 6) = h /\ Within(m, 7) = t BY <1>2, <1>3, <1>5, <1>9, Beneath
<1>11. DecodeIdentifier(Within(Within(t, 3), 3)) = x BY <1>1, <1>3 DEF DecodeIdentifier
<1>12. DecodeGoal(m) = GoalOf(u, s, v, x, TRUE)
  <2>1. /\ DecodeUuid(Within(Within(h, 1), 2)) = u /\ SpecIn(FieldsOf(Within(h, 3))) = s
        /\ DecodeUuid(Within(Within(t, 1), 1)) = v BY <1>1, <1>2, <1>3
  <2>2. (/\ IsRegion(FieldsOf(Within(t, 2)))
         /\ Optional(FieldsOf(Within(t, 3)), 2, 2) = None) = TRUE BY <1>3
  <2>3. DecodeGoal(m) = GoalOf(u, s, v, x,
              /\ IsRegion(FieldsOf(Within(t, 2)))
              /\ Optional(FieldsOf(Within(t, 3)), 2, 2) = None)
    BY <1>10, <1>11, <2>1 DEF DecodeGoal
  <2> QED BY <2>2, <2>3
<1>13. Malformed \notin {u, s, v, x}
  <2>1. s \in CoverageGoalSpecs BY DEF GoodSpecs
  <2> QED BY <2>1, MarksAssumption
<1>14. GoalOf(u, s, v, x, TRUE) = CoveragePlanGoal(u, v, x, s) BY <1>13 DEF GoalOf
<1> QED BY <1>4, <1>8, <1>12, <1>14

------------------------------------------------------------------------------
\* A list of goals.

Singles(s) == [i \in DOMAIN s |-> <<s[i]>>]

\* A list as a concatenation of one-element lists.
LEMMA SinglesAppend ==
    ASSUME NEW S, NEW s \in Seq(S), NEW e \in S
    PROVE  /\ Singles(s) \in Seq(Seq(S))
           /\ Singles(Append(s, e)) = Append(Singles(s), <<e>>)
<1> DEFINE n == Len(s)
           t == Append(s, e)
           p == Singles(s)
           q == Singles(t)
           r == Append(p, <<e>>)
<1>1. n \in Nat /\ DOMAIN s = 1..n /\ \A i \in 1..n : s[i] \in S BY LenProperties, ElementOfSeq
<1>2. /\ t \in Seq(S) /\ Len(t) = n + 1 /\ DOMAIN t = 1..n + 1
      /\ \A i \in 1..n : t[i] = s[i]
      /\ t[n + 1] = e
  <2>1. t \in Seq(S) /\ Len(t) = n + 1 /\ (\A i \in 1..n : t[i] = s[i]) /\ t[n + 1] = e
    BY AppendProperties
  <2> HIDE DEF t
  <2> QED BY <2>1, LenProperties
<1> HIDE DEF n, t
<1>3. p = [i \in 1..n |-> <<s[i]>>] BY <1>1 DEF Singles
<1>4. p \in Seq(Seq(S)) /\ Len(p) = n
  <2>1. \A i \in 1..n : <<s[i]>> \in Seq(S) BY <1>1
  <2>2. [i \in 1..n |-> <<s[i]>>] \in Seq(Seq(S)) BY <1>1, <2>1, IsASeq
  <2>3. Len([i \in 1..n |-> <<s[i]>>]) = n BY <1>1
  <2> QED BY <1>3, <2>2, <2>3
<1>5. q = [i \in 1..n + 1 |-> <<t[i]>>] BY <1>2 DEF Singles
<1>6. q \in Seq(Seq(S)) /\ Len(q) = n + 1
  <2>0. n + 1 \in Nat BY <1>1
  <2>1. \A i \in 1..n + 1 : <<t[i]>> \in Seq(S) BY <1>2, ElementOfSeq
  <2>2. [i \in 1..n + 1 |-> <<t[i]>>] \in Seq(Seq(S)) BY <2>0, <2>1, IsASeq
  <2>3. Len([i \in 1..n + 1 |-> <<t[i]>>]) = n + 1 BY <2>0
  <2> QED BY <1>5, <2>2, <2>3
<1>7. \A i \in 1..n : p[i] = <<s[i]>> BY <1>3
<1>8. \A i \in 1..n + 1 : q[i] = <<t[i]>> BY <1>5
<1> HIDE DEF p, q
<1>9. <<e>> \in Seq(S) OBVIOUS
<1>10. /\ r \in Seq(Seq(S)) /\ Len(r) = n + 1 /\ r[n + 1] = <<e>>
       /\ \A i \in 1..n : r[i] = p[i]
  <2>1. /\ r \in Seq(Seq(S)) /\ Len(r) = Len(p) + 1 /\ r[Len(p) + 1] = <<e>>
        /\ \A i \in 1..Len(p) : r[i] = p[i] BY <1>4, <1>9, AppendProperties
  <2> HIDE DEF r
  <2> QED BY <1>4, <2>1
<1> HIDE DEF r
<1>11. \A i \in 1..n + 1 : q[i] = r[i]
  <2>1. ASSUME NEW i \in 1..n + 1 PROVE q[i] = r[i]
    <3>1. CASE i = n + 1 BY <1>2, <1>8, <1>10, <3>1
    <3>2. CASE i # n + 1
      <4>1. i \in 1..n BY <1>1, <3>2
      <4> QED BY <1>2, <1>7, <1>8, <1>10, <4>1
    <3> QED BY <3>1, <3>2
  <2> QED BY <2>1
<1>12. q = r BY <1>6, <1>10, <1>11, SeqEqual
<1> QED BY <1>4, <1>12 DEF p, q, r, t

LEMMA FlattenSingles ==
    ASSUME NEW S, NEW s \in Seq(S)
    PROVE  FlattenSeq(Singles(s)) = s
<1> DEFINE T == {x \in Seq(S) : FlattenSeq(Singles(x)) = x}
<1>1. <<>> \in T
  <2>1. Singles(<<>>) = <<>> BY DEF Singles
  <2> QED BY <2>1, FlattenEmpty
<1>2. ASSUME NEW x \in T, NEW e \in S PROVE Append(x, e) \in T
  <2>1. x \in Seq(S) /\ FlattenSeq(Singles(x)) = x OBVIOUS
  <2>2. Singles(x) \in Seq(Seq(S)) /\ Singles(Append(x, e)) = Append(Singles(x), <<e>>)
    BY <2>1, SinglesAppend
  <2>3. <<e>> \in Seq(S) OBVIOUS
  <2>4. FlattenSeq(Append(Singles(x), <<e>>)) = FlattenSeq(Singles(x)) \o <<e>>
    BY <2>2, <2>3, FlattenAppend
  <2>5. x \o <<e>> = Append(x, e) BY <2>1, AppendIsConcat
  <2>6. Append(x, e) \in Seq(S) BY <2>1, AppendProperties
  <2> QED BY <2>1, <2>2, <2>4, <2>5, <2>6
<1>3. T = Seq(S)
  <2>1. T \in SUBSET Seq(S) OBVIOUS
  <2> HIDE DEF T
  <2> QED BY <1>1, <1>2, <2>1, EverySequence
<1> QED BY <1>3

\* How long many short messages are together.
LEMMA FlattenLength ==
    ASSUME NEW seqs \in Seq(Seq(Nat)), \A i \in 1..Len(seqs) : Len(seqs[i]) <= 240
    PROVE  Len(FlattenSeq(seqs)) \in Nat /\ Len(FlattenSeq(seqs)) <= 240 * Len(seqs)
<1> DEFINE Fits(x) == Len(FlattenSeq(x)) \in Nat /\ Len(FlattenSeq(x)) <= 240 * Len(x)
           T == {x \in Seq(Seq(Nat)) : (\A i \in 1..Len(x) : Len(x[i]) <= 240) => Fits(x)}
<1>1. <<>> \in T
  <2>1. FlattenSeq(<<>>) = <<>> /\ Len(<<>>) = 0 BY FlattenEmpty
  <2> QED BY <2>1
<1>2. ASSUME NEW x \in T, NEW e \in Seq(Nat) PROVE Append(x, e) \in T
  <2> DEFINE t == Append(x, e)
  <2>1. x \in Seq(Seq(Nat)) OBVIOUS
  <2>2. /\ t \in Seq(Seq(Nat)) /\ Len(t) = Len(x) + 1 /\ t[Len(x) + 1] = e
        /\ \A i \in 1..Len(x) : t[i] = x[i] BY <2>1, AppendProperties
  <2>3. FlattenSeq(t) = FlattenSeq(x) \o e BY <2>1, FlattenAppend
  <2>4. FlattenSeq(x) \in Seq(Nat) BY <2>1, FlattenType
  <2> HIDE DEF t
  <2>5. Len(x) \in Nat /\ Len(e) \in Nat BY <2>1, LenProperties
  <2>6. ASSUME \A i \in 1..Len(t) : Len(t[i]) <= 240 PROVE Fits(t)
    <3>1. Len(x) + 1 \in 1..Len(t) /\ \A i \in 1..Len(x) : i \in 1..Len(t) BY <2>2, <2>5
    <3>2. Len(e) <= 240 BY <2>2, <2>6, <3>1
    <3>3. \A i \in 1..Len(x) : Len(x[i]) <= 240 BY <2>2, <2>6, <3>1
    <3>4. Fits(x) BY <3>3
    <3> DEFINE f == FlattenSeq(x)
    <3>5. f \in Seq(Nat) /\ FlattenSeq(t) = f \o e /\ Len(f) \in Nat /\ Len(f) <= 240 * Len(x)
      BY <2>3, <2>4, <3>4
    <3> HIDE DEF f
    <3>6. e \in Seq(Nat) OBVIOUS
    <3>7. Len(f \o e) = Len(f) + Len(e) BY ONLY <3>5, <3>6, ConcatProperties
    <3> DEFINE a == Len(f)
               b == Len(e)
               c == Len(x)
               d == Len(t)
               g == Len(FlattenSeq(t))
    <3>8. a \in Nat /\ a <= 240 * c /\ b \in Nat /\ b <= 240 /\ c \in Nat /\ d = c + 1 /\ g = a + b
      BY <2>2, <2>5, <3>2, <3>5, <3>7
    <3> HIDE DEF a, b, c, d, g
    <3>9. g \in Nat /\ g <= 240 * d BY ONLY <3>8, SMT
    <3> QED BY <3>9 DEF g, d
  <2> QED BY <2>2, <2>6 DEF t
<1>3. T = Seq(Seq(Nat))
  <2>1. T \in SUBSET Seq(Seq(Nat)) OBVIOUS
  <2> HIDE DEF T
  <2>2. \A s \in T, e \in Seq(Nat) : Append(s, e) \in T BY <1>2
  <2> QED BY <1>1, <2>1, <2>2, EverySequence
<1> QED BY <1>3
------------------------------------------------------------------------------
\* A field of bytes as it is written.
LEMMA PieceWire ==
    ASSUME NEW n \in 1..15, NEW v \in Seq(Nat), Len(v) < Ample
    PROVE  LET w == Piece(n, 2, v)
           IN w \in Written /\ Short(w) /\ WireOf(w) = Bytes(n, v)
<1> DEFINE w == Piece(n, 2, v)
<1>1. w.number = n /\ w.type = 2 /\ w.value = v /\ Head0(w) = Tag(n, 2) /\ Len(Head0(w)) \in 1..4
  BY PieceParts
<1>2. w \in Written BY DEF Written, Piece
<1>3. Len(v) \in Nat BY LenProperties
<1>4. Len(EncodeVarint[Len(v)]) \in 1..4 /\ EncodeVarint[Len(v)] \in Seq(Nat)
  BY SMT, <1>3, FewGroups, VarintBytes DEF IsVarint
<1> HIDE DEF w
<1>5. Body(w) = EncodeVarint[Len(v)] \o v BY <1>1 DEF Body
<1>6. \A x \in 1..4 : x <= MaxGroups BY DEF MaxGroups
<1>7. Short(w)
  <2>1. Len(Head0(w)) <= MaxGroups /\ Len(EncodeVarint[Len(v)]) <= MaxGroups BY <1>1, <1>4, <1>6
  <2>2. w.type # 0 /\ Len(EncodeVarint[Len(w.value)]) = Len(EncodeVarint[Len(v)]) BY <1>1
  <2> QED BY <2>1, <2>2 DEF Short
<1>8. WireOf(w) = Bytes(n, v)
  <2> DEFINE h == Tag(n, 2)
             e == EncodeVarint[Len(v)]
  <2>1. h \in Seq(Nat) /\ e \in Seq(Nat) /\ v \in Seq(Nat) BY <1>1, <1>2, <1>4, WireType
  <2>2. Bytes(n, v) = (h \o e) \o v BY DEF Bytes
  <2>3. WireOf(w) = h \o (e \o v) BY <1>1, <1>5 DEF WireOf
  <2> HIDE DEF h, e
  <2>4. (h \o e) \o v = h \o (e \o v) BY ONLY SMTT(20), <2>1, ConcatAssociative
  <2> QED BY <2>2, <2>3, <2>4
<1> QED BY <1>2, <1>7, <1>8 DEF w

\* Values of at most 232 bytes, each in a field of its own.
Manageable == {v \in Seq(Nat) : Len(v) <= 232}
Many(n, vs) == [i \in DOMAIN vs |-> Bytes(n, vs[i])]

\* Messages in a row in fields of one number are read back, all and in order.
LEMMA ManyRead ==
    ASSUME NEW n \in 1..15, NEW vs \in Seq(Manageable)
    PROVE  LET m == FlattenSeq(Many(n, vs))
               fields == FieldsOf(m)
           IN /\ m \in Seq(Nat) /\ Len(m) \in Nat /\ Len(m) <= 240 * Len(vs)
              /\ fields # Malformed
              /\ \A i \in Numbered(fields, n) : fields[i].type = 2
              /\ Repeated(fields, n) = vs
<1> DEFINE many == Many(n, vs)
           N == Len(vs)
           m == FlattenSeq(many)
           ws == [i \in 1..N |-> Piece(n, 2, vs[i])]
<1>1. N \in Nat /\ DOMAIN vs = 1..N BY LenProperties
<1>2. \A i \in 1..N : vs[i] \in Seq(Nat) /\ Len(vs[i]) <= 232 /\ Len(vs[i]) \in Nat
  <2>1. \A i \in 1..N : vs[i] \in Manageable BY ElementOfSeq
  <2>2. \A i \in 1..N : vs[i] \in Seq(Nat) /\ Len(vs[i]) <= 232 BY <2>1 DEF Manageable
  <2> QED BY <2>2, LenProperties
<1>3. \A k \in Nat : k <= 232 => k < Ample BY SMT, RoomFor
<1>4. ASSUME NEW i \in 1..N
      PROVE  /\ Piece(n, 2, vs[i]) \in Written /\ Short(Piece(n, 2, vs[i]))
             /\ WireOf(Piece(n, 2, vs[i])) = Bytes(n, vs[i])
             /\ Bytes(n, vs[i]) \in Seq(Nat) /\ Len(Bytes(n, vs[i])) <= 240
  <2>1. PICK v \in Seq(Nat) : v = vs[i] BY <1>2
  <2>2. Len(v) <= 232 /\ Len(v) \in Nat BY <1>2, <2>1
  <2>3. Len(v) < Ample BY <1>3, <2>2
  <2>4. /\ Piece(n, 2, v) \in Written /\ Short(Piece(n, 2, v))
        /\ WireOf(Piece(n, 2, v)) = Bytes(n, v) BY <2>3, PieceWire
  <2>5. OnItsOwn(Bytes(n, v), Piece(n, 2, v), Len(v) + 8) BY <2>3, BytesAlone
  <2>6. Bytes(n, v) \in Seq(Nat) /\ Len(Bytes(n, v)) \in Nat /\ Len(Bytes(n, v)) <= Len(v) + 8
    BY <2>5 DEF OnItsOwn
  <2>7. Len(Bytes(n, v)) <= 240 BY <2>2, <2>6
  <2> QED BY <2>1, <2>4, <2>6, <2>7
<1>5. many = [i \in 1..N |-> Bytes(n, vs[i])] BY <1>1 DEF Many
<1>6. many \in Seq(Seq(Nat)) /\ Len(many) = N /\ \A i \in 1..N : many[i] = Bytes(n, vs[i])
  <2>1. [i \in 1..N |-> Bytes(n, vs[i])] \in Seq(Seq(Nat)) BY <1>1, <1>4, IsASeq
  <2>2. Len([i \in 1..N |-> Bytes(n, vs[i])]) = N BY <1>1
  <2> HIDE DEF many
  <2> QED BY <1>5, <2>1, <2>2
<1>7. ws \in Seq(Written) /\ Len(ws) = N /\ \A i \in 1..N : ws[i] = Piece(n, 2, vs[i])
  <2>1. ws \in Seq(Written) BY <1>1, <1>4, IsASeq
  <2> QED BY <1>1, <2>1
<1> HIDE DEF ws, many, N
<1>8. m = Message(ws)
  <2>1. DOMAIN ws = 1..N BY <1>7, LenProperties
  <2>2. [i \in DOMAIN ws |-> WireOf(ws[i])] = [i \in 1..N |-> Bytes(n, vs[i])]
    BY <1>4, <1>7, <2>1
  <2> QED BY <1>5, <2>2 DEF Message
<1>9. m \in Seq(Nat) /\ Len(m) \in Nat /\ Len(m) <= 240 * N
  <2>1. m \in Seq(Nat) BY <1>6, FlattenType
  <2>2. \A i \in 1..Len(many) : Len(many[i]) <= 240 BY <1>4, <1>6
  <2>3. Len(FlattenSeq(many)) \in Nat /\ Len(FlattenSeq(many)) <= 240 * Len(many)
    BY <1>6, <2>2, FlattenLength
  <2> QED BY <1>6, <2>1, <2>3
<1>10. AllShort(ws) BY <1>4, <1>7 DEF AllShort
<1> DEFINE fields == FieldsOf(m)
<1>11. fields = ParseFields(Message(ws))
  <2>1. m # Malformed BY <1>9, MarksAssumption
  <2> QED BY <1>8, <2>1 DEF FieldsOf
<1>12. ReadsAs(fields, ws) BY <1>7, <1>10, <1>11, MessageParsed
<1> HIDE DEF m, fields
<1>13. /\ fields \in Seq(WireFields) /\ Len(fields) = N
       /\ \A i \in 1..N : /\ fields[i].number = ws[i].number
                          /\ fields[i].type = ws[i].type /\ fields[i].value = ws[i].value
  BY <1>7, <1>12 DEF ReadsAs
<1>14. \A i \in 1..N : ws[i].number = n /\ ws[i].type = 2 /\ ws[i].value = vs[i]
  BY <1>7 DEF Piece
<1>15. \A i \in 1..N : fields[i].number = n /\ fields[i].type = 2 /\ fields[i].value = vs[i]
  BY <1>13, <1>14
<1>16. DOMAIN fields = 1..N BY <1>13, LenProperties
<1>17. fields # Malformed BY <1>7, <1>12, ReadNumbers
<1>18. \A i \in Numbered(fields, n) : fields[i].type = 2 BY <1>15, <1>16 DEF Numbered
<1>19. Repeated(fields, n) = vs
  <2>1. \A i \in 1..N : When(fields[i].number = n, <<fields[i].value>>) = <<vs[i]>>
    BY <1>15 DEF When
  <2>2. [i \in DOMAIN fields |-> When(fields[i].number = n, <<fields[i].value>>)]
        = [i \in 1..N |-> <<vs[i]>>] BY <1>16, <2>1
  <2>3. Singles(vs) = [i \in 1..N |-> <<vs[i]>>] BY <1>1 DEF Singles, N
  <2>4. FlattenSeq(Singles(vs)) = vs BY FlattenSingles
  <2> QED BY <2>2, <2>3, <2>4 DEF Repeated
<1> QED BY <1>9, <1>17, <1>18, <1>19 DEF m, fields, many, N

------------------------------------------------------------------------------
\* The goals of a plan.

GoodGoals == {g \in CoveragePlanGoals : g.spec \in GoodSpecs}

\* The goals of a plan are ones that are read back.
LEMMA PlanGoals ==
    ASSUME NEW goals, IsPlan(goals)
    PROVE  goals \in Seq(GoodGoals) /\ Len(goals) <= MaxReports /\ goals # <<>>
<1>1. /\ goals \in Seq(CoveragePlanGoals) /\ Len(goals) <= MaxReports
      /\ goals # <<>> BY DEF IsPlan, OnePartition
<1>2. \A i \in DOMAIN goals :
         ~(goals[i].spec.cleaning_mode = 1 /\ goals[i].spec.floor = 1)
  BY DEF IsPlan, ValidGoals
<1>3. Len(goals) \in Nat /\ DOMAIN goals = 1..Len(goals)
      /\ goals = [i \in 1..Len(goals) |-> goals[i]] BY <1>1, LenProperties
<1>4. \A i \in 1..Len(goals) : goals[i] \in CoveragePlanGoals BY <1>1, ElementOfSeq
<1>5. \A i \in 1..Len(goals) : goals[i].spec \in CoverageGoalSpecs
  BY <1>4 DEF CoveragePlanGoals
<1>6. \A i \in 1..Len(goals) : goals[i] \in GoodGoals
  BY <1>2, <1>3, <1>4, <1>5 DEF GoodGoals, GoodSpecs
<1>7. [i \in 1..Len(goals) |-> goals[i]] \in Seq(GoodGoals) BY <1>3, <1>6, IsASeq
<1> QED BY <1>1, <1>3, <1>7

LEMMA GoalParts ==
    ASSUME NEW g \in GoodGoals
    PROVE  /\ g.goal_id \in Halves /\ g.partition_id \in Halves /\ g.region_id \in Halves
           /\ g.spec \in GoodSpecs
           /\ g = CoveragePlanGoal(g.goal_id, g.partition_id, g.region_id, g.spec)
<1>1. g \in CoveragePlanGoals /\ g.spec \in GoodSpecs BY DEF GoodGoals
<1> QED BY <1>1 DEF CoveragePlanGoals, CoveragePlanGoal

\* A goal is read back from what the robot writes of it, and from what the
\* codec does.
LEMMA RobotGoalRead ==
    ASSUME NEW g \in GoodGoals, NEW style \in Styles
    PROVE  Sized(RobotGoal(g, style), 224) /\ DecodeGoal(RobotGoal(g, style)) = g
<1>1. PICK u \in Halves, v \in Halves, x \in Halves, s \in GoodSpecs :
         /\ u = g.goal_id /\ v = g.partition_id /\ x = g.region_id /\ s = g.spec
         /\ g = CoveragePlanGoal(u, v, x, s)
  BY GoalParts
<1>2. /\ Names(RobotUuid(u, style), u) /\ Names(RobotUuid(v, style), v)
      /\ Names(RobotUuid(x, style), x) BY RobotNames
<1> DEFINE m == GoalBytes(RobotUuid(u, style), RobotUuid(v, style), RobotUuid(x, style), s)
<1>3. Sized(m, 224) /\ DecodeGoal(m) = CoveragePlanGoal(u, v, x, s) BY <1>2, GoalRead
<1>4. RobotGoal(g, style) = m BY <1>1 DEF RobotGoal, GoalBytes, HeaderBytes, TargetBytes
<1> HIDE DEF m
<1> QED BY <1>1, <1>3, <1>4

\* A goal in the codec's form is read back as it was.
LEMMA PlanGoalRead ==
    ASSUME NEW g \in GoodGoals
    PROVE  Sized(PlanGoal(g), 224) /\ DecodeGoal(PlanGoal(g)) = g
<1>1. PICK u \in Halves, v \in Halves, x \in Halves, s \in GoodSpecs :
         /\ u = g.goal_id /\ v = g.partition_id /\ x = g.region_id /\ s = g.spec
         /\ g = CoveragePlanGoal(u, v, x, s)
  BY GoalParts
<1>2. /\ Names(WrappedUuid(u), u) /\ Names(WrappedUuid(v), v)
      /\ Names(WrappedUuid(x), x) BY WrappedNames
<1> DEFINE m == GoalBytes(WrappedUuid(u), WrappedUuid(v), WrappedUuid(x), s)
<1>3. Sized(m, 224) /\ DecodeGoal(m) = CoveragePlanGoal(u, v, x, s) BY <1>2, GoalRead
<1>4. PlanGoal(g) = m
  BY <1>1 DEF PlanGoal, GoalHeader, RegionTarget, GoalBytes, HeaderBytes, TargetBytes
<1> HIDE DEF m
<1> QED BY <1>1, <1>3, <1>4

\* The same for a whole list of them.
LEMMA GoalsReadBack ==
    ASSUME NEW goals \in Seq(GoodGoals), NEW ms \in Seq(Manageable),
           Len(ms) = Len(goals), \A i \in 1..Len(goals) : DecodeGoal(ms[i]) = goals[i]
    PROVE  /\ [i \in DOMAIN ms |-> DecodeGoal(ms[i])] = goals
           /\ GoalsOf(ms) = goals
<1>1. Len(goals) \in Nat /\ DOMAIN goals = 1..Len(goals) /\ DOMAIN ms = 1..Len(goals)
      /\ goals = [i \in 1..Len(goals) |-> goals[i]] BY LenProperties
<1>2. [i \in DOMAIN ms |-> DecodeGoal(ms[i])] = goals BY <1>1
<1>3. \A i \in 1..Len(goals) : ms[i] # Malformed
  <2>1. \A i \in 1..Len(ms) : ms[i] \in Manageable BY ElementOfSeq
  <2>2. \A i \in 1..Len(ms) : ms[i] \in Seq(Nat) BY <2>1 DEF Manageable
  <2> QED BY <2>2, MarksAssumption
<1>4. GoalsOf(ms) = [i \in DOMAIN ms |-> DecodeGoal(ms[i])] BY <1>1, <1>3 DEF GoalsOf
<1> QED BY <1>2, <1>4

PlanGoalsOf(goals) == [i \in DOMAIN goals |-> PlanGoal(goals[i])]
LEMMA PlanGoalsRead ==
    ASSUME NEW goals \in Seq(GoodGoals)
    PROVE  LET ms == PlanGoalsOf(goals)
           IN /\ ms \in Seq(Manageable) /\ Len(ms) = Len(goals)
              /\ [i \in DOMAIN ms |-> DecodeGoal(ms[i])] = goals
<1> DEFINE N == Len(goals)
           ms == PlanGoalsOf(goals)
<1>1. N \in Nat /\ DOMAIN goals = 1..N /\ \A i \in 1..N : goals[i] \in GoodGoals
  BY LenProperties, ElementOfSeq
<1> HIDE DEF N
<1>2. \A i \in 1..N : PlanGoal(goals[i]) \in Manageable /\ DecodeGoal(PlanGoal(goals[i])) = goals[i]
  <2>1. \A g \in GoodGoals : PlanGoal(g) \in Manageable /\ DecodeGoal(PlanGoal(g)) = g
    <3>1. ASSUME NEW g \in GoodGoals
          PROVE  PlanGoal(g) \in Manageable /\ DecodeGoal(PlanGoal(g)) = g
      <4>1. Sized(PlanGoal(g), 224) /\ DecodeGoal(PlanGoal(g)) = g BY PlanGoalRead
      <4>2. PlanGoal(g) \in Seq(Nat) /\ Len(PlanGoal(g)) <= 224 BY <4>1 DEF Sized
      <4>3. Len(PlanGoal(g)) \in Nat BY <4>2, LenProperties
      <4>4. Len(PlanGoal(g)) <= 232 BY <4>2, <4>3
      <4> QED BY <4>1, <4>2, <4>4 DEF Manageable
    <3> QED BY <3>1
  <2> QED BY <1>1, <2>1
<1>3. ms = [i \in 1..N |-> PlanGoal(goals[i])] BY <1>1 DEF PlanGoalsOf
<1>4. ms \in Seq(Manageable) /\ Len(ms) = N /\ \A i \in 1..N : ms[i] = PlanGoal(goals[i])
  <2>1. [i \in 1..N |-> PlanGoal(goals[i])] \in Seq(Manageable) BY <1>1, <1>2, IsASeq
  <2>2. Len([i \in 1..N |-> PlanGoal(goals[i])]) = N BY <1>1
  <2> HIDE DEF ms
  <2> QED BY <1>3, <2>1, <2>2
<1> HIDE DEF ms
<1>5. \A i \in 1..N : DecodeGoal(ms[i]) = goals[i] BY <1>2, <1>4
<1>6. [i \in DOMAIN ms |-> DecodeGoal(ms[i])] = goals BY <1>4, <1>5, GoalsReadBack DEF N
<1> QED BY <1>4, <1>6 DEF ms, N

\* The robot's reports of its goals.
ReportsOf(goals, style) == [i \in DOMAIN goals |-> Bytes(1, RobotGoal(goals[i], style))]

\* The goals that the robot publishes are read back, all and in order.
LEMMA ReportsRead ==
    ASSUME NEW goals \in Seq(GoodGoals), NEW style \in Styles
    PROVE  LET vs == ReportsOf(goals, style)
           IN /\ vs \in Seq(Manageable) /\ Len(vs) = Len(goals)
              /\ GoalsOf(GoalMessages(vs)) = goals
<1> DEFINE N == Len(goals)
           vs == ReportsOf(goals, style)
           ms == [i \in 1..N |-> RobotGoal(goals[i], style)]
<1>1. N \in Nat /\ DOMAIN goals = 1..N /\ \A i \in 1..N : goals[i] \in GoodGoals
  BY LenProperties, ElementOfSeq
<1> HIDE DEF N
<1>2. ASSUME NEW g \in GoodGoals
      PROVE  LET r == RobotGoal(g, style)
                 v == Bytes(1, r)
             IN /\ r \in Manageable /\ v \in Manageable /\ DecodeGoal(r) = g
                /\ Optional(FieldsOf(v), 1, 2) = r /\ r # None
  <2> DEFINE r == RobotGoal(g, style)
             v == Bytes(1, r)
  <2>1. Sized(r, 224) /\ DecodeGoal(r) = g BY RobotGoalRead
  <2> HIDE DEF r
  <2>2. 224 \in Nat /\ 224 <= 1000 /\ 1 \in 1..15 /\ 224 + 8 = 232 OBVIOUS
  <2>3. Sized(v, 224 + 8) /\ Holds(v, Piece(1, 2, r)) BY <2>1, <2>2, Wrapped
  <2> HIDE DEF v
  <2>4. v \in Manageable BY <2>2, <2>3 DEF Sized, Manageable
  <2>5. r \in Seq(Nat) /\ Len(r) <= 224 BY <2>1 DEF Sized
  <2>6. Len(r) \in Nat BY <2>5, LenProperties
  <2>7. Len(r) <= 232 BY <2>5, <2>6
  <2>8. r \in Manageable BY <2>5, <2>7 DEF Manageable
  <2>9. r # None BY <2>5, MarksAssumption
  <2>10. Optional(FieldsOf(v), 1, 2) = r BY <2>3, <2>9, RequiredHolds
  <2> QED BY <2>1, <2>4, <2>8, <2>9, <2>10 DEF r, v
<1>3. vs = [i \in 1..N |-> Bytes(1, RobotGoal(goals[i], style))] BY <1>1 DEF ReportsOf
<1>4. \A i \in 1..N :
         LET r == RobotGoal(goals[i], style)
             v == Bytes(1, r)
         IN /\ r \in Manageable /\ v \in Manageable /\ DecodeGoal(r) = goals[i]
            /\ Optional(FieldsOf(v), 1, 2) = r /\ r # None
  BY <1>1, <1>2
<1>5. vs \in Seq(Manageable) /\ Len(vs) = N
      /\ \A i \in 1..N : vs[i] = Bytes(1, RobotGoal(goals[i], style))
  <2>1. [i \in 1..N |-> Bytes(1, RobotGoal(goals[i], style))] \in Seq(Manageable)
    BY <1>1, <1>4, IsASeq
  <2>2. Len([i \in 1..N |-> Bytes(1, RobotGoal(goals[i], style))]) = N BY <1>1
  <2> HIDE DEF vs
  <2> QED BY <1>3, <2>1, <2>2
<1>6. ms \in Seq(Manageable) /\ Len(ms) = N /\ \A i \in 1..N : ms[i] = RobotGoal(goals[i], style)
  <2>1. ms \in Seq(Manageable) BY <1>1, <1>4, IsASeq
  <2> QED BY <1>1, <2>1
<1> HIDE DEF vs, ms
<1>7. GoalMessages(vs) = ms
  <2>1. DOMAIN vs = 1..N /\ DOMAIN ms = 1..N BY <1>5, <1>6, LenProperties
  <2>2. \A i \in 1..N : LET goal == Optional(FieldsOf(vs[i]), 1, 2)
                        IN When(goal # None, <<goal>>) = <<ms[i]>>
    <3>1. ASSUME NEW i \in 1..N
          PROVE  LET goal == Optional(FieldsOf(vs[i]), 1, 2)
                 IN When(goal # None, <<goal>>) = <<ms[i]>>
      <4>1. Optional(FieldsOf(vs[i]), 1, 2) = ms[i] /\ ms[i] # None BY <1>4, <1>5, <1>6
      <4> QED BY <4>1 DEF When
    <3> QED BY <3>1
  <2>3. [i \in DOMAIN vs |-> LET goal == Optional(FieldsOf(vs[i]), 1, 2)
                             IN When(goal # None, <<goal>>)] = [i \in 1..N |-> <<ms[i]>>]
    BY <2>1, <2>2
  <2>4. Singles(ms) = [i \in 1..N |-> <<ms[i]>>] BY <2>1 DEF Singles
  <2>5. FlattenSeq(Singles(ms)) = ms BY <1>6, FlattenSingles
  <2> QED BY <2>3, <2>4, <2>5 DEF GoalMessages
<1>8. \A i \in 1..N : DecodeGoal(ms[i]) = goals[i] BY <1>4, <1>6
<1>9. GoalsOf(ms) = goals BY <1>6, <1>8, GoalsReadBack DEF N
<1> QED BY <1>5, <1>7, <1>9 DEF vs, N

------------------------------------------------------------------------------
\* The robot's two messages: a whole plan, and the session's key.

\* A mission's number, and an identifier in the second field of a message.
LEMMA MissionRead ==
    ASSUME NEW mission \in Nat
    PROVE  Sized(MissionId(mission), 8) /\ DecodeMission(MissionId(mission)) = mission
<1> DEFINE m == MissionId(mission)
           value == Optional(FieldsOf(m), 2, 5)
<1>1. CASE mission = 0
  <2>1. m = <<>> BY <1>1 DEF MissionId, When
  <2>2. <<>> \in Seq(Nat) /\ Len(<<>>) = 0 /\ 0 <= 8 OBVIOUS
  <2>3. Sized(<<>>, 8) BY <2>2 DEF Sized
  <2>4. Omits(m, 2) BY <2>1, OmitsEmpty
  <2> HIDE DEF m
  <2>5. value = None BY <2>4, OmitsRead
  <2>6. None # Malformed BY MarksAssumption
  <2> HIDE DEF value
  <2>7. Scalar(FieldsOf(m), 2, 5) = 0 BY <2>5, <2>6 DEF Scalar, value
  <2>8. DecodeMission(m) = 0 BY <2>7 DEF DecodeMission
  <2> QED BY <1>1, <2>1, <2>3, <2>8 DEF m
<1>2. CASE mission # 0
  <2> DEFINE b == [i \in 1..4 |-> mission]
             w == Piece(2, 5, b)
  <2>1. m = Fixed32(2, mission) BY <1>2 DEF MissionId, When
  <2>2. OnItsOwn(m, w, 8)
    <3>1. 2 \in 1..15 OBVIOUS
    <3>2. OnItsOwn(Fixed32(2, mission), Piece(2, 5, [i \in 1..4 |-> mission]), 8)
      BY <3>1, FixedAlone
    <3> QED BY <2>1, <3>2
  <2>3. Sized(m, 8) /\ Holds(m, w) BY <2>2 DEF OnItsOwn, Sized
  <2>4. b \in Seq(Nat) /\ b[1] = mission
    <3>1. 4 \in Nat OBVIOUS
    <3> QED BY <3>1, IsASeq
  <2>5. b # None /\ b # Malformed BY <2>4, MarksAssumption
  <2> HIDE DEF m, b
  <2>6. value = b BY <2>3, <2>5, RequiredHolds
  <2> HIDE DEF value
  <2>7. Scalar(FieldsOf(m), 2, 5) = b[1] BY <2>5, <2>6 DEF Scalar, value
  <2>8. DecodeMission(m) = mission BY <2>4, <2>7 DEF DecodeMission
  <2> QED BY <2>3, <2>8 DEF m
<1> QED BY <1>1, <1>2

\* An identifier in the second field of a message.
LEMMA IdentifierRead ==
    ASSUME NEW a, NEW u, Names(a, u)
    PROVE  Sized(Bytes(2, a), 40) /\ DecodeIdentifier(Bytes(2, a)) = u
<1>1. Sized(a, 32) /\ DecodeUuid(a) = u BY DEF Names
<1>2. 32 \in Nat /\ 32 <= 1000 /\ 32 + 8 = 40 /\ 2 \in 1..15 OBVIOUS
<1>3. Sized(Bytes(2, a), 32 + 8) /\ Within(Bytes(2, a), 2) = a BY <1>1, <1>2, Wrapped
<1> QED BY <1>1, <1>2, <1>3 DEF DecodeIdentifier
------------------------------------------------------------------------------
\* Messages that carry a whole plan: Big for the plan, and a little more.
Big == 240 * MaxReports
Wide(m, k) == m \in Seq(Nat) /\ Len(m) <= Big + k

\* A whole plan is shorter than any length the wire format cannot write.
LEMMA BigFits == Big \in Nat /\ \A k \in Nat : k <= 1000 => Big + k \in Nat /\ Big + k < Ample
BY SMT DEF Big, MaxReports, Ample

LEMMA SizedIsShort ==
    ASSUME NEW m, NEW k \in Nat, k <= 1000, Sized(m, k)
    PROVE  m \in Seq(Nat) /\ Len(m) < Ample
<1>1. m \in Seq(Nat) /\ Len(m) <= k BY DEF Sized
<1>2. Len(m) \in Nat BY <1>1, LenProperties
<1>3. k < Ample /\ Ample \in Nat BY SMT, RoomFor DEF Ample
<1> QED BY <1>1, <1>2, <1>3

LEMMA WideIsShort ==
    ASSUME NEW m, NEW k \in Nat, k <= 1000, Wide(m, k)
    PROVE  m \in Seq(Nat) /\ Len(m) \in Nat /\ Len(m) < Ample
<1>1. m \in Seq(Nat) /\ Len(m) <= Big + k BY DEF Wide
<1>2. Len(m) \in Nat BY <1>1, LenProperties
<1>3. PICK b \in Nat : b = Big + k /\ b < Ample BY BigFits
<1>4. Ample \in Nat BY SMT DEF Ample
<1>5. Len(m) < Ample BY <1>1, <1>2, <1>3, <1>4
<1> QED BY <1>1, <1>2, <1>5

\* What a field of bytes says, of any length.
LEMMA FieldSays ==
    ASSUME NEW n \in 1..15, NEW v \in Seq(Nat), Len(v) < Ample
    PROVE  /\ Holds(Bytes(n, v), Piece(n, 2, v))
           /\ Within(Bytes(n, v), n) = v
           /\ \A number : number # n => Omits(Bytes(n, v), number)
           /\ Bytes(n, v) \in Seq(Nat) /\ Len(Bytes(n, v)) <= Len(v) + 8
<1>1. OnItsOwn(Bytes(n, v), Piece(n, 2, v), Len(v) + 8) BY BytesAlone
<1>2. Piece(n, 2, v).number = n BY DEF Piece
<1>3. Holds(Bytes(n, v), Piece(n, 2, v)) BY <1>1 DEF OnItsOwn
<1>4. Within(Bytes(n, v), n) = v BY <1>3, WithinHolds
<1> QED BY <1>1, <1>2, <1>3, <1>4 DEF OnItsOwn

LEMMA WideField ==
    ASSUME NEW n \in 1..15, NEW v, NEW k \in Nat, k <= 1000, Wide(v, k)
    PROVE  /\ Wide(Bytes(n, v), k + 8) /\ Within(Bytes(n, v), n) = v
           /\ Holds(Bytes(n, v), Piece(n, 2, v))
           /\ \A number : number # n => Omits(Bytes(n, v), number)
<1>1. v \in Seq(Nat) /\ Len(v) \in Nat /\ Len(v) < Ample BY WideIsShort
<1>2. /\ Holds(Bytes(n, v), Piece(n, 2, v)) /\ Within(Bytes(n, v), n) = v
      /\ \A number : number # n => Omits(Bytes(n, v), number)
      /\ Bytes(n, v) \in Seq(Nat) /\ Len(Bytes(n, v)) <= Len(v) + 8 BY <1>1, FieldSays
<1>3. Len(v) <= Big + k /\ Big \in Nat BY BigFits DEF Wide
<1>4. Len(Bytes(n, v)) \in Nat BY <1>2, LenProperties
<1>5. Len(Bytes(n, v)) <= Big + (k + 8) BY <1>1, <1>2, <1>3, <1>4
<1> QED BY <1>2, <1>5 DEF Wide

LEMMA WideBeside ==
    ASSUME NEW a, NEW b, NEW k \in Nat, NEW l \in Nat
    PROVE  /\ Wide(a, k) /\ Sized(b, l) => Wide(a \o b, k + l)
           /\ Sized(b, l) /\ Wide(a, k) => Wide(b \o a, k + l)
<1>1. ASSUME Wide(a, k), Sized(b, l) PROVE Wide(a \o b, k + l) /\ Wide(b \o a, k + l)
  <2>1. a \in Seq(Nat) /\ b \in Seq(Nat) /\ Len(a) <= Big + k /\ Len(b) <= l
    BY <1>1 DEF Wide, Sized
  <2>2. Len(a) \in Nat /\ Len(b) \in Nat /\ Big \in Nat BY <2>1, LenProperties, BigFits
  <2>3. a \o b \in Seq(Nat) /\ Len(a \o b) = Len(a) + Len(b) BY ONLY <2>1, ConcatProperties
  <2>4. b \o a \in Seq(Nat) /\ Len(b \o a) = Len(b) + Len(a) BY ONLY <2>1, ConcatProperties
  <2>5. Len(a) + Len(b) <= Big + (k + l) /\ Len(b) + Len(a) <= Big + (k + l) BY <2>1, <2>2
  <2> QED BY <2>3, <2>4, <2>5 DEF Wide
<1> QED BY <1>1
------------------------------------------------------------------------------
LEMMA ManyWide ==
    ASSUME NEW vs \in Seq(Manageable), Len(vs) <= MaxReports
    PROVE  LET m == FlattenSeq(Many(1, vs))
               fields == FieldsOf(m)
           IN /\ Wide(m, 0)
              /\ fields # Malformed
              /\ \A i \in Numbered(fields, 1) : fields[i].type = 2
              /\ Repeated(fields, 1) = vs
<1> DEFINE m == FlattenSeq(Many(1, vs))
           fields == FieldsOf(m)
<1>0. 1 \in 1..15 OBVIOUS
<1>1. /\ m \in Seq(Nat) /\ Len(m) \in Nat /\ Len(m) <= 240 * Len(vs)
      /\ fields # Malformed
      /\ \A i \in Numbered(fields, 1) : fields[i].type = 2
      /\ Repeated(fields, 1) = vs
  BY <1>0, ManyRead
<1>2. Len(vs) \in Nat /\ MaxReports \in Nat BY SMT, LenProperties DEF MaxReports
<1> DEFINE a == Len(m)
           n == Len(vs)
           b == Big
<1>3. a \in Nat /\ a <= 240 * n /\ n \in Nat /\ n <= MaxReports /\ MaxReports \in Nat
      /\ b = 240 * MaxReports
  BY <1>1, <1>2 DEF Big
<1> HIDE DEF a, n, b
<1>4. a <= b + 0 BY ONLY <1>3, SMT
<1>5. Len(m) <= Big + 0 BY <1>4 DEF a, b
<1> HIDE DEF m
<1> QED BY <1>1, <1>5 DEF Wide, m

\* decode_coverage_plan reads the robot's plan as it is.
LEMMA PlanRead ==
    ASSUME NEW goals, IsPlan(goals), NEW current \in Halves, NEW style \in Styles
    PROVE  DecodePlan(PlanMessage(goals, current, style))
              = [mission_id |-> Mission, goals |-> goals, current_region_id |-> current]
<1> DEFINE vs == ReportsOf(goals, style)
           r == FlattenSeq(Many(1, vs))
           mi == MissionId(Mission)
           id == Bytes(2, RobotUuid(current, style))
           in == Bytes(4, id)
           c == Bytes(1, in)
           x == Bytes(7, r)
           y == Bytes(11, mi)
           z == Bytes(14, c)
           xy == x \o y
           m == xy \o z
<1>1. goals \in Seq(GoodGoals) /\ Len(goals) <= MaxReports /\ goals # <<>> BY PlanGoals
<1>2. vs \in Seq(Manageable) /\ Len(vs) = Len(goals) /\ GoalsOf(GoalMessages(vs)) = goals
  BY <1>1, ReportsRead
<1>3. PlanMessage(goals, current, style) = m
  <2>2. [i \in DOMAIN goals |-> Bytes(1, Bytes(1, RobotGoal(goals[i], style)))] = Many(1, vs)
    BY DEF Many, ReportsOf
  <2> HIDE DEF vs
  <2> QED BY <1>1, <2>2 DEF PlanMessage
<1> HIDE DEF vs
<1>4. /\ Wide(r, 0) /\ FieldsOf(r) # Malformed
      /\ \A i \in Numbered(FieldsOf(r), 1) : FieldsOf(r)[i].type = 2
      /\ Repeated(FieldsOf(r), 1) = vs
  BY <1>1, <1>2, ManyWide
<1> HIDE DEF r
<1>5. GoalsIn(FieldsOf(r)) = goals
  <2>1. ~(FieldsOf(r) = Malformed \/ \E i \in Numbered(FieldsOf(r), 1) : FieldsOf(r)[i].type # 2)
    BY <1>4
  <2> QED BY <1>2, <1>4, <2>1 DEF GoalsIn
<1>6. Mission \in Nat BY SMT DEF Mission
<1>7. Sized(mi, 8) /\ DecodeMission(mi) = Mission BY <1>6, MissionRead
<1>8. Sized(id, 40) /\ DecodeIdentifier(id) = current BY RobotNames, IdentifierRead
<1> HIDE DEF mi, id
<1>9. /\ 0 \in Nat /\ 8 \in Nat /\ 40 \in Nat /\ 48 \in Nat /\ 56 \in Nat /\ 0 <= 1000
      /\ 8 <= 1000 /\ 40 <= 1000 /\ 48 <= 1000 /\ 56 <= 1000 /\ 40 + 8 = 48 /\ 48 + 8 = 56
      /\ 1 \in 1..15 /\ 4 \in 1..15 /\ 7 \in 1..15 /\ 11 \in 1..15 /\ 14 \in 1..15
      /\ 7 # 11 /\ 7 # 14 /\ 11 # 14 OBVIOUS
<1>10. Sized(in, 48) /\ Within(in, 4) = id
  <2>1. Sized(in, 40 + 8) /\ Within(in, 4) = id BY <1>8, <1>9, Wrapped
  <2> QED BY <1>9, <2>1
<1> HIDE DEF in
<1>11. Sized(c, 56) /\ Within(c, 1) = in
  <2>1. Sized(c, 48 + 8) /\ Within(c, 1) = in BY <1>9, <1>10, Wrapped
  <2> QED BY <1>9, <2>1
<1> HIDE DEF c
<1>12. Holds(x, Piece(7, 2, r)) /\ Omits(x, 11) /\ Omits(x, 14)
  <2>1. r \in Seq(Nat) /\ Len(r) < Ample BY <1>4, <1>9, WideIsShort
  <2>2. 7 \in 1..15 /\ 11 # 7 /\ 14 # 7 OBVIOUS
  <2> QED BY <2>1, <2>2, FieldSays
<1>13. Holds(y, Piece(11, 2, mi)) /\ Omits(y, 7) /\ Omits(y, 14)
  <2>1. mi \in Seq(Nat) /\ Len(mi) < Ample BY <1>7, <1>9, SizedIsShort
  <2>2. 11 \in 1..15 /\ 7 # 11 /\ 14 # 11 OBVIOUS
  <2> QED BY <2>1, <2>2, FieldSays
<1>14. Holds(z, Piece(14, 2, c)) /\ Omits(z, 7) /\ Omits(z, 11)
  <2>1. c \in Seq(Nat) /\ Len(c) < Ample BY <1>11, <1>9, SizedIsShort
  <2>2. 14 \in 1..15 /\ 7 # 14 /\ 11 # 14 OBVIOUS
  <2> QED BY <2>1, <2>2, FieldSays
<1> HIDE DEF x, y, z
<1>15. Holds(xy, Piece(7, 2, r)) /\ Holds(xy, Piece(11, 2, mi)) /\ Omits(xy, 14)
  BY <1>12, <1>13, Beside
<1> HIDE DEF xy
<1>16. Holds(m, Piece(7, 2, r)) /\ Holds(m, Piece(11, 2, mi)) /\ Holds(m, Piece(14, 2, c))
  BY <1>14, <1>15, Beside
<1> HIDE DEF m
<1>17. /\ r # None /\ r # Malformed /\ mi # None /\ mi # Malformed /\ c # None /\ c # Malformed
  <2>1. r \in Seq(Nat) /\ mi \in Seq(Nat) /\ c \in Seq(Nat) BY <1>4, <1>7, <1>11 DEF Wide, Sized
  <2> QED BY <2>1, MarksAssumption
<1>18. /\ Optional(FieldsOf(m), 7, 2) = r /\ Optional(FieldsOf(m), 11, 2) = mi
       /\ Optional(FieldsOf(m), 14, 2) = c
  BY <1>16, <1>17, RequiredHolds
<1>19. m # <<>>
  <2>1. SUFFICES ASSUME m = <<>> PROVE FALSE OBVIOUS
  <2>2. Omits(<<>>, 7) BY OmitsEmpty
  <2>3. Optional(FieldsOf(<<>>), 7, 2) = None BY <2>2, OmitsRead
  <2> QED BY <1>17, <1>18, <2>1, <2>3
<1>20. DecodePlan(m) = PlanIn(r, mi, c) BY <1>18, <1>19 DEF DecodePlan, PlanFields
<1>21. PlanIn(r, mi, c) = PlanOf(goals, mi, c) BY <1>5, <1>17 DEF PlanIn
<1>22. DecodeCurrentRegion(c) = current BY <1>8, <1>10, <1>11 DEF DecodeCurrentRegion
<1>23. \A i \in DOMAIN goals : goals[i] # Malformed
  <2>1. \A i \in 1..Len(goals) : goals[i] \in GoodGoals BY <1>1, ElementOfSeq
  <2>2. \A g \in GoodGoals : g \in CoveragePlanGoals BY DEF GoodGoals
  <2>3. DOMAIN goals = 1..Len(goals) BY <1>1, LenProperties
  <2> QED BY <2>1, <2>2, <2>3, MarksAssumption
<1>24. PlanOf(goals, mi, c) = PlanWith(goals, Mission, current)
  BY <1>1, <1>7, <1>17, <1>22, <1>23 DEF PlanOf
<1>25. ValidGoals(goals) /\ OnePartition(goals) BY DEF IsPlan
<1>26. Malformed \notin {Mission, current} BY <1>6, MarksAssumption
<1>27. PlanWith(goals, Mission, current)
         = [mission_id |-> Mission, goals |-> goals, current_region_id |-> current]
  BY <1>25, <1>26 DEF PlanWith
<1> QED BY <1>3, <1>20, <1>21, <1>24, <1>27

\* decode_active_session_key reads the robot's session as it is.
LEMMA SessionRead ==
    ASSUME NEW goals, goals # <<>>, NEW style \in Styles
    PROVE  DecodeSessionKey(SessionMessage(goals, style))
              = [mission_id |-> Mission, session_id |-> Session]
<1> DEFINE mi == MissionId(Mission)
           id == Bytes(2, RobotUuid(Session, style))
           x == Bytes(1, mi)
           y == Bytes(2, id)
           m == x \o y
<1>1. Mission \in Nat /\ Session \in Halves BY SMT DEF Mission, Session, Halves
<1>2. Sized(mi, 8) /\ DecodeMission(mi) = Mission BY <1>1, MissionRead
<1>3. Sized(id, 40) /\ DecodeIdentifier(id) = Session BY <1>1, RobotNames, IdentifierRead
<1>4. SessionMessage(goals, style) = m BY DEF SessionMessage
<1> HIDE DEF mi, id
<1>5. /\ 8 \in Nat /\ 40 \in Nat /\ 8 <= 1000 /\ 40 <= 1000 /\ 1 \in 1..15 /\ 2 \in 1..15
      /\ 1 # 2 OBVIOUS
<1>6. Holds(x, Piece(1, 2, mi)) /\ Omits(x, 2) BY <1>2, <1>5, Wrapped
<1>7. Holds(y, Piece(2, 2, id)) /\ Omits(y, 1) BY <1>3, <1>5, Wrapped
<1> HIDE DEF x, y
<1>8. Holds(m, Piece(1, 2, mi)) /\ Holds(m, Piece(2, 2, id)) BY <1>6, <1>7, Beside
<1> HIDE DEF m
<1>9. mi # None /\ mi # Malformed /\ id # None /\ id # Malformed
  <2>1. mi \in Seq(Nat) /\ id \in Seq(Nat) BY <1>2, <1>3 DEF Sized
  <2> QED BY <2>1, MarksAssumption
<1>10. /\ Optional(FieldsOf(m), 1, 2) = mi
       /\ Required(FieldsOf(m), 1, 2) = mi /\ Required(FieldsOf(m), 2, 2) = id
  BY <1>8, <1>9, RequiredHolds
<1>11. m # <<>>
  <2>1. SUFFICES ASSUME m = <<>> PROVE FALSE OBVIOUS
  <2>2. Omits(<<>>, 1) BY OmitsEmpty
  <2>3. Optional(FieldsOf(<<>>), 1, 2) = None BY <2>2, OmitsRead
  <2> QED BY <1>9, <1>10, <2>1, <2>3
<1>12. DecodeSessionKey(m) = SessionOf(Mission, Session)
  BY <1>2, <1>3, <1>10, <1>11 DEF DecodeSessionKey, SessionIn
<1>13. Malformed \notin {Mission, Session} BY <1>1, MarksAssumption
<1> QED BY <1>4, <1>12, <1>13 DEF SessionOf

\* The snapshot of a plan.
SnapshotOf(goals, current) ==
    [mission_id |-> Mission, goals |-> goals, current_region_id |-> current,
     current_session_id |-> Session]

\* And fetch_reprioritization_snapshot joins the two.
LEMMA SnapshotRead ==
    ASSUME NEW goals, IsPlan(goals), NEW current \in Halves, NEW style \in Styles
    PROVE  Joined(DecodePlan(PlanMessage(goals, current, style)),
                  DecodeSessionKey(SessionMessage(goals, style)))
              = SnapshotOf(goals, current)
<1> DEFINE d == [mission_id |-> Mission, goals |-> goals, current_region_id |-> current]
           s == [mission_id |-> Mission, session_id |-> Session]
<1>1. goals \in Seq(CoveragePlanGoals) /\ goals # <<>> BY DEF IsPlan, OnePartition
<1>2. Mission \in Nat /\ Session \in Halves BY SMT DEF Mission, Session, Halves
<1>3. d \in DecodedPlans /\ s \in DecodedSessions
  BY <1>1, <1>2 DEF DecodedPlans, DecodedSessions
<1>4. d # None /\ d # Malformed /\ s # None /\ s # Malformed BY <1>3, MarksAssumption
<1>5. /\ d.mission_id = s.mission_id /\ d.mission_id = Mission /\ d.goals = goals
      /\ d.current_region_id = current /\ s.session_id = Session OBVIOUS
<1>6. DecodePlan(PlanMessage(goals, current, style)) = d BY PlanRead
<1>7. DecodeSessionKey(SessionMessage(goals, style)) = s BY <1>1, SessionRead
<1> HIDE DEF d, s
<1>8. Joined(d, s) = SnapshotOf(goals, current) BY <1>4, <1>5 DEF Joined, SnapshotOf
<1> QED BY <1>6, <1>7, <1>8

------------------------------------------------------------------------------
\* The same messages, cut short.

\* A message that is cut short lacks its last field, or is refused.
LEMMA CutLacksLast ==
    ASSUME NEW ws \in Seq(Written), NEW number, Len(ws) >= 1,
           \A i \in 1..Len(ws) - 1 : ws[i].number # number,
           NEW n \in 0..Len(Message(ws)) - 1, NEW t
    PROVE  /\ SubSeq(Message(ws), 1, n) \in Seq(Nat)
           /\ Optional(FieldsOf(SubSeq(Message(ws), 1, n)), number, t) \in {None, Malformed}
<1> DEFINE m == Message(ws)
           cut == SubSeq(m, 1, n)
           fields == ParseFields(cut)
<1>1. m \in Seq(Nat) BY MessageConcat
<1>2. cut \in Seq(Nat)
  <2> HIDE DEF m
  <2>1. Len(m) \in Nat /\ n \in 0..Len(m) - 1 BY <1>1, LenProperties DEF m
  <2>2. 1 \in 1..Len(m) + 1 /\ n \in 0..Len(m) /\ \A i \in 1..n : i \in 1..Len(m) BY <2>1
  <2>3. \A i \in 1..n : m[i] \in Nat BY <1>1, <2>2, ElementOfSeq
  <2> QED BY <2>2, <2>3, SubSeqProperties
<1>3. \/ fields = Malformed
      \/ \E c, d \in Seq(Written) : ws = c \o d /\ d # <<>> /\ ReadsAs(fields, c)
  BY CutParsed
<1>4. FieldsOf(cut) = fields
  <2>1. cut # Malformed BY <1>2, MarksAssumption
  <2> HIDE DEF cut
  <2> QED BY <2>1 DEF FieldsOf
<1> HIDE DEF m, cut, fields
<1>5. CASE fields = Malformed
  <2>1. Optional(fields, number, t) = Malformed BY <1>5 DEF Optional
  <2> QED BY <1>2, <1>4, <2>1 DEF cut, m
<1>6. CASE fields # Malformed
  <2>1. PICK c, d \in Seq(Written) : ws = c \o d /\ d # <<>> /\ ReadsAs(fields, c)
    BY <1>3, <1>6
  <2>2. /\ Len(c) \in Nat /\ Len(d) \in Nat /\ Len(c \o d) = Len(c) + Len(d)
        /\ \A i \in 1..Len(c) : (c \o d)[i] = c[i] BY Indexed
  <2>3. Len(d) # 0 BY <2>1, EmptySeq
  <2>4. \A i \in 1..Len(c) : c[i].number # number
    <3>1. Len(ws) = Len(c) + Len(d) /\ \A i \in 1..Len(c) : ws[i] = c[i] BY <2>1, <2>2
    <3>2. \A i \in 1..Len(c) : i \in 1..Len(ws) - 1 BY <2>2, <2>3, <3>1
    <3> QED BY <3>1, <3>2
  <2>5. Lacks(c, number) BY <2>4 DEF Lacks
  <2>6. Optional(fields, number, t) = None BY <2>1, <2>5, OptionalLacks
  <2> QED BY <1>2, <1>4, <2>6 DEF cut, m
<1> QED BY <1>5, <1>6

\* Messages of two and of three fields.
LEMMA MessageOfTwo ==
    ASSUME NEW a \in Written, NEW b \in Written
    PROVE  /\ <<a, b>> \in Seq(Written)
           /\ Message(<<a, b>>) = WireOf(a) \o WireOf(b)
<1>0. <<a>> \in Seq(Written) /\ <<b>> \in Seq(Written) /\ <<a, b>> \in Seq(Written) OBVIOUS
<1>1. <<a, b>> = <<a>> \o <<b>>
  <2> DEFINE s == <<a>>
             t == <<b>>
             u == <<a, b>>
  <2>1. s \in Seq(Written) /\ t \in Seq(Written) BY <1>0
  <2>2. Len(s) = 1 /\ Len(t) = 1 /\ s[1] = a /\ t[1] = b OBVIOUS
  <2>3. Len(u) = 2 /\ u[1] = a /\ u[2] = b /\ u \in Seq(Written) BY <1>0
  <2> HIDE DEF s, t, u
  <2>4. /\ s \o t \in Seq(Written) /\ Len(s \o t) = Len(s) + Len(t)
        /\ \A i \in 1..Len(s) : (s \o t)[i] = s[i]
        /\ \A i \in 1..Len(t) : (s \o t)[Len(s) + i] = t[i]
    BY ONLY <2>1, Indexed
  <2>5. (s \o t)[1] = a /\ (s \o t)[1 + 1] = b /\ Len(s \o t) = 2 BY <2>2, <2>4
  <2>6. \A i \in 1..Len(u) : u[i] = (s \o t)[i]
    <3>1. \A i \in 1..Len(u) : i = 1 \/ i = 1 + 1 BY <2>3
    <3>2. 1 + 1 = 2 OBVIOUS
    <3> QED BY <2>3, <2>5, <3>1, <3>2
  <2>7. u = s \o t BY <2>3, <2>4, <2>5, <2>6, SeqEqual
  <2> QED BY <2>7 DEF s, t, u
<1>2. Message(<<a>> \o <<b>>) = Message(<<a>>) \o Message(<<b>>) BY <1>0, MessageConcat
<1> QED BY <1>0, <1>1, <1>2, MessageOne

LEMMA MessageOfThree ==
    ASSUME NEW a \in Written, NEW b \in Written, NEW c \in Written
    PROVE  /\ <<a, b, c>> \in Seq(Written)
           /\ Message(<<a, b, c>>) = (WireOf(a) \o WireOf(b)) \o WireOf(c)
<1>1. <<a, b>> \in Seq(Written) /\ <<c>> \in Seq(Written) /\ <<a, b, c>> \in Seq(Written)
      /\ <<a, b, c>> = <<a, b>> \o <<c>> OBVIOUS
<1>2. Message(<<a, b>> \o <<c>>) = Message(<<a, b>>) \o Message(<<c>>) BY <1>1, MessageConcat
<1> QED BY <1>1, <1>2, MessageOne, MessageOfTwo

\* A plan without the region the robot is in is not acted on.
LEMMA NoCandidate ==
    ASSUME NEW reports, NEW mission, NEW candidate \in {None, Malformed}
    PROVE  PlanIn(reports, mission, candidate) \in {None, Malformed}
<1>1. None # Malformed BY MarksAssumption
<1>2. CASE Malformed \in {reports, mission, candidate} BY <1>2 DEF PlanIn
<1>3. CASE Malformed \notin {reports, mission, candidate}
  <2>1. candidate = None BY <1>3
  <2>2. \A goals : PlanOf(goals, mission, None) \in {None, Malformed} BY DEF PlanOf
  <2>3. CASE reports = None BY <1>3, <2>3 DEF PlanIn
  <2>4. CASE reports # None
    <3>1. PlanIn(reports, mission, candidate) = PlanOf(GoalsIn(FieldsOf(reports)), mission, None)
      BY <1>3, <2>1, <2>4 DEF PlanIn
    <3> QED BY <2>2, <3>1
  <2> QED BY <2>3, <2>4
<1> QED BY <1>2, <1>3

LEMMA NoIdentifier ==
    ASSUME NEW mission
    PROVE  SessionOf(mission, DecodeIdentifier(Malformed)) = Malformed
<1>1. None # Malformed BY MarksAssumption
<1>2. FieldsOf(Malformed) = Malformed BY DEF FieldsOf
<1>3. \A number, t : Optional(Malformed, number, t) = Malformed BY DEF Optional
<1>4. Within(Malformed, 2) = Malformed BY <1>1, <1>2, <1>3 DEF Within, Required
<1>5. DecodeIdentifier(Malformed) = Malformed
  BY <1>2, <1>3, <1>4 DEF DecodeIdentifier, DecodeUuid, UuidIn, Uuid
<1> QED BY <1>5 DEF SessionOf

\* A plan that is cut short lacks its region, or is refused.
LEMMA PlanCut ==
    ASSUME NEW goals, IsPlan(goals), NEW current \in Halves, NEW style \in Styles,
           NEW n \in 0..Len(PlanMessage(goals, current, style)) - 1
    PROVE  DecodePlan(SubSeq(PlanMessage(goals, current, style), 1, n)) \in {None, Malformed}
<1> DEFINE vs == ReportsOf(goals, style)
           r == FlattenSeq(Many(1, vs))
           mi == MissionId(Mission)
           id == Bytes(2, RobotUuid(current, style))
           c == Bytes(1, Bytes(4, id))
           p == Piece(7, 2, r)
           q == Piece(11, 2, mi)
           s == Piece(14, 2, c)
           ws == <<p, q, s>>
           whole == PlanMessage(goals, current, style)
           cut == SubSeq(whole, 1, n)
<1>1. goals \in Seq(GoodGoals) /\ Len(goals) <= MaxReports /\ goals # <<>> BY PlanGoals
<1>2. vs \in Seq(Manageable) /\ Len(vs) = Len(goals) BY <1>1, ReportsRead
<1>3. whole = (Bytes(7, r) \o Bytes(11, mi)) \o Bytes(14, c)
  <2>1. DOMAIN vs = DOMAIN goals BY DEF ReportsOf
  <2>2. [i \in DOMAIN goals |-> Bytes(1, Bytes(1, RobotGoal(goals[i], style)))] = Many(1, vs)
    BY DEF Many, ReportsOf
  <2> HIDE DEF vs
  <2> QED BY <1>1, <2>2 DEF PlanMessage
<1>4. Wide(r, 0) BY <1>1, <1>2, ManyWide
<1>5. Mission \in Nat BY SMT DEF Mission
<1>6. Sized(mi, 8) BY <1>5, MissionRead
<1>7. Sized(c, 56)
  <2>1. Sized(id, 40) BY RobotNames, IdentifierRead
  <2> HIDE DEF id
  <2>2. /\ 40 \in Nat /\ 48 \in Nat /\ 40 <= 1000 /\ 48 <= 1000 /\ 40 + 8 = 48 /\ 48 + 8 = 56
        /\ 1 \in 1..15 /\ 4 \in 1..15 OBVIOUS
  <2>3. Sized(Bytes(4, id), 48)
    <3>1. Sized(Bytes(4, id), 40 + 8) BY <2>1, <2>2, Wrapped
    <3> QED BY <2>2, <3>1
  <2>4. Sized(Bytes(1, Bytes(4, id)), 48 + 8) BY <2>2, <2>3, Wrapped
  <2> QED BY <2>2, <2>4
<1> HIDE DEF vs, r, mi, c
<1>8. /\ r \in Seq(Nat) /\ Len(r) < Ample /\ mi \in Seq(Nat) /\ Len(mi) < Ample
      /\ c \in Seq(Nat) /\ Len(c) < Ample
  <2>1. 0 \in Nat /\ 0 <= 1000 /\ 8 \in Nat /\ 8 <= 1000 /\ 56 \in Nat /\ 56 <= 1000 OBVIOUS
  <2> QED BY <1>4, <1>6, <1>7, <2>1, WideIsShort, SizedIsShort
<1>9. p \in Written /\ WireOf(p) = Bytes(7, r)
  <2>1. 7 \in 1..15 OBVIOUS
  <2> QED BY <1>8, <2>1, PieceWire
<1>10. q \in Written /\ WireOf(q) = Bytes(11, mi)
  <2>1. 11 \in 1..15 OBVIOUS
  <2> QED BY <1>8, <2>1, PieceWire
<1>11. s \in Written /\ WireOf(s) = Bytes(14, c)
  <2>1. 14 \in 1..15 OBVIOUS
  <2> QED BY <1>8, <2>1, PieceWire
<1>12. p.number = 7 /\ q.number = 11 BY DEF Piece
<1> HIDE DEF p, q, s
<1>13. ws \in Seq(Written) /\ whole = Message(ws)
  <2>1. /\ <<p, q, s>> \in Seq(Written)
        /\ Message(<<p, q, s>>) = (WireOf(p) \o WireOf(q)) \o WireOf(s)
    BY <1>9, <1>10, <1>11, MessageOfThree
  <2> HIDE DEF whole
  <2> QED BY <1>3, <1>9, <1>10, <1>11, <2>1
<1>14. Len(ws) = 3 /\ ws[1] = p /\ ws[2] = q OBVIOUS
<1> HIDE DEF ws, whole
<1>15. \A i \in 1..Len(ws) - 1 : ws[i].number # 14
  <2>1. \A i \in 1..Len(ws) - 1 : i = 1 \/ i = 2 BY <1>14
  <2>2. 7 # 14 /\ 11 # 14 OBVIOUS
  <2> QED BY <1>12, <1>14, <2>1, <2>2
<1>16. n \in 0..Len(Message(ws)) - 1 /\ Len(ws) >= 1 BY <1>13, <1>14 DEF whole
<1>17. cut \in Seq(Nat) /\ Optional(FieldsOf(cut), 14, 2) \in {None, Malformed}
  BY <1>13, <1>15, <1>16, CutLacksLast
<1> HIDE DEF cut
<1>18. CASE cut = <<>> BY <1>18 DEF DecodePlan, cut, whole
<1>19. CASE cut # <<>>
  <2>1. DecodePlan(cut) \in {None, Malformed}
    BY <1>17, <1>19, NoCandidate DEF DecodePlan, PlanFields
  <2> QED BY <2>1 DEF cut, whole
<1> QED BY <1>18, <1>19

\* A session's key that is cut short lacks the session, or is refused.
LEMMA SessionCut ==
    ASSUME NEW goals, goals # <<>>, NEW style \in Styles,
           NEW n \in 0..Len(SessionMessage(goals, style)) - 1
    PROVE  DecodeSessionKey(SubSeq(SessionMessage(goals, style), 1, n)) \in {None, Malformed}
<1> DEFINE mi == MissionId(Mission)
           id == Bytes(2, RobotUuid(Session, style))
           p == Piece(1, 2, mi)
           q == Piece(2, 2, id)
           ws == <<p, q>>
           whole == SessionMessage(goals, style)
           cut == SubSeq(whole, 1, n)
<1>1. Mission \in Nat /\ Session \in Halves BY SMT DEF Mission, Session, Halves
<1>2. Sized(mi, 8) BY <1>1, MissionRead
<1>3. Sized(id, 40) BY <1>1, RobotNames, IdentifierRead
<1>4. whole = Bytes(1, mi) \o Bytes(2, id) BY DEF SessionMessage
<1> HIDE DEF mi, id
<1>5. mi \in Seq(Nat) /\ Len(mi) < Ample /\ id \in Seq(Nat) /\ Len(id) < Ample
  <2>1. 8 \in Nat /\ 8 <= 1000 /\ 40 \in Nat /\ 40 <= 1000 OBVIOUS
  <2> QED BY <1>2, <1>3, <2>1, SizedIsShort
<1>6. p \in Written /\ WireOf(p) = Bytes(1, mi)
  <2>1. 1 \in 1..15 OBVIOUS
  <2> QED BY <1>5, <2>1, PieceWire
<1>7. q \in Written /\ WireOf(q) = Bytes(2, id)
  <2>1. 2 \in 1..15 OBVIOUS
  <2> QED BY <1>5, <2>1, PieceWire
<1>8. p.number = 1 BY DEF Piece
<1> HIDE DEF p, q
<1>9. ws \in Seq(Written) /\ whole = Message(ws) BY <1>4, <1>6, <1>7, MessageOfTwo
<1>10. Len(ws) = 2 /\ ws[1] = p OBVIOUS
<1> HIDE DEF ws, whole
<1>11. \A i \in 1..Len(ws) - 1 : ws[i].number # 2
  <2>1. \A i \in 1..Len(ws) - 1 : i = 1 BY <1>10
  <2>2. 1 # 2 OBVIOUS
  <2> QED BY <1>8, <1>10, <2>1, <2>2
<1>12. n \in 0..Len(Message(ws)) - 1 /\ Len(ws) >= 1 BY <1>9, <1>10 DEF whole
<1>13. cut \in Seq(Nat) /\ Optional(FieldsOf(cut), 2, 2) \in {None, Malformed}
  BY <1>9, <1>11, <1>12, CutLacksLast
<1> HIDE DEF cut
<1>14. CASE cut = <<>> BY <1>14 DEF DecodeSessionKey, cut, whole
<1>15. CASE cut # <<>>
  <2>1. Required(FieldsOf(cut), 2, 2) = Malformed BY <1>13 DEF Required
  <2>2. DecodeSessionKey(cut) = Malformed
    BY <1>15, <2>1, NoIdentifier DEF DecodeSessionKey, SessionIn
  <2> QED BY <2>2 DEF cut, whole
<1> QED BY <1>14, <1>15

\* Of any plan.
LEMMA PlansAreCutSafely ==
    ASSUME IsPlan(plan)
    PROVE  CutMessages
<1>1. plan \in Seq(GoodGoals) /\ plan # <<>> BY PlanGoals
<1>2. plan[1].region_id \in Halves
  <2>1. Len(plan) \in Nat /\ Len(plan) # 0 BY <1>1, LenProperties, EmptySeq
  <2>2. 1 \in 1..Len(plan) BY <2>1
  <2>3. plan[1] \in GoodGoals BY <1>1, <2>2, ElementOfSeq
  <2> QED BY <2>3, GoalParts
<1>3. ASSUME NEW style \in Styles
      PROVE  /\ \A n \in 0..Len(PlanMessage(plan, plan[1].region_id, style)) - 1 :
                   DecodePlan(SubSeq(PlanMessage(plan, plan[1].region_id, style), 1, n))
                      \in {None, Malformed}
             /\ \A n \in 0..Len(SessionMessage(plan, style)) - 1 :
                   DecodeSessionKey(SubSeq(SessionMessage(plan, style), 1, n))
                      \in {None, Malformed}
  <2>1. PICK current \in Halves : current = plan[1].region_id BY <1>2
  <2>2. \A n \in 0..Len(PlanMessage(plan, current, style)) - 1 :
           DecodePlan(SubSeq(PlanMessage(plan, current, style), 1, n)) \in {None, Malformed}
    BY PlanCut
  <2>3. \A n \in 0..Len(SessionMessage(plan, style)) - 1 :
           DecodeSessionKey(SubSeq(SessionMessage(plan, style), 1, n)) \in {None, Malformed}
    BY <1>1, SessionCut
  <2> QED BY <2>1, <2>2, <2>3
<1> QED BY <1>3 DEF CutMessages

------------------------------------------------------------------------------
\* The request: the robot reads the goals that the codec was given.

(* The robot reads from the codec's request the goals that the codec was given, all
   of them and in order, under the mission and the session they belong to.    *)
LEMMA DeliveredRead ==
    ASSUME NEW c, c.mission_id = Mission, c.current_session_id = Session, c.ordered = "True",
           NEW goals \in Seq(GoodGoals), goals = Transformed(c), Len(goals) <= MaxReports
    PROVE  Delivered(ReprioritizePayload(c)) = goals
<1> DEFINE ms == PlanGoalsOf(goals)
           g == FlattenSeq(Many(1, ms))
           mi == MissionId(Mission)
           id == Bytes(2, WrappedUuid(Session))
           b2 == Bytes(2, Bytes(2, Empty(1)))
           b3 == Bytes(3, mi)
           b5 == Bytes(5, g)
           b6 == Bytes(6, id)
           b7 == Bytes(7, Bytes(1, WrappedUuid(Fresh(1))))
           x == b2 \o b3
           y == x \o b5
           z == y \o b6
           job == z \o b7
           outer == Bytes(3, job)
           envelope == Bytes(1, outer)
           m == Bytes(15, envelope)
<1>1. ReprioritizePayload(c) = m
  <2>1. GoalField("True") = 1 BY DEF GoalField
  <2>2. DOMAIN ms = DOMAIN goals BY DEF PlanGoalsOf
  <2>3. [i \in DOMAIN goals |-> Bytes(1, PlanGoal(goals[i]))] = Many(1, ms)
    BY DEF Many, PlanGoalsOf
  <2>4. [i \in DOMAIN Transformed(c) |-> Bytes(GoalField(c.ordered), PlanGoal(Transformed(c)[i]))]
        = Many(1, ms) BY <2>1, <2>3
  <2>5. ReprioritizePayload(c) = CoverageEnvelope(Mission, g, Session, Fresh(1))
    BY <2>4 DEF ReprioritizePayload
  <2> HIDE DEF ms
  <2> QED BY <2>5 DEF CoverageEnvelope
<1>2. ms \in Seq(Manageable) /\ Len(ms) = Len(goals)
      /\ [i \in DOMAIN ms |-> DecodeGoal(ms[i])] = goals BY PlanGoalsRead
<1> HIDE DEF ms
<1>3. Wide(g, 0) /\ Repeated(FieldsOf(g), 1) = ms BY <1>2, ManyWide
<1>4. Mission \in Nat /\ Session \in Halves /\ Fresh(1) \in Halves
  BY SMT DEF Mission, Session, Halves, Fresh
<1>5. Sized(mi, 8) /\ DecodeMission(mi) = Mission BY <1>4, MissionRead
<1>6. Sized(WrappedUuid(Session), 32) /\ Sized(WrappedUuid(Fresh(1)), 32)
      /\ Names(WrappedUuid(Session), Session) BY <1>4, WrappedNames DEF Names
<1>7. Sized(id, 40) /\ DecodeIdentifier(id) = Session BY <1>6, IdentifierRead
<1>8. Sized(b2, 24) /\ Omits(b2, 3) /\ Omits(b2, 5) /\ Omits(b2, 6)
  <2>1. /\ 8 \in Nat /\ 8 <= 1000 /\ 16 \in Nat /\ 16 <= 1000 /\ 8 + 8 = 16 /\ 16 + 8 = 24
        /\ 1 \in 1..15 /\ 2 \in 1..15 OBVIOUS
  <2> DEFINE e == Empty(1)
             f == Bytes(2, e)
  <2>2. Sized(e, 8) BY <2>1, EmptyRead
  <2> HIDE DEF e
  <2>3. Sized(f, 8 + 8) BY <2>1, <2>2, Wrapped
  <2>4. Sized(f, 16) BY <2>1, <2>3
  <2> HIDE DEF f
  <2>5. Sized(Bytes(2, f), 16 + 8) /\ \A number : number # 2 => Omits(Bytes(2, f), number)
    BY <2>1, <2>4, Wrapped
  <2>6. 3 # 2 /\ 5 # 2 /\ 6 # 2 OBVIOUS
  <2>7. Sized(Bytes(2, f), 24) /\ Omits(Bytes(2, f), 3) /\ Omits(Bytes(2, f), 5)
        /\ Omits(Bytes(2, f), 6) BY <2>1, <2>5, <2>6
  <2> QED BY <2>7 DEF f, e
<1>9. Sized(b7, 48) /\ Omits(b7, 3) /\ Omits(b7, 5) /\ Omits(b7, 6)
  <2>1. /\ 32 \in Nat /\ 32 <= 1000 /\ 40 \in Nat /\ 40 <= 1000 /\ 32 + 8 = 40 /\ 40 + 8 = 48
        /\ 1 \in 1..15 /\ 7 \in 1..15 OBVIOUS
  <2> DEFINE e == WrappedUuid(Fresh(1))
             f == Bytes(1, e)
  <2>2. Sized(e, 32) BY <1>6
  <2> HIDE DEF e
  <2>3. Sized(f, 32 + 8) BY <2>1, <2>2, Wrapped
  <2>4. Sized(f, 40) BY <2>1, <2>3
  <2> HIDE DEF f
  <2>5. Sized(Bytes(7, f), 40 + 8) /\ \A number : number # 7 => Omits(Bytes(7, f), number)
    BY <2>1, <2>4, Wrapped
  <2>6. 3 # 7 /\ 5 # 7 /\ 6 # 7 OBVIOUS
  <2>7. Sized(Bytes(7, f), 48) /\ Omits(Bytes(7, f), 3) /\ Omits(Bytes(7, f), 5)
        /\ Omits(Bytes(7, f), 6) BY <2>1, <2>5, <2>6
  <2> QED BY <2>7 DEF f, e
<1>10. Sized(b3, 16) /\ Holds(b3, Piece(3, 2, mi)) /\ Omits(b3, 5) /\ Omits(b3, 6)
  <2> HIDE DEF mi
  <2>1. 8 \in Nat /\ 8 <= 1000 /\ 8 + 8 = 16 /\ 3 \in 1..15 /\ 5 # 3 /\ 6 # 3 OBVIOUS
  <2>2. Sized(b3, 8 + 8) /\ Holds(b3, Piece(3, 2, mi)) /\ Omits(b3, 5) /\ Omits(b3, 6)
    BY <1>5, <2>1, Wrapped
  <2> QED BY <2>1, <2>2
<1>11. Wide(b5, 8) /\ Holds(b5, Piece(5, 2, g)) /\ Omits(b5, 3) /\ Omits(b5, 6)
  <2> HIDE DEF g
  <2>1. 0 \in Nat /\ 0 <= 1000 /\ 0 + 8 = 8 /\ 5 \in 1..15 /\ 3 # 5 /\ 6 # 5 OBVIOUS
  <2>2. Wide(b5, 0 + 8) /\ Holds(b5, Piece(5, 2, g)) /\ Omits(b5, 3) /\ Omits(b5, 6)
    BY <1>3, <2>1, WideField
  <2> QED BY <2>1, <2>2
<1>12. Sized(b6, 48) /\ Holds(b6, Piece(6, 2, id)) /\ Omits(b6, 3) /\ Omits(b6, 5)
  <2> HIDE DEF id
  <2>1. 40 \in Nat /\ 40 <= 1000 /\ 40 + 8 = 48 /\ 6 \in 1..15 /\ 3 # 6 /\ 5 # 6 OBVIOUS
  <2>2. Sized(b6, 40 + 8) /\ Holds(b6, Piece(6, 2, id)) /\ Omits(b6, 3) /\ Omits(b6, 5)
    BY <1>7, <2>1, Wrapped
  <2> QED BY <2>1, <2>2
<1> HIDE DEF g, mi, id, b2, b3, b5, b6, b7
<1>13. Sized(x, 40) /\ Holds(x, Piece(3, 2, mi)) /\ Omits(x, 5) /\ Omits(x, 6)
  <2>1. 24 \in Nat /\ 16 \in Nat /\ 40 \in Nat /\ 24 + 16 <= 40 OBVIOUS
  <2>2. Sized(x, 40) BY <1>8, <1>10, <2>1, SizedBoth
  <2> QED BY <1>8, <1>10, <2>2, Beside
<1> HIDE DEF x
<1>14. /\ Wide(y, 48) /\ Holds(y, Piece(3, 2, mi)) /\ Holds(y, Piece(5, 2, g)) /\ Omits(y, 6)
  <2>1. 8 \in Nat /\ 40 \in Nat /\ 8 + 40 = 48 OBVIOUS
  <2>2. Wide(y, 8 + 40) BY <1>11, <1>13, <2>1, WideBeside
  <2>3. Wide(y, 48) BY <2>1, <2>2
  <2> QED BY <1>11, <1>13, <2>3, Beside
<1> HIDE DEF y
<1>15. /\ Wide(z, 96) /\ Holds(z, Piece(3, 2, mi)) /\ Holds(z, Piece(5, 2, g))
       /\ Holds(z, Piece(6, 2, id))
  <2>1. 48 \in Nat /\ 48 + 48 = 96 OBVIOUS
  <2>2. Wide(z, 48 + 48) BY <1>12, <1>14, <2>1, WideBeside
  <2>3. Wide(z, 96) BY <2>1, <2>2
  <2> QED BY <1>12, <1>14, <2>3, Beside
<1> HIDE DEF z
<1>16. /\ Wide(job, 144) /\ Holds(job, Piece(3, 2, mi)) /\ Holds(job, Piece(5, 2, g))
       /\ Holds(job, Piece(6, 2, id))
  <2>1. 48 \in Nat /\ 96 \in Nat /\ 96 + 48 = 144 OBVIOUS
  <2>2. Wide(job, 96 + 48) BY <1>9, <1>15, <2>1, WideBeside
  <2>3. Wide(job, 144) BY <2>1, <2>2
  <2> QED BY <1>9, <1>15, <2>3, Beside
<1> HIDE DEF job
<1>17. Wide(outer, 152) /\ Within(outer, 3) = job
  <2>1. 144 \in Nat /\ 144 <= 1000 /\ 144 + 8 = 152 /\ 3 \in 1..15 OBVIOUS
  <2>2. Wide(outer, 144 + 8) /\ Within(outer, 3) = job BY <1>16, <2>1, WideField
  <2> QED BY <2>1, <2>2
<1> HIDE DEF outer
<1>18. Wide(envelope, 160) /\ Within(envelope, 1) = outer
  <2>1. 152 \in Nat /\ 152 <= 1000 /\ 152 + 8 = 160 /\ 1 \in 1..15 OBVIOUS
  <2>2. Wide(envelope, 152 + 8) /\ Within(envelope, 1) = outer BY <1>17, <2>1, WideField
  <2> QED BY <2>1, <2>2
<1> HIDE DEF envelope
<1>19. Within(m, 15) = envelope
  <2>1. 160 \in Nat /\ 160 <= 1000 /\ 15 \in 1..15 OBVIOUS
  <2> QED BY <1>18, <2>1, WideField
<1> HIDE DEF m
<1>20. Within(Within(Within(m, 15), 1), 3) = job BY <1>17, <1>18, <1>19
<1>21. Within(job, 3) = mi /\ Within(job, 5) = g /\ Within(job, 6) = id
  <2>1. mi \in Seq(Nat) /\ g \in Seq(Nat) /\ id \in Seq(Nat)
    BY <1>3, <1>5, <1>7 DEF Sized, Wide
  <2>2. 3 \in 1..15 /\ 5 \in 1..15 /\ 6 \in 1..15 OBVIOUS
  <2> QED BY <1>16, <2>1, <2>2, WithinHolds
<1>22. Delivered(m) = [i \in DOMAIN ms |-> DecodeGoal(ms[i])]
  BY <1>3, <1>5, <1>7, <1>20, <1>21 DEF Delivered
<1> QED BY <1>1, <1>2, <1>22

------------------------------------------------------------------------------
\* Those goals of a plan that are in a region, and those that are not.

\* Those of a list that are in a set, in their order.
Kept(s, K) == FlattenSeq([i \in DOMAIN s |-> When(s[i] \in K, <<s[i]>>)])

\* One goal more.
LEMMA KeptAppend ==
    ASSUME NEW S, NEW s \in Seq(S), NEW e \in S, NEW K
    PROVE  /\ e \in K => Kept(Append(s, e), K) = Kept(s, K) \o <<e>>
           /\ e \notin K => Kept(Append(s, e), K) = Kept(s, K)
<1> DEFINE n == Len(s)
           t == Append(s, e)
           Parts(x) == [i \in DOMAIN x |-> When(x[i] \in K, <<x[i]>>)]
           p == Parts(s)
           q == Parts(t)
           last == When(e \in K, <<e>>)
           r == Append(p, last)
<1>1. n \in Nat /\ DOMAIN s = 1..n /\ \A i \in 1..n : s[i] \in S BY LenProperties, ElementOfSeq
<1>2. /\ t \in Seq(S) /\ Len(t) = n + 1 /\ DOMAIN t = 1..n + 1
      /\ \A i \in 1..n : t[i] = s[i]
      /\ t[n + 1] = e
  <2>1. t \in Seq(S) /\ Len(t) = n + 1 /\ (\A i \in 1..n : t[i] = s[i]) /\ t[n + 1] = e
    BY AppendProperties
  <2> HIDE DEF t
  <2>2. DOMAIN t = 1..Len(t) BY <2>1, LenProperties
  <2> QED BY <2>1, <2>2
<1> HIDE DEF n, t
<1>3. \A x \in S : When(x \in K, <<x>>) \in Seq(S)
  <2>1. \A x \in S : <<x>> \in Seq(S) /\ <<>> \in Seq(S) OBVIOUS
  <2> QED BY <2>1 DEF When
<1>4. p = [i \in 1..n |-> When(s[i] \in K, <<s[i]>>)] BY <1>1
<1>5. p \in Seq(Seq(S)) /\ Len(p) = n /\ \A i \in 1..n : p[i] = When(s[i] \in K, <<s[i]>>)
  <2>1. \A i \in 1..n : When(s[i] \in K, <<s[i]>>) \in Seq(S) BY <1>1, <1>3
  <2>2. [i \in 1..n |-> When(s[i] \in K, <<s[i]>>)] \in Seq(Seq(S)) BY <1>1, <2>1, IsASeq
  <2>3. Len([i \in 1..n |-> When(s[i] \in K, <<s[i]>>)]) = n BY <1>1
  <2> HIDE DEF p
  <2> QED BY <1>4, <2>2, <2>3
<1>6. q = [i \in 1..n + 1 |-> When(t[i] \in K, <<t[i]>>)] BY <1>2
<1>7. q \in Seq(Seq(S)) /\ Len(q) = n + 1
      /\ \A i \in 1..n + 1 : q[i] = When(t[i] \in K, <<t[i]>>)
  <2>0. n + 1 \in Nat BY <1>1
  <2>1. \A i \in 1..n + 1 : When(t[i] \in K, <<t[i]>>) \in Seq(S)
    <3>1. \A i \in 1..n + 1 : t[i] \in S BY <1>2, ElementOfSeq
    <3> QED BY <1>3, <3>1
  <2>2. [i \in 1..n + 1 |-> When(t[i] \in K, <<t[i]>>)] \in Seq(Seq(S))
    <3>1. PICK k \in Nat : k = n + 1 BY <2>0
    <3>2. \A i \in 1..k : When(t[i] \in K, <<t[i]>>) \in Seq(S) BY <2>1, <3>1
    <3>3. [i \in 1..k |-> When(t[i] \in K, <<t[i]>>)] \in Seq(Seq(S)) BY <3>2, IsASeq
    <3> QED BY <3>1, <3>3
  <2>3. Len([i \in 1..n + 1 |-> When(t[i] \in K, <<t[i]>>)]) = n + 1 BY <2>0
  <2> HIDE DEF q
  <2> QED BY <1>6, <2>2, <2>3
<1>8. last \in Seq(S) BY <1>3
<1>9. Kept(s, K) = FlattenSeq(p) /\ Kept(t, K) = FlattenSeq(q) BY DEF Kept
<1> HIDE DEF p, q, Parts
<1>10. /\ r \in Seq(Seq(S)) /\ Len(r) = n + 1 /\ r[n + 1] = last
       /\ \A i \in 1..n : r[i] = p[i]
  <2> HIDE DEF last
  <2>1. /\ r \in Seq(Seq(S)) /\ Len(r) = Len(p) + 1 /\ r[Len(p) + 1] = last
        /\ \A i \in 1..Len(p) : r[i] = p[i] BY <1>5, <1>8, AppendProperties
  <2> HIDE DEF r
  <2> QED BY <1>5, <2>1
<1> HIDE DEF r
<1>11. \A i \in 1..n + 1 : q[i] = r[i]
  <2>1. ASSUME NEW i \in 1..n + 1 PROVE q[i] = r[i]
    <3>1. CASE i = n + 1 BY <1>2, <1>7, <1>10, <3>1
    <3>2. CASE i # n + 1
      <4>1. i \in 1..n BY <1>1, <3>2
      <4> QED BY <1>2, <1>5, <1>7, <1>10, <4>1
    <3> QED BY <3>1, <3>2
  <2> QED BY <2>1
<1>12. q = r BY <1>7, <1>10, <1>11, SeqEqual
<1>13. FlattenSeq(r) = FlattenSeq(p) \o last
  <2> HIDE DEF last
  <2> QED BY <1>5, <1>8, FlattenAppend DEF r
<1>14. FlattenSeq(p) \o <<>> = FlattenSeq(p)
  <2>1. FlattenSeq(p) \in Seq(S) BY <1>5, FlattenType
  <2> QED BY <2>1, ConcatEmptySeq
<1>15. Kept(t, K) = Kept(s, K) \o last BY <1>9, <1>12, <1>13
<1>16. e \in K => last = <<e>> BY DEF When
<1>17. e \notin K => last = <<>> BY DEF When
<1> HIDE DEF last
<1> QED BY <1>9, <1>14, <1>15, <1>16, <1>17 DEF t

\* One goal that is taken out.
LEMMA KeptDrops ==
    ASSUME NEW S, NEW s \in Seq(S), NEW e \in S, NEW K, e \notin K
    PROVE  Kept(Append(s, e), K) = Kept(s, K)
BY KeptAppend

LEMMA KeptEmpty ==
    ASSUME NEW K
    PROVE  Kept(<<>>, K) = <<>>
<1>1. [i \in DOMAIN <<>> |-> When(<<>>[i] \in K, <<<<>>[i]>>)] = <<>> OBVIOUS
<1> QED BY <1>1, FlattenEmpty DEF Kept

LEMMA KeptType ==
    ASSUME NEW S, NEW s \in Seq(S), NEW K
    PROVE  Kept(s, K) \in Seq(S \cap K) /\ Kept(s, K) \in Seq(S)
<1> DEFINE C == S \cap K
           T == {x \in Seq(S) : Kept(x, K) \in Seq(C) /\ Kept(x, K) \in Seq(S)}
<1>1. <<>> \in T
  <2>1. <<>> \in Seq(C) /\ <<>> \in Seq(S) OBVIOUS
  <2> QED BY <2>1, KeptEmpty
<1>2. ASSUME NEW x \in T, NEW e \in S PROVE Append(x, e) \in T
  <2>1. x \in Seq(S) /\ Kept(x, K) \in Seq(C) /\ Kept(x, K) \in Seq(S) OBVIOUS
  <2>2. Append(x, e) \in Seq(S) BY <2>1, AppendProperties
  <2> HIDE DEF C
  <2>3. CASE e \in K
    <3>1. Kept(Append(x, e), K) = Kept(x, K) \o <<e>> BY <2>1, <2>3, KeptAppend
    <3>2. <<e>> \in Seq(C) /\ <<e>> \in Seq(S)
      <4>1. e \in C BY <2>3 DEF C
      <4> QED BY <4>1
    <3>3. Kept(x, K) \o <<e>> \in Seq(C) /\ Kept(x, K) \o <<e>> \in Seq(S)
      BY <2>1, <3>2, ConcatProperties
    <3> QED BY <2>2, <3>1, <3>3
  <2>4. CASE e \notin K
    <3>1. Kept(Append(x, e), K) = Kept(x, K) BY <2>1, <2>4, KeptDrops
    <3> QED BY <2>1, <2>2, <3>1
  <2> QED BY <2>3, <2>4
<1>3. T = Seq(S)
  <2>1. T \in SUBSET Seq(S) OBVIOUS
  <2> HIDE DEF T
  <2>2. \A x \in T, e \in S : Append(x, e) \in T BY <1>2
  <2> QED BY <1>1, <2>1, <2>2, EverySequence
<1> QED BY <1>3

\* Two lists.
LEMMA KeptConcat ==
    ASSUME NEW S, NEW a \in Seq(S), NEW b \in Seq(S), NEW K
    PROVE  Kept(a \o b, K) = Kept(a, K) \o Kept(b, K)
<1> DEFINE T == {x \in Seq(S) : Kept(a \o x, K) = Kept(a, K) \o Kept(x, K)}
           ka == Kept(a, K)
<1>0. ka \in Seq(S) BY KeptType
<1>1. <<>> \in T
  <2>1. <<>> \in Seq(S) /\ a \o <<>> = a BY ConcatEmptySeq
  <2>2. ka \o <<>> = ka
    <3> HIDE DEF ka
    <3> QED BY <1>0, ConcatEmptySeq
  <2> QED BY <2>1, <2>2, KeptEmpty
<1>2. ASSUME NEW x \in T, NEW e \in S PROVE Append(x, e) \in T
  <2> DEFINE kx == Kept(x, K)
             ax == a \o x
  <2>1. x \in Seq(S) /\ Kept(ax, K) = ka \o kx OBVIOUS
  <2>2. Append(x, e) \in Seq(S) BY <2>1, AppendProperties
  <2>3. ax \in Seq(S) BY <2>1, ConcatProperties
  <2>4. a \o Append(x, e) = Append(ax, e)
    <3>1. Append(x, e) = x \o <<e>> BY <2>1, AppendIsConcat
    <3>2. Append(ax, e) = ax \o <<e>>
      <4> HIDE DEF ax
      <4> QED BY <2>3, AppendIsConcat
    <3>3. <<e>> \in Seq(S) OBVIOUS
    <3>4. (a \o x) \o <<e>> = a \o (x \o <<e>>) BY <2>1, <3>3, ConcatAssociative
    <3> QED BY <3>1, <3>2, <3>4
  <2>5. kx \in Seq(S) BY <2>1, KeptType
  <2> HIDE DEF kx, ka, ax
  <2>6. CASE e \in K
    <3>1. Kept(Append(x, e), K) = kx \o <<e>> BY <2>1, <2>6, KeptAppend DEF kx
    <3>2. Kept(Append(ax, e), K) = Kept(ax, K) \o <<e>> BY <2>3, <2>6, KeptAppend
    <3>3. <<e>> \in Seq(S) OBVIOUS
    <3> DEFINE one == <<e>>
    <3>a. one \in Seq(S) BY <3>3
    <3> HIDE DEF one
    <3>b. Cat(Cat(ka, kx), one) = Cat(ka, Cat(kx, one)) BY <1>0, <2>5, <3>a, CatGroups
    <3>4. (ka \o kx) \o <<e>> = ka \o (kx \o <<e>>) BY <3>b DEF Cat, one
    <3> QED BY <2>1, <2>2, <2>4, <3>1, <3>2, <3>4 DEF ka
  <2>7. CASE e \notin K
    <3>1. Kept(Append(x, e), K) = kx
      <4>1. x \in Seq(S) /\ e \in S BY <2>1
      <4>2. Kept(Append(x, e), K) = Kept(x, K) BY ONLY <4>1, <2>7, KeptDrops
      <4> QED BY <4>2 DEF kx
    <3>2. Kept(Append(ax, e), K) = Kept(ax, K)
      <4>1. ax \in Seq(S) /\ e \in S BY <2>3
      <4> QED BY ONLY <4>1, <2>7, KeptDrops
    <3> QED BY <2>1, <2>2, <2>4, <3>1, <3>2 DEF ka
  <2> QED BY <2>6, <2>7
<1>3. T = Seq(S)
  <2>1. T \in SUBSET Seq(S) OBVIOUS
  <2> HIDE DEF T
  <2>2. \A x \in T, e \in S : Append(x, e) \in T BY <1>2
  <2> QED BY <1>1, <2>1, <2>2, EverySequence
<1> QED BY <1>3

\* A list with nothing to take out, and one with nothing to keep.
LEMMA KeptAll ==
    ASSUME NEW K, NEW s \in Seq(K)
    PROVE  Kept(s, K) = s
<1> DEFINE T == {x \in Seq(K) : Kept(x, K) = x}
<1>1. <<>> \in T
  <2>1. <<>> \in Seq(K) OBVIOUS
  <2> QED BY <2>1, KeptEmpty
<1>2. ASSUME NEW x \in T, NEW e \in K PROVE Append(x, e) \in T
  <2>1. x \in Seq(K) /\ Kept(x, K) = x OBVIOUS
  <2>2. Append(x, e) \in Seq(K) /\ Append(x, e) = x \o <<e>>
    BY <2>1, AppendProperties, AppendIsConcat
  <2>3. Kept(Append(x, e), K) = Kept(x, K) \o <<e>> BY <2>1, KeptAppend
  <2> QED BY <2>1, <2>2, <2>3
<1>3. T = Seq(K)
  <2>1. T \in SUBSET Seq(K) OBVIOUS
  <2> HIDE DEF T
  <2>2. \A x \in T, e \in K : Append(x, e) \in T BY <1>2
  <2> QED BY <1>1, <2>1, <2>2, EverySequence
<1> QED BY <1>3

LEMMA KeptNone ==
    ASSUME NEW S, NEW K, S \cap K = {}, NEW s \in Seq(S)
    PROVE  Kept(s, K) = <<>>
<1> DEFINE T == {x \in Seq(S) : Kept(x, K) = <<>>}
<1>1. <<>> \in T
  <2>1. <<>> \in Seq(S) OBVIOUS
  <2> QED BY <2>1, KeptEmpty
<1>2. ASSUME NEW x \in T, NEW e \in S PROVE Append(x, e) \in T
  <2>1. x \in Seq(S) /\ Kept(x, K) = <<>> OBVIOUS
  <2>2. Append(x, e) \in Seq(S) BY <2>1, AppendProperties
  <2>3. e \notin K OBVIOUS
  <2>4. Kept(Append(x, e), K) = Kept(x, K) BY <2>1, <2>3, KeptDrops
  <2> QED BY <2>1, <2>2, <2>4
<1>3. T = Seq(S)
  <2>1. T \in SUBSET Seq(S) OBVIOUS
  <2> HIDE DEF T
  <2>2. \A x \in T, e \in S : Append(x, e) \in T BY <1>2
  <2> QED BY <1>1, <2>1, <2>2, EverySequence
<1> QED BY <1>3

\* How many are kept, and how many are not.
LEMMA KeptLength ==
    ASSUME NEW S, NEW s \in Seq(S), NEW K
    PROVE  Len(Kept(s, K)) + Len(Kept(s, S \ K)) = Len(s)
<1> DEFINE D == S \ K
           T == {x \in Seq(S) : Len(Kept(x, K)) + Len(Kept(x, D)) = Len(x)}
<1>1. <<>> \in T
  <2>1. <<>> \in Seq(S) /\ Len(<<>>) = 0 OBVIOUS
  <2> QED BY <2>1, KeptEmpty
<1>2. ASSUME NEW x \in T, NEW e \in S PROVE Append(x, e) \in T
  <2> DEFINE t == Append(x, e)
             k == Kept(x, K)
             d == Kept(x, D)
             kt == Kept(t, K)
             dt == Kept(t, D)
  <2>1. x \in Seq(S) /\ Len(k) + Len(d) = Len(x) OBVIOUS
  <2>2. t \in Seq(S) /\ Len(t) = Len(x) + 1 BY <2>1, AppendProperties
  <2>3. k \in Seq(S) /\ d \in Seq(S) BY <2>1, KeptType
  <2>4. Len(k) \in Nat /\ Len(d) \in Nat /\ Len(x) \in Nat BY <2>1, <2>3, LenProperties
  <2>5. e \in K => kt = k \o <<e>> /\ dt = d
    <3>1. ASSUME e \in K PROVE kt = k \o <<e>> /\ dt = d
      <4>1. e \notin D BY <3>1
      <4> QED BY <2>1, <3>1, <4>1, KeptAppend
    <3> QED BY <3>1
  <2>6. e \notin K => kt = k /\ dt = d \o <<e>>
    <3>1. ASSUME e \notin K PROVE kt = k /\ dt = d \o <<e>>
      <4>1. e \in D BY <3>1
      <4> QED BY <2>1, <3>1, <4>1, KeptAppend
    <3> QED BY <3>1
  <2> HIDE DEF t, k, d, kt, dt, D
  <2>7. Len(k \o <<e>>) = Len(k) + 1 /\ Len(d \o <<e>>) = Len(d) + 1
    <3>1. <<e>> \in Seq(S) /\ Len(<<e>>) = 1 OBVIOUS
    <3> QED BY <2>3, <3>1, ConcatProperties
  <2>8. Len(kt) + Len(dt) = Len(t) BY <2>1, <2>2, <2>4, <2>5, <2>6, <2>7
  <2> QED BY <2>2, <2>8 DEF t, kt, dt
<1>3. T = Seq(S)
  <2>1. T \in SUBSET Seq(S) OBVIOUS
  <2> HIDE DEF T
  <2>2. \A x \in T, e \in S : Append(x, e) \in T BY <1>2
  <2> QED BY <1>1, <2>1, <2>2, EverySequence
<1> QED BY <1>3

Distinct(s) == \A i, j \in 1..Len(s) : i # j => s[i].goal_id # s[j].goal_id
Apart(a, b) == \A i \in 1..Len(a), j \in 1..Len(b) : a[i].goal_id # b[j].goal_id

\* Goals that differ still do when some are taken out.
LEMMA DistinctParts ==
    ASSUME NEW S, NEW a \in Seq(S), NEW b \in Seq(S)
    PROVE  /\ Distinct(a \o b) => Distinct(a) /\ Distinct(b) /\ Apart(a, b) /\ Apart(b, a)
           /\ Distinct(a) /\ Distinct(b) /\ Apart(a, b) => Distinct(a \o b)
<1> DEFINE c == a \o b
           la == Len(a)
           lb == Len(b)
<1>1. /\ la \in Nat /\ lb \in Nat /\ Len(c) = la + lb
      /\ \A i \in 1..la : i \in 1..Len(c) /\ c[i] = a[i]
      /\ \A i \in 1..lb : la + i \in 1..Len(c) /\ c[la + i] = b[i]
      /\ \A i \in 1..Len(c) :
            \/ i \in 1..la /\ c[i] = a[i]
            \/ \E j \in 1..lb : i = la + j /\ c[i] = b[j]
  BY Indexed
<1> HIDE DEF c, la, lb
<1>2. ASSUME Distinct(c)
      PROVE  /\ \A i, j \in 1..la : i # j => a[i].goal_id # a[j].goal_id
             /\ \A i, j \in 1..lb : i # j => b[i].goal_id # b[j].goal_id
             /\ \A i \in 1..la, j \in 1..lb : a[i].goal_id # b[j].goal_id
  <2>1. \A i, j \in 1..Len(c) : i # j => c[i].goal_id # c[j].goal_id BY <1>2 DEF Distinct
  <2>2. ASSUME NEW i \in 1..la, NEW j \in 1..la, i # j PROVE a[i].goal_id # a[j].goal_id
    BY <1>1, <2>1, <2>2
  <2>3. ASSUME NEW i \in 1..lb, NEW j \in 1..lb, i # j PROVE b[i].goal_id # b[j].goal_id
    <3>1. PICK x \in 1..Len(c) : x = la + i /\ c[x] = b[i] BY <1>1
    <3>2. PICK y \in 1..Len(c) : y = la + j /\ c[y] = b[j] BY <1>1
    <3>3. x # y BY <1>1, <2>3, <3>1, <3>2
    <3> QED BY <2>1, <3>1, <3>2, <3>3
  <2>4. ASSUME NEW i \in 1..la, NEW j \in 1..lb PROVE a[i].goal_id # b[j].goal_id
    <3>1. i \in 1..Len(c) /\ c[i] = a[i] BY <1>1
    <3>2. PICK y \in 1..Len(c) : y = la + j /\ c[y] = b[j] BY <1>1
    <3>3. i # y BY <1>1, <3>2
    <3> QED BY <2>1, <3>1, <3>2, <3>3
  <2> QED BY <2>2, <2>3, <2>4
<1>3. ASSUME Distinct(a), Distinct(b), Apart(a, b) PROVE Distinct(c)
  <2>1. /\ \A i, j \in 1..la : i # j => a[i].goal_id # a[j].goal_id
        /\ \A i, j \in 1..lb : i # j => b[i].goal_id # b[j].goal_id
        /\ \A i \in 1..la, j \in 1..lb : a[i].goal_id # b[j].goal_id
    BY <1>3 DEF Distinct, Apart, la, lb
  <2>2. ASSUME NEW i \in 1..Len(c), NEW j \in 1..Len(c), i # j
        PROVE  c[i].goal_id # c[j].goal_id
    <3>1. CASE i \in 1..la /\ c[i] = a[i] /\ j \in 1..la /\ c[j] = a[j]
      BY <2>1, <2>2, <3>1
    <3>2. CASE i \in 1..la /\ c[i] = a[i] /\ \E y \in 1..lb : j = la + y /\ c[j] = b[y]
      BY <2>1, <3>2
    <3>3. CASE (\E x \in 1..lb : i = la + x /\ c[i] = b[x]) /\ j \in 1..la /\ c[j] = a[j]
      BY <2>1, <3>3
    <3>4. ASSUME NEW x \in 1..lb, i = la + x, c[i] = b[x],
                 NEW y \in 1..lb, j = la + y, c[j] = b[y]
          PROVE  c[i].goal_id # c[j].goal_id
      <4>1. x # y BY <2>2, <3>4
      <4> QED BY <2>1, <3>4, <4>1
    <3> QED BY <1>1, <3>1, <3>2, <3>3, <3>4
  <2> QED BY <2>2 DEF Distinct
<1>4. Distinct(c) => Distinct(a) /\ Distinct(b) /\ Apart(a, b) /\ Apart(b, a)
  <2>1. ASSUME Distinct(c) PROVE Distinct(a) /\ Distinct(b) /\ Apart(a, b) /\ Apart(b, a)
    BY <1>2, <2>1 DEF Distinct, Apart, la, lb
  <2> QED BY <2>1
<1> QED BY <1>3, <1>4 DEF c

Elements(s) == {s[i] : i \in 1..Len(s)}
LEMMA OfItsElements ==
    ASSUME NEW S, NEW s \in Seq(S)
    PROVE  s \in Seq(Elements(s)) /\ Elements(s) \in SUBSET S
<1> DEFINE n == Len(s)
<1>1. n \in Nat /\ s = [i \in 1..n |-> s[i]] /\ \A i \in 1..n : s[i] \in S
  BY LenProperties, ElementOfSeq
<1> HIDE DEF n
<1>2. \A i \in 1..n : s[i] \in Elements(s) BY DEF Elements, n
<1>3. [i \in 1..n |-> s[i]] \in Seq(Elements(s)) BY <1>1, <1>2, IsASeq
<1>4. Elements(s) \in SUBSET S BY <1>1 DEF Elements, n
<1> QED BY <1>1, <1>3, <1>4

LEMMA WiderSeq ==
    ASSUME NEW S, NEW T, S \in SUBSET T, NEW s \in Seq(S)
    PROVE  s \in Seq(T)
<1>1. Len(s) \in Nat /\ s = [i \in 1..Len(s) |-> s[i]] /\ \A i \in 1..Len(s) : s[i] \in S
  BY LenProperties, ElementOfSeq
<1>2. \A i \in 1..Len(s) : s[i] \in T BY <1>1
<1>3. [i \in 1..Len(s) |-> s[i]] \in Seq(T) BY <1>1, <1>2, IsASeq
<1> QED BY <1>1, <1>3

LEMMA ApartSets ==
    ASSUME NEW a, NEW b, NEW S, NEW T, a \in Seq(S), b \in Seq(T),
           \A x \in S, y \in T : x.goal_id # y.goal_id
    PROVE  Apart(a, b)
<1>1. \A i \in 1..Len(a) : a[i] \in S BY ElementOfSeq
<1>2. \A i \in 1..Len(b) : b[i] \in T BY ElementOfSeq
<1> QED BY <1>1, <1>2 DEF Apart

\* Those that are kept come from the list, none of them twice.
LEMMA KeptDistinct ==
    ASSUME NEW S, NEW s \in Seq(S), NEW K, Distinct(s)
    PROVE  Distinct(Kept(s, K)) /\ Kept(s, K) \in Seq(Elements(s))
<1> DEFINE Good(x) == Distinct(x) => Distinct(Kept(x, K))
           T == {x \in Seq(S) : Good(x)}
<1>1. <<>> \in T
  <2>1. <<>> \in Seq(S) OBVIOUS
  <2>2. Distinct(<<>>)
    <3>1. Len(<<>>) = 0 OBVIOUS
    <3> QED BY <3>1 DEF Distinct
  <2> QED BY <2>1, <2>2, KeptEmpty
<1>2. ASSUME NEW x \in T, NEW e \in S PROVE Append(x, e) \in T
  <2> DEFINE k == Kept(x, K)
             one == <<e>>
             t == Append(x, e)
  <2>1. x \in Seq(S) /\ Good(x) OBVIOUS
  <2>2. t \in Seq(S) /\ t = x \o one BY <2>1, AppendProperties, AppendIsConcat
  <2>3. one \in Seq(S) /\ one \in Seq({e}) OBVIOUS
  <2>4. x \in Seq(Elements(x)) BY <2>1, OfItsElements
  <2>5. k \in Seq(Elements(x)) /\ k \in Seq(S)
    BY <2>1, <2>4, KeptType
  <2>6. e \in K => Kept(t, K) = k \o one BY <2>1, KeptAppend
  <2>7. e \notin K => Kept(t, K) = k BY <2>1, KeptAppend
  <2>7a. Len(one) = 1 /\ one[1] = e OBVIOUS
  <2> HIDE DEF k, one, t
  <2>8. ASSUME Distinct(t) PROVE Distinct(Kept(t, K))
    <3>1. Distinct(x \o one) BY <2>2, <2>8
    <3>2. Distinct(x) /\ Distinct(one) /\ Apart(x, one) BY <2>1, <2>3, <3>1, DistinctParts
    <3>3. Distinct(k) BY <2>1, <3>2 DEF k
    <3>4. Apart(k, one)
      <4>1. \A y \in Elements(x), z \in {e} : y.goal_id # z.goal_id
        <5>1. 1 \in 1..Len(one) BY <2>7a
        <5>2. \A i \in 1..Len(x) : x[i].goal_id # one[1].goal_id BY <3>2, <5>1 DEF Apart
        <5> QED BY <2>7a, <5>2 DEF Elements
      <4> QED BY <2>3, <2>5, <4>1, ApartSets
    <3>5. Distinct(k \o one) BY <2>3, <2>5, <3>2, <3>3, <3>4, DistinctParts
    <3> QED BY <2>6, <2>7, <3>3, <3>5
  <2>9. Good(t) BY <2>8
  <2> QED BY <2>2, <2>9 DEF t
<1>3. T = Seq(S)
  <2>1. T \in SUBSET Seq(S) OBVIOUS
  <2> HIDE DEF T
  <2>2. \A x \in T, e \in S : Append(x, e) \in T BY <1>2
  <2> QED BY <1>1, <2>1, <2>2, EverySequence
<1>4. s \in T BY <1>3
<1>5. Kept(s, K) \in Seq(Elements(s))
  <2>1. s \in Seq(Elements(s)) BY OfItsElements
  <2> QED BY <2>1, KeptType
<1> QED BY <1>4, <1>5

\* A list and the two parts it falls into.
LEMMA Halved ==
    ASSUME NEW S, NEW s \in Seq(S), NEW k \in 0..Len(s)
    PROVE  LET a == SubSeq(s, 1, k)
               b == SubSeq(s, k + 1, Len(s))
           IN /\ a \in Seq(S) /\ b \in Seq(S) /\ s = a \o b
              /\ Len(a) = k /\ Len(b) = Len(s) - k
              /\ \A i \in 1..Len(a) : a[i] = s[i]
              /\ \A i \in 1..Len(b) : k + i \in 1..Len(s) /\ b[i] = s[k + i]
<1> DEFINE n == Len(s)
           a == SubSeq(s, 1, k)
           b == SubSeq(s, k + 1, n)
<1>1. n \in Nat /\ k \in 0..n /\ \A i \in 1..n : s[i] \in S BY LenProperties, ElementOfSeq
<1>2. a \in Seq(S) /\ Len(a) = k /\ \A i \in 1..k : a[i] = s[i]
  <2>1. 1 \in 1..n + 1 /\ \A i \in 1..k : i \in 1..n BY <1>1
  <2>2. \A i \in 1..k : s[i] \in S BY <1>1, <2>1
  <2>3. a = [i \in 1..k |-> s[i]] BY <1>1
  <2>4. k \in Nat BY <1>1
  <2>5. [i \in 1..k |-> s[i]] \in Seq(S) BY <2>2, <2>4, IsASeq
  <2>6. Len([i \in 1..k |-> s[i]]) = k BY <2>4
  <2> HIDE DEF a
  <2> QED BY <2>3, <2>5, <2>6
<1>3. b \in Seq(S) /\ Len(b) = n - k /\ \A i \in 1..n - k : b[i] = s[k + i]
  <2>1. PICK m \in Nat : m = n - k BY <1>1
  <2>2. \A i \in 1..m : k + i \in 1..n BY <1>1, <2>1
  <2>3. b = [i \in 1..m |-> s[k + i]]
    <3>1. b = [i \in 1..(1 + n - (k + 1)) |-> s[i + (k + 1) - 1]] BY <1>1
    <3>2. 1 + n - (k + 1) = m BY <1>1, <2>1
    <3>3. \A i \in 1..m : i + (k + 1) - 1 = k + i BY <1>1
    <3> HIDE DEF b
    <3> QED BY <3>1, <3>2, <3>3
  <2>4. \A i \in 1..m : s[k + i] \in S BY <1>1, <2>2
  <2>5. [i \in 1..m |-> s[k + i]] \in Seq(S) BY <2>4, IsASeq
  <2>6. Len([i \in 1..m |-> s[k + i]]) = m OBVIOUS
  <2> HIDE DEF b
  <2> QED BY <2>1, <2>3, <2>5, <2>6
<1> HIDE DEF a, b, n
<1>4. s = a \o b
  <2> DEFINE c == a \o b
  <2>1. /\ c \in Seq(S) /\ Len(c) = Len(a) + Len(b)
        /\ \A i \in 1..Len(c) :
            \/ i \in 1..Len(a) /\ c[i] = a[i]
            \/ \E j \in 1..Len(b) : i = Len(a) + j /\ c[i] = b[j]
    <3>1. a \in Seq(S) /\ b \in Seq(S) BY <1>2, <1>3
    <3> QED BY ONLY <3>1, EveryIndex DEF c
  <2> HIDE DEF c
  <2>2. Len(c) = n BY <1>1, <1>2, <1>3, <2>1
  <2>3. ASSUME NEW i \in 1..n PROVE s[i] = c[i]
    <3>1. CASE i \in 1..Len(a) /\ c[i] = a[i] BY <1>2, <3>1
    <3>2. ASSUME NEW j \in 1..Len(b), i = Len(a) + j, c[i] = b[j] PROVE s[i] = c[i]
      BY <1>2, <1>3, <3>2
    <3> QED BY <2>1, <2>2, <3>1, <3>2
  <2>4. s = c BY <2>1, <2>2, <2>3, SeqEqual DEF n
  <2> QED BY <2>4 DEF c
<1>5. \A i \in 1..Len(b) : k + i \in 1..n /\ b[i] = s[k + i] BY <1>1, <1>3
<1> QED BY <1>2, <1>3, <1>4, <1>5 DEF a, b, n

------------------------------------------------------------------------------
\* The order that a reprioritization makes.

\* A bounded set of numbers has a greatest.
LEMMA GreatestNumber ==
    ASSUME NEW n \in Nat, NEW T \in SUBSET (0..n), T # {}
    PROVE  \E x \in T : \A y \in T : y <= x
<1> DEFINE U == {k \in Nat : \E y \in T : k = n - y}
<1>1. U \in SUBSET Nat OBVIOUS
<1>2. U # {}
  <2>1. PICK y \in T : TRUE OBVIOUS
  <2>2. PICK k \in Nat : k = n - y OBVIOUS
  <2>3. k \in U BY <2>2
  <2> QED BY <2>3
<1>3. \A y \in T : \E k \in U : k = n - y
  <2>1. \A y \in T : n - y \in Nat OBVIOUS
  <2> QED BY <2>1
<1>4. \A k \in U : \E y \in T : k = n - y OBVIOUS
<1> HIDE DEF U
<1>5. PICK k \in U : \A l \in U : k <= l BY <1>1, <1>2, LeastNumber
<1>6. PICK x \in T : k = n - x BY <1>4
<1>7. ASSUME NEW y \in T PROVE y <= x
  <2>1. PICK l \in U : l = n - y BY <1>3
  <2>2. k <= l /\ k \in Nat /\ l \in Nat BY <1>1, <1>5
  <2> QED BY <1>6, <2>1, <2>2
<1> QED BY <1>7

In(region) == {g \in CoveragePlanGoals : g.region_id = region}
Out(region) == CoveragePlanGoals \ In(region)

\* Inside and Outside.
LEMMA FiltersAreKept ==
    ASSUME NEW goals \in Seq(CoveragePlanGoals), NEW region
    PROVE  /\ Inside(goals, region) = Kept(goals, In(region))
           /\ Outside(goals, region) = Kept(goals, Out(region))
<1>1. DOMAIN goals = 1..Len(goals) /\ \A i \in 1..Len(goals) : goals[i] \in CoveragePlanGoals
  BY LenProperties, ElementOfSeq
<1>2. \A i \in DOMAIN goals :
         /\ goals[i].region_id = region <=> goals[i] \in In(region)
         /\ goals[i].region_id # region <=> goals[i] \in Out(region) BY <1>1 DEF In, Out
<1>3. [i \in DOMAIN goals |-> When(goals[i].region_id = region, <<goals[i]>>)]
      = [i \in DOMAIN goals |-> When(goals[i] \in In(region), <<goals[i]>>)]
  BY <1>2 DEF When
<1>4. [i \in DOMAIN goals |-> When(goals[i].region_id # region, <<goals[i]>>)]
      = [i \in DOMAIN goals |-> When(goals[i] \in Out(region), <<goals[i]>>)]
  BY <1>2 DEF When
<1> QED BY <1>3, <1>4 DEF Inside, Outside, Kept

LEMMA FilterTypes ==
    ASSUME NEW goals \in Seq(CoveragePlanGoals), NEW region
    PROVE  /\ Inside(goals, region) \in Seq(In(region))
           /\ Inside(goals, region) \in Seq(CoveragePlanGoals)
           /\ Outside(goals, region) \in Seq(Out(region))
           /\ Outside(goals, region) \in Seq(CoveragePlanGoals)
           /\ Len(Inside(goals, region)) \in Nat /\ Len(Outside(goals, region)) \in Nat
           /\ Len(Inside(goals, region)) + Len(Outside(goals, region)) = Len(goals)
<1>1. CoveragePlanGoals \cap In(region) = In(region)
      /\ CoveragePlanGoals \cap Out(region) = Out(region)
      /\ CoveragePlanGoals \ In(region) = Out(region) BY DEF In, Out
<1> DEFINE p == Inside(goals, region)
           q == Outside(goals, region)
<1>2. p = Kept(goals, In(region)) /\ q = Kept(goals, Out(region)) BY FiltersAreKept
<1>3. p \in Seq(In(region)) /\ p \in Seq(CoveragePlanGoals) BY <1>1, <1>2, KeptType
<1>4. q \in Seq(Out(region)) /\ q \in Seq(CoveragePlanGoals) BY <1>1, <1>2, KeptType
<1>5. Len(p) + Len(q) = Len(goals)
  <2>1. Len(Kept(goals, In(region))) + Len(Kept(goals, CoveragePlanGoals \ In(region))) = Len(goals)
    BY KeptLength
  <2> QED BY <1>1, <1>2, <2>1
<1> HIDE DEF p, q
<1>6. Len(p) \in Nat /\ Len(q) \in Nat BY <1>3, <1>4, LenProperties
<1> QED BY <1>3, <1>4, <1>5, <1>6 DEF p, q

\* The selected region's last goal is before the ones that are moved.
MovesBehind(goals, here, selected) ==
    \E a, b \in Seq(CoveragePlanGoals) :
       /\ Outside(goals, here) = a \o b
       /\ Prioritized(goals, here, selected) = (a \o Inside(goals, here)) \o b
       /\ \A i \in 1..Len(b) : b[i].region_id # selected
(* Prioritized puts the current region's goals behind the last goal of the selected
   region, or in front where there is none.                                   *)
LEMMA PrioritizedIs ==
    ASSUME NEW goals \in Seq(CoveragePlanGoals), NEW here, NEW selected
    PROVE  MovesBehind(goals, here, selected)
<1> DEFINE rest == Outside(goals, here)
           n == Len(rest)
           at == {0} \cup {i \in DOMAIN rest : rest[i].region_id = selected}
           k == CHOOSE i \in at : \A j \in at : j <= i
           a == SubSeq(rest, 1, k)
           b == SubSeq(rest, k + 1, Len(rest))
<1>1. rest \in Seq(CoveragePlanGoals) BY FilterTypes
<1>2. Prioritized(goals, here, selected) = (a \o Inside(goals, here)) \o b BY DEF Prioritized
<1> HIDE DEF rest
<1>3. n \in Nat /\ DOMAIN rest = 1..n BY <1>1, LenProperties
<1> HIDE DEF n
<1>4. at \in SUBSET (0..n) /\ 0 \in at BY <1>3
<1> HIDE DEF at
<1>5. \E x \in at : \A y \in at : y <= x
  <2>1. at # {} BY <1>4
  <2> QED BY <1>3, <1>4, <2>1, GreatestNumber
<1>6. k \in at /\ \A j \in at : j <= k BY <1>5
<1> HIDE DEF k
<1>7. k \in 0..Len(rest) BY <1>4, <1>6 DEF n
<1>8. /\ a \in Seq(CoveragePlanGoals) /\ b \in Seq(CoveragePlanGoals) /\ rest = a \o b
      /\ \A i \in 1..Len(b) : k + i \in 1..Len(rest) /\ b[i] = rest[k + i]
  BY <1>1, <1>7, Halved
<1> HIDE DEF a, b
<1>9. ASSUME NEW i \in 1..Len(b) PROVE b[i].region_id # selected
  <2>1. PICK x \in 1..n : x = k + i /\ b[i] = rest[x] BY <1>8 DEF n
  <2>2. ~(x <= k) BY <1>7, <1>8, <2>1
  <2>3. x \notin at BY <1>6, <2>2
  <2>4. rest[x].region_id # selected BY <1>3, <2>3 DEF at
  <2> QED BY <2>1, <2>4
<1> QED BY <1>2, <1>8, <1>9 DEF rest, MovesBehind

\* What becomes of the goals inside a region and outside it.
LEMMA FilterConcat ==
    ASSUME NEW a \in Seq(CoveragePlanGoals), NEW b \in Seq(CoveragePlanGoals), NEW region
    PROVE  /\ Inside(a \o b, region) = Inside(a, region) \o Inside(b, region)
           /\ Outside(a \o b, region) = Outside(a, region) \o Outside(b, region)
<1>1. a \o b \in Seq(CoveragePlanGoals) BY ConcatProperties
<1>2. Kept(a \o b, In(region)) = Kept(a, In(region)) \o Kept(b, In(region)) BY KeptConcat
<1>3. Kept(a \o b, Out(region)) = Kept(a, Out(region)) \o Kept(b, Out(region)) BY KeptConcat
<1> QED BY <1>1, <1>2, <1>3, FiltersAreKept

\* The same, one by one.
LEMMA InsideConcat ==
    ASSUME NEW a \in Seq(CoveragePlanGoals), NEW b \in Seq(CoveragePlanGoals), NEW region
    PROVE  Inside(a \o b, region) = Inside(a, region) \o Inside(b, region)
BY FilterConcat

LEMMA OutsideConcat ==
    ASSUME NEW a \in Seq(CoveragePlanGoals), NEW b \in Seq(CoveragePlanGoals), NEW region
    PROVE  Outside(a \o b, region) = Outside(a, region) \o Outside(b, region)
BY FilterConcat

\* Filtering what is filtered.
LEMMA FilterPure ==
    ASSUME NEW region
    PROVE  /\ \A s \in Seq(In(region)) : Inside(s, region) = s /\ Outside(s, region) = <<>>
           /\ \A s \in Seq(Out(region)) : Inside(s, region) = <<>> /\ Outside(s, region) = s
<1>1. In(region) \in SUBSET CoveragePlanGoals /\ Out(region) \in SUBSET CoveragePlanGoals
      /\ In(region) \cap Out(region) = {} /\ Out(region) \cap In(region) = {} BY DEF In, Out
<1>2. ASSUME NEW s \in Seq(In(region)) PROVE Inside(s, region) = s /\ Outside(s, region) = <<>>
  <2>1. s \in Seq(CoveragePlanGoals) BY <1>1, WiderSeq
  <2>2. Kept(s, In(region)) = s BY KeptAll
  <2>3. Kept(s, Out(region)) = <<>> BY <1>1, KeptNone
  <2> QED BY <2>1, <2>2, <2>3, FiltersAreKept
<1>3. ASSUME NEW s \in Seq(Out(region)) PROVE Inside(s, region) = <<>> /\ Outside(s, region) = s
  <2>1. s \in Seq(CoveragePlanGoals) BY <1>1, WiderSeq
  <2>2. Kept(s, Out(region)) = s BY KeptAll
  <2>3. Kept(s, In(region)) = <<>> BY <1>1, KeptNone
  <2> QED BY <2>1, <2>2, <2>3, FiltersAreKept
<1> QED BY <1>2, <1>3

\* Skipping a region leaves the others' goals.
LEMMA SkippedSurvive ==
    ASSUME NEW goals \in Seq(CoveragePlanGoals), NEW here
    PROVE  LET s == Outside(goals, here)
           IN Outside(s, here) = Outside(goals, here) /\ Inside(s, here) = <<>>
<1> DEFINE s == Outside(goals, here)
<1>1. s \in Seq(Out(here)) BY FilterTypes
<1>2. Inside(s, here) = <<>> /\ Outside(s, here) = s BY <1>1, FilterPure
<1> QED BY <1>2

\* Prioritizing changes neither region's goals.
LEMMA MovedSurvive ==
    ASSUME NEW goals \in Seq(CoveragePlanGoals), NEW here, NEW selected
    PROVE  LET s == Prioritized(goals, here, selected)
           IN Outside(s, here) = Outside(goals, here) /\ Inside(s, here) = Inside(goals, here)
<1>0. MovesBehind(goals, here, selected) BY PrioritizedIs
<1> DEFINE cur == Inside(goals, here)
           rest == Outside(goals, here)
           s == Prioritized(goals, here, selected)
<1>1. PICK a, b \in Seq(CoveragePlanGoals) : rest = a \o b /\ s = (a \o cur) \o b
  BY <1>0 DEF MovesBehind
<1>2. cur \in Seq(In(here)) /\ cur \in Seq(CoveragePlanGoals) /\ rest \in Seq(Out(here))
  BY FilterTypes
<1> HIDE DEF cur, rest, s
<1>3. Inside(cur, here) = cur /\ Outside(cur, here) = <<>> BY <1>2, FilterPure
<1>4. Inside(rest, here) = <<>> /\ Outside(rest, here) = rest BY <1>2, FilterPure
<1> DEFINE ia == Inside(a, here)
           ib == Inside(b, here)
           oa == Outside(a, here)
           ob == Outside(b, here)
<1>5. ia \o ib = <<>> /\ oa \o ob = rest BY <1>1, <1>4, FilterConcat
<1>6. /\ ia \in Seq(CoveragePlanGoals) /\ ib \in Seq(CoveragePlanGoals)
      /\ oa \in Seq(CoveragePlanGoals) /\ ob \in Seq(CoveragePlanGoals) BY FilterTypes
<1>7. a \o cur \in Seq(CoveragePlanGoals) BY <1>2, ConcatProperties
<1>8. Inside(s, here) = (ia \o cur) \o ib
  <2>0. Inside(a \o cur, here) = Inside(a, here) \o Inside(cur, here)
    <3>1. a \in Seq(CoveragePlanGoals) /\ cur \in Seq(CoveragePlanGoals) BY <1>2
    <3> QED BY ONLY <3>1, InsideConcat
  <2>1. Inside(a \o cur, here) = ia \o cur BY <1>3, <2>0
  <2>2. Inside((a \o cur) \o b, here) = Inside(a \o cur, here) \o ib
    <3>1. b \in Seq(CoveragePlanGoals) OBVIOUS
    <3> QED BY ONLY <1>7, <3>1, InsideConcat
  <2> QED BY <1>1, <2>1, <2>2
<1>9. Outside(s, here) = (oa \o <<>>) \o ob
  <2>0. Outside(a \o cur, here) = Outside(a, here) \o Outside(cur, here)
    <3>1. a \in Seq(CoveragePlanGoals) /\ cur \in Seq(CoveragePlanGoals) BY <1>2
    <3> QED BY ONLY <3>1, OutsideConcat
  <2>1. Outside(a \o cur, here) = oa \o <<>> BY <1>3, <2>0
  <2>2. Outside((a \o cur) \o b, here) = Outside(a \o cur, here) \o ob
    <3>1. b \in Seq(CoveragePlanGoals) OBVIOUS
    <3> QED BY ONLY <1>7, <3>1, OutsideConcat
  <2> QED BY <1>1, <2>1, <2>2
<1> HIDE DEF ia, ib, oa, ob
<1>10. ia = <<>> /\ ib = <<>>
  <2>1. Len(ia \o ib) = Len(ia) + Len(ib) BY ONLY <1>6, ConcatProperties
  <2>2. Len(<<>>) = 0 OBVIOUS
  <2>3. Len(ia) \in Nat /\ Len(ib) \in Nat BY <1>6, LenProperties
  <2>4. Len(ia) = 0 /\ Len(ib) = 0
    <3> DEFINE x == Len(ia)
               y == Len(ib)
    <3>1. x + y = 0 /\ x \in Nat /\ y \in Nat BY <1>5, <2>1, <2>2, <2>3
    <3> HIDE DEF x, y
    <3>2. x = 0 /\ y = 0 BY <3>1
    <3> QED BY <3>2 DEF x, y
  <2> QED BY <1>6, <2>4, EmptySeq
<1>11. oa \o <<>> = oa BY <1>6, ConcatEmptySeq
<1>12. (<<>> \o cur) \o <<>> = cur
  <2>1. <<>> \o cur = cur /\ cur \o <<>> = cur BY <1>2, ConcatEmptySeq
  <2> QED BY <2>1
<1> QED BY <1>5, <1>8, <1>9, <1>10, <1>11, <1>12 DEF cur, rest, s

\* And none of the selected region's goals is behind one of the current region's.
LEMMA SelectedIsFirst ==
    ASSUME NEW goals \in Seq(CoveragePlanGoals), NEW here, NEW selected, selected # here
    PROVE  LET s == Prioritized(goals, here, selected)
           IN \A i, j \in DOMAIN s :
                 s[i].region_id = selected /\ s[j].region_id = here => i < j
<1>0. MovesBehind(goals, here, selected) BY PrioritizedIs
<1> DEFINE cur == Inside(goals, here)
           rest == Outside(goals, here)
           s == Prioritized(goals, here, selected)
<1>1. PICK a, b \in Seq(CoveragePlanGoals) :
         /\ rest = a \o b /\ s = (a \o cur) \o b
         /\ \A i \in 1..Len(b) : b[i].region_id # selected
  BY <1>0 DEF MovesBehind
<1>2. cur \in Seq(In(here)) /\ cur \in Seq(CoveragePlanGoals) /\ rest \in Seq(Out(here))
  BY FilterTypes
<1> HIDE DEF cur, rest, s
<1>3. \A i \in 1..Len(cur) : cur[i].region_id = here
  <2>1. \A i \in 1..Len(cur) : cur[i] \in In(here) BY <1>2, ElementOfSeq
  <2> QED BY <2>1 DEF In
<1>4. \A i \in 1..Len(rest) : rest[i].region_id # here
  <2>1. \A i \in 1..Len(rest) : rest[i] \in Out(here) BY <1>2, ElementOfSeq
  <2> QED BY <2>1 DEF In, Out
<1> DEFINE ab == a \o b
           ac == a \o cur
<1>5. \A i \in 1..Len(a) : i \in 1..Len(rest) /\ rest[i] = a[i]
  <2>1. \A i \in 1..Len(a) : i \in 1..Len(ab) /\ ab[i] = a[i] BY Indexed
  <2> HIDE DEF ab
  <2>2. ab = rest BY <1>1 DEF ab
  <2> QED BY <2>1, <2>2
<1>6. \A i \in 1..Len(b) : b[i].region_id # here
  <2>1. \A i \in 1..Len(b) : Len(a) + i \in 1..Len(ab) /\ ab[Len(a) + i] = b[i] BY Indexed
  <2> HIDE DEF ab
  <2>2. ab = rest BY <1>1 DEF ab
  <2> QED BY <1>4, <2>1, <2>2
<1>7. \A i \in 1..Len(a) : a[i].region_id # here BY <1>4, <1>5
<1>8. /\ ac \in Seq(CoveragePlanGoals) /\ Len(ac) = Len(a) + Len(cur) /\ Len(a) \in Nat
      /\ Len(cur) \in Nat
      /\ \A i \in 1..Len(ac) :
            \/ i \in 1..Len(a) /\ ac[i] = a[i]
            \/ \E j \in 1..Len(cur) : i = Len(a) + j /\ ac[i] = cur[j]
  BY <1>2, Indexed
<1> HIDE DEF ac
<1>9. /\ Len(s) = Len(ac) + Len(b) /\ Len(b) \in Nat /\ s \in Seq(CoveragePlanGoals)
      /\ \A i \in 1..Len(s) :
            \/ i \in 1..Len(ac) /\ s[i] = ac[i]
            \/ \E j \in 1..Len(b) : i = Len(ac) + j /\ s[i] = b[j]
  <2>1. s = ac \o b BY <1>1 DEF ac
  <2>2. ac \in Seq(CoveragePlanGoals) /\ b \in Seq(CoveragePlanGoals) BY <1>8
  <2>3. /\ Len(ac \o b) = Len(ac) + Len(b) /\ Len(b) \in Nat
        /\ ac \o b \in Seq(CoveragePlanGoals) BY ONLY <2>2, Indexed
  <2>4. \A i \in 1..Len(ac \o b) :
            \/ i \in 1..Len(ac) /\ (ac \o b)[i] = ac[i]
            \/ \E j \in 1..Len(b) : i = Len(ac) + j /\ (ac \o b)[i] = b[j]
    BY ONLY <2>2, Indexed
  <2> QED BY <2>1, <2>3, <2>4
<1>10. ASSUME NEW i \in 1..Len(s), s[i].region_id = selected PROVE i <= Len(a)
  <2>1. CASE i \in 1..Len(ac) /\ s[i] = ac[i]
    <3>1. CASE i \in 1..Len(a) BY <1>8, <3>1
    <3>2. CASE \E j \in 1..Len(cur) : i = Len(a) + j /\ ac[i] = cur[j]
      BY <1>3, <1>10, <2>1, <3>2
    <3> QED BY <1>8, <2>1, <3>1, <3>2
  <2>2. CASE \E j \in 1..Len(b) : i = Len(ac) + j /\ s[i] = b[j] BY <1>1, <1>10, <2>2
  <2> QED BY <1>9, <2>1, <2>2
<1>11. ASSUME NEW j \in 1..Len(s), s[j].region_id = here PROVE j > Len(a)
  <2>1. CASE j \in 1..Len(ac) /\ s[j] = ac[j]
    <3>1. CASE j \in 1..Len(a) /\ ac[j] = a[j] BY <1>7, <1>11, <2>1, <3>1
    <3>2. CASE \E k \in 1..Len(cur) : j = Len(a) + k /\ ac[j] = cur[k] BY <1>8, <3>2
    <3> QED BY <1>8, <2>1, <3>1, <3>2
  <2>2. CASE \E k \in 1..Len(b) : j = Len(ac) + k /\ s[j] = b[k] BY <1>6, <1>11, <2>2
  <2> QED BY <1>9, <2>1, <2>2
<1>12. DOMAIN s = 1..Len(s) BY <1>9, LenProperties
<1>13. ASSUME NEW i \in DOMAIN s, NEW j \in DOMAIN s,
              s[i].region_id = selected, s[j].region_id = here
       PROVE  i < j
  <2>1. i <= Len(a) /\ j > Len(a) BY <1>10, <1>11, <1>12, <1>13
  <2> QED BY <1>8, <1>12, <2>1
<1> QED BY <1>13 DEF s

------------------------------------------------------------------------------
\* What a plan becomes is a plan.

\* What a plan is made of.
LEMMA PlanParts ==
    ASSUME NEW goals, IsPlan(goals)
    PROVE  /\ goals \in Seq(CoveragePlanGoals) /\ goals \in Seq(Elements(goals))
           /\ Elements(goals) \in SUBSET CoveragePlanGoals
           /\ Len(goals) \in Nat /\ Len(goals) # 0 /\ DOMAIN goals = 1..Len(goals)
           /\ Len(goals) <= MaxReports /\ Distinct(goals)
<1>1. goals \in Seq(CoveragePlanGoals) /\ Len(goals) <= MaxReports /\ goals # <<>>
  BY DEF IsPlan, OnePartition
<1>2. Len(goals) \in Nat /\ DOMAIN goals = 1..Len(goals) BY <1>1, LenProperties
<1>3. Len(goals) # 0 BY <1>1, EmptySeq
<1>4. Distinct(goals) BY <1>2 DEF IsPlan, ValidGoals, Distinct
<1> QED BY <1>1, <1>2, <1>3, <1>4, OfItsElements

\* Any different goals of a plan are a plan.
LEMMA PlanFrom ==
    ASSUME NEW goals, IsPlan(goals), NEW s \in Seq(Elements(goals)), s # <<>>,
           Len(s) <= Len(goals), Distinct(s)
    PROVE  IsPlan(s)
<1>1. /\ Elements(goals) \in SUBSET CoveragePlanGoals
      /\ Len(goals) \in Nat /\ DOMAIN goals = 1..Len(goals) /\ Len(goals) <= MaxReports
      /\ Len(goals) # 0
  BY PlanParts
<1>2. s \in Seq(CoveragePlanGoals) BY <1>1, WiderSeq
<1>3. Len(s) \in Nat /\ Len(s) # 0 /\ DOMAIN s = 1..Len(s) BY <1>2, LenProperties, EmptySeq
<1>4. MaxReports \in Nat BY SMT DEF MaxReports
<1>5. Len(s) <= MaxReports BY <1>1, <1>3, <1>4
<1>6. \A i \in DOMAIN s : s[i] \in CoveragePlanGoals /\ \E k \in DOMAIN goals : s[i] = goals[k]
  <2>1. \A i \in 1..Len(s) : s[i] \in Elements(goals) BY ElementOfSeq
  <2> QED BY <1>1, <1>3, <2>1 DEF Elements
<1>7. ValidGoals(goals) /\ OnePartition(goals) BY DEF IsPlan
<1>8. ExactTuple(s)
  <2>1. s # Junk BY <1>2, MarksAssumption
  <2>2. \A i \in DOMAIN s : s[i] # Junk BY <1>6, MarksAssumption
  <2> QED BY <2>1, <2>2 DEF ExactTuple
<1>9. ASSUME NEW i \in DOMAIN s
      PROVE  /\ \A f \in DOMAIN s[i] : s[i][f] # Junk
             /\ ~(s[i].spec.cleaning_mode = 1 /\ s[i].spec.floor = 1)
             /\ s[i].partition_id = goals[1].partition_id
  <2>1. PICK k \in DOMAIN goals : s[i] = goals[k] BY <1>6
  <2>2. /\ \A f \in DOMAIN goals[k] : goals[k][f] # Junk
        /\ ~(goals[k].spec.cleaning_mode = 1 /\ goals[k].spec.floor = 1)
    BY <1>7 DEF ValidGoals
  <2>3. goals[k].partition_id = goals[1].partition_id BY <1>7 DEF OnePartition
  <2> QED BY <2>1, <2>2, <2>3
<1>10. \A i, j \in DOMAIN s : i # j => s[i].goal_id # s[j].goal_id BY <1>3 DEF Distinct
<1>11. ValidGoals(s) BY <1>8, <1>9, <1>10 DEF ValidGoals
<1>12. OnePartition(s)
  <2>1. 1 \in DOMAIN s BY <1>3
  <2> QED BY <1>9, <2>1 DEF OnePartition
<1> QED BY <1>2, <1>5, <1>11, <1>12 DEF IsPlan

\* Finishing a goal leaves a plan, or none.
LEMMA TailIsPlan ==
    ASSUME NEW goals, IsPlan(goals)
    PROVE  Tail(goals) = <<>> \/ IsPlan(Tail(goals))
<1>1. /\ goals \in Seq(Elements(goals)) /\ Len(goals) \in Nat /\ Len(goals) # 0
      /\ Distinct(goals) BY PlanParts
<1>2. goals # <<>> BY DEF IsPlan, OnePartition
<1> DEFINE t == Tail(goals)
           one == <<Head(goals)>>
<1>3. /\ Head(goals) \in Elements(goals) /\ t \in Seq(Elements(goals))
      /\ Len(t) = Len(goals) - 1 /\ goals = one \o t BY <1>1, <1>2, HeadFirst
<1>4. one \in Seq(Elements(goals)) BY <1>3
<1> HIDE DEF t, one
<1>5. Distinct(one \o t) BY <1>1, <1>3
<1>6. Distinct(t) BY <1>3, <1>4, <1>5, DistinctParts
<1>7. Len(t) <= Len(goals) BY <1>1, <1>3
<1>8. t # <<>> => IsPlan(t) BY <1>3, <1>6, <1>7, PlanFrom
<1> QED BY <1>8 DEF t

\* Skipping a region leaves a plan, or none.
LEMMA OutsideIsPlan ==
    ASSUME NEW goals, IsPlan(goals), NEW here
    PROVE  Outside(goals, here) = <<>> \/ IsPlan(Outside(goals, here))
<1>1. goals \in Seq(CoveragePlanGoals) /\ Distinct(goals) /\ Len(goals) \in Nat BY PlanParts
<1> DEFINE s == Outside(goals, here)
<1>2. s = Kept(goals, Out(here)) BY <1>1, FiltersAreKept
<1>3. Distinct(s) /\ s \in Seq(Elements(goals)) BY <1>1, <1>2, KeptDistinct
<1>4. Len(s) <= Len(goals)
  <2> DEFINE a == Len(Inside(goals, here))
             b == Len(s)
             c == Len(goals)
  <2>1. a \in Nat /\ b \in Nat /\ a + b = c BY <1>1, FilterTypes
  <2> HIDE DEF a, b, c
  <2>2. b <= c BY <2>1
  <2> QED BY <2>2 DEF b, c
<1> HIDE DEF s
<1>5. s # <<>> => IsPlan(s) BY <1>3, <1>4, PlanFrom
<1> QED BY <1>5 DEF s

LEMMA PartsType ==
    ASSUME NEW S, NEW T, NEW a \in Seq(S), NEW b \in Seq(S), a \o b \in Seq(T)
    PROVE  a \in Seq(T) /\ b \in Seq(T)
<1> DEFINE c == a \o b
           la == Len(a)
           lb == Len(b)
<1>1. /\ la \in Nat /\ lb \in Nat
      /\ \A i \in 1..la : i \in 1..Len(c) /\ c[i] = a[i]
      /\ \A i \in 1..lb : la + i \in 1..Len(c) /\ c[la + i] = b[i]
  BY Indexed
<1>2. c \in Seq(T) OBVIOUS
<1>3. a = [i \in 1..la |-> a[i]] /\ b = [i \in 1..lb |-> b[i]] BY LenProperties
<1> HIDE DEF c, la, lb
<1>4. \A i \in 1..Len(c) : c[i] \in T BY <1>2, ElementOfSeq
<1>5. \A i \in 1..la : a[i] \in T BY <1>1, <1>4
<1>6. \A i \in 1..lb : b[i] \in T
  <2>1. ASSUME NEW i \in 1..lb PROVE b[i] \in T
    <3>1. PICK x \in 1..Len(c) : x = la + i /\ c[x] = b[i] BY <1>1
    <3> QED BY <1>4, <3>1
  <2> QED BY <2>1
<1>7. [i \in 1..la |-> a[i]] \in Seq(T) BY <1>1, <1>5, IsASeq
<1>8. [i \in 1..lb |-> b[i]] \in Seq(T) BY <1>1, <1>6, IsASeq
<1> QED BY <1>3, <1>7, <1>8

LEMMA ApartConcat ==
    ASSUME NEW S, NEW a \in Seq(S), NEW b \in Seq(S), NEW x, Apart(a, x), Apart(b, x)
    PROVE  Apart(a \o b, x)
<1> DEFINE c == a \o b
<1>1. \A i \in 1..Len(c) :
         \/ i \in 1..Len(a) /\ c[i] = a[i]
         \/ \E j \in 1..Len(b) : i = Len(a) + j /\ c[i] = b[j]
  BY ONLY a \in Seq(S), b \in Seq(S), EveryIndex
<1> HIDE DEF c
<1>2. ASSUME NEW i \in 1..Len(c), NEW k \in 1..Len(x) PROVE c[i].goal_id # x[k].goal_id
  <2>1. CASE i \in 1..Len(a) /\ c[i] = a[i] BY <2>1 DEF Apart
  <2>2. CASE \E j \in 1..Len(b) : i = Len(a) + j /\ c[i] = b[j] BY <2>2 DEF Apart
  <2> QED BY <1>1, <2>1, <2>2
<1>3. Apart(c, x) BY <1>2 DEF Apart
<1> QED BY <1>3 DEF c

\* Prioritizing a region leaves a plan.
LEMMA PrioritizedIsPlan ==
    ASSUME NEW goals, IsPlan(goals), NEW here, NEW selected
    PROVE  IsPlan(Prioritized(goals, here, selected))
<1>0. MovesBehind(goals, here, selected)
  <2>1. goals \in Seq(CoveragePlanGoals) BY PlanParts
  <2> QED BY <2>1, PrioritizedIs
<1> DEFINE cur == Inside(goals, here)
           rest == Outside(goals, here)
           s == Prioritized(goals, here, selected)
           E == Elements(goals)
           E1 == E \cap In(here)
           E2 == E \cap Out(here)
<1>1. PICK a, b \in Seq(CoveragePlanGoals) : rest = a \o b /\ s = (a \o cur) \o b
  BY <1>0 DEF MovesBehind
<1>2. /\ goals \in Seq(CoveragePlanGoals) /\ goals \in Seq(E) /\ Distinct(goals)
      /\ E \in SUBSET CoveragePlanGoals /\ Len(goals) \in Nat /\ Len(goals) # 0
  BY PlanParts
<1>3. cur = Kept(goals, In(here)) /\ rest = Kept(goals, Out(here)) BY <1>2, FiltersAreKept
<1>4. Len(cur) \in Nat /\ Len(rest) \in Nat /\ Len(cur) + Len(rest) = Len(goals)
  BY <1>2, FilterTypes
<1> HIDE DEF cur, rest, s, E
<1>5. cur \in Seq(E1) /\ cur \in Seq(E) /\ Distinct(cur)
  BY <1>2, <1>3, KeptType, KeptDistinct
<1>6. rest \in Seq(E2) /\ Distinct(rest) BY <1>2, <1>3, KeptType, KeptDistinct
<1>7. ASSUME NEW x \in E1, NEW y \in E2
      PROVE  x.goal_id # y.goal_id /\ y.goal_id # x.goal_id
  <2>1. PICK i \in 1..Len(goals) : x = goals[i] BY DEF E, Elements
  <2>2. PICK j \in 1..Len(goals) : y = goals[j] BY DEF E, Elements
  <2>3. x.region_id = here /\ y.region_id # here BY <1>2 DEF In, Out
  <2>4. i # j BY <2>1, <2>2, <2>3
  <2> QED BY <1>2, <2>1, <2>2, <2>4 DEF Distinct
<1>8. a \in Seq(E2) /\ b \in Seq(E2)
  <2>1. a \o b \in Seq(E2) BY <1>1, <1>6
  <2> HIDE DEF E2
  <2> QED BY <2>1, PartsType
<1>9. Distinct(a) /\ Distinct(b) /\ Apart(a, b)
  <2>1. Distinct(a \o b) BY <1>1, <1>6
  <2> QED BY <2>1, DistinctParts
<1>10. a \in Seq(E) /\ b \in Seq(E)
  <2>1. E2 \in SUBSET E OBVIOUS
  <2> HIDE DEF E2
  <2> QED BY <1>8, <2>1, WiderSeq
<1>11. Apart(a, cur) /\ Apart(cur, b)
  <2>1. \A x \in E1, y \in E2 : x.goal_id # y.goal_id BY <1>7
  <2>2. \A y \in E2, x \in E1 : y.goal_id # x.goal_id BY <1>7
  <2> HIDE DEF E1, E2
  <2>3. Apart(cur, b) BY <1>5, <1>8, <2>1, ApartSets
  <2>4. Apart(a, cur) BY <1>5, <1>8, <2>2, ApartSets
  <2> QED BY <2>3, <2>4
<1> DEFINE ac == a \o cur
<1>12. /\ ac \in Seq(E) /\ Len(ac) = Len(a) + Len(cur) /\ Distinct(ac) /\ Apart(ac, b)
  <2>1. ac \in Seq(E) /\ Len(ac) = Len(a) + Len(cur) BY <1>5, <1>10, ConcatProperties
  <2>2. Distinct(ac) BY <1>5, <1>9, <1>10, <1>11, DistinctParts
  <2>3. Apart(ac, b) BY <1>5, <1>9, <1>10, <1>11, ApartConcat
  <2> QED BY <2>1, <2>2, <2>3
<1>13. s = ac \o b BY <1>1
<1> HIDE DEF ac
<1>14. s \in Seq(E) /\ Len(s) = Len(ac) + Len(b) /\ Distinct(s)
  <2>1. ac \in Seq(E) /\ b \in Seq(E) BY <1>10, <1>12
  <2>2. ac \o b \in Seq(E) /\ Len(ac \o b) = Len(ac) + Len(b) BY ONLY <2>1, ConcatProperties
  <2>3. Distinct(ac \o b) BY <1>9, <1>12, <2>1, DistinctParts
  <2> QED BY <1>13, <2>2, <2>3
<1>15. Len(s) = Len(goals)
  <2>1. Len(a \o b) = Len(a) + Len(b) BY ConcatProperties
  <2>2. Len(a) \in Nat /\ Len(b) \in Nat BY LenProperties
  <2> DEFINE x == Len(a)
             y == Len(b)
             c == Len(cur)
             n == Len(goals)
             l == Len(s)
  <2>3. /\ x \in Nat /\ y \in Nat /\ c \in Nat /\ n \in Nat /\ c + (x + y) = n
        /\ l = (x + c) + y BY <1>1, <1>2, <1>4, <1>12, <1>14, <2>1, <2>2
  <2> HIDE DEF x, y, c, n, l
  <2>4. l = n BY <2>3
  <2> QED BY <2>4 DEF l, n
<1>16. s # <<>>
  <2>1. Len(<<>>) = 0 OBVIOUS
  <2> QED BY <1>2, <1>15, <2>1
<1>17. Len(s) <= Len(goals) BY <1>2, <1>15
<1>18. IsPlan(s) BY <1>14, <1>16, <1>17, PlanFrom DEF E
<1> QED BY <1>18 DEF s

\* What a command makes of a plan is one again, or nothing.
LEMMA TransformedIsPlan ==
    ASSUME NEW c, IsPlan(c.goals)
    PROVE  Transformed(c) = <<>> \/ IsPlan(Transformed(c))
<1>1. PICK goals : goals = c.goals OBVIOUS
<1>2. IsPlan(goals) /\ OnePartition(goals) BY <1>1 DEF IsPlan
<1>3. CASE c.action = "prioritize"
  <2>1. Transformed(c) = Prioritized(goals, c.current_region_id, c.selected_region_id)
    BY <1>1, <1>2, <1>3 DEF Transformed
  <2>2. IsPlan(Prioritized(goals, c.current_region_id, c.selected_region_id))
    BY <1>2, PrioritizedIsPlan
  <2> QED BY <2>1, <2>2
<1>4. CASE c.action # "prioritize"
  <2>1. Transformed(c) = Outside(goals, c.current_region_id) BY <1>1, <1>2, <1>4 DEF Transformed
  <2>2. PICK here : here = c.current_region_id OBVIOUS
  <2>3. Outside(goals, here) = <<>> \/ IsPlan(Outside(goals, here)) BY <1>2, OutsideIsPlan
  <2> QED BY <2>1, <2>2, <2>3
<1> QED BY <1>3, <1>4

------------------------------------------------------------------------------
\* The specification: every plan it comes to, and what is done with it.

\* What every reachable state keeps: the robot's plan is one that the
\* decoders take, a snapshot is of such a plan, a command made from a
\* snapshot carries what the snapshot says, and a request is what the codec
\* makes of its command.
PlanKept == plan = <<>> \/ IsPlan(plan)
IsSnapshot(s) ==
    /\ s = SnapshotOf(s.goals, s.current_region_id)
    /\ IsPlan(s.goals) /\ s.current_region_id \in Halves
SnapshotKept == snapshot = None \/ IsSnapshot(snapshot)
OfSnapshot(c) ==
    /\ c.type = "ReprioritizeCoverageCommand" /\ c.action \in ReprioritizeActions
    /\ c.mission_id = Mission /\ c.current_session_id = Session /\ c.ordered = "True"
    /\ IsPlan(c.goals)
CommandKept == snapshot # None => outcome = "idle" \/ OfSnapshot(command)
RequestKept == outcome = "encoded" => request = Request(command)
IInv == PlanKept /\ SnapshotKept /\ CommandKept /\ RequestKept

\* It holds at first.
LEMMA AtFirst == Init => IInv
BY PlansAssumption
   DEF Init, RegistryInit, IInv, PlanKept, SnapshotKept, CommandKept, RequestKept

\* A snapshot is one of Snapshots, and no mark.
LEMMA SnapshotParts ==
    ASSUME NEW s, IsSnapshot(s)
    PROVE  /\ s # None /\ s # Malformed
           /\ s.mission_id = Mission /\ s.current_session_id = Session
<1>1. PICK goals, current : goals = s.goals /\ current = s.current_region_id OBVIOUS
<1>2. s = SnapshotOf(goals, current) /\ IsPlan(goals) /\ current \in Halves
  BY <1>1 DEF IsSnapshot
<1>3. goals \in Seq(CoveragePlanGoals) BY <1>2 DEF IsPlan
<1>4. Mission \in Nat /\ Session \in Halves BY SMT DEF Mission, Session, Halves
<1>5. SnapshotOf(goals, current) \in Snapshots BY <1>2, <1>3, <1>4 DEF SnapshotOf, Snapshots
<1> QED BY <1>2, <1>5, SnapshotsAssumption DEF SnapshotOf

\* The regions of a plan have names that can be read.
LEMMA RegionsOfPlan ==
    ASSUME NEW goals, IsPlan(goals)
    PROVE  Regions(goals) \in SUBSET Halves
<1>1. goals \in Seq(GoodGoals) BY PlanGoals
<1>2. DOMAIN goals = 1..Len(goals) /\ \A i \in 1..Len(goals) : goals[i] \in GoodGoals
  BY <1>1, LenProperties, ElementOfSeq
<1>3. \A g \in GoodGoals : g.region_id \in Halves BY GoalParts
<1> QED BY <1>2, <1>3 DEF Regions

\* What the caller reads is nothing, or a snapshot of the robot's plan.
LEMMA ReadingAPlan ==
    ASSUME PlanKept, TakeSnapshot
    PROVE  IF plan = <<>> THEN snapshot' = None
           ELSE snapshot'.goals = plan /\ IsSnapshot(snapshot')
<1>1. CASE plan = <<>>
  <2>1. PICK style \in Styles :
           snapshot' = Joined(DecodePlan(PlanMessage(plan, None, style)),
                              DecodeSessionKey(SessionMessage(plan, style)))
    BY <1>1 DEF TakeSnapshot
  <2>2. SessionMessage(plan, style) = <<>> BY <1>1 DEF SessionMessage
  <2>3. DecodeSessionKey(<<>>) = None BY DEF DecodeSessionKey
  <2>4. snapshot' = None BY <2>1, <2>2, <2>3 DEF Joined
  <2> QED BY <1>1, <2>4
<1>2. CASE plan # <<>>
  <2>1. IsPlan(plan) BY <1>2 DEF PlanKept
  <2>2. PICK current \in Regions(plan), style \in Styles :
           snapshot' = Joined(DecodePlan(PlanMessage(plan, current, style)),
                              DecodeSessionKey(SessionMessage(plan, style)))
    BY <1>2 DEF TakeSnapshot
  <2>3. current \in Halves BY <2>1, RegionsOfPlan
  <2>4. snapshot' = SnapshotOf(plan, current) BY <2>1, <2>2, <2>3, SnapshotRead
  <2>5. SnapshotOf(plan, current).goals = plan
        /\ SnapshotOf(plan, current).current_region_id = current BY DEF SnapshotOf
  <2> QED BY <1>2, <2>1, <2>3, <2>4, <2>5 DEF IsSnapshot
<1> QED BY <1>1, <1>2

\* The codec of a reprioritization.
LEMMA PayloadOfReprioritize ==
    ASSUME NEW c, c.type = "ReprioritizeCoverageCommand"
    PROVE  Payload(c) = ReprioritizePayload(c)
BY DEF Payload

\* What the robot takes up is the plan that the command makes of its own.
LEMMA ObeyingACommand ==
    ASSUME IInv, RobotObeys
    PROVE  /\ OfSnapshot(command) /\ plan' = Transformed(command)
           /\ plan' = <<>> \/ IsPlan(plan')
<1>1. outcome = "encoded" /\ snapshot # None /\ plan' = Delivered(request.payload)
  BY DEF RobotObeys, InSeries, Settle
<1>2. OfSnapshot(command) BY <1>1 DEF IInv, CommandKept
<1>3. request = Request(command) BY <1>1 DEF IInv, RequestKept
<1>4. PICK c : c = command OBVIOUS
<1>5. /\ c.mission_id = Mission /\ c.current_session_id = Session /\ c.ordered = "True"
      /\ c.type = "ReprioritizeCoverageCommand" /\ IsPlan(c.goals)
  BY <1>2, <1>4 DEF OfSnapshot
<1>6. request.payload = ReprioritizePayload(c)
  <2>1. Payload(c) = ReprioritizePayload(c) BY <1>5, PayloadOfReprioritize
  <2> QED BY <1>3, <1>4, <2>1 DEF Request
<1>7. PICK goals : goals = Transformed(c) OBVIOUS
<1>8. goals = <<>> \/ IsPlan(goals) BY <1>5, <1>7, TransformedIsPlan
<1>9. goals \in Seq(GoodGoals) /\ Len(goals) <= MaxReports
  <2>1. CASE goals = <<>>
    <3>1. Len(goals) = 0 /\ goals \in Seq(GoodGoals) BY <2>1
    <3> QED BY <3>1 DEF MaxReports
  <2>2. CASE IsPlan(goals) BY <2>2, PlanGoals
  <2> QED BY <1>8, <2>1, <2>2
<1>10. Delivered(ReprioritizePayload(c)) = goals BY <1>5, <1>7, <1>9, DeliveredRead
<1> QED BY <1>1, <1>2, <1>4, <1>6, <1>7, <1>8, <1>10

\* Every step keeps the invariant.
LEMMA BuildingAtRest ==
    ASSUME IInv, Alone, Construct \/ Call
    PROVE  IInv'
<1>1. plan' = plan /\ snapshot' = None /\ outcome' = "built"
  BY DEF Alone, Construct, Call, Build
<1>2. PlanKept' BY <1>1 DEF IInv, PlanKept
<1>3. SnapshotKept' /\ CommandKept' /\ RequestKept'
  BY <1>1 DEF SnapshotKept, CommandKept, RequestKept
<1> QED BY <1>2, <1>3 DEF IInv

LEMMA EncodingKeeps ==
    ASSUME IInv, Registry, UNCHANGED <<plan, snapshot>>
    PROVE  IInv'
<1>1. outcome = "built" /\ command' = command
  BY DEF Registry, RefuseVersion, RefuseUnknown, RefuseArguments, Encode, Raise
<1>2. PlanKept' /\ SnapshotKept' BY DEF IInv, PlanKept, SnapshotKept
<1>3. CommandKept' BY <1>1 DEF IInv, CommandKept
<1>4. RequestKept'
  <2>1. CASE RefuseVersion \/ RefuseUnknown \/ RefuseArguments
    BY <2>1 DEF RefuseVersion, RefuseUnknown, RefuseArguments, Raise, RequestKept
  <2>2. CASE Encode BY <1>1, <2>2 DEF Encode, RequestKept
  <2> QED BY <2>1, <2>2 DEF Registry
<1> QED BY <1>2, <1>3, <1>4 DEF IInv

LEMMA ReadingKeeps ==
    ASSUME IInv, TakeSnapshot
    PROVE  IInv'
<1>1. plan' = plan /\ outcome' = "idle" BY DEF TakeSnapshot, registryVars
<1>2. PlanKept BY DEF IInv
<1>3. IF plan = <<>> THEN snapshot' = None ELSE snapshot'.goals = plan /\ IsSnapshot(snapshot')
  BY <1>2, ReadingAPlan
<1>4. PlanKept' BY <1>1, <1>2 DEF PlanKept
<1>5. SnapshotKept' BY <1>3 DEF SnapshotKept
<1>6. CommandKept' /\ RequestKept' BY <1>1 DEF CommandKept, RequestKept
<1> QED BY <1>4, <1>5, <1>6 DEF IInv

LEMMA ReprioritizingKeeps ==
    ASSUME IInv, Reprioritize
    PROVE  IInv'
<1>1. plan' = plan /\ snapshot' = snapshot /\ outcome' = "built" /\ snapshot # None
  BY DEF Reprioritize, Build
<1>2. IsSnapshot(snapshot) BY <1>1 DEF IInv, SnapshotKept
<1>3. PICK action, selected :
         /\ action \in ReprioritizeActions
         /\ command' = ReprioritizeCommand(action, snapshot.mission_id, snapshot.goals, "True",
                        snapshot.current_region_id, snapshot.current_session_id, selected)
  BY DEF Reprioritize, Build
<1>4. /\ snapshot.mission_id = Mission /\ snapshot.current_session_id = Session
      /\ IsPlan(snapshot.goals)
  BY <1>2, SnapshotParts DEF IsSnapshot
<1>5. OfSnapshot(command') BY <1>3, <1>4 DEF ReprioritizeCommand, OfSnapshot
<1>6. PlanKept' /\ SnapshotKept' BY <1>1 DEF IInv, PlanKept, SnapshotKept
<1>7. CommandKept' BY <1>5 DEF CommandKept
<1>8. RequestKept' BY <1>1 DEF RequestKept
<1> QED BY <1>6, <1>7, <1>8 DEF IInv

LEMMA ObeyingKeeps ==
    ASSUME IInv, RobotObeys
    PROVE  IInv'
<1>1. outcome' = "idle" /\ snapshot' = snapshot BY DEF RobotObeys, Settle
<1>2. plan' = <<>> \/ IsPlan(plan') BY ObeyingACommand
<1>3. PlanKept' BY <1>2 DEF PlanKept
<1>4. SnapshotKept' /\ CommandKept' /\ RequestKept'
  BY <1>1 DEF IInv, SnapshotKept, CommandKept, RequestKept
<1> QED BY <1>3, <1>4 DEF IInv

LEMMA LosingKeeps ==
    ASSUME IInv, RequestIsLost
    PROVE  IInv'
<1>1. outcome' = "idle" /\ snapshot' = snapshot /\ plan' = plan BY DEF RequestIsLost, Settle
<1> QED BY <1>1 DEF IInv, PlanKept, SnapshotKept, CommandKept, RequestKept

LEMMA AdvancingKeeps ==
    ASSUME IInv, RobotAdvances
    PROVE  IInv'
<1>1. /\ plan # <<>> /\ plan' = Tail(plan) /\ snapshot' = snapshot
      /\ outcome' = outcome /\ command' = command /\ request' = request
  BY DEF RobotAdvances, registryVars
<1>2. IsPlan(plan) BY <1>1 DEF IInv, PlanKept
<1>3. PlanKept' BY <1>1, <1>2, TailIsPlan DEF PlanKept
<1>4. SnapshotKept' /\ CommandKept' /\ RequestKept'
  BY <1>1 DEF IInv, SnapshotKept, CommandKept, RequestKept
<1> QED BY <1>3, <1>4 DEF IInv

\* Together.
LEMMA EachStep == IInv /\ [Next]_vars => IInv'
<1> SUFFICES ASSUME IInv, [Next]_vars PROVE IInv' OBVIOUS
<1>1. CASE Alone /\ (Construct \/ Call) BY <1>1, BuildingAtRest
<1>2. CASE Registry /\ UNCHANGED <<plan, snapshot>> BY <1>2, EncodingKeeps
<1>3. CASE TakeSnapshot BY <1>3, ReadingKeeps
<1>4. CASE Reprioritize BY <1>4, ReprioritizingKeeps
<1>5. CASE RobotObeys BY <1>5, ObeyingKeeps
<1>6. CASE RequestIsLost BY <1>6, LosingKeeps
<1>7. CASE RobotAdvances BY <1>7, AdvancingKeeps
<1>8. CASE UNCHANGED vars
  BY <1>8 DEF vars, registryVars, IInv, PlanKept, SnapshotKept, CommandKept, RequestKept
<1> QED BY <1>1, <1>2, <1>3, <1>4, <1>5, <1>6, <1>7, <1>8 DEF Next

\* In every reachable state the robot's plan is one that coverage.py takes,
\* and what the caller holds - snapshot, command, request - is of one.
THEOREM EveryPlanIsKept == Spec => []IInv
BY AtFirst, EachStep, PTL DEF Spec
------------------------------------------------------------------------------
\* A plan that is cut short is never acted on: of any plan that coverage.py
\* takes, every proper part of the robot's messages is refused or says
\* nothing (wire.py parse_fields, coverage.py).
THEOREM NoCutPlanIsRead == Spec => []CutPlanIsInert
<1>1. IInv => CutPlanIsInert
  BY PlansAreCutSafely DEF IInv, PlanKept, CutPlanIsInert
<1> QED BY <1>1, EveryPlanIsKept, PTL

\* A snapshot is the robot's plan at that moment, goal for goal, whatever
\* plan the robot has and however it writes identifiers
\* (decode_coverage_plan, decode_active_session_key).
THEOREM EverySnapshotIsThePlan == Spec => SnapshotIsThePlan
<1>1. IInv /\ TakeSnapshot =>
         IF plan = <<>> THEN snapshot' = None
         ELSE /\ snapshot' # Malformed
              /\ snapshot'.goals = plan
              /\ snapshot'.mission_id = Mission
              /\ snapshot'.current_session_id = Session
  <2>1. SUFFICES ASSUME IInv, TakeSnapshot
                 PROVE  IF plan = <<>> THEN snapshot' = None
                        ELSE /\ snapshot' # Malformed
                             /\ snapshot'.goals = plan
                             /\ snapshot'.mission_id = Mission
                             /\ snapshot'.current_session_id = Session
    OBVIOUS
  <2>2. IF plan = <<>> THEN snapshot' = None
        ELSE snapshot'.goals = plan /\ IsSnapshot(snapshot')
    BY <2>1, ReadingAPlan DEF IInv
  <2> QED BY <2>2, SnapshotParts
<1> QED BY <1>1, EveryPlanIsKept, PTL DEF SnapshotIsThePlan

\* No goal of a snapshot is lost, repeated or altered on the way to the
\* robot, of any plan (_VerifiedReprioritizeCodec.encode, and the robot that
\* reads the request).
THEOREM EveryGoalSurvives == Spec => GoalsSurvive
<1>1. IInv /\ RobotObeys =>
         LET here == command.current_region_id IN
         /\ Outside(plan', here) = Outside(command.goals, here)
         /\ Inside(plan', here) = IF command.action = "skip" THEN <<>>
                                  ELSE Inside(command.goals, here)
  <2>1. SUFFICES ASSUME IInv, RobotObeys
                 PROVE  LET here == command.current_region_id IN
                        /\ Outside(plan', here) = Outside(command.goals, here)
                        /\ Inside(plan', here) = IF command.action = "skip" THEN <<>>
                                                 ELSE Inside(command.goals, here)
    OBVIOUS
  <2>2. OfSnapshot(command) /\ plan' = Transformed(command) BY <2>1, ObeyingACommand
  <2>3. PICK here : here = command.current_region_id OBVIOUS
  <2>4. PICK goals : goals = command.goals OBVIOUS
  <2>5. PICK selected : selected = command.selected_region_id OBVIOUS
  <2>6. IsPlan(goals) /\ command.action \in {"prioritize", "skip"}
    BY <2>2, <2>4 DEF OfSnapshot, ReprioritizeActions
  <2>7. goals \in Seq(CoveragePlanGoals) /\ OnePartition(goals) BY <2>6 DEF IsPlan
  <2>8. CASE command.action = "prioritize"
    <3>1. plan' = Prioritized(goals, here, selected)
      BY <2>2, <2>3, <2>4, <2>5, <2>7, <2>8 DEF Transformed
    <3>2. Outside(plan', here) = Outside(goals, here) /\ Inside(plan', here) = Inside(goals, here)
      BY <2>7, <3>1, MovedSurvive
    <3> QED BY <2>3, <2>4, <2>8, <3>2
  <2>9. CASE command.action = "skip"
    <3>1. plan' = Outside(goals, here) BY <2>2, <2>3, <2>4, <2>7, <2>9 DEF Transformed
    <3>2. Outside(plan', here) = Outside(goals, here) /\ Inside(plan', here) = <<>>
      BY <2>7, <3>1, SkippedSurvive
    <3> QED BY <2>3, <2>4, <2>9, <3>2
  <2> QED BY <2>6, <2>8, <2>9
<1> QED BY <1>1, EveryPlanIsKept, PTL DEF GoalsSurvive

\* After prioritizing a region of any plan, the robot takes up all of its
\* goals before any goal of the region it was in
\* (_VerifiedReprioritizeCodec.encode).
THEOREM SelectedAlwaysGoesFirst == Spec => SelectedGoesFirst
<1>1. IInv /\ RobotObeys /\ command.action = "prioritize"
      /\ command.selected_region_id \in
            Regions(command.goals) \ {command.current_region_id} =>
         \A i, j \in DOMAIN plan' :
            /\ plan'[i].region_id = command.selected_region_id
            /\ plan'[j].region_id = command.current_region_id
            => i < j
  <2>1. SUFFICES ASSUME IInv, RobotObeys, command.action = "prioritize",
                        command.selected_region_id # command.current_region_id
                 PROVE  \A i, j \in DOMAIN plan' :
                           /\ plan'[i].region_id = command.selected_region_id
                           /\ plan'[j].region_id = command.current_region_id
                           => i < j
    OBVIOUS
  <2>2. OfSnapshot(command) /\ plan' = Transformed(command) BY <2>1, ObeyingACommand
  <2>3. PICK here : here = command.current_region_id OBVIOUS
  <2>4. PICK goals : goals = command.goals OBVIOUS
  <2>5. PICK selected : selected = command.selected_region_id OBVIOUS
  <2>6. goals \in Seq(CoveragePlanGoals) /\ OnePartition(goals)
    BY <2>2, <2>4 DEF OfSnapshot, IsPlan
  <2>7. plan' = Prioritized(goals, here, selected)
    BY <2>1, <2>2, <2>3, <2>4, <2>5, <2>6 DEF Transformed
  <2>8. selected # here BY <2>1, <2>3, <2>5
  <2>9. \A i, j \in DOMAIN plan' :
           plan'[i].region_id = selected /\ plan'[j].region_id = here => i < j
    BY <2>6, <2>7, <2>8, SelectedIsFirst
  <2> QED BY <2>3, <2>5, <2>9
<1> QED BY <1>1, EveryPlanIsKept, PTL DEF SelectedGoesFirst

------------------------------------------------------------------------------
\* What is written to the wire, read back: fields, messages and lists tell
\* what they were written from.

\* What is written, and it may hold negative numbers: a fixed-width value is
\* opaque.
Words == Seq(Int)

\* Of two equal concatenations whose first parts are as long as each other,
\* the parts are equal.
LEMMA ConcatCancel ==
    ASSUME NEW a \in Words, NEW b \in Words, NEW r \in Words, NEW s \in Words,
           Len(a) = Len(b), a \o r = b \o s
    PROVE  a = b /\ r = s
<1>1. Len(a) \in Nat /\ Len(b) \in Nat /\ Len(r) \in Nat /\ Len(s) \in Nat
  BY LenProperties DEF Words
<1>2. /\ Len(a \o r) = Len(a) + Len(r) /\ Len(b \o s) = Len(b) + Len(s)
      /\ \A i \in 1..Len(a) + Len(r) : (a \o r)[i] = IF i <= Len(a) THEN a[i] ELSE r[i - Len(a)]
      /\ \A i \in 1..Len(b) + Len(s) : (b \o s)[i] = IF i <= Len(b) THEN b[i] ELSE s[i - Len(b)]
  BY ConcatProperties DEF Words
<1>3. a = b
  <2>1. ASSUME NEW i \in 1..Len(a) PROVE a[i] = b[i]
    <3>1. i \in 1..Len(a) + Len(r) /\ i \in 1..Len(b) + Len(s) /\ i <= Len(a) /\ i <= Len(b)
      BY <1>1
    <3>2. (a \o r)[i] = a[i] /\ (b \o s)[i] = b[i] BY <1>2, <3>1
    <3> QED BY <3>2
  <2> QED BY <2>1, SeqEqual DEF Words
<1>4. r = s
  <2>1. Len(r) = Len(s) BY <1>1, <1>2
  <2>2. ASSUME NEW i \in 1..Len(r) PROVE r[i] = s[i]
    <3> DEFINE k == Len(a) + i
    <3>1. k \in 1..Len(a) + Len(r) /\ k \in 1..Len(b) + Len(s) /\ ~(k <= Len(a)) /\ ~(k <= Len(b))
          /\ k - Len(a) = i /\ k - Len(b) = i
      BY <1>1, <2>1
    <3> HIDE DEF k
    <3>2. (a \o r)[k] = r[i] /\ (b \o s)[k] = s[i] BY <1>2, <3>1
    <3> QED BY <3>2
  <2> QED BY <2>1, <2>2, SeqEqual DEF Words
<1> QED BY <1>3, <1>4

\* What is written after what is written is written.
LEMMA WordsConcat ==
    ASSUME NEW a \in Words, NEW b \in Words
    PROVE  a \o b \in Words
BY ConcatProperties DEF Words

\* How concatenations are grouped does not matter.
LEMMA WordsAssociative ==
    ASSUME NEW a \in Words, NEW b \in Words, NEW c \in Words
    PROVE  (a \o b) \o c = a \o (b \o c)
BY ConcatAssociative DEF Words

\* Nothing is written, and it adds nothing.
LEMMA WordsEmpty ==
    /\ <<>> \in Words
    /\ \A r \in Words : <<>> \o r = r /\ r \o <<>> = r
BY EmptySeq, ConcatEmptySeq DEF Words

\* encode_varint() writes words.
LEMMA WordsOfVarint ==
    ASSUME NEW v \in Nat
    PROVE  EncodeVarint[v] \in Words
<1>1. EncodeVarint[v] \in Seq(Nat) BY VarintBytes DEF IsVarint
<1> QED BY <1>1, SeqMonotonic DEF Words

\* The first number of a concatenation, and what follows it.
LEMMA FirstCancel ==
    ASSUME NEW x \in Int, NEW y \in Int, NEW r \in Words, NEW s \in Words,
           <<x>> \o r = <<y>> \o s
    PROVE  x = y /\ r = s
<1>1. <<x>> \in Words /\ <<y>> \in Words /\ Len(<<x>>) = 1 /\ Len(<<y>>) = 1 BY DEF Words
<1>2. <<x>> = <<y>> /\ r = s BY <1>1, ConcatCancel
<1> QED BY <1>2

\* The laws of concatenation, in the form the messages are compared.
LEMMA CatParts ==
    ASSUME NEW a \in Words, NEW b \in Words, NEW c \in Words
    PROVE  /\ Cat(a, b) \in Words
           /\ Cat(Cat(a, b), c) = Cat(a, Cat(b, c))
           /\ Cat(<<>>, a) = a /\ Cat(a, <<>>) = a
           /\ Cat(a, b) = <<>> <=> a = <<>> /\ b = <<>>
<1>1. Cat(a, b) \in Words BY WordsConcat DEF Cat
<1>2. Cat(Cat(a, b), c) = Cat(a, Cat(b, c)) BY WordsAssociative DEF Cat
<1>3. Cat(<<>>, a) = a /\ Cat(a, <<>>) = a BY WordsEmpty DEF Cat
<1>4. Cat(a, b) = <<>> <=> a = <<>> /\ b = <<>> BY ConcatEqualIffEmpty DEF Cat, Words
<1> QED BY <1>1, <1>2, <1>3, <1>4

\* Two equal messages whose first parts are as long as each other agree on
\* both parts.
LEMMA CatSameLength ==
    ASSUME NEW a \in Words, NEW b \in Words, NEW r \in Words, NEW s \in Words,
           Len(a) = Len(b), Cat(a, r) = Cat(b, s)
    PROVE  a = b /\ r = s
<1>1. a \o r = b \o s BY DEF Cat
<1> QED BY <1>1, ConcatCancel

Number(v) == EncodeVarint[v]

\* Different numbers are different varints, whatever follows them.
LEMMA CatNumber ==
    ASSUME NEW a \in Nat, NEW b \in Nat, NEW r \in Words, NEW s \in Words,
           Cat(Number(a), r) = Cat(Number(b), s)
    PROVE  a = b /\ r = s
<1> DEFINE Cancels(n) == \A m \in Nat, p \in Words, q \in Words :
               EncodeVarint[n] \o p = EncodeVarint[m] \o q => n = m /\ p = q
           T == {n \in Nat : Cancels(n)}
<1>1. ASSUME NEW n \in Nat, \A k \in Nat : k < n => k \in T PROVE n \in T
  <2>1. SUFFICES ASSUME NEW m \in Nat, NEW p \in Words, NEW q \in Words,
                        EncodeVarint[n] \o p = EncodeVarint[m] \o q
                 PROVE  n = m /\ p = q
    OBVIOUS
  <2> DEFINE P(v, t) == EncodeVarint[Less(v)] \o t
  <2>2. ASSUME NEW v \in Nat, v >= 128, NEW t \in Words
        PROVE  /\ EncodeVarint[v] \o t = <<Low(v)>> \o P(v, t) /\ P(v, t) \in Words
               /\ Low(v) \in Int
    <3>0. Less(v) \in Nat /\ Low(v) \in Nat BY Groups128
    <3>1. Less(v) \in Nat /\ Low(v) \in Int BY <3>0
    <3>2. EncodeVarint[v] = <<Low(v)>> \o EncodeVarint[Less(v)] BY <2>2, VarintLarge
    <3>3. EncodeVarint[Less(v)] \in Words /\ <<Low(v)>> \in Words BY <3>1, WordsOfVarint DEF Words
    <3>4. P(v, t) \in Words BY <3>3, WordsConcat
    <3>5. (<<Low(v)>> \o EncodeVarint[Less(v)]) \o t = <<Low(v)>> \o P(v, t)
      <4> DEFINE one == <<Low(v)>>
                 e == EncodeVarint[Less(v)]
      <4>1. one \in Words /\ e \in Words BY <3>3
      <4> HIDE DEF one, e
      <4>2. Cat(Cat(one, e), t) = Cat(one, Cat(e, t)) BY <4>1, CatParts
      <4> QED BY <4>2 DEF one, e, Cat
    <3> QED BY <3>1, <3>2, <3>4, <3>5
  <2>3. ASSUME NEW v \in Nat, v < 128 PROVE EncodeVarint[v] = <<v>> BY <2>3, VarintSmall
  <2>4. Low(n) \in Nat /\ Low(n) >= 128 /\ Low(m) \in Nat /\ Low(m) >= 128 BY Groups128
  <2> HIDE DEF P
  <2>5. CASE n < 128 /\ m < 128
    <3>1. <<n>> \o p = <<m>> \o q BY <2>1, <2>3, <2>5
    <3> QED BY <3>1, FirstCancel
  <2>6. CASE n < 128 /\ m >= 128
    <3>1. <<n>> \o p = <<Low(m)>> \o P(m, q) BY <2>1, <2>2, <2>3, <2>6
    <3>2. n = Low(m) BY <3>1, <2>2, <2>6, FirstCancel
    <3> QED BY <3>2, <2>4, <2>6
  <2>7. CASE n >= 128 /\ m < 128
    <3>1. <<m>> \o q = <<Low(n)>> \o P(n, p) BY <2>1, <2>2, <2>3, <2>7
    <3>2. m = Low(n) BY <3>1, <2>2, <2>7, FirstCancel
    <3> QED BY <3>2, <2>4, <2>7
  <2>8. CASE n >= 128 /\ m >= 128
    <3>1. <<Low(n)>> \o P(n, p) = <<Low(m)>> \o P(m, q) BY <2>1, <2>2, <2>8
    <3>2. Low(n) = Low(m) /\ P(n, p) = P(m, q)
      <4>1. P(n, p) \in Words /\ P(m, q) \in Words /\ Low(n) \in Int /\ Low(m) \in Int BY <2>2, <2>8
      <4> DEFINE x == Low(n)
                 y == Low(m)
                 t == P(n, p)
                 v == P(m, q)
      <4> HIDE DEF x, y, t, v
      <4>2. <<x>> \o t = <<y>> \o v BY <3>1 DEF x, y, t, v
      <4>3. t \in Words /\ v \in Words /\ x \in Int /\ y \in Int BY <4>1 DEF x, y, t, v
      <4>4. x = y /\ t = v BY <4>2, <4>3, FirstCancel
      <4> QED BY <4>4 DEF x, y, t, v
    <3>3. Less(n) \in Nat /\ Less(n) < n /\ Less(m) \in Nat BY <2>8, Groups128
    <3>4. Cancels(Less(n)) BY <1>1, <3>3
    <3> HIDE DEF Cancels
    <3>5. Less(n) = Less(m) /\ p = q BY <3>2, <3>3, <3>4 DEF Cancels, P
    <3>6. n = Low(n) - 128 + 128 * Less(n) /\ m = Low(m) - 128 + 128 * Less(m) BY Groups128
    <3> QED BY <3>2, <3>5, <3>6
  <2> QED BY <2>5, <2>6, <2>7, <2>8
<1>2. T = Nat
  <2>1. T \in SUBSET Nat OBVIOUS
  <2> HIDE DEF T
  <2> QED BY <1>1, <2>1, FromSmaller
<1>3. Cancels(a)
  <2> HIDE DEF Cancels
  <2> QED BY <1>2
<1>4. EncodeVarint[a] \o r = EncodeVarint[b] \o s BY DEF Cat, Number
<1> QED BY <1>3, <1>4

\* A field's number and wire type are read off its tag.
LEMMA CatTag ==
    ASSUME NEW n \in Nat, NEW w \in {0, 1, 2, 5}, NEW m \in Nat, NEW u \in {0, 1, 2, 5},
           NEW r \in Words, NEW s \in Words, Cat(Tag(n, w), r) = Cat(Tag(m, u), s)
    PROVE  n = m /\ w = u /\ r = s
<1>1. 8 * n + w \in Nat /\ 8 * m + u \in Nat OBVIOUS
<1>2. 8 * n + w = 8 * m + u /\ r = s
  <2> DEFINE x == 8 * n + w
             y == 8 * m + u
  <2>1. Cat(Number(x), r) = Cat(Number(y), s) BY DEF Tag, Number
  <2> HIDE DEF x, y
  <2>2. x \in Nat /\ y \in Nat BY <1>1 DEF x, y
  <2>3. x = y /\ r = s
    <3>1. r \in Words /\ s \in Words OBVIOUS
    <3> QED BY ONLY <2>1, <2>2, <3>1, CatNumber
  <2> QED BY <2>3 DEF x, y
<1> QED BY <1>2

WireTypes == {0, 1, 2, 5}
\* What follows a tag, by its wire type.
Chunks(w) ==
    {x \in Words : \/ w = 0 /\ \E v \in Nat : x = Number(v)
                   \/ w = 1 /\ Len(x) = 8
                   \/ w = 2 /\ \E v \in Words : x = Cat(Number(Len(v)), v)
                   \/ w = 5 /\ Len(x) = 4}
\* A field numbered n; one that may have been left out; and what may follow
\* it in a message whose fields are in the order of their numbers.
Items(n) == {x \in Words : \E w \in WireTypes : \E b \in Chunks(w) : x = Cat(Tag(n, w), b)}
Parts(n) == {<<>>} \cup Items(n)
Begins(x, n) == \E w \in WireTypes : \E t \in Words : x = Cat(Tag(n, w), t)
Past(n) == {x \in Words : x = <<>> \/ \E m \in Nat : n < m /\ Begins(x, m)}

\* A tag is written, and it is not nothing.
LEMMA WordsOfTag ==
    ASSUME NEW n \in Nat, NEW w \in WireTypes
    PROVE  Tag(n, w) \in Words /\ Tag(n, w) # <<>>
<1> DEFINE v == 8 * n + w
<1>1. v \in Nat BY DEF WireTypes
<1>2. Tag(n, w) = EncodeVarint[v] BY DEF Tag
<1> HIDE DEF v
<1>3. IsVarint(EncodeVarint[v]) BY <1>1, VarintBytes
<1>4. EncodeVarint[v] # <<>> BY <1>3, EmptySeq DEF IsVarint
<1> QED BY <1>1, <1>2, <1>4, WordsOfVarint

\* After the same tag, what follows the wire type is read in one way: a
\* varint, eight bytes, a length and as many bytes, or four bytes.
LEMMA ChunkCancel ==
    ASSUME NEW w \in WireTypes, NEW b \in Chunks(w), NEW c \in Chunks(w),
           NEW r \in Words, NEW s \in Words, Cat(b, r) = Cat(c, s)
    PROVE  b = c /\ r = s
<1>0. b \in Words /\ c \in Words BY DEF Chunks
<1>1. CASE w = 0
  <2>1. PICK u \in Nat, v \in Nat : b = Number(u) /\ c = Number(v)
    BY <1>1 DEF Chunks
  <2>2. u = v /\ r = s BY <2>1, CatNumber
  <2> QED BY <2>1, <2>2
<1>2. CASE w = 1
  <2>1. Len(b) = 8 /\ Len(c) = 8 BY <1>2 DEF Chunks
  <2> QED BY <1>0, <2>1, CatSameLength
<1>3. CASE w = 5
  <2>1. Len(b) = 4 /\ Len(c) = 4 BY <1>3 DEF Chunks
  <2> QED BY <1>0, <2>1, CatSameLength
<1>4. CASE w = 2
  <2>1. PICK u \in Words, v \in Words :
           b = Cat(Number(Len(u)), u) /\ c = Cat(Number(Len(v)), v)
    BY <1>4 DEF Chunks
  <2>2. Len(u) \in Nat /\ Len(v) \in Nat BY LenProperties DEF Words
  <2> DEFINE i == Len(u)
             j == Len(v)
             e == Number(i)
             f == Number(j)
  <2>3. e \in Words /\ f \in Words BY <2>2, WordsOfVarint DEF Number
  <2>4. Cat(Cat(e, u), r) = Cat(e, Cat(u, r)) /\ Cat(Cat(f, v), s) = Cat(f, Cat(v, s))
    <3> HIDE DEF e, f
    <3> QED BY <2>3, CatParts
  <2>5. Cat(u, r) \in Words /\ Cat(v, s) \in Words BY CatParts
  <2>6. Cat(Number(i), Cat(u, r)) = Cat(Number(j), Cat(v, s)) BY <2>1, <2>4
  <2>7. i \in Nat /\ j \in Nat BY <2>2
  <2>8. i = j /\ Cat(u, r) = Cat(v, s)
    <3> HIDE DEF i, j, e, f
    <3> QED BY ONLY <2>5, <2>6, <2>7, CatNumber
  <2>9. u = v /\ r = s BY <2>8, CatSameLength
  <2> QED BY <2>1, <2>9
<1> QED BY <1>1, <1>2, <1>3, <1>4 DEF WireTypes

\* A field, a field that may be left out and what follows one are written.
LEMMA ItemWords ==
    ASSUME NEW n
    PROVE  Items(n) \subseteq Words /\ Parts(n) \subseteq Words /\ Past(n) \subseteq Words
BY WordsEmpty DEF Items, Parts, Past

\* Two fields and what follows them.
LEMMA ItemCancel ==
    ASSUME NEW n \in Nat, NEW m \in Nat, NEW x \in Items(n), NEW y \in Items(m),
           NEW r \in Words, NEW s \in Words, Cat(x, r) = Cat(y, s)
    PROVE  n = m /\ x = y /\ r = s
<1>a. PICK w \in WireTypes : \E b \in Chunks(w) : x = Cat(Tag(n, w), b) BY DEF Items
<1>1. PICK b \in Chunks(w) : x = Cat(Tag(n, w), b) BY <1>a
<1>b. PICK u \in WireTypes : \E c \in Chunks(u) : y = Cat(Tag(m, u), c) BY DEF Items
<1>2. PICK c \in Chunks(u) : y = Cat(Tag(m, u), c) BY <1>b
<1>3. b \in Words /\ c \in Words BY DEF Chunks
<1> DEFINE p == Tag(n, w)
           q == Tag(m, u)
<1>4. p \in Words /\ q \in Words BY WordsOfTag
<1>5. Cat(Cat(p, b), r) = Cat(p, Cat(b, r)) /\ Cat(Cat(q, c), s) = Cat(q, Cat(c, s))
  <2> HIDE DEF p, q
  <2> QED BY <1>3, <1>4, CatParts
<1>6. Cat(b, r) \in Words /\ Cat(c, s) \in Words BY <1>3, CatParts
<1>7. Cat(Tag(n, w), Cat(b, r)) = Cat(Tag(m, u), Cat(c, s)) BY <1>1, <1>2, <1>5
<1>8. n = m /\ w = u /\ Cat(b, r) = Cat(c, s) BY <1>6, <1>7, CatTag DEF WireTypes
<1>9. b = c /\ r = s BY <1>8, ChunkCancel
<1> QED BY <1>1, <1>2, <1>8, <1>9

\* A field, and a message that begins with one of another number.
LEMMA BeginsWithItem ==
    ASSUME NEW n \in Nat, NEW x \in Items(n), NEW r \in Words
    PROVE  Begins(Cat(x, r), n) /\ Begins(x, n) /\ x # <<>> /\ Cat(x, r) # <<>> /\ Cat(x, r) \in Words
<1>a. PICK w \in WireTypes : \E b \in Chunks(w) : x = Cat(Tag(n, w), b) BY DEF Items
<1>1. PICK b \in Chunks(w) : x = Cat(Tag(n, w), b) BY <1>a
<1>2. b \in Words BY DEF Chunks
<1> DEFINE p == Tag(n, w)
<1>3. p \in Words /\ p # <<>> BY WordsOfTag
<1>4. Cat(Cat(p, b), r) = Cat(p, Cat(b, r)) /\ Cat(p, b) # <<>> /\ Cat(p, Cat(b, r)) # <<>> /\ Cat(b, r) \in Words
  <2> HIDE DEF p
  <2>1. Cat(Cat(p, b), r) = Cat(p, Cat(b, r)) /\ Cat(b, r) \in Words BY <1>2, <1>3, CatParts
  <2> QED BY <2>1, <1>2, <1>3, CatParts
<1>5. Cat(x, r) \in Words BY ItemWords, CatParts
<1> QED BY <1>1, <1>2, <1>4, <1>5 DEF Begins

\* The number of the field that a message begins with is read in one way.
LEMMA BeginsOnce ==
    ASSUME NEW x, NEW n \in Nat, NEW m \in Nat, Begins(x, n), Begins(x, m)
    PROVE  n = m
<1>1. PICK w \in WireTypes, r \in Words : x = Cat(Tag(n, w), r) BY DEF Begins
<1>2. PICK u \in WireTypes, s \in Words : x = Cat(Tag(m, u), s) BY DEF Begins
<1>3. Cat(Tag(n, w), r) = Cat(Tag(m, u), s) BY <1>1, <1>2
<1> QED BY <1>3, CatTag DEF WireTypes

\* The empty message begins with no field.
LEMMA BeginsSomething ==
    ASSUME NEW n \in Nat
    PROVE  ~ Begins(<<>>, n)
<1>1. SUFFICES ASSUME NEW w \in WireTypes, NEW t \in Words, <<>> = Cat(Tag(n, w), t) PROVE FALSE
  BY DEF Begins
<1>2. Tag(n, w) \in Words /\ Tag(n, w) # <<>> BY WordsOfTag
<1> DEFINE p == Tag(n, w)
<1> HIDE DEF p
<1>3. p \in Words /\ p # <<>> /\ Cat(p, t) = <<>> BY <1>1, <1>2 DEF p
<1> QED BY <1>3, CatParts

\* A field that may be left out, and the rest of the message.
LEMMA PartCancel ==
    ASSUME NEW n \in Nat, NEW x \in Parts(n), NEW y \in Parts(n),
           NEW r \in Past(n), NEW s \in Past(n), Cat(x, r) = Cat(y, s)
    PROVE  x = y /\ r = s
<1>1. r \in Words /\ s \in Words /\ x \in Words /\ y \in Words BY ItemWords
<1>2. CASE x \in Items(n) /\ y \in Items(n) BY <1>1, <1>2, ItemCancel
<1>3. ASSUME NEW p \in Items(n), NEW q \in Words, NEW t \in Past(n), Cat(p, q) = t PROVE FALSE
  <2>1. Begins(t, n) /\ t # <<>> BY <1>3, BeginsWithItem
  <2>2. PICK m \in Nat : n < m /\ Begins(t, m) BY <2>1 DEF Past
  <2>3. n = m BY <2>1, <2>2, BeginsOnce
  <2> QED BY <2>2, <2>3
<1>4. CASE x = <<>> /\ y = <<>> BY <1>1, <1>4, CatParts
<1>5. CASE x = <<>> /\ y \in Items(n)
  <2>1. r = Cat(y, s) BY <1>1, <1>5, CatParts
  <2> QED BY <2>1, <1>1, <1>3, <1>5
<1>6. CASE y = <<>> /\ x \in Items(n)
  <2>1. s = Cat(x, r) BY <1>1, <1>6, CatParts
  <2> QED BY <2>1, <1>1, <1>3, <1>6
<1> QED BY <1>2, <1>4, <1>5, <1>6 DEF Parts

\* A tag and what its wire type asks for are a field.
LEMMA ItemFrom ==
    ASSUME NEW n \in Nat, NEW w \in WireTypes, NEW b \in Chunks(w)
    PROVE  Cat(Tag(n, w), b) \in Items(n)
<1>1. Tag(n, w) \in Words /\ b \in Words BY WordsOfTag DEF Chunks
<1> QED BY <1>1, CatParts DEF Items

\* Four or eight copies of an opaque word stand for a fixed-width value.
LEMMA WordsOfCopies ==
    ASSUME NEW v \in Int
    PROVE  /\ [i \in 1..4 |-> v] \in Words /\ Len([i \in 1..4 |-> v]) = 4
           /\ [i \in 1..8 |-> v] \in Words /\ Len([i \in 1..8 |-> v]) = 8
BY IsASeq DEF Words

\* The four kinds of fields, and that their values are read off them.
LEMMA VarintItem ==
    ASSUME NEW n \in Nat, NEW v \in Nat
    PROVE  Varint(n, v) \in Items(n) /\ Varint(n, v) = Cat(Tag(n, 0), Number(v))
           /\ Number(v) \in Chunks(0)
<1>1. Number(v) \in Chunks(0) BY WordsOfVarint DEF Chunks, Number
<1>2. Varint(n, v) = Cat(Tag(n, 0), Number(v)) BY DEF Varint, Cat, Number
<1> QED BY <1>1, <1>2, ItemFrom DEF WireTypes

\* encode_bytes_field() writes the field it names: a tag, a length and the
\* bytes.
LEMMA BytesItem ==
    ASSUME NEW n \in Nat, NEW v \in Words
    PROVE  /\ Bytes(n, v) \in Items(n)
           /\ Bytes(n, v) = Cat(Tag(n, 2), Cat(Number(Len(v)), v))
           /\ Cat(Number(Len(v)), v) \in Chunks(2) /\ Len(v) \in Nat
<1>0. Len(v) \in Nat BY LenProperties DEF Words
<1>1. Number(Len(v)) \in Words BY <1>0, WordsOfVarint DEF Number
<1>2. Cat(Number(Len(v)), v) \in Chunks(2) BY <1>1, CatParts DEF Chunks
<1>3. Tag(n, 2) \in Words BY WordsOfTag DEF WireTypes
<1>4. Bytes(n, v) = Cat(Cat(Tag(n, 2), Number(Len(v))), v) BY DEF Bytes, Cat, Number
<1>5. Bytes(n, v) = Cat(Tag(n, 2), Cat(Number(Len(v)), v)) BY <1>1, <1>3, <1>4, CatParts
<1> QED BY <1>0, <1>2, <1>5, ItemFrom DEF WireTypes

\* encode_fixed32_field() writes the field it names: a tag and four bytes.
LEMMA Fixed32Item ==
    ASSUME NEW n \in Nat, NEW v \in Int
    PROVE  /\ Fixed32(n, v) \in Items(n)
           /\ Fixed32(n, v) = Cat(Tag(n, 5), [i \in 1..4 |-> v])
           /\ [i \in 1..4 |-> v] \in Chunks(5)
<1>1. [i \in 1..4 |-> v] \in Chunks(5) BY WordsOfCopies DEF Chunks
<1>2. Fixed32(n, v) = Cat(Tag(n, 5), [i \in 1..4 |-> v]) BY DEF Fixed32, Cat
<1> QED BY <1>1, <1>2, ItemFrom DEF WireTypes

\* encode_fixed64_field() writes the field it names: a tag and eight bytes.
LEMMA Fixed64Item ==
    ASSUME NEW n \in Nat, NEW v \in Int
    PROVE  /\ Fixed64(n, v) \in Items(n)
           /\ Fixed64(n, v) = Cat(Tag(n, 1), [i \in 1..8 |-> v])
           /\ [i \in 1..8 |-> v] \in Chunks(1)
<1>1. [i \in 1..8 |-> v] \in Chunks(1) BY WordsOfCopies DEF Chunks
<1>2. Fixed64(n, v) = Cat(Tag(n, 1), [i \in 1..8 |-> v]) BY DEF Fixed64, Cat
<1> QED BY <1>1, <1>2, ItemFrom DEF WireTypes

\* Fields of two numbers are never the same.
LEMMA ItemsApart ==
    ASSUME NEW n \in Nat, NEW m \in Nat, NEW x \in Items(n), x \in Items(m)
    PROVE  n = m
<1>1. x \in Words BY ItemWords
<1>2. Begins(x, n) /\ Begins(x, m) BY <1>1, BeginsWithItem
<1> QED BY <1>2, BeginsOnce

\* encode_varint_field() tells its value.
LEMMA VarintTells ==
    ASSUME NEW n \in Nat, NEW v \in Nat, NEW u \in Nat, Varint(n, v) = Varint(n, u)
    PROVE  v = u
<1> DEFINE x == Number(v)
           y == Number(u)
<1>1. Cat(Tag(n, 0), x) = Cat(Tag(n, 0), y) BY VarintItem
<1>2. x \in Words /\ y \in Words BY WordsOfVarint DEF Number
<1>3. x = y
  <2> HIDE DEF x, y
  <2> QED BY <1>1, <1>2, CatTag
<1>4. <<>> \in Words BY WordsEmpty
<1>5. Cat(Number(v), <<>>) = Cat(Number(u), <<>>) BY <1>3
<1> QED BY <1>4, <1>5, CatNumber

\* encode_bytes_field() tells its value.
LEMMA BytesTell ==
    ASSUME NEW n \in Nat, NEW v \in Words, NEW u \in Words, Bytes(n, v) = Bytes(n, u)
    PROVE  v = u
<1> DEFINE x == Cat(Number(Len(v)), v)
           y == Cat(Number(Len(u)), u)
<1>1. Cat(Tag(n, 2), x) = Cat(Tag(n, 2), y) BY BytesItem
<1>2. x \in Words /\ y \in Words BY BytesItem DEF Chunks
<1>3. x = y
  <2> HIDE DEF x, y
  <2> QED BY <1>1, <1>2, CatTag
<1>4. Len(v) \in Nat /\ Len(u) \in Nat BY BytesItem
<1> QED BY <1>3, <1>4, CatNumber

\* encode_fixed32_field() tells its value.
LEMMA Fixed32Tells ==
    ASSUME NEW n \in Nat, NEW v \in Int, NEW u \in Int, Fixed32(n, v) = Fixed32(n, u)
    PROVE  v = u
<1> DEFINE x == [i \in 1..4 |-> v]
           y == [i \in 1..4 |-> u]
<1>1. Cat(Tag(n, 5), x) = Cat(Tag(n, 5), y) BY Fixed32Item
<1>2. x \in Words /\ y \in Words BY WordsOfCopies
<1>3. x = y
  <2> HIDE DEF x, y
  <2> QED BY <1>1, <1>2, CatTag
<1>4. x[1] = v /\ y[1] = u OBVIOUS
<1> HIDE DEF x, y
<1> QED BY <1>3, <1>4

\* encode_fixed64_field() tells its value.
LEMMA Fixed64Tells ==
    ASSUME NEW n \in Nat, NEW v \in Int, NEW u \in Int, Fixed64(n, v) = Fixed64(n, u)
    PROVE  v = u
<1> DEFINE x == [i \in 1..8 |-> v]
           y == [i \in 1..8 |-> u]
<1>1. Cat(Tag(n, 1), x) = Cat(Tag(n, 1), y) BY Fixed64Item
<1>2. x \in Words /\ y \in Words BY WordsOfCopies
<1>3. x = y
  <2> HIDE DEF x, y
  <2> QED BY <1>1, <1>2, CatTag
<1>4. x[1] = v /\ y[1] = u OBVIOUS
<1> HIDE DEF x, y
<1> QED BY <1>3, <1>4

\* Fields that are left out on some condition.
LEMMA WhenTells ==
    ASSUME NEW n \in Nat, NEW p \in BOOLEAN, NEW q \in BOOLEAN,
           NEW x \in Items(n), NEW y \in Items(n)
    PROVE  /\ When(p, x) \in Parts(n)
           /\ When(p, x) = When(q, y) => p = q /\ (p => x = y)
<1>1. p => x # <<>> BY ItemWords, BeginsWithItem, WordsEmpty
<1>2. q => y # <<>> BY ItemWords, BeginsWithItem, WordsEmpty
<1> QED BY <1>1, <1>2 DEF When, Parts

\* A float field tells its value, zero included, which proto3 leaves out.
LEMMA FloatTells ==
    ASSUME NEW n \in Nat, NEW v \in Int, NEW u \in Int
    PROVE  Float(n, v) \in Parts(n) /\ (Float(n, v) = Float(n, u) => v = u)
<1>1. Fixed32(n, v) \in Items(n) /\ Fixed32(n, u) \in Items(n) BY Fixed32Item
<1>2. Fixed32(n, v) = Fixed32(n, u) => v = u BY Fixed32Tells
<1>3. (v # 0) \in BOOLEAN /\ (u # 0) \in BOOLEAN OBVIOUS
<1>4. When(v # 0, Fixed32(n, v)) \in Parts(n) BY <1>1, <1>3, WhenTells
<1>5. When(v # 0, Fixed32(n, v)) = When(u # 0, Fixed32(n, u)) =>
         (v # 0) = (u # 0) /\ (v # 0 => Fixed32(n, v) = Fixed32(n, u))
  <2> DEFINE p == v # 0
             q == u # 0
             x == Fixed32(n, v)
             y == Fixed32(n, u)
  <2>1. p \in BOOLEAN /\ q \in BOOLEAN /\ x \in Items(n) /\ y \in Items(n) BY <1>1, <1>3
  <2> HIDE DEF p, q, x, y
  <2>2. When(p, x) = When(q, y) => p = q /\ (p => x = y) BY <2>1, WhenTells
  <2> QED BY <2>2 DEF p, q, x, y
<1> QED BY <1>2, <1>4, <1>5 DEF Float

\* An integer field tells its value, zero included, which proto3 leaves out.
LEMMA IntegerTells ==
    ASSUME NEW n \in Nat, NEW v \in Nat, NEW u \in Nat
    PROVE  Integer(n, v) \in Parts(n) /\ (Integer(n, v) = Integer(n, u) => v = u)
<1>1. Varint(n, v) \in Items(n) /\ Varint(n, u) \in Items(n) BY VarintItem
<1>2. Varint(n, v) = Varint(n, u) => v = u BY VarintTells
<1>3. Varint(n, v) # <<>> /\ Varint(n, u) # <<>> BY <1>1, BeginsWithItem, WordsEmpty
<1>4. Integer(n, v) \in Parts(n) BY <1>1 DEF Integer, When, Parts
<1>5. Integer(n, v) = Integer(n, u) => v = u BY <1>2, <1>3 DEF Integer, When
<1> QED BY <1>4, <1>5

\* A text field tells its value, the empty text included, which proto3
\* leaves out.
LEMMA TextTells ==
    ASSUME NEW n \in Nat, NEW v \in Words, NEW u \in Words
    PROVE  Text(n, v) \in Parts(n) /\ (Text(n, v) = Text(n, u) => v = u)
<1>1. Bytes(n, v) \in Items(n) /\ Bytes(n, u) \in Items(n) BY BytesItem
<1>2. Bytes(n, v) = Bytes(n, u) => v = u BY BytesTell
<1>3. (v # <<>>) \in BOOLEAN /\ (u # <<>>) \in BOOLEAN OBVIOUS
<1>4. When(v # <<>>, Bytes(n, v)) \in Parts(n) BY <1>1, <1>3, WhenTells
<1>5. When(v # <<>>, Bytes(n, v)) = When(u # <<>>, Bytes(n, u)) =>
         (v # <<>>) = (u # <<>>) /\ (v # <<>> => Bytes(n, v) = Bytes(n, u))
  <2> DEFINE p == v # <<>>
             q == u # <<>>
             x == Bytes(n, v)
             y == Bytes(n, u)
  <2>1. p \in BOOLEAN /\ q \in BOOLEAN /\ x \in Items(n) /\ y \in Items(n) BY <1>1, <1>3
  <2> HIDE DEF p, q, x, y
  <2>2. When(p, x) = When(q, y) => p = q /\ (p => x = y) BY <2>1, WhenTells
  <2> QED BY <2>2 DEF p, q, x, y
<1> QED BY <1>2, <1>4, <1>5 DEF Text

\* _mission_id_message() tells the mission, the mission 0 included.
LEMMA MissionTells ==
    ASSUME NEW v \in Int, NEW u \in Int
    PROVE  MissionId(v) \in Parts(2) /\ (MissionId(v) = MissionId(u) => v = u)
BY FloatTells DEF MissionId, Float

\* A part that may be left out and what follows it still come after an
\* earlier field.
LEMMA PastPart ==
    ASSUME NEW n \in Nat, NEW m \in Nat, n < m, NEW x \in Parts(m), NEW r \in Past(m)
    PROVE  x \in Past(n) /\ r \in Past(n) /\ Cat(x, r) \in Past(n)
<1>1. x \in Words /\ r \in Words BY ItemWords
<1>2. r \in Past(n)
  <2>1. ASSUME NEW k \in Nat, m < k, Begins(r, k) PROVE r \in Past(n)
    <3>1. n < k BY <2>1
    <3> QED BY <1>1, <2>1, <3>1 DEF Past
  <2>2. CASE r = <<>> BY <1>1, <2>2 DEF Past
  <2> QED BY <2>1, <2>2 DEF Past
<1>3. ASSUME x \in Items(m) PROVE x \in Past(n) /\ Cat(x, r) \in Past(n)
  <2>1. Begins(Cat(x, r), m) /\ Begins(x, m) /\ Cat(x, r) \in Words BY <1>1, <1>3, BeginsWithItem
  <2> QED BY <1>1, <2>1 DEF Past
<1>4. ASSUME x = <<>> PROVE x \in Past(n) /\ Cat(x, r) \in Past(n)
  <2>1. Cat(x, r) = r BY <1>1, <1>4, CatParts
  <2>2. x \in Past(n) BY <1>4, WordsEmpty DEF Past
  <2> QED BY <1>2, <2>1, <2>2
<1> QED BY <1>2, <1>3, <1>4 DEF Parts

\* Nothing follows any field, and any field may be left out.
LEMMA EmptyIsPast ==
    ASSUME NEW n
    PROVE  <<>> \in Past(n) /\ <<>> \in Parts(n)
BY WordsEmpty DEF Past, Parts

\* Messages of three, four and five fields, each of which may be left out.
LEMMA Split3 ==
    ASSUME NEW i \in Nat, NEW j \in Nat, i < j,
           NEW a \in Parts(i), NEW b \in Parts(j), NEW r \in Past(j),
           NEW x \in Parts(i), NEW y \in Parts(j), NEW s \in Past(j),
           Cat(Cat(a, b), r) = Cat(Cat(x, y), s)
    PROVE  a = x /\ b = y /\ r = s
<1>1. a \in Words /\ b \in Words /\ r \in Words /\ x \in Words /\ y \in Words /\ s \in Words
  BY ItemWords
<1>2. Cat(a, Cat(b, r)) = Cat(x, Cat(y, s)) BY <1>1, CatParts
<1>3. Cat(b, r) \in Past(i) /\ Cat(y, s) \in Past(i) BY PastPart
<1>4. a = x /\ Cat(b, r) = Cat(y, s) BY <1>2, <1>3, PartCancel
<1>5. b = y /\ r = s BY <1>4, PartCancel
<1> QED BY <1>4, <1>5

\* Of two equal messages of three fields in the order of their numbers and a
\* rest, the parts are equal.
LEMMA Split4 ==
    ASSUME NEW i \in Nat, NEW j \in Nat, NEW k \in Nat, i < j, j < k,
           NEW a \in Parts(i), NEW b \in Parts(j), NEW c \in Parts(k), NEW r \in Past(k),
           NEW x \in Parts(i), NEW y \in Parts(j), NEW z \in Parts(k), NEW s \in Past(k),
           Cat(Cat(Cat(a, b), c), r) = Cat(Cat(Cat(x, y), z), s)
    PROVE  a = x /\ b = y /\ c = z /\ r = s
<1>1. /\ a \in Words /\ b \in Words /\ c \in Words /\ r \in Words
      /\ x \in Words /\ y \in Words /\ z \in Words /\ s \in Words
  BY ItemWords
<1>2. Cat(a, b) \in Words /\ Cat(x, y) \in Words BY <1>1, CatParts
<1>3. Cat(Cat(a, b), Cat(c, r)) = Cat(Cat(x, y), Cat(z, s)) BY <1>1, <1>2, CatParts
<1>4. Cat(c, r) \in Past(j) /\ Cat(z, s) \in Past(j) BY PastPart
<1>5. a = x /\ b = y /\ Cat(c, r) = Cat(z, s) BY <1>3, <1>4, Split3
<1>6. c = z /\ r = s BY <1>5, PartCancel
<1> QED BY <1>5, <1>6

\* Of two equal messages of four fields in the order of their numbers and a
\* rest, the parts are equal.
LEMMA Split5 ==
    ASSUME NEW i \in Nat, NEW j \in Nat, NEW k \in Nat, NEW l \in Nat, i < j, j < k, k < l,
           NEW a \in Parts(i), NEW b \in Parts(j), NEW c \in Parts(k), NEW d \in Parts(l),
           NEW r \in Past(l),
           NEW x \in Parts(i), NEW y \in Parts(j), NEW z \in Parts(k), NEW w \in Parts(l),
           NEW s \in Past(l),
           Cat(Cat(Cat(Cat(a, b), c), d), r) = Cat(Cat(Cat(Cat(x, y), z), w), s)
    PROVE  a = x /\ b = y /\ c = z /\ d = w /\ r = s
<1>1. /\ a \in Words /\ b \in Words /\ c \in Words /\ d \in Words /\ r \in Words
      /\ x \in Words /\ y \in Words /\ z \in Words /\ w \in Words /\ s \in Words
  BY ItemWords
<1>2. Cat(a, b) \in Words /\ Cat(x, y) \in Words BY <1>1, CatParts
<1>3. Cat(Cat(a, b), c) \in Words /\ Cat(Cat(x, y), z) \in Words BY <1>1, <1>2, CatParts
<1>4. Cat(Cat(Cat(a, b), c), Cat(d, r)) = Cat(Cat(Cat(x, y), z), Cat(w, s))
  BY <1>1, <1>3, CatParts
<1>5. Cat(d, r) \in Past(k) /\ Cat(w, s) \in Past(k) BY PastPart
<1>6. a = x /\ b = y /\ c = z /\ Cat(d, r) = Cat(w, s) BY <1>4, <1>5, Split4
<1>7. d = w /\ r = s BY <1>6, PartCancel
<1> QED BY <1>6, <1>7

\* A list of words over S, as one.
LEMMA FlattenOneMore ==
    ASSUME NEW xs \in Seq(Words), NEW x \in Words
    PROVE  /\ FlattenSeq(xs) \in Words
           /\ FlattenSeq(Append(xs, x)) = Cat(FlattenSeq(xs), x)
<1>1. FlattenSeq(Append(xs, x)) = FlattenSeq(xs) \o x BY FlattenAppend DEF Words
<1>2. FlattenSeq(xs) \in Words BY FlattenType DEF Words
<1> QED BY <1>1, <1>2 DEF Cat

\* The first elements of a list, and its last.
LEMMA LastOff ==
    ASSUME NEW S, NEW n \in Nat, NEW s \in Seq(S), Len(s) = n + 1
    PROVE  \E r \in Seq(S), e \in S :
              /\ s = Append(r, e) /\ Len(r) = n /\ e = s[n + 1]
              /\ \A i \in 1..n : r[i] = s[i]
<1>1. s # <<>> BY EmptySeq
<1>2. PICK r \in Seq(S), e \in S : s = Append(r, e) BY <1>1, SequenceEmptyOrAppend
<1>3. Len(s) = Len(r) + 1 /\ Len(r) \in Nat BY <1>2, AppendProperties, LenProperties
<1>4. Len(r) = n BY <1>3
<1>5. s[Len(r) + 1] = e /\ \A i \in 1..Len(r) : s[i] = r[i] BY <1>2, AppendProperties
<1> QED BY <1>2, <1>4, <1>5

\* The fields 1 to n of a message, each of which may be left out.
Numbered1(xs) == \A i \in 1..Len(xs) : xs[i] \in Parts(i)

\* Of two equal messages whose fields are numbered 1, 2, 3 and so on, each
\* field is equal: this is the form of a list of settings.
LEMMA PartsList ==
    ASSUME NEW xs \in Seq(Words), NEW ys \in Seq(Words), Len(xs) = Len(ys),
           Numbered1(xs), Numbered1(ys), FlattenSeq(xs) = FlattenSeq(ys)
    PROVE  xs = ys
<1> DEFINE Tells(n) == \A s \in Seq(Words), t \in Seq(Words), p \in Past(n), q \in Past(n) :
               /\ Len(s) = n /\ Len(t) = n /\ Numbered1(s) /\ Numbered1(t)
               /\ Cat(FlattenSeq(s), p) = Cat(FlattenSeq(t), q)
               => s = t /\ p = q
           T == {n \in Nat : Tells(n)}
<1>1. 0 \in T
  <2>1. SUFFICES ASSUME NEW s \in Seq(Words), NEW t \in Seq(Words), NEW p \in Past(0),
                        NEW q \in Past(0), Len(s) = 0, Len(t) = 0,
                        Cat(FlattenSeq(s), p) = Cat(FlattenSeq(t), q)
                 PROVE  s = t /\ p = q
    OBVIOUS
  <2>2. s = <<>> /\ t = <<>> BY <2>1, EmptySeq
  <2>3. p \in Words /\ q \in Words BY ItemWords
  <2> QED BY <2>1, <2>2, <2>3, FlattenEmpty, CatParts
<1>2. ASSUME NEW n \in T PROVE n + 1 \in T
  <2>0. n \in Nat OBVIOUS
  <2>1. SUFFICES ASSUME NEW s \in Seq(Words), NEW t \in Seq(Words), NEW p \in Past(n + 1),
                        NEW q \in Past(n + 1), Len(s) = n + 1, Len(t) = n + 1,
                        Numbered1(s), Numbered1(t),
                        Cat(FlattenSeq(s), p) = Cat(FlattenSeq(t), q)
                 PROVE  s = t /\ p = q
    BY <2>0
  <2>a. n \in Nat /\ s \in Seq(Words) /\ Len(s) = n + 1 BY <2>0, <2>1
  <2>b. n \in Nat /\ t \in Seq(Words) /\ Len(t) = n + 1 BY <2>0, <2>1
  <2>2. PICK a \in Seq(Words), x \in Words :
           s = Append(a, x) /\ Len(a) = n /\ x = s[n + 1] /\ \A i \in 1..n : a[i] = s[i]
    BY ONLY <2>a, LastOff
  <2>3. PICK b \in Seq(Words), y \in Words :
           t = Append(b, y) /\ Len(b) = n /\ y = t[n + 1] /\ \A i \in 1..n : b[i] = t[i]
    BY ONLY <2>b, LastOff
  <2>4. \A i \in 1..n : i \in 1..(n + 1) BY <2>0
  <2>5. Numbered1(a) /\ Numbered1(b) BY <2>1, <2>2, <2>3, <2>4 DEF Numbered1
  <2>6. n + 1 \in 1..(n + 1) /\ n + 1 \in Nat /\ n < n + 1 BY <2>0
  <2>7. x \in Parts(n + 1) /\ y \in Parts(n + 1) BY <2>1, <2>2, <2>3, <2>6 DEF Numbered1
  <2> DEFINE f == FlattenSeq(a)
             g == FlattenSeq(b)
  <2>8. f \in Words /\ g \in Words /\ FlattenSeq(s) = Cat(f, x) /\ FlattenSeq(t) = Cat(g, y)
    BY <2>2, <2>3, FlattenOneMore
  <2>9. p \in Words /\ q \in Words BY ItemWords
  <2>10. Cat(Cat(f, x), p) = Cat(Cat(g, y), q) BY <2>1, <2>8
  <2>11. Cat(f, Cat(x, p)) = Cat(g, Cat(y, q))
    <3> HIDE DEF f, g
    <3> QED BY <2>8, <2>9, <2>10, CatParts
  <2>12. Cat(x, p) \in Past(n) /\ Cat(y, q) \in Past(n) BY <2>0, <2>6, <2>7, PastPart
  <2>13. Tells(n) OBVIOUS
  <2>14. a = b /\ Cat(x, p) = Cat(y, q)
    <3> HIDE DEF Tells, T
    <3> QED BY <2>2, <2>3, <2>5, <2>11, <2>12, <2>13 DEF Tells
  <2>15. x = y /\ p = q BY <2>6, <2>7, <2>14, PartCancel
  <2> QED BY <2>2, <2>3, <2>14, <2>15
<1>3. T = Nat
  <2>1. T \in SUBSET Nat OBVIOUS
  <2> HIDE DEF T
  <2> QED BY <1>1, <1>2, <2>1, EveryNumber
<1>4. Len(xs) \in Nat BY LenProperties
<1>5. Tells(Len(xs))
  <2> HIDE DEF Tells
  <2> QED BY <1>3, <1>4
<1>6. <<>> \in Past(Len(xs)) BY EmptyIsPast
<1>7. Cat(FlattenSeq(xs), <<>>) = Cat(FlattenSeq(ys), <<>>) OBVIOUS
<1> QED BY <1>5, <1>6, <1>7

\* A set of words that can be told from each other by their beginnings.
Telling(W) ==
    /\ W \subseteq Words /\ <<>> \notin W
    /\ \A x \in W, y \in W, r \in Words, s \in Words :
          Cat(x, r) = Cat(y, s) => x = y /\ r = s

\* Repeated fields of one number are read back one by one.
LEMMA ItemsTell ==
    ASSUME NEW n \in Nat
    PROVE  Telling(Items(n))
<1>1. Items(n) \subseteq Words BY ItemWords
<1>2. <<>> \notin Items(n) BY BeginsWithItem, WordsEmpty
<1> QED BY <1>1, <1>2, ItemCancel DEF Telling

\* A list of words that are read back one by one is told by their
\* concatenation.
LEMMA ListTells ==
    ASSUME NEW W, Telling(W), NEW xs \in Seq(W), NEW ys \in Seq(W),
           FlattenSeq(xs) = FlattenSeq(ys)
    PROVE  xs = ys
<1> DEFINE Tells(n) == \A s \in Seq(W), t \in Seq(W), p \in Words, q \in Words :
               /\ Len(s) = n /\ Len(t) = n
               /\ Cat(FlattenSeq(s), p) = Cat(FlattenSeq(t), q)
               => s = t /\ p = q
           T == {n \in Nat : Tells(n)}
<1>0. \A s \in Seq(W) : s \in Seq(Words)
  BY SeqMonotonic DEF Telling
<1>1. 0 \in T
  <2>1. SUFFICES ASSUME NEW s \in Seq(W), NEW t \in Seq(W), NEW p \in Words,
                        NEW q \in Words, Len(s) = 0, Len(t) = 0,
                        Cat(FlattenSeq(s), p) = Cat(FlattenSeq(t), q)
                 PROVE  s = t /\ p = q
    OBVIOUS
  <2>2. s = <<>> /\ t = <<>> BY <2>1, EmptySeq
  <2> QED BY <2>1, <2>2, FlattenEmpty, CatParts
<1>2. ASSUME NEW n \in T PROVE n + 1 \in T
  <2>0. n \in Nat OBVIOUS
  <2>1. SUFFICES ASSUME NEW s \in Seq(W), NEW t \in Seq(W), NEW p \in Words,
                        NEW q \in Words, Len(s) = n + 1, Len(t) = n + 1,
                        Cat(FlattenSeq(s), p) = Cat(FlattenSeq(t), q)
                 PROVE  s = t /\ p = q
    BY <2>0
  <2>a. n \in Nat /\ s \in Seq(W) /\ Len(s) = n + 1 BY <2>0, <2>1
  <2>b. n \in Nat /\ t \in Seq(W) /\ Len(t) = n + 1 BY <2>0, <2>1
  <2>c. \A u \in Seq(W) : Len(u) = n + 1 =>
           \E r \in Seq(W), e \in W : u = Append(r, e) /\ Len(r) = n
    <3>1. SUFFICES ASSUME NEW u \in Seq(W), Len(u) = n + 1
                   PROVE  \E r \in Seq(W), e \in W : u = Append(r, e) /\ Len(r) = n
      OBVIOUS
    <3>2. \E r \in Seq(W), e \in W :
              /\ u = Append(r, e) /\ Len(r) = n /\ e = u[n + 1]
              /\ \A i \in 1..n : r[i] = u[i]
      <4>1. n \in Nat /\ u \in Seq(W) /\ Len(u) = n + 1 BY <2>0, <3>1
      <4> HIDE DEF T, Tells
      <4> QED BY ONLY <4>1, LastOff
    <3> QED BY <3>2
  <2>2. PICK a \in Seq(W), x \in W : s = Append(a, x) /\ Len(a) = n
    BY ONLY <2>a, <2>c
  <2>3. PICK b \in Seq(W), y \in W : t = Append(b, y) /\ Len(b) = n
    BY ONLY <2>b, <2>c
  <2>4. x \in Words /\ y \in Words /\ a \in Seq(Words) /\ b \in Seq(Words) BY <1>0 DEF Telling
  <2> DEFINE f == FlattenSeq(a)
             g == FlattenSeq(b)
  <2>8. f \in Words /\ g \in Words /\ FlattenSeq(s) = Cat(f, x) /\ FlattenSeq(t) = Cat(g, y)
    BY <2>2, <2>3, <2>4, FlattenOneMore
  <2>10. Cat(Cat(f, x), p) = Cat(Cat(g, y), q) BY <2>1, <2>8
  <2>11. Cat(f, Cat(x, p)) = Cat(g, Cat(y, q))
    <3> HIDE DEF f, g
    <3> QED BY <2>4, <2>8, <2>10, CatParts
  <2>12. Cat(x, p) \in Words /\ Cat(y, q) \in Words BY <2>4, CatParts
  <2>13. Tells(n) OBVIOUS
  <2>14. a = b /\ Cat(x, p) = Cat(y, q)
    <3> HIDE DEF Tells, T
    <3> QED BY <2>2, <2>3, <2>11, <2>12, <2>13 DEF Tells
  <2>15. x = y /\ p = q BY <2>14 DEF Telling
  <2> QED BY <2>2, <2>3, <2>14, <2>15
<1>3. T = Nat
  <2>1. T \in SUBSET Nat OBVIOUS
  <2> HIDE DEF T
  <2> QED BY <1>1, <1>2, <2>1, EveryNumber
<1>4. ASSUME NEW s \in Seq(W), NEW t \in Seq(W), Len(s) <= Len(t),
             FlattenSeq(s) = FlattenSeq(t)
      PROVE  s = t
  <2> DEFINE n == Len(s)
             h == SubSeq(t, 1, n)
             l == SubSeq(t, n + 1, Len(t))
  <2>1. n \in Nat /\ Len(t) \in Nat BY LenProperties
  <2>2. h \in Seq(W) /\ l \in Seq(W) /\ Len(h) = n
        /\ Len(l) = IF n + 1 <= Len(t) THEN Len(t) - n ELSE 0
    BY <2>1, <1>4, SubSeqProperties, ElementOfSeq
  <2>3. h \o l = t
    <3>1. 1 \in 1..Len(t) + 1 /\ n \in 1 - 1..Len(t) /\ Len(t) \in n..Len(t) BY <2>1, <1>4
    <3>2. h \o l = SubSeq(t, 1, Len(t)) BY <3>1, ConcatAdjacentSubSeq
    <3> QED BY <3>2, SubSeqFull
  <2> HIDE DEF n, h, l
  <2>4. h \in Seq(Words) /\ l \in Seq(Words) /\ s \in Seq(Words) BY <1>0, <2>2
  <2>5. FlattenSeq(h \o l) = FlattenSeq(h) \o FlattenSeq(l) BY <2>4, FlattenConcat DEF Words
  <2>6. /\ FlattenSeq(h) \in Words /\ FlattenSeq(l) \in Words /\ FlattenSeq(s) \in Words
    BY <2>4, FlattenType DEF Words
  <2>7. Cat(FlattenSeq(s), <<>>) = Cat(FlattenSeq(h), FlattenSeq(l))
    <3>1. Cat(FlattenSeq(h), FlattenSeq(l)) = FlattenSeq(t) BY <2>3, <2>5 DEF Cat
    <3> QED BY <1>4, <2>6, <3>1, CatParts
  <2>8. Tells(n)
    <3> HIDE DEF Tells
    <3> QED BY <1>3, <2>1
  <2>9. s = h /\ <<>> = FlattenSeq(l)
    <3>1. <<>> \in Words /\ Len(s) = n BY WordsEmpty DEF n
    <3> QED BY <2>2, <2>6, <2>7, <2>8, <3>1
  <2>10. l = <<>>
    <3>1. SUFFICES ASSUME l # <<>> PROVE FALSE OBVIOUS
    <3>2. PICK r \in Seq(W), e \in W : l = Append(r, e) BY <2>2, <3>1, SequenceEmptyOrAppend
    <3>3. e \in Words /\ e # <<>> /\ r \in Seq(Words) BY <1>0 DEF Telling
    <3>4. FlattenSeq(l) = Cat(FlattenSeq(r), e) /\ FlattenSeq(r) \in Words
      BY <3>2, <3>3, FlattenOneMore
    <3> QED BY <2>9, <3>3, <3>4, CatParts
  <2>11. h \o l = h BY <2>2, <2>10, ConcatEmptySeq
  <2> QED BY <2>3, <2>9, <2>11
<1>5. Len(xs) \in Nat /\ Len(ys) \in Nat BY LenProperties
<1>6. CASE Len(xs) <= Len(ys) BY <1>4, <1>6
<1>7. CASE Len(ys) <= Len(xs) BY <1>4, <1>7
<1> QED BY <1>5, <1>6, <1>7

\* A field is written, and it is not nothing.
LEMMA SomeItem ==
    ASSUME NEW n \in Nat, NEW x \in Items(n)
    PROVE  x \in Words /\ x # <<>>
BY ItemWords, BeginsWithItem, WordsEmpty

\* Identifiers.
LEMMA Fixed128Tells ==
    ASSUME NEW u \in Halves, NEW v \in Halves
    PROVE  Fixed128(u) \in Words /\ (Fixed128(u) = Fixed128(v) => u = v)
<1> DEFINE A(w) == When(w[1] # 0, Fixed64(1, w[1]))
           B(w) == When(w[2] # 0, Fixed64(2, w[2]))
<1>1. u[1] \in Nat /\ u[2] \in Nat /\ v[1] \in Nat /\ v[2] \in Nat BY DEF Halves
<1>2. u = <<u[1], u[2]>> /\ v = <<v[1], v[2]>> BY DEF Halves
<1>3. \A n \in Nat, h \in Nat : Fixed64(n, h) \in Items(n) /\ Fixed64(n, h) # <<>>
  <2>1. SUFFICES ASSUME NEW n \in Nat, NEW h \in Nat
                 PROVE  Fixed64(n, h) \in Items(n) /\ Fixed64(n, h) # <<>>
    OBVIOUS
  <2>2. Fixed64(n, h) \in Items(n)
    <3>1. n \in Nat /\ h \in Int OBVIOUS
    <3> QED BY ONLY <3>1, Fixed64Item
  <2> QED BY <2>2, SomeItem
<1>4. A(u) \in Parts(1) /\ A(v) \in Parts(1) BY <1>1, <1>3 DEF When, Parts
<1>5. B(u) \in Parts(2) /\ B(v) \in Parts(2) BY <1>1, <1>3 DEF When, Parts
<1>6. A(u) = A(v) => u[1] = v[1] BY <1>1, <1>3, Fixed64Tells DEF When
<1>7. B(u) = B(v) => u[2] = v[2] BY <1>1, <1>3, Fixed64Tells DEF When
<1>8. B(u) \in Past(1) /\ B(v) \in Past(1) BY <1>5, PastPart, EmptyIsPast
<1>9. Fixed128(u) = Cat(A(u), B(u)) /\ Fixed128(v) = Cat(A(v), B(v)) BY DEF Fixed128, Cat
<1> HIDE DEF A, B
<1>10. A(u) \in Words /\ B(u) \in Words BY <1>4, <1>5, ItemWords
<1>11. Fixed128(u) \in Words BY <1>9, <1>10, CatParts
<1>12. ASSUME Fixed128(u) = Fixed128(v) PROVE u = v
  <2>1. A(u) = A(v) /\ B(u) = B(v) BY <1>4, <1>8, <1>9, <1>12, PartCancel
  <2> QED BY <1>2, <1>6, <1>7, <2>1
<1> QED BY <1>11, <1>12

\* _wrapped_uuid() tells its identifier.
LEMMA WrappedTells ==
    ASSUME NEW u \in Halves, NEW v \in Halves
    PROVE  WrappedUuid(u) \in Items(2) /\ (WrappedUuid(u) = WrappedUuid(v) => u = v)
BY Fixed128Tells, BytesItem, BytesTell DEF WrappedUuid

\* Two fields, the first of which is always there.
LEMMA ItemThen ==
    ASSUME NEW n \in Nat, NEW x \in Items(n), NEW y \in Items(n), NEW r \in Words, NEW s \in Words
    PROVE  Cat(x, r) \in Words /\ (Cat(x, r) = Cat(y, s) => x = y /\ r = s)
BY ItemCancel, ItemWords, CatParts

\* _generated_full_uuid() tells its identifier.
LEMMA GeneratedTells ==
    ASSUME NEW u \in Halves, NEW v \in Halves
    PROVE  GeneratedUuid(u) \in Words /\ (GeneratedUuid(u) = GeneratedUuid(v) => u = v)
<1> DEFINE T(w) == [i \in 1..16 |-> IF i <= 8 THEN Backward(w[1]) ELSE Backward(w[2])]
<1>1. u[1] \in Nat /\ u[2] \in Nat /\ v[1] \in Nat /\ v[2] \in Nat BY DEF Halves
<1>2. /\ Backward(u[1]) \in Int /\ Backward(u[2]) \in Int
      /\ Backward(v[1]) \in Int /\ Backward(v[2]) \in Int
  <2>1. \A h \in Nat : Backward(h) \in Nat BY BackwardTwice
  <2> QED BY <1>1, <2>1
<1>3. T(u) \in Words /\ T(v) \in Words BY <1>2, IsASeq DEF Words
<1>4. Bytes(1, T(u)) \in Items(1) /\ Bytes(1, T(v)) \in Items(1)
  <2> HIDE DEF T
  <2> QED BY <1>3, BytesItem
<1>5. Fixed128(u) \in Words /\ Fixed128(v) \in Words BY Fixed128Tells
<1>6. Bytes(2, Fixed128(u)) \in Words /\ Bytes(2, Fixed128(v)) \in Words
  BY <1>5, BytesItem, ItemWords
<1>7. /\ GeneratedUuid(u) = Cat(Bytes(1, T(u)), Bytes(2, Fixed128(u)))
      /\ GeneratedUuid(v) = Cat(Bytes(1, T(v)), Bytes(2, Fixed128(v)))
  BY DEF GeneratedUuid, Cat
<1> HIDE DEF T
<1>8. GeneratedUuid(u) \in Words BY <1>4, <1>6, <1>7, ItemThen
<1>9. ASSUME GeneratedUuid(u) = GeneratedUuid(v) PROVE u = v
  <2>1. Bytes(2, Fixed128(u)) = Bytes(2, Fixed128(v)) BY <1>4, <1>6, <1>7, <1>9, ItemThen
  <2>2. Fixed128(u) = Fixed128(v) BY <1>5, <2>1, BytesTell
  <2> QED BY <2>2, Fixed128Tells
<1> QED BY <1>8, <1>9

\* _ffi_full_uuid() tells its identifier.
LEMMA FfiTells ==
    ASSUME NEW u \in Halves, NEW v \in Halves
    PROVE  FfiUuid(u) \in Words /\ (FfiUuid(u) = FfiUuid(v) => u = v)
<1>1. u[1] \in Nat /\ u[2] \in Nat /\ v[1] \in Nat /\ v[2] \in Nat BY DEF Halves
<1>2. u = <<u[1], u[2]>> /\ v = <<v[1], v[2]>> BY DEF Halves
<1> DEFINE p == <<Backward(u[1]), Backward(u[2])>>
           q == <<Backward(v[1]), Backward(v[2])>>
<1>3. /\ Backward(u[1]) \in Nat /\ Backward(u[2]) \in Nat
      /\ Backward(v[1]) \in Nat /\ Backward(v[2]) \in Nat
      /\ Backward(Backward(u[1])) = u[1] /\ Backward(Backward(u[2])) = u[2]
      /\ Backward(Backward(v[1])) = v[1] /\ Backward(Backward(v[2])) = v[2]
  BY <1>1, BackwardTwice
<1>4. p \in Halves /\ q \in Halves BY <1>3 DEF Halves
<1>5. FfiUuid(u) = GeneratedUuid(p) /\ FfiUuid(v) = GeneratedUuid(q) BY DEF FfiUuid
<1>6. p = q => u = v
  <2>1. p = q => Backward(u[1]) = Backward(v[1]) /\ Backward(u[2]) = Backward(v[2]) OBVIOUS
  <2> QED BY <1>2, <1>3, <2>1
<1> HIDE DEF p, q
<1> QED BY <1>4, <1>5, <1>6, GeneratedTells

\* The partition and the region of a room edit tell their identifiers.
LEMMA FfiFieldsTell ==
    ASSUME NEW u \in Halves, NEW v \in Halves
    PROVE  /\ FfiPartition(u) \in Items(1) /\ (FfiPartition(u) = FfiPartition(v) => u = v)
           /\ FfiRegion(u) \in Items(2) /\ (FfiRegion(u) = FfiRegion(v) => u = v)
BY FfiTells, BytesItem, BytesTell DEF FfiPartition, FfiRegion

\* Places.
Two(x, y) == Float(1, x) \o Float(2, y)

\* Two floats in fields 1 and 2 tell both, a zero left out included.
LEMMA TwoFloats ==
    ASSUME NEW x \in Int, NEW y \in Int, NEW u \in Int, NEW v \in Int
    PROVE  Two(x, y) \in Words /\ (Two(x, y) = Two(u, v) => x = u /\ y = v)
<1>1. /\ Float(1, x) \in Parts(1) /\ Float(1, u) \in Parts(1)
      /\ Float(2, y) \in Parts(2) /\ Float(2, v) \in Parts(2)
      /\ (Float(1, x) = Float(1, u) => x = u) /\ (Float(2, y) = Float(2, v) => y = v)
  BY FloatTells
<1>2. Float(2, y) \in Past(1) /\ Float(2, v) \in Past(1) BY <1>1, PastPart, EmptyIsPast
<1>3. Cat(Float(1, x), Float(2, y)) \in Words BY <1>1, ItemWords, CatParts
<1>4. Cat(Float(1, x), Float(2, y)) = Cat(Float(1, u), Float(2, v)) => x = u /\ y = v
  BY <1>1, <1>2, PartCancel
<1> QED BY <1>3, <1>4 DEF Cat, Two

Placed(c) == c.x_meters \in Int /\ c.y_meters \in Int

\* A point of the map tells the place (_map_point).
LEMMA PointTells ==
    ASSUME NEW p, NEW q, Placed(p), Placed(q)
    PROVE  Point(p) \in Words /\ (Point(p) = Point(q) => p.x_meters = q.x_meters /\ p.y_meters = q.y_meters)
<1>1. -p.y_meters \in Int /\ -p.x_meters \in Int /\ -q.y_meters \in Int /\ -q.x_meters \in Int
  BY DEF Placed
<1>2. /\ -p.y_meters = -q.y_meters => p.y_meters = q.y_meters
      /\ -p.x_meters = -q.x_meters => p.x_meters = q.x_meters
  BY DEF Placed
<1> QED BY <1>1, <1>2, TwoFloats DEF Point, Two

\* A posture tells the place and the heading.
LEMMA PostureTells ==
    ASSUME NEW p, NEW q, Placed(p), Placed(q), p.yaw_radians \in Int, q.yaw_radians \in Int
    PROVE  /\ Posture(p) \in Words
           /\ Posture(p) = Posture(q) =>
                 p.x_meters = q.x_meters /\ p.y_meters = q.y_meters /\ p.yaw_radians = q.yaw_radians
<1> DEFINE A(c) == Float(1, -c.y_meters)
           B(c) == Float(2, -c.x_meters)
           D(c) == Two(-Sin(c.yaw_radians), -Cos(c.yaw_radians))
<1>1. -p.y_meters \in Int /\ -p.x_meters \in Int /\ -q.y_meters \in Int /\ -q.x_meters \in Int
  BY DEF Placed
<1>2. /\ -p.y_meters = -q.y_meters => p.y_meters = q.y_meters
      /\ -p.x_meters = -q.x_meters => p.x_meters = q.x_meters
  BY DEF Placed
<1>3. /\ -Sin(p.yaw_radians) \in Int /\ -Cos(p.yaw_radians) \in Int
      /\ -Sin(q.yaw_radians) \in Int /\ -Cos(q.yaw_radians) \in Int
      /\ -Sin(p.yaw_radians) = -Sin(q.yaw_radians) => p.yaw_radians = q.yaw_radians
  BY DEF Sin, Cos
<1>4. D(p) \in Words /\ D(q) \in Words /\ (D(p) = D(q) => p.yaw_radians = q.yaw_radians)
  BY <1>3, TwoFloats
<1>5. /\ A(p) \in Parts(1) /\ A(q) \in Parts(1) /\ B(p) \in Parts(2) /\ B(q) \in Parts(2)
      /\ A(p) = A(q) => p.y_meters = q.y_meters
      /\ B(p) = B(q) => p.x_meters = q.x_meters
  BY <1>1, <1>2, FloatTells
<1>6. /\ Posture(p) = Cat(Cat(A(p), B(p)), Bytes(4, D(p)))
      /\ Posture(q) = Cat(Cat(A(q), B(q)), Bytes(4, D(q)))
  BY DEF Posture, Cat, Two
<1> HIDE DEF A, B, D
<1>7. Bytes(4, D(p)) \in Parts(4) /\ Bytes(4, D(q)) \in Parts(4) BY <1>4, BytesItem DEF Parts
<1>8. Bytes(4, D(p)) \in Past(2) /\ Bytes(4, D(q)) \in Past(2) BY <1>7, PastPart, EmptyIsPast
<1>9. A(p) \in Words /\ B(p) \in Words /\ Bytes(4, D(p)) \in Words BY <1>5, <1>7, ItemWords
<1>10. Cat(A(p), B(p)) \in Words BY <1>9, CatParts
<1>11. Posture(p) \in Words BY <1>6, <1>9, <1>10, CatParts
<1>12. ASSUME Posture(p) = Posture(q)
       PROVE  p.x_meters = q.x_meters /\ p.y_meters = q.y_meters /\ p.yaw_radians = q.yaw_radians
  <2>1. A(p) = A(q) /\ B(p) = B(q) /\ Bytes(4, D(p)) = Bytes(4, D(q))
    BY <1>5, <1>6, <1>8, <1>12, Split3
  <2>2. D(p) = D(q) BY <1>4, <2>1, BytesTell
  <2> QED BY <1>4, <1>5, <2>1, <2>2
<1> QED BY <1>11, <1>12

\* What the later proofs use of encode_bytes_field(): it writes a field, and
\* tells its value.
LEMMA BytesField ==
    ASSUME NEW n \in Nat, NEW v \in Words, NEW u \in Words
    PROVE  /\ Bytes(n, v) \in Items(n) /\ Bytes(n, v) \in Parts(n) /\ Bytes(n, v) \in Words
           /\ Bytes(n, v) = Bytes(n, u) => v = u
BY BytesItem, BytesTell, ItemWords DEF Parts

\* What the later proofs use of encode_varint_field(): it writes a field,
\* and tells its value.
LEMMA VarintField ==
    ASSUME NEW n \in Nat, NEW v \in Nat, NEW u \in Nat
    PROVE  /\ Varint(n, v) \in Items(n) /\ Varint(n, v) \in Parts(n) /\ Varint(n, v) \in Words
           /\ Varint(n, v) = Varint(n, u) => v = u
BY VarintItem, VarintTells, ItemWords DEF Parts

\* The empty message in a field is a field.
LEMMA EmptyField ==
    ASSUME NEW n \in Nat
    PROVE  Empty(n) \in Items(n) /\ Empty(n) \in Parts(n) /\ Empty(n) \in Words
BY BytesField, WordsEmpty DEF Empty

\* A field of a higher number comes after.
LEMMA Later ==
    ASSUME NEW n \in Nat, NEW m \in Nat, n < m, NEW x \in Parts(m)
    PROVE  x \in Past(n)
BY PastPart, EmptyIsPast

\* What the later proofs use of a mission in a field: it writes a field, and
\* tells the mission.
LEMMA MissionField ==
    ASSUME NEW n \in Nat, NEW v \in Int, NEW u \in Int
    PROVE  /\ Bytes(n, MissionId(v)) \in Items(n) /\ Bytes(n, MissionId(v)) \in Parts(n)
           /\ Bytes(n, MissionId(v)) \in Words /\ MissionId(v) \in Words
           /\ Bytes(n, MissionId(v)) = Bytes(n, MissionId(u)) => v = u
<1>1. MissionId(v) \in Words /\ MissionId(u) \in Words /\ (MissionId(v) = MissionId(u) => v = u)
  BY MissionTells, ItemWords
<1> QED BY <1>1, BytesField

\* Lists of fields of one number.
LEMMA FieldsTell ==
    ASSUME NEW n \in Nat, NEW xs \in Seq(Items(n)), NEW ys \in Seq(Items(n))
    PROVE  FlattenSeq(xs) \in Words /\ (FlattenSeq(xs) = FlattenSeq(ys) => xs = ys)
<1>1. xs \in Seq(Words) BY ItemWords, SeqMonotonic
<1>2. FlattenSeq(xs) \in Words BY <1>1, FlattenType DEF Words
<1> QED BY <1>2, ItemsTell, ListTells

\* Circles.
Drawn == [x_meters: Int, y_meters: Int, radius_meters: Int]

\* A circle of a drawn area is told: its centre and its radius.
LEMMA CircleTells ==
    ASSUME NEW c \in Drawn, NEW d \in Drawn
    PROVE  Circle(c) \in Items(1) /\ (Circle(c) = Circle(d) => c = d)
<1> DEFINE A(e) == Bytes(1, Two(-e.y_meters, -e.x_meters))
           B(e) == Fixed32(2, e.radius_meters)
<1>1. /\ -c.y_meters \in Int /\ -c.x_meters \in Int /\ -d.y_meters \in Int /\ -d.x_meters \in Int
      /\ c.radius_meters \in Int /\ d.radius_meters \in Int
      /\ -c.y_meters = -d.y_meters => c.y_meters = d.y_meters
      /\ -c.x_meters = -d.x_meters => c.x_meters = d.x_meters
  BY DEF Drawn
<1>2. /\ Two(-c.y_meters, -c.x_meters) \in Words /\ Two(-d.y_meters, -d.x_meters) \in Words
      /\ Two(-c.y_meters, -c.x_meters) = Two(-d.y_meters, -d.x_meters) =>
            -c.y_meters = -d.y_meters /\ -c.x_meters = -d.x_meters
  BY <1>1, TwoFloats
<1>3. /\ A(c) \in Items(1) /\ A(d) \in Items(1)
      /\ A(c) = A(d) => c.y_meters = d.y_meters /\ c.x_meters = d.x_meters
  BY <1>1, <1>2, BytesField
<1>4. B(c) \in Items(2) /\ B(d) \in Items(2) /\ (B(c) = B(d) => c.radius_meters = d.radius_meters)
  BY <1>1, Fixed32Item, Fixed32Tells
<1>5. Circle(c) = Bytes(1, Cat(A(c), B(c))) /\ Circle(d) = Bytes(1, Cat(A(d), B(d)))
  BY DEF Circle, Cat, Two
<1> HIDE DEF A, B
<1>6. /\ Cat(A(c), B(c)) \in Words /\ Cat(A(d), B(d)) \in Words
      /\ Cat(A(c), B(c)) = Cat(A(d), B(d)) => A(c) = A(d) /\ B(c) = B(d)
  BY <1>3, <1>4, ItemWords, ItemThen
<1>7. Circle(c) \in Items(1) /\ (Circle(c) = Circle(d) => Cat(A(c), B(c)) = Cat(A(d), B(d)))
  BY <1>5, <1>6, BytesField
<1>8. c.x_meters = d.x_meters /\ c.y_meters = d.y_meters /\ c.radius_meters = d.radius_meters => c = d
  BY DEF Drawn
<1> QED BY <1>3, <1>4, <1>6, <1>7, <1>8

CirclesOf(circles) == [i \in DOMAIN circles |-> Circle(circles[i])]

\* The circles of an area are written one field each, in their order.
LEMMA CirclesAre ==
    ASSUME NEW s \in Seq(Drawn)
    PROVE  /\ CirclesOf(s) \in Seq(Items(1)) /\ Len(CirclesOf(s)) = Len(s)
           /\ \A i \in 1..Len(s) : CirclesOf(s)[i] = Circle(s[i])
<1>1. Len(s) \in Nat /\ DOMAIN s = 1..Len(s) /\ \A i \in 1..Len(s) : s[i] \in Drawn
  BY LenProperties, ElementOfSeq
<1>2. \A i \in 1..Len(s) : Circle(s[i]) \in Items(1) BY <1>1, CircleTells
<1> QED BY <1>1, <1>2, IsASeq DEF CirclesOf

\* The drawn area of a target tells its circles and their order.
LEMMA DrawnTells ==
    ASSUME NEW s \in Seq(Drawn), NEW t \in Seq(Drawn)
    PROVE  DrawnArea(s) \in Items(2) /\ (DrawnArea(s) = DrawnArea(t) => s = t)
<1> DEFINE f == FlattenSeq(CirclesOf(s))
           g == FlattenSeq(CirclesOf(t))
<1>1. DrawnArea(s) = Bytes(2, f) /\ DrawnArea(t) = Bytes(2, g) BY DEF DrawnArea, CirclesOf
<1>2. f \in Words /\ g \in Words /\ (f = g => CirclesOf(s) = CirclesOf(t))
  BY CirclesAre, FieldsTell
<1>3. ASSUME CirclesOf(s) = CirclesOf(t) PROVE s = t
  <2>1. Len(s) = Len(t) BY <1>3, CirclesAre
  <2>2. ASSUME NEW i \in 1..Len(s) PROVE s[i] = t[i]
    <3>1. Circle(s[i]) = Circle(t[i]) BY <1>3, <2>1, CirclesAre
    <3>2. s[i] \in Drawn /\ t[i] \in Drawn BY <2>1, ElementOfSeq
    <3> QED BY <3>1, <3>2, CircleTells
  <2> QED BY <2>1, <2>2, SeqEqual
<1> HIDE DEF f, g
<1> QED BY <1>1, <1>2, <1>3, BytesField

\* Goals.
LEMMA SpecTells ==
    ASSUME NEW s \in CoverageGoalSpecs, NEW t \in CoverageGoalSpecs
    PROVE  SpecFields(s) \in Words /\ (SpecFields(s) = SpecFields(t) => s = t)
<1> DEFINE A(e) == Varint(1, e.setting)
           B(e) == Varint(2, e.floor)
           C(e) == Varint(4, e.cleaning_mode)
           D(e) == Varint(5, e.behavior)
<1>1. /\ s.setting \in Nat /\ s.floor \in Nat /\ s.cleaning_mode \in Nat /\ s.behavior \in Nat
      /\ t.setting \in Nat /\ t.floor \in Nat /\ t.cleaning_mode \in Nat /\ t.behavior \in Nat
  BY DEF CoverageGoalSpecs, CoverageGoalSettings, CleaningFloors, CoverageGoalCleaningModes,
         CoverageBehaviors
<1>2. /\ A(s) \in Parts(1) /\ A(t) \in Parts(1) /\ (A(s) = A(t) => s.setting = t.setting)
      /\ B(s) \in Parts(2) /\ B(t) \in Parts(2) /\ (B(s) = B(t) => s.floor = t.floor)
      /\ C(s) \in Parts(4) /\ C(t) \in Parts(4)
      /\ (C(s) = C(t) => s.cleaning_mode = t.cleaning_mode)
      /\ D(s) \in Parts(5) /\ D(t) \in Parts(5) /\ (D(s) = D(t) => s.behavior = t.behavior)
  BY <1>1, VarintField
<1>3. /\ SpecFields(s) = Cat(Cat(Cat(A(s), B(s)), C(s)), D(s))
      /\ SpecFields(t) = Cat(Cat(Cat(A(t), B(t)), C(t)), D(t))
  BY DEF SpecFields, Cat
<1> HIDE DEF A, B, C, D
<1>4. D(s) \in Past(4) /\ D(t) \in Past(4) BY <1>2, Later
<1>5. SpecFields(s) \in Words
  <2>1. A(s) \in Words /\ B(s) \in Words /\ C(s) \in Words /\ D(s) \in Words BY <1>2, ItemWords
  <2>2. Cat(A(s), B(s)) \in Words BY <2>1, CatParts
  <2>3. Cat(Cat(A(s), B(s)), C(s)) \in Words BY <2>1, <2>2, CatParts
  <2> QED BY <1>3, <2>1, <2>3, CatParts
<1>6. ASSUME SpecFields(s) = SpecFields(t) PROVE s = t
  <2>0. Cat(Cat(Cat(A(s), B(s)), C(s)), D(s)) = Cat(Cat(Cat(A(t), B(t)), C(t)), D(t))
    BY <1>3, <1>6
  <2>1. A(s) = A(t) /\ B(s) = B(t) /\ C(s) = C(t) /\ D(s) = D(t)
    BY ONLY <1>2, <1>4, <2>0, Split4
  <2>2. s.setting = t.setting /\ s.floor = t.floor /\ s.cleaning_mode = t.cleaning_mode
        /\ s.behavior = t.behavior
    BY <1>2, <2>1
  <2> QED BY <2>2 DEF CoverageGoalSpecs
<1> QED BY <1>5, <1>6

\* A header of a goal, whatever form its identifier has.
Headed(a, s) == Bytes(6, Bytes(1, Bytes(2, a)) \o Bytes(3, SpecFields(s)))

\* The header of a goal tells its identifier and its spec.
LEMMA HeadedTells ==
    ASSUME NEW a \in Words, NEW b \in Words, NEW s \in CoverageGoalSpecs,
           NEW t \in CoverageGoalSpecs
    PROVE  Headed(a, s) \in Items(6) /\ (Headed(a, s) = Headed(b, t) => a = b /\ s = t)
<1> DEFINE A(e) == Bytes(1, Bytes(2, e))
           B(e) == Bytes(3, SpecFields(e))
<1>1. A(a) \in Items(1) /\ A(b) \in Items(1) /\ (A(a) = A(b) => a = b) BY BytesField
<1>2. B(s) \in Items(3) /\ B(t) \in Items(3) /\ (B(s) = B(t) => s = t) BY BytesField, SpecTells
<1>3. Headed(a, s) = Bytes(6, Cat(A(a), B(s))) /\ Headed(b, t) = Bytes(6, Cat(A(b), B(t)))
  BY DEF Headed, Cat
<1> HIDE DEF A, B
<1>4. /\ Cat(A(a), B(s)) \in Words /\ Cat(A(b), B(t)) \in Words
      /\ Cat(A(a), B(s)) = Cat(A(b), B(t)) => A(a) = A(b) /\ B(s) = B(t)
  BY <1>1, <1>2, ItemWords, ItemThen
<1>5. Headed(a, s) \in Items(6) /\ (Headed(a, s) = Headed(b, t) => Cat(A(a), B(s)) = Cat(A(b), B(t)))
  BY <1>3, <1>4, BytesField
<1> QED BY <1>1, <1>2, <1>4, <1>5

\* The header of a goal with a generated identifier tells both.
LEMMA HeaderTells ==
    ASSUME NEW u \in Halves, NEW v \in Halves, NEW s \in CoverageGoalSpecs,
           NEW t \in CoverageGoalSpecs
    PROVE  /\ GoalHeader(u, s) \in Items(6)
           /\ GoalHeader(u, s) = GoalHeader(v, t) => u = v /\ s = t
<1>1. GoalHeader(u, s) = Headed(WrappedUuid(u), s) /\ GoalHeader(v, t) = Headed(WrappedUuid(v), t)
  BY DEF GoalHeader, Headed
<1>2. WrappedUuid(u) \in Words /\ WrappedUuid(v) \in Words BY WrappedTells, ItemWords
<1> QED BY <1>1, <1>2, HeadedTells, WrappedTells

\* What the later proofs use of a wrapped identifier two fields deep: it is
\* a field, and tells the identifier.
LEMMA IdentifierField ==
    ASSUME NEW n \in Nat, NEW m \in Nat, NEW u \in Halves, NEW v \in Halves
    PROVE  /\ Bytes(n, Bytes(m, WrappedUuid(u))) \in Items(n)
           /\ Bytes(n, Bytes(m, WrappedUuid(u))) \in Parts(n)
           /\ Bytes(n, Bytes(m, WrappedUuid(u))) \in Words
           /\ Bytes(n, Bytes(m, WrappedUuid(u))) = Bytes(n, Bytes(m, WrappedUuid(v))) => u = v
<1>1. WrappedUuid(u) \in Words /\ WrappedUuid(v) \in Words BY WrappedTells, ItemWords
<1>2. /\ Bytes(m, WrappedUuid(u)) \in Words /\ Bytes(m, WrappedUuid(v)) \in Words
      /\ Bytes(m, WrappedUuid(u)) = Bytes(m, WrappedUuid(v)) => WrappedUuid(u) = WrappedUuid(v)
  BY <1>1, BytesField
<1> QED BY <1>2, BytesField, WrappedTells

\* A region target tells the partition and the region.
LEMMA RegionTells ==
    ASSUME NEW p \in Halves, NEW q \in Halves, NEW u \in Halves, NEW v \in Halves
    PROVE  /\ RegionTarget(p, u) \in Words
           /\ RegionTarget(p, u) = RegionTarget(q, v) => p = q /\ u = v
<1> DEFINE A(e) == Bytes(1, Bytes(1, WrappedUuid(e)))
           B == Bytes(2, Empty(1))
           C(e) == Bytes(3, Bytes(3, Bytes(2, WrappedUuid(e))))
<1>1. A(p) \in Parts(1) /\ A(q) \in Parts(1) /\ (A(p) = A(q) => p = q) BY IdentifierField
<1>2. B \in Parts(2) BY EmptyField, BytesField
<1>3. C(u) \in Parts(3) /\ C(v) \in Parts(3) /\ (C(u) = C(v) => u = v)
  <2>1. /\ Bytes(3, Bytes(2, WrappedUuid(u))) \in Words /\ Bytes(3, Bytes(2, WrappedUuid(v))) \in Words
        /\ Bytes(3, Bytes(2, WrappedUuid(u))) = Bytes(3, Bytes(2, WrappedUuid(v))) => u = v
    BY IdentifierField
  <2> QED BY <2>1, BytesField
<1>4. /\ RegionTarget(p, u) = Cat(Cat(A(p), B), C(u))
      /\ RegionTarget(q, v) = Cat(Cat(A(q), B), C(v))
  BY DEF RegionTarget, Cat
<1> HIDE DEF A, B, C
<1>5. C(u) \in Past(2) /\ C(v) \in Past(2) BY <1>3, Later
<1>6. RegionTarget(p, u) \in Words
  <2>1. A(p) \in Words /\ B \in Words /\ C(u) \in Words BY <1>1, <1>2, <1>3, ItemWords
  <2>2. Cat(A(p), B) \in Words BY <2>1, CatParts
  <2> QED BY <1>4, <2>1, <2>2, CatParts
<1>7. ASSUME RegionTarget(p, u) = RegionTarget(q, v) PROVE p = q /\ u = v
  <2>0. Cat(Cat(A(p), B), C(u)) = Cat(Cat(A(q), B), C(v)) BY <1>4, <1>7
  <2>1. A(p) = A(q) /\ C(u) = C(v) BY ONLY <1>1, <1>2, <1>5, <2>0, Split3
  <2> QED BY <1>1, <1>3, <2>1
<1> QED BY <1>6, <1>7

\* A drawn target tells the partition and the circles.
LEMMA AreaTells ==
    ASSUME NEW p \in Halves, NEW q \in Halves, NEW s \in Seq(Drawn), NEW t \in Seq(Drawn)
    PROVE  /\ DrawnAreaTarget(p, s) \in Words
           /\ DrawnAreaTarget(p, s) = DrawnAreaTarget(q, t) => p = q /\ s = t
<1> DEFINE A(e) == Bytes(1, Bytes(1, WrappedUuid(e)))
           B(e) == Bytes(2, Bytes(3, DrawnArea(e)))
           C == Bytes(3, Empty(2))
<1>1. A(p) \in Parts(1) /\ A(q) \in Parts(1) /\ (A(p) = A(q) => p = q) BY IdentifierField
<1>2. B(s) \in Parts(2) /\ B(t) \in Parts(2) /\ (B(s) = B(t) => s = t)
  <2>1. DrawnArea(s) \in Words /\ DrawnArea(t) \in Words /\ (DrawnArea(s) = DrawnArea(t) => s = t)
    BY DrawnTells, ItemWords
  <2> QED BY <2>1, BytesField
<1>3. C \in Parts(3) BY EmptyField, BytesField
<1>4. /\ DrawnAreaTarget(p, s) = Cat(Cat(A(p), B(s)), C)
      /\ DrawnAreaTarget(q, t) = Cat(Cat(A(q), B(t)), C)
  BY DEF DrawnAreaTarget, Cat
<1> HIDE DEF A, B, C
<1>5. C \in Past(2) BY <1>3, Later
<1>6. DrawnAreaTarget(p, s) \in Words
  <2>1. A(p) \in Words /\ B(s) \in Words /\ C \in Words BY <1>1, <1>2, <1>3, ItemWords
  <2>2. Cat(A(p), B(s)) \in Words BY <2>1, CatParts
  <2> QED BY <1>4, <2>1, <2>2, CatParts
<1>7. ASSUME DrawnAreaTarget(p, s) = DrawnAreaTarget(q, t) PROVE p = q /\ s = t
  <2>0. Cat(Cat(A(p), B(s)), C) = Cat(Cat(A(q), B(t)), C) BY <1>4, <1>7
  <2>1. A(p) = A(q) /\ B(s) = B(t) BY ONLY <1>1, <1>2, <1>5, <2>0, Split3
  <2> QED BY <1>1, <1>2, <2>1
<1> QED BY <1>6, <1>7

\* The request of every coverage command.
Job(m, goals, u, v) ==
    Cat(Cat(Cat(Cat(Bytes(2, Bytes(2, Empty(1))), Bytes(3, MissionId(m))), Bytes(5, goals)),
            Bytes(6, Bytes(2, WrappedUuid(u)))), Bytes(7, Bytes(1, WrappedUuid(v))))

\* _encode_coverage_envelope() tells the mission, the goals and the session.
LEMMA EnvelopeTells ==
    ASSUME NEW m \in Int, NEW k \in Int, NEW f \in Words, NEW g \in Words, NEW u \in Halves,
           NEW v \in Halves, NEW x \in Halves, NEW y \in Halves
    PROVE  /\ CoverageEnvelope(m, f, u, x) = Bytes(15, Bytes(1, Bytes(3, Job(m, f, u, x))))
           /\ Job(m, f, u, x) \in Words
           /\ CoverageEnvelope(m, f, u, x) = CoverageEnvelope(k, g, v, y) =>
                 m = k /\ f = g /\ u = v
<1> DEFINE A == Bytes(2, Bytes(2, Empty(1)))
           B(e) == Bytes(3, MissionId(e))
           C(e) == Bytes(5, e)
           D(e) == Bytes(6, Bytes(2, WrappedUuid(e)))
           E(e) == Bytes(7, Bytes(1, WrappedUuid(e)))
<1>0. /\ CoverageEnvelope(m, f, u, x) = Bytes(15, Bytes(1, Bytes(3, Job(m, f, u, x))))
      /\ CoverageEnvelope(k, g, v, y) = Bytes(15, Bytes(1, Bytes(3, Job(k, g, v, y))))
  BY DEF CoverageEnvelope, Job, Cat
<1>1. A \in Parts(2) BY EmptyField, BytesField
<1>2. B(m) \in Parts(3) /\ B(k) \in Parts(3) /\ (B(m) = B(k) => m = k) BY MissionField
<1>3. C(f) \in Parts(5) /\ C(g) \in Parts(5) /\ (C(f) = C(g) => f = g) BY BytesField
<1>4. D(u) \in Parts(6) /\ D(v) \in Parts(6) /\ (D(u) = D(v) => u = v) BY IdentifierField
<1>5. E(x) \in Parts(7) /\ E(y) \in Parts(7) BY IdentifierField
<1>6. /\ Job(m, f, u, x) = Cat(Cat(Cat(Cat(A, B(m)), C(f)), D(u)), E(x))
      /\ Job(k, g, v, y) = Cat(Cat(Cat(Cat(A, B(k)), C(g)), D(v)), E(y))
  BY DEF Job
<1> HIDE DEF A, B, C, D, E
<1>7. E(x) \in Past(6) /\ E(y) \in Past(6) BY <1>5, Later
<1>8. Job(m, f, u, x) \in Words /\ Job(k, g, v, y) \in Words
  <2>1. /\ A \in Words /\ B(m) \in Words /\ C(f) \in Words /\ D(u) \in Words /\ E(x) \in Words
        /\ B(k) \in Words /\ C(g) \in Words /\ D(v) \in Words /\ E(y) \in Words
    BY <1>1, <1>2, <1>3, <1>4, <1>5, ItemWords
  <2>2. Cat(A, B(m)) \in Words /\ Cat(A, B(k)) \in Words BY <2>1, CatParts
  <2>3. Cat(Cat(A, B(m)), C(f)) \in Words /\ Cat(Cat(A, B(k)), C(g)) \in Words
    BY <2>1, <2>2, CatParts
  <2>4. Cat(Cat(Cat(A, B(m)), C(f)), D(u)) \in Words /\ Cat(Cat(Cat(A, B(k)), C(g)), D(v)) \in Words
    BY <2>1, <2>3, CatParts
  <2> QED BY <1>6, <2>1, <2>4, CatParts
<1>9. ASSUME CoverageEnvelope(m, f, u, x) = CoverageEnvelope(k, g, v, y)
      PROVE  m = k /\ f = g /\ u = v
  <2>1. Job(m, f, u, x) = Job(k, g, v, y)
    <3> DEFINE j == Job(m, f, u, x)
               l == Job(k, g, v, y)
    <3>1. j \in Words /\ l \in Words /\ Bytes(15, Bytes(1, Bytes(3, j))) = Bytes(15, Bytes(1, Bytes(3, l)))
      BY <1>0, <1>8, <1>9
    <3> HIDE DEF j, l
    <3>2. Bytes(1, Bytes(3, j)) = Bytes(1, Bytes(3, l)) BY <3>1, BytesField
    <3>3. j = l BY <3>1, <3>2, BytesField
    <3> QED BY <3>3 DEF j, l
  <2>0. Cat(Cat(Cat(Cat(A, B(m)), C(f)), D(u)), E(x)) = Cat(Cat(Cat(Cat(A, B(k)), C(g)), D(v)), E(y))
    BY <1>6, <2>1
  <2>2. B(m) = B(k) /\ C(f) = C(g) /\ D(u) = D(v)
    BY ONLY <1>1, <1>2, <1>3, <1>4, <1>7, <2>0, Split5
  <2> QED BY <1>2, <1>3, <1>4, <2>2
<1> QED BY <1>0, <1>8, <1>9

------------------------------------------------------------------------------
\* The payloads that are sent to user_command, which many models share: the
\* routes into a message tell the model, and the message tells the
\* arguments.

\* The way into a message: the number of its first field, of the first field
\* in that one, and so on.
Door2(p, a, b) == \E q \in Words : \E r \in Words : p = Cat(Bytes(a, q), r) /\ Begins(q, b)
Door3(p, a, b, k) == \E q \in Words : \E r \in Words : p = Cat(Bytes(a, q), r) /\ Door2(q, b, k)
Route(p, d) ==
    /\ Begins(p, d[1])
    /\ d[2] # 0 => Door2(p, d[1], d[2])
    /\ d[3] # 0 => Door3(p, d[1], d[2], d[3])

\* The second and the third number on the way into a message are read in one
\* way.
LEMMA DoorOnce ==
    ASSUME NEW p, NEW a \in Nat, NEW b \in Nat, NEW k \in Nat, NEW y \in Nat, NEW z \in Nat
    PROVE  /\ Door2(p, a, b) /\ Door2(p, a, y) => b = y
           /\ Door3(p, a, b, k) /\ Door3(p, a, b, z) => k = z
<1>1. ASSUME NEW q \in Words, NEW r \in Words, NEW s \in Words, NEW t \in Words,
             Cat(Bytes(a, q), r) = Cat(Bytes(a, s), t)
      PROVE  q = s
  <2>1. Bytes(a, q) \in Items(a) /\ Bytes(a, s) \in Items(a) BY BytesField
  <2>2. Bytes(a, q) = Bytes(a, s) BY <1>1, <2>1, ItemCancel
  <2> QED BY <2>2, BytesField
<1>2. ASSUME Door2(p, a, b), Door2(p, a, y) PROVE b = y
  <2>1. PICK q \in Words, r \in Words : p = Cat(Bytes(a, q), r) /\ Begins(q, b)
    BY <1>2 DEF Door2
  <2>2. PICK s \in Words, t \in Words : p = Cat(Bytes(a, s), t) /\ Begins(s, y)
    BY <1>2 DEF Door2
  <2>3. q = s BY <1>1, <2>1, <2>2
  <2> QED BY <2>1, <2>2, <2>3, BeginsOnce
<1>3. ASSUME NEW q, NEW u \in Nat, NEW v \in Nat, Door2(q, b, u), Door2(q, b, v) PROVE u = v
  <2>0. ASSUME NEW e \in Words, NEW r \in Words, NEW s \in Words, NEW t \in Words,
             Cat(Bytes(b, e), r) = Cat(Bytes(b, s), t)
        PROVE  e = s
    <3>1. Bytes(b, e) \in Items(b) /\ Bytes(b, s) \in Items(b) BY BytesField
    <3>2. Bytes(b, e) = Bytes(b, s) BY <2>0, <3>1, ItemCancel
    <3> QED BY <3>2, BytesField
  <2>1. PICK e \in Words, r \in Words : q = Cat(Bytes(b, e), r) /\ Begins(e, u)
    BY <1>3 DEF Door2
  <2>2. PICK s \in Words, t \in Words : q = Cat(Bytes(b, s), t) /\ Begins(s, v)
    BY <1>3 DEF Door2
  <2>3. e = s BY <2>0, <2>1, <2>2
  <2> QED BY <2>1, <2>2, <2>3, BeginsOnce
<1>4. ASSUME Door3(p, a, b, k), Door3(p, a, b, z) PROVE k = z
  <2>1. PICK q \in Words, r \in Words : p = Cat(Bytes(a, q), r) /\ Door2(q, b, k)
    BY <1>4 DEF Door3
  <2>2. PICK s \in Words, t \in Words : p = Cat(Bytes(a, s), t) /\ Door2(s, b, z)
    BY <1>4 DEF Door3
  <2>3. q = s BY <1>1, <2>1, <2>2
  <2> QED BY <1>3, <2>1, <2>2, <2>3
<1> QED BY <1>2, <1>4

Routes == Nat \X Nat \X Nat

\* Two routes into one message agree as far as both go.
LEMMA RouteTells ==
    ASSUME NEW p, NEW d \in Routes, NEW e \in Routes, Route(p, d), Route(p, e)
    PROVE  /\ d[1] = e[1]
           /\ d[2] # 0 /\ e[2] # 0 => d[2] = e[2]
           /\ d[2] # 0 /\ e[2] = d[2] /\ d[3] # 0 /\ e[3] # 0 => d[3] = e[3]
<1>1. d[1] \in Nat /\ d[2] \in Nat /\ d[3] \in Nat /\ e[1] \in Nat /\ e[2] \in Nat /\ e[3] \in Nat
  BY DEF Routes
<1>2. d[1] = e[1] BY <1>1, BeginsOnce DEF Route
<1> QED BY <1>1, <1>2, DoorOnce DEF Route

\* A message that starts with a field begins with its number.
LEMMA FirstDoor ==
    ASSUME NEW a \in Nat, NEW x \in Items(a), NEW r \in Words
    PROVE  Begins(x, a) /\ Begins(Cat(x, r), a)
BY BeginsWithItem

\* The routes of one field, and of one with others behind it.
LEMMA SecondDoor ==
    ASSUME NEW a \in Nat, NEW b \in Nat, NEW q \in Words, NEW r \in Words, Begins(q, b)
    PROVE  /\ Route(Bytes(a, q), <<a, b, 0>>) /\ Route(Cat(Bytes(a, q), r), <<a, b, 0>>)
           /\ Door2(Bytes(a, q), a, b) /\ Door2(Cat(Bytes(a, q), r), a, b)
<1>1. Bytes(a, q) \in Items(a) /\ Bytes(a, q) \in Words BY BytesField
<1>2. Bytes(a, q) = Cat(Bytes(a, q), <<>>) /\ <<>> \in Words BY <1>1, CatParts, WordsEmpty
<1>3. Door2(Bytes(a, q), a, b) /\ Door2(Cat(Bytes(a, q), r), a, b) BY <1>2 DEF Door2
<1>4. Begins(Bytes(a, q), a) /\ Begins(Cat(Bytes(a, q), r), a) BY <1>1, FirstDoor
<1> DEFINE d == <<a, b, 0>>
<1>5. d[1] = a /\ d[2] = b /\ d[3] = 0 OBVIOUS
<1> HIDE DEF d
<1>6. Route(Bytes(a, q), d) /\ Route(Cat(Bytes(a, q), r), d) BY <1>3, <1>4, <1>5 DEF Route
<1> QED BY <1>3, <1>6 DEF d

\* A message three fields deep has the route of the three numbers, whatever
\* follows the inner ones.
LEMMA ThirdDoor ==
    ASSUME NEW a \in Nat, NEW b \in Nat, NEW k \in Nat, NEW q \in Words, b # 0, NEW s \in Words,
           Begins(q, k)
    PROVE  Route(Bytes(a, Cat(Bytes(b, q), s)), <<a, b, k>>)
<1> DEFINE m == Cat(Bytes(b, q), s)
           d == <<a, b, k>>
<1>1. Bytes(b, q) \in Items(b) /\ Bytes(b, q) \in Words BY BytesField
<1>2. m \in Words /\ Begins(m, b) /\ Door2(m, b, k) BY <1>1, CatParts, FirstDoor, SecondDoor
<1> HIDE DEF m
<1>3. Bytes(a, m) \in Words /\ Bytes(a, m) \in Items(a) BY <1>2, BytesField
<1>4. Begins(Bytes(a, m), a) BY <1>3, BeginsWithItem, WordsEmpty
<1>5. Door2(Bytes(a, m), a, b)
  <2>1. <<>> \in Words BY WordsEmpty
  <2> QED BY <1>2, <2>1, SecondDoor
<1>6. Bytes(a, m) = Cat(Bytes(a, m), <<>>) /\ <<>> \in Words BY <1>3, CatParts, WordsEmpty
<1>7. Door3(Bytes(a, m), a, b, k) BY <1>2, <1>6 DEF Door3
<1>8. d[1] = a /\ d[2] = b /\ d[3] = k OBVIOUS
<1> HIDE DEF d
<1>9. Route(Bytes(a, m), d) BY <1>4, <1>5, <1>7, <1>8 DEF Route
<1> QED BY <1>9 DEF m, d

\* A field alone is a field and nothing after it.
LEMMA LoneField ==
    ASSUME NEW x \in Words
    PROVE  x = Cat(x, <<>>)
BY CatParts

\* The commands that the codecs take, by their types: arguments of the
\* annotated types.
ExactUser ==
    [type: {"UserCommand"}, action: UserActions, until_localized: Bools \cup {None},
     mission_id: Nat \cup {None}, coverage_session_id: Halves \cup {None}]

UserDoors ==
    [stop |-> <<15, 1, 4>>, stay_put |-> <<16, 0, 0>>, pause |-> <<9, 0, 0>>,
     resume |-> <<9, 0, 0>>, dock |-> <<2, 5, 0>>, explore |-> <<15, 1, 5>>,
     re_explore |-> <<15, 1, 5>>, redo_coverage |-> <<15, 3, 0>>,
     resume_coverage |-> <<15, 2, 0>>, trace_calibration |-> <<2, 6, 0>>,
     diagnose_brush_roll_jam |-> <<18, 0, 0>>]

\* A value two fields deep is told.
LEMMA TwoDeep ==
    ASSUME NEW a \in Nat, NEW b \in Nat, NEW v \in Words, NEW u \in Words
    PROVE  /\ Bytes(a, Bytes(b, v)) \in Items(a) /\ Bytes(a, Bytes(b, v)) \in Words
           /\ Bytes(b, v) \in Words
           /\ Bytes(a, Bytes(b, v)) = Bytes(a, Bytes(b, u)) => v = u
<1>1. Bytes(b, v) \in Words /\ Bytes(b, u) \in Words BY BytesField
<1> QED BY <1>1, BytesField

\* A value three fields deep is told.
LEMMA ThreeDeep ==
    ASSUME NEW a \in Nat, NEW b \in Nat, NEW k \in Nat, NEW v \in Words, NEW u \in Words
    PROVE  /\ Bytes(a, Bytes(b, Bytes(k, v))) \in Words
           /\ Bytes(a, Bytes(b, Bytes(k, v))) = Bytes(a, Bytes(b, Bytes(k, u))) => v = u
<1>1. Bytes(k, v) \in Words /\ Bytes(k, u) \in Words BY BytesField
<1> QED BY <1>1, TwoDeep, BytesField

\* A coverage task of an exploration.
Exploring(task, rest) == Bytes(15, Bytes(1, Bytes(5, Cat(task, rest))))
Afresh == Bytes(1, Empty(3))
Again == Bytes(1, Empty(4))
Once == Varint(2, 2)
Located == Cat(Varint(2, 3), Bytes(3, Empty(1)))

\* The three requests to explore differ in two fields: whether to start
\* afresh, and until when.
LEMMA ExploringParts ==
    /\ Afresh \in Items(1) /\ Again \in Items(1) /\ Afresh # Again
    /\ Once \in Words /\ Located \in Words /\ Once # Located
    /\ NoArgument["explore"] = Exploring(Afresh, Once)
    /\ ReExplore("True") = Exploring(Again, Located)
    /\ ReExplore("False") = Exploring(Again, Once)
<1>1. Empty(3) \in Items(3) /\ Empty(4) \in Items(4) /\ Empty(3) \in Words /\ Empty(4) \in Words
  BY EmptyField
<1>2. Empty(3) # Empty(4) BY <1>1, ItemsApart
<1>3. Afresh \in Items(1) /\ Again \in Items(1) /\ Afresh # Again
  BY <1>1, <1>2, BytesField DEF Afresh, Again
<1>4. /\ Varint(2, 3) \in Items(2) /\ Varint(2, 3) \in Words
      /\ Varint(2, 2) \in Items(2) /\ Varint(2, 2) \in Words
      /\ Varint(2, 3) # Varint(2, 2)
  <2>1. /\ Varint(2, 3) \in Items(2) /\ Varint(2, 3) \in Words
        /\ Varint(2, 2) \in Items(2) /\ Varint(2, 2) \in Words
        /\ Varint(2, 3) = Varint(2, 2) => 3 = 2
    BY VarintField
  <2> QED BY <2>1
<1>5. Bytes(3, Empty(1)) \in Words BY EmptyField, BytesField
<1>6. Located \in Words BY <1>4, <1>5, CatParts DEF Located
<1>7. Once # Located
  <2>1. SUFFICES ASSUME Cat(Varint(2, 2), <<>>) = Cat(Varint(2, 3), Bytes(3, Empty(1))) PROVE FALSE
    BY <1>4, LoneField DEF Once, Located
  <2>2. <<>> \in Words BY WordsEmpty
  <2> QED BY <1>4, <1>5, <2>1, <2>2, ItemThen
<1>8. NoArgument["explore"] = Exploring(Afresh, Once)
  <2>1. "explore" \in DOMAIN NoArgument BY DEF NoArgument
  <2> QED BY DEF NoArgument, Exploring, Afresh, Once, Cat
<1>9. ReExplore("False") = Exploring(Again, Once)
  BY DEF ReExplore, Exploring, Again, Once, Cat
<1>10. ReExplore("True") = Exploring(Again, Located)
  <2>1. ReExplore("True") = Bytes(15, Bytes(1, Bytes(5, Cat(Cat(Again, Varint(2, 3)), Bytes(3, Empty(1))))))
    BY DEF ReExplore, Again, Cat
  <2>2. Again \in Words BY <1>3, ItemWords
  <2>3. Cat(Cat(Again, Varint(2, 3)), Bytes(3, Empty(1))) = Cat(Again, Located)
    BY <1>4, <1>5, <2>2, CatParts DEF Located
  <2> QED BY <2>1, <2>3 DEF Exploring
<1>11. Once \in Words BY <1>4 DEF Once
<1> QED BY <1>3, <1>6, <1>7, <1>8, <1>9, <1>10, <1>11

\* A request to explore has a route of its own, and tells its two fields.
LEMMA ExploringTells ==
    ASSUME NEW x \in Items(1), NEW y \in Items(1), NEW r \in Words, NEW s \in Words
    PROVE  /\ Route(Exploring(x, r), <<15, 1, 5>>)
           /\ Exploring(x, r) \in Words
           /\ Exploring(x, r) = Exploring(y, s) => x = y /\ r = s
<1>1. Cat(x, r) \in Words /\ Cat(y, s) \in Words /\ (Cat(x, r) = Cat(y, s) => x = y /\ r = s)
  BY ItemThen
<1> DEFINE m == Cat(x, r)
           n == Cat(y, s)
<1>2. Exploring(x, r) = Bytes(15, Bytes(1, Bytes(5, m))) /\ Exploring(y, s) = Bytes(15, Bytes(1, Bytes(5, n)))
  BY DEF Exploring
<1>3. m \in Words /\ n \in Words BY <1>1
<1> HIDE DEF m, n
<1>4. Exploring(x, r) \in Words /\ (Exploring(x, r) = Exploring(y, s) => m = n)
  BY <1>2, <1>3, ThreeDeep
<1>5. Bytes(5, m) \in Words /\ Begins(Bytes(5, m), 5)
  BY <1>3, BytesField, FirstDoor, WordsEmpty
<1>6. Bytes(1, Bytes(5, m)) = Cat(Bytes(1, Bytes(5, m)), <<>>)
  BY <1>5, BytesField, LoneField
<1>7. Route(Bytes(15, Cat(Bytes(1, Bytes(5, m)), <<>>)), <<15, 1, 5>>)
  BY <1>5, ThirdDoor, WordsEmpty
<1>8. Route(Exploring(x, r), <<15, 1, 5>>) BY <1>2, <1>6, <1>7
<1> QED BY <1>1, <1>4, <1>8 DEF m, n

\* A field, and whatever follows it, has the route of its number.
LEMMA FirstRoute ==
    ASSUME NEW a \in Nat, NEW x \in Items(a), NEW r \in Words
    PROVE  Route(x, <<a, 0, 0>>) /\ Route(Cat(x, r), <<a, 0, 0>>)
<1> DEFINE d == <<a, 0, 0>>
<1>1. d[1] = a /\ d[2] = 0 /\ d[3] = 0 OBVIOUS
<1> HIDE DEF d
<1>2. Route(x, d) /\ Route(Cat(x, r), d) BY <1>1, FirstDoor DEF Route
<1> QED BY <1>2 DEF d

\* A session, of a coverage that is resumed or done again.
LEMMA SessionTells ==
    ASSUME NEW n \in Nat, NEW u \in Halves, NEW v \in Halves
    PROVE  /\ Route(CoverageSession(n, u), <<15, n, 0>>)
           /\ CoverageSession(n, u) \in Words
           /\ CoverageSession(n, u) = CoverageSession(n, v) => u = v
<1> DEFINE x == Bytes(2, Fixed128(u))
           y == Bytes(2, Fixed128(v))
<1>1. x \in Words /\ y \in Words /\ (x = y => u = v) BY BytesField, Fixed128Tells
<1>2. /\ CoverageSession(n, u) = Bytes(15, Bytes(n, Bytes(2, x)))
      /\ CoverageSession(n, v) = Bytes(15, Bytes(n, Bytes(2, y)))
  BY DEF CoverageSession
<1> HIDE DEF x, y
<1>3. CoverageSession(n, u) \in Words /\ (CoverageSession(n, u) = CoverageSession(n, v) => x = y)
  BY <1>1, <1>2, ThreeDeep
<1>4. Bytes(2, x) \in Words /\ Bytes(n, Bytes(2, x)) \in Words /\ Bytes(n, Bytes(2, x)) \in Items(n)
  BY <1>1, BytesField
<1>5. Begins(Bytes(n, Bytes(2, x)), n) /\ <<>> \in Words BY <1>4, FirstDoor, WordsEmpty
<1>6. Route(Bytes(15, Bytes(n, Bytes(2, x))), <<15, n, 0>>) BY <1>4, <1>5, SecondDoor
<1> QED BY <1>1, <1>2, <1>3, <1>6

\* A request for a calibration trace has a route of its own, and tells which
\* trace.
LEMMA TraceTells ==
    ASSUME NEW m \in Nat, NEW k \in Nat
    PROVE  /\ Route(TraceCalibration(m), <<2, 6, 0>>)
           /\ TraceCalibration(m) = TraceCalibration(k) => m = k
<1> DEFINE x == Cat(Bytes(2, MissionId(m)), Empty(3))
           y == Cat(Bytes(2, MissionId(k)), Empty(3))
<1>1. x \in Words /\ y \in Words /\ (x = y => m = k)
  <2>1. /\ Bytes(2, MissionId(m)) \in Items(2) /\ Bytes(2, MissionId(k)) \in Items(2)
        /\ Bytes(2, MissionId(m)) = Bytes(2, MissionId(k)) => m = k
    BY MissionField
  <2> QED BY <2>1, EmptyField, ItemThen
<1>2. /\ TraceCalibration(m) = Bytes(2, Bytes(6, x))
      /\ TraceCalibration(k) = Bytes(2, Bytes(6, y))
  BY DEF TraceCalibration, Cat
<1> HIDE DEF x, y
<1>3. Bytes(6, x) \in Words /\ Bytes(6, x) \in Items(6) BY <1>1, BytesField
<1>4. Begins(Bytes(6, x), 6) /\ <<>> \in Words BY <1>3, FirstDoor, WordsEmpty
<1>5. Route(Bytes(2, Bytes(6, x)), <<2, 6, 0>>) BY <1>3, <1>4, SecondDoor
<1> QED BY <1>1, <1>2, <1>5, TwoDeep

\* A message three fields deep and nothing else has the route of the three
\* numbers.
LEMMA LoneThird ==
    ASSUME NEW a \in Nat, NEW b \in Nat, NEW k \in Nat, NEW q \in Words, b # 0, Begins(q, k)
    PROVE  Route(Bytes(a, Bytes(b, q)), <<a, b, k>>)
<1>1. Bytes(b, q) = Cat(Bytes(b, q), <<>>) /\ <<>> \in Words BY BytesField, LoneField, WordsEmpty
<1>2. Route(Bytes(a, Cat(Bytes(b, q), <<>>)), <<a, b, k>>) BY <1>1, ThirdDoor
<1> QED BY <1>1, <1>2

\* The payloads of the user commands without an argument.
LEMMA NoArgumentIs ==
    /\ NoArgument["stop"] = Bytes(15, Bytes(1, Empty(4)))
    /\ NoArgument["stay_put"] = Empty(16)
    /\ NoArgument["pause"] = Cat(Varint(9, 1), Varint(17, 1))
    /\ NoArgument["resume"] = Cat(Varint(9, 1), Varint(17, 0))
    /\ NoArgument["dock"] = Bytes(2, Bytes(5, Varint(1, 0)))
    /\ NoArgument["diagnose_brush_roll_jam"] = Bytes(18, Bytes(1, Empty(1)))
BY DEF NoArgument, Cat

\* The fields that the payload of a user action leads to.
LEMMA UserRoute ==
    ASSUME NEW c \in ExactUser, UserAccepts(c)
    PROVE  Route(UserPayload(c), UserDoors[c.action])
<1>0. c.action \in UserActions /\ <<>> \in Words BY WordsEmpty DEF ExactUser
<1>1. CASE c.action = "stop"
  <2>1. UserPayload(c) = NoArgument["stop"] /\ UserDoors[c.action] = <<15, 1, 4>>
    BY <1>1 DEF UserPayload, UserDoors
  <2>2. Empty(4) \in Words /\ Begins(Empty(4), 4) BY EmptyField, FirstDoor, <1>0
  <2>3. Route(Bytes(15, Bytes(1, Empty(4))), <<15, 1, 4>>) BY <2>2, LoneThird
  <2> QED BY <2>1, <2>3, NoArgumentIs
<1>2. CASE c.action = "stay_put"
  <2>1. UserPayload(c) = NoArgument["stay_put"] /\ UserDoors[c.action] = <<16, 0, 0>>
    BY <1>2 DEF UserPayload, UserDoors
  <2>2. Empty(16) \in Items(16) BY EmptyField
  <2> QED BY <1>0, <2>1, <2>2, NoArgumentIs, FirstRoute
<1>3. CASE c.action = "pause"
  <2>1. UserPayload(c) = NoArgument["pause"] /\ UserDoors[c.action] = <<9, 0, 0>>
    BY <1>3 DEF UserPayload, UserDoors
  <2>2. Varint(9, 1) \in Items(9) /\ Varint(17, 1) \in Words BY VarintField
  <2> QED BY <2>1, <2>2, NoArgumentIs, FirstRoute
<1>4. CASE c.action = "resume"
  <2>1. UserPayload(c) = NoArgument["resume"] /\ UserDoors[c.action] = <<9, 0, 0>>
    BY <1>4 DEF UserPayload, UserDoors
  <2>2. Varint(9, 1) \in Items(9) /\ Varint(17, 0) \in Words BY VarintField
  <2> QED BY <2>1, <2>2, NoArgumentIs, FirstRoute
<1>5. CASE c.action = "dock"
  <2>1. UserPayload(c) = NoArgument["dock"] /\ UserDoors[c.action] = <<2, 5, 0>>
    BY <1>5 DEF UserPayload, UserDoors
  <2>2. Bytes(5, Varint(1, 0)) \in Words /\ Bytes(5, Varint(1, 0)) \in Items(5)
    BY VarintField, BytesField
  <2>3. Begins(Bytes(5, Varint(1, 0)), 5) BY <1>0, <2>2, FirstDoor
  <2>4. Route(Bytes(2, Bytes(5, Varint(1, 0))), <<2, 5, 0>>) BY <1>0, <2>2, <2>3, SecondDoor
  <2> QED BY <2>1, <2>4, NoArgumentIs
<1>6. CASE c.action = "explore"
  <2>1. UserPayload(c) = NoArgument["explore"] /\ UserDoors[c.action] = <<15, 1, 5>>
    BY <1>6 DEF UserPayload, UserDoors
  <2> QED BY <2>1, ExploringParts, ExploringTells
<1>7. CASE c.action = "re_explore"
  <2>1. UserPayload(c) = ReExplore(c.until_localized) /\ UserDoors[c.action] = <<15, 1, 5>>
    BY <1>7 DEF UserPayload, UserDoors
  <2>2. c.until_localized \in {"True", "False"} BY <1>7 DEF UserAccepts, Bools
  <2> QED BY <2>1, <2>2, ExploringParts, ExploringTells
<1>8. CASE c.action = "redo_coverage"
  <2>1. UserPayload(c) = CoverageSession(3, c.coverage_session_id) /\ UserDoors[c.action] = <<15, 3, 0>>
    BY <1>8 DEF UserPayload, UserDoors
  <2>2. c.coverage_session_id \in Halves BY <1>8 DEF UserAccepts, Valid, ExactUser
  <2> QED BY <2>1, <2>2, SessionTells
<1>9. CASE c.action = "resume_coverage"
  <2>1. UserPayload(c) = CoverageSession(2, c.coverage_session_id) /\ UserDoors[c.action] = <<15, 2, 0>>
    BY <1>9 DEF UserPayload, UserDoors
  <2>2. c.coverage_session_id \in Halves BY <1>9 DEF UserAccepts, Valid, ExactUser
  <2> QED BY <2>1, <2>2, SessionTells
<1>10. CASE c.action = "trace_calibration"
  <2>1. UserPayload(c) = TraceCalibration(c.mission_id) /\ UserDoors[c.action] = <<2, 6, 0>>
    BY <1>10 DEF UserPayload, UserDoors
  <2>2. c.mission_id \in Nat BY <1>10 DEF UserAccepts, Valid, ExactUser
  <2> QED BY <2>1, <2>2, TraceTells
<1>11. CASE c.action = "diagnose_brush_roll_jam"
  <2>1. /\ UserPayload(c) = NoArgument["diagnose_brush_roll_jam"]
        /\ UserDoors[c.action] = <<18, 0, 0>>
    BY <1>11 DEF UserPayload, UserDoors
  <2>2. Bytes(18, Bytes(1, Empty(1))) \in Items(18) BY EmptyField, BytesField
  <2> QED BY <1>0, <2>1, <2>2, NoArgumentIs, FirstRoute
<1> QED BY <1>0, <1>1, <1>2, <1>3, <1>4, <1>5, <1>6, <1>7, <1>8, <1>9, <1>10, <1>11 DEF UserActions

\* Only two pairs of user actions share their way in.
Compatibly(d, e) ==
    /\ d[1] = e[1]
    /\ d[2] # 0 /\ e[2] # 0 => d[2] = e[2]
    /\ d[2] # 0 /\ e[2] = d[2] /\ d[3] # 0 /\ e[3] # 0 => d[3] = e[3]

\* No two user actions share their route, but pause and resume and the two
\* that explore, which differ further in.
LEMMA UserDoorsApart ==
    ASSUME NEW a \in UserActions, NEW b \in UserActions, Compatibly(UserDoors[a], UserDoors[b])
    PROVE  a = b \/ {a, b} = {"pause", "resume"} \/ {a, b} = {"explore", "re_explore"}
<1>1. CASE a = "stop" BY <1>1 DEF UserActions, UserDoors, Compatibly
<1>2. CASE a = "stay_put" BY <1>2 DEF UserActions, UserDoors, Compatibly
<1>3. CASE a = "pause" BY <1>3 DEF UserActions, UserDoors, Compatibly
<1>4. CASE a = "resume" BY <1>4 DEF UserActions, UserDoors, Compatibly
<1>5. CASE a = "dock" BY <1>5 DEF UserActions, UserDoors, Compatibly
<1>6. CASE a = "explore" BY <1>6 DEF UserActions, UserDoors, Compatibly
<1>7. CASE a = "re_explore" BY <1>7 DEF UserActions, UserDoors, Compatibly
<1>8. CASE a = "redo_coverage" BY <1>8 DEF UserActions, UserDoors, Compatibly
<1>9. CASE a = "resume_coverage" BY <1>9 DEF UserActions, UserDoors, Compatibly
<1>10. CASE a = "trace_calibration" BY <1>10 DEF UserActions, UserDoors, Compatibly
<1>11. CASE a = "diagnose_brush_roll_jam" BY <1>11 DEF UserActions, UserDoors, Compatibly
<1> QED BY <1>1, <1>2, <1>3, <1>4, <1>5, <1>6, <1>7, <1>8, <1>9, <1>10, <1>11 DEF UserActions

\* Each user action has a route.
LEMMA UserDoorsAre ==
    ASSUME NEW a \in UserActions
    PROVE  UserDoors[a] \in Routes
BY DEF UserActions, UserDoors, Routes

\* Two user actions with the same payload are the same action.
LEMMA UserTells ==
    ASSUME NEW c \in ExactUser, NEW d \in ExactUser, UserAccepts(c), UserAccepts(d),
           UserPayload(c) = UserPayload(d)
    PROVE  c = d
<1>0. c.action \in UserActions /\ d.action \in UserActions BY DEF ExactUser
<1>1. Compatibly(UserDoors[c.action], UserDoors[d.action])
  BY <1>0, UserRoute, UserDoorsAre, RouteTells DEF Compatibly
<1>2. \/ c.action = d.action \/ {c.action, d.action} = {"pause", "resume"}
      \/ {c.action, d.action} = {"explore", "re_explore"}
  BY <1>0, <1>1, UserDoorsApart
<1>3. ASSUME NEW x \in ExactUser, NEW y \in ExactUser, UserPayload(x) = UserPayload(y),
             x.action = "pause", y.action = "resume"
      PROVE FALSE
  <2>1. Cat(Varint(9, 1), Varint(17, 1)) = Cat(Varint(9, 1), Varint(17, 0))
    BY <1>3, NoArgumentIs DEF UserPayload
  <2>2. /\ Varint(9, 1) \in Items(9) /\ Varint(17, 1) \in Words /\ Varint(17, 0) \in Words
        /\ Varint(17, 1) = Varint(17, 0) => 1 = 0
    BY VarintField
  <2>3. Varint(17, 1) = Varint(17, 0) BY ONLY <2>1, <2>2, ItemThen, 9 \in Nat
  <2> QED BY <2>2, <2>3
<1>4. ASSUME NEW x \in ExactUser, NEW y \in ExactUser, UserPayload(x) = UserPayload(y),
             UserAccepts(y), x.action = "explore", y.action = "re_explore"
      PROVE FALSE
  <2>1. y.until_localized \in {"True", "False"} BY <1>4 DEF UserAccepts, Bools
  <2>2. NoArgument["explore"] = ReExplore(y.until_localized) BY <1>4 DEF UserPayload
  <2>3. PICK r \in Words : ReExplore(y.until_localized) = Exploring(Again, r)
    BY <2>1, ExploringParts
  <2>4. Exploring(Afresh, Once) = Exploring(Again, r) BY <2>2, <2>3, ExploringParts
  <2>5. Afresh \in Items(1) /\ Again \in Items(1) /\ Once \in Words /\ Afresh # Again
    BY ExploringParts
  <2>6. Afresh = Again BY ONLY <2>3, <2>4, <2>5, ExploringTells
  <2> QED BY <2>5, <2>6
<1>5. c.action = d.action
  <2>1. c.action # d.action => \/ c.action = "pause" /\ d.action = "resume"
                               \/ d.action = "pause" /\ c.action = "resume"
                               \/ c.action = "explore" /\ d.action = "re_explore"
                               \/ d.action = "explore" /\ c.action = "re_explore"
    BY <1>2
  <2> QED BY <2>1, <1>3, <1>4
<1>6. /\ c.until_localized = d.until_localized /\ c.mission_id = d.mission_id
      /\ c.coverage_session_id = d.coverage_session_id
  <2>0. ASSUME NEW x \in ExactUser, UserAccepts(x)
        PROVE  /\ x.action # "re_explore" => x.until_localized = None
               /\ x.action # "trace_calibration" => x.mission_id = None
               /\ x.action \notin {"redo_coverage", "resume_coverage"} => x.coverage_session_id = None
    <3>1. {"type", "action", "until_localized", "mission_id", "coverage_session_id"} = DOMAIN x
      BY DEF ExactUser
    <3>2. CASE x.action = "re_explore" BY <2>0, <3>1, <3>2 DEF UserAccepts, Only
    <3>3. CASE x.action = "trace_calibration" BY <2>0, <3>1, <3>3 DEF UserAccepts, Only
    <3>4. CASE x.action \in {"redo_coverage", "resume_coverage"}
      BY <2>0, <3>1, <3>4 DEF UserAccepts, Only
    <3>5. CASE x.action \notin {"re_explore", "trace_calibration", "redo_coverage", "resume_coverage"}
      BY <2>0, <3>1, <3>5 DEF UserAccepts, Only
    <3> QED BY <3>2, <3>3, <3>4, <3>5
  <2>1. CASE c.action = "re_explore"
    <3>1. c.until_localized \in {"True", "False"} /\ d.until_localized \in {"True", "False"}
      BY <1>5, <2>1 DEF UserAccepts, Bools
    <3>2. ReExplore(c.until_localized) = ReExplore(d.until_localized)
      BY <1>5, <2>1 DEF UserPayload
    <3>3. c.until_localized = d.until_localized BY <3>1, <3>2, ExploringParts, ExploringTells
    <3> QED BY <1>5, <2>0, <2>1, <3>3
  <2>2. CASE c.action = "trace_calibration"
    <3>1. c.mission_id \in Nat /\ d.mission_id \in Nat
      BY <1>5, <2>2 DEF UserAccepts, Valid, ExactUser
    <3>2. TraceCalibration(c.mission_id) = TraceCalibration(d.mission_id)
      BY <1>5, <2>2 DEF UserPayload
    <3>3. c.mission_id = d.mission_id BY <3>1, <3>2, TraceTells
    <3> QED BY <1>5, <2>0, <2>2, <3>3
  <2>3. CASE c.action \in {"redo_coverage", "resume_coverage"}
    <3>1. c.coverage_session_id \in Halves /\ d.coverage_session_id \in Halves
      BY <1>5, <2>3 DEF UserAccepts, Valid, ExactUser
    <3>2. PICK n \in {2, 3} : CoverageSession(n, c.coverage_session_id) = CoverageSession(n, d.coverage_session_id)
      BY <1>5, <2>3 DEF UserPayload
    <3>3. c.coverage_session_id = d.coverage_session_id BY <3>1, <3>2, SessionTells
    <3> QED BY <1>5, <2>0, <2>3, <3>3
  <2>4. CASE c.action \notin {"re_explore", "trace_calibration", "redo_coverage", "resume_coverage"}
    BY <1>5, <2>0, <2>4
  <2> QED BY <2>1, <2>2, <2>3, <2>4
<1> QED BY <1>5, <1>6 DEF ExactUser

ExactJoystick ==
    [type: {"JoystickCommand"}, action: {"joystick"}, linear_mps: Int, angular_rad_s: Int]

\* The joystick's payload has a route of its own, and tells both speeds.
LEMMA JoystickTells ==
    ASSUME NEW c \in ExactJoystick, NEW d \in ExactJoystick
    PROVE  /\ Route(JoystickPayload(c), <<2, 2, 0>>)
           /\ JoystickPayload(c) = JoystickPayload(d) => c = d
<1> DEFINE x == Two(c.linear_mps, c.angular_rad_s)
           y == Two(d.linear_mps, d.angular_rad_s)
<1>1. /\ c.linear_mps \in Int /\ c.angular_rad_s \in Int
      /\ d.linear_mps \in Int /\ d.angular_rad_s \in Int
  BY DEF ExactJoystick
<1>2. x \in Words /\ y \in Words /\ (x = y => c = d)
  <2>1. x = y => c.linear_mps = d.linear_mps /\ c.angular_rad_s = d.angular_rad_s
    BY <1>1, TwoFloats
  <2> QED BY <1>1, <2>1, TwoFloats DEF ExactJoystick
<1>3. JoystickPayload(c) = Bytes(2, Bytes(2, x)) /\ JoystickPayload(d) = Bytes(2, Bytes(2, y))
  BY DEF JoystickPayload, Two
<1> HIDE DEF x, y
<1>4. Bytes(2, x) \in Words /\ Begins(Bytes(2, x), 2) /\ <<>> \in Words
  BY <1>2, BytesField, FirstDoor, WordsEmpty
<1>5. Route(Bytes(2, Bytes(2, x)), <<2, 2, 0>>) BY <1>4, SecondDoor
<1> QED BY <1>2, <1>3, <1>5, TwoDeep

ExactNavigation ==
    [type: {"NavigationCommand"}, action: NavigationModes, mission_id: Nat,
     x_meters: Int, y_meters: Int, yaw_radians: Int]
Waiting == Bytes(4, Bytes(1, Bytes(1, Varint(1, 900)) \o Varint(2, 0)))
GoTo(c) == Cat(Cat(Bytes(1, Posture(c)), Bytes(2, MissionId(c.mission_id))),
               When(c.action = "navigate_and_wait", Waiting))

\* The waiting part of a navigation is a field.
LEMMA WaitingField == Waiting \in Items(4)
<1> DEFINE x == Varint(1, 900)
           y == Varint(2, 0)
           z == Bytes(1, x)
<1>1. x \in Words /\ y \in Words BY VarintField
<1>2. Waiting = Bytes(4, Bytes(1, Cat(z, y))) BY DEF Waiting, Cat
<1> HIDE DEF x, y
<1>3. z \in Words BY <1>1, BytesField
<1> HIDE DEF z
<1>4. Cat(z, y) \in Words BY <1>1, <1>3, CatParts
<1>5. Bytes(1, Cat(z, y)) \in Words BY <1>4, BytesField
<1> QED BY <1>2, <1>5, BytesField

\* The body of a navigation tells the mission, the place, the heading and
\* whether to wait there.
LEMMA GoToTells ==
    ASSUME NEW c \in ExactNavigation, NEW d \in ExactNavigation
    PROVE  /\ GoTo(c) \in Words
           /\ GoTo(c) = GoTo(d) =>
                 /\ c.mission_id = d.mission_id /\ c.x_meters = d.x_meters
                 /\ c.y_meters = d.y_meters /\ c.yaw_radians = d.yaw_radians
                 /\ c.action = "navigate_and_wait" <=> d.action = "navigate_and_wait"
<1> DEFINE A(e) == Bytes(1, Posture(e))
           B(e) == Bytes(2, MissionId(e.mission_id))
           C(e) == When(e.action = "navigate_and_wait", Waiting)
<1>1. /\ Placed(c) /\ c.yaw_radians \in Int /\ Placed(d) /\ d.yaw_radians \in Int
      /\ c.mission_id \in Int /\ d.mission_id \in Int
  BY DEF ExactNavigation, Placed
<1>2. /\ A(c) \in Parts(1) /\ A(d) \in Parts(1)
      /\ A(c) = A(d) => c.x_meters = d.x_meters /\ c.y_meters = d.y_meters
                        /\ c.yaw_radians = d.yaw_radians
  BY <1>1, PostureTells, BytesField
<1>3. /\ B(c) \in Parts(2) /\ B(d) \in Parts(2) /\ (B(c) = B(d) => c.mission_id = d.mission_id)
  BY <1>1, MissionField
<1>4. /\ C(c) \in Parts(4) /\ C(d) \in Parts(4)
      /\ C(c) = C(d) => (c.action = "navigate_and_wait" <=> d.action = "navigate_and_wait")
  BY WaitingField, WhenTells
<1>5. GoTo(c) = Cat(Cat(A(c), B(c)), C(c)) /\ GoTo(d) = Cat(Cat(A(d), B(d)), C(d)) BY DEF GoTo
<1> HIDE DEF A, B, C
<1>6. C(c) \in Past(2) /\ C(d) \in Past(2) BY <1>4, Later
<1>7. A(c) \in Words /\ B(c) \in Words /\ C(c) \in Words BY <1>2, <1>3, <1>4, ItemWords
<1>8. Cat(Cat(A(c), B(c)), C(c)) \in Words BY <1>7, CatParts
<1>9. ASSUME Cat(Cat(A(c), B(c)), C(c)) = Cat(Cat(A(d), B(d)), C(d))
      PROVE  A(c) = A(d) /\ B(c) = B(d) /\ C(c) = C(d)
  BY ONLY <1>2, <1>3, <1>6, <1>9, Split3
<1> QED BY <1>2, <1>3, <1>4, <1>5, <1>8, <1>9

\* The payload of a navigation has a route of its own, and tells every
\* argument.
LEMMA NavigationTells ==
    ASSUME NEW c \in ExactNavigation, NEW d \in ExactNavigation
    PROVE  /\ Route(NavigationPayload(c), <<2, 4, 0>>)
           /\ NavigationPayload(c) = NavigationPayload(d) => c = d
<1> DEFINE x(e) == Bytes(2, Bytes(4, GoTo(e)))
           r(e) == When(e.action = "navigate_and_explore", NoArgument["explore"])
<1>1. NavigationPayload(c) = Cat(x(c), r(c)) /\ NavigationPayload(d) = Cat(x(d), r(d))
  BY DEF NavigationPayload, GoTo, Waiting, Cat
<1>2. /\ Bytes(4, GoTo(c)) \in Words /\ Begins(Bytes(4, GoTo(c)), 4)
      /\ x(c) \in Items(2) /\ x(d) \in Items(2)
      /\ x(c) = x(d) => GoTo(c) = GoTo(d)
  <2>1. GoTo(c) \in Words /\ GoTo(d) \in Words BY GoToTells
  <2>2. /\ Bytes(4, GoTo(c)) \in Items(4) /\ Bytes(4, GoTo(c)) \in Words
        /\ Bytes(4, GoTo(d)) \in Words
        /\ Bytes(4, GoTo(c)) = Bytes(4, GoTo(d)) => GoTo(c) = GoTo(d)
    BY <2>1, BytesField
  <2> QED BY <2>2, BytesField, FirstDoor, WordsEmpty
<1>3. NoArgument["explore"] \in Items(15)
  <2>1. /\ Afresh \in Items(1) /\ Once \in Words /\ NoArgument["explore"] = Exploring(Afresh, Once)
    BY ExploringParts
  <2>2. Cat(Afresh, Once) \in Words BY <2>1, ItemThen
  <2> DEFINE m == Cat(Afresh, Once)
  <2>3. m \in Words BY <2>2
  <2>4. NoArgument["explore"] = Bytes(15, Bytes(1, Bytes(5, m))) BY <2>1 DEF Exploring
  <2> HIDE DEF m
  <2>5. Bytes(5, m) \in Words BY <2>3, BytesField
  <2> QED BY <2>4, <2>5, TwoDeep
<1>4. /\ r(c) \in Parts(15) /\ r(d) \in Parts(15)
      /\ r(c) = r(d) => (c.action = "navigate_and_explore" <=> d.action = "navigate_and_explore")
  <2> DEFINE X == NoArgument["explore"]
             p == c.action = "navigate_and_explore"
             q == d.action = "navigate_and_explore"
  <2>1. X \in Items(15) /\ r(c) = When(p, X) /\ r(d) = When(q, X) /\ p \in BOOLEAN /\ q \in BOOLEAN
    BY <1>3
  <2> HIDE DEF X, p, q, r
  <2>2. r(c) \in Parts(15) /\ r(d) \in Parts(15) /\ (r(c) = r(d) => p = q)
    BY ONLY <2>1, WhenTells, 15 \in Nat
  <2> QED BY <2>1, <2>2 DEF p, q
<1>5. r(c) \in Words /\ r(d) \in Words BY <1>4, ItemWords
<1>6. Route(NavigationPayload(c), <<2, 4, 0>>)
  <2>1. Route(Cat(Bytes(2, Bytes(4, GoTo(c))), r(c)), <<2, 4, 0>>)
    BY <1>2, <1>5, SecondDoor
  <2> QED BY <1>1, <2>1
<1>7. ASSUME NavigationPayload(c) = NavigationPayload(d) PROVE c = d
  <2> HIDE DEF x, r
  <2>0. Cat(x(c), r(c)) = Cat(x(d), r(d)) BY <1>1, <1>7
  <2>1. x(c) = x(d) /\ r(c) = r(d) BY ONLY <1>2, <1>5, <2>0, ItemThen, 2 \in Nat
  <2>2. GoTo(c) = GoTo(d) /\ (c.action = "navigate_and_explore" <=> d.action = "navigate_and_explore")
    BY <1>2, <1>4, <2>1
  <2>3. /\ c.mission_id = d.mission_id /\ c.x_meters = d.x_meters
        /\ c.y_meters = d.y_meters /\ c.yaw_radians = d.yaw_radians
        /\ c.action = "navigate_and_wait" <=> d.action = "navigate_and_wait"
    BY <2>2, GoToTells
  <2>4. c.action = d.action BY <2>2, <2>3 DEF ExactNavigation, NavigationModes
  <2> QED BY <2>3, <2>4 DEF ExactNavigation
<1> QED BY <1>6, <1>7

ManualModes == {"sweeping_carpet", "sweeping_hardfloor", "mopping_hardfloor", "sweeping_transition"}
ExactCleaning ==
    [type: {"CleaningCommand"}, action: {"manual"}, mode: ManualModes, intensity: {"base", "max"}]
ModeNumber(c) == [sweeping_carpet |-> 0, sweeping_hardfloor |-> 1,
                  sweeping_transition |-> 2, mopping_hardfloor |-> 3][c.mode]
IntensityNumber(c) == [base |-> 0, max |-> 1][c.intensity]

\* The payload of a manual cleaning has a route of its own, and tells the
\* mode and the intensity.
LEMMA CleaningTells ==
    ASSUME NEW c \in ExactCleaning, NEW d \in ExactCleaning
    PROVE  /\ Route(CleaningPayload(c), <<15, 1, 1>>)
           /\ CleaningPayload(c) = CleaningPayload(d) => c = d
<1> DEFINE A(e) == Integer(1, IntensityNumber(e))
           B(e) == Integer(2, ModeNumber(e))
<1>1. /\ IntensityNumber(c) \in Nat /\ IntensityNumber(d) \in Nat
      /\ IntensityNumber(c) = IntensityNumber(d) => c.intensity = d.intensity
  BY DEF IntensityNumber, ExactCleaning
<1>2. /\ ModeNumber(c) \in Nat /\ ModeNumber(d) \in Nat
      /\ ModeNumber(c) = ModeNumber(d) => c.mode = d.mode
  BY DEF ModeNumber, ExactCleaning, ManualModes
<1>3. /\ A(c) \in Parts(1) /\ A(d) \in Parts(1) /\ (A(c) = A(d) => c.intensity = d.intensity)
  BY <1>1, IntegerTells
<1>4. /\ B(c) \in Parts(2) /\ B(d) \in Parts(2) /\ (B(c) = B(d) => c.mode = d.mode)
  BY <1>2, IntegerTells
<1>5. /\ CleaningPayload(c) = Bytes(15, Bytes(1, Bytes(1, Bytes(3, Cat(A(c), B(c))))))
      /\ CleaningPayload(d) = Bytes(15, Bytes(1, Bytes(1, Bytes(3, Cat(A(d), B(d))))))
  BY DEF CleaningPayload, ModeNumber, IntensityNumber, Cat
<1> HIDE DEF A, B
<1>6. B(c) \in Past(1) /\ B(d) \in Past(1) BY <1>4, Later
<1>7. A(c) \in Words /\ B(c) \in Words /\ A(d) \in Words /\ B(d) \in Words
  BY <1>3, <1>4, ItemWords
<1> DEFINE m == Cat(A(c), B(c))
           n == Cat(A(d), B(d))
<1>8. m \in Words /\ n \in Words BY <1>7, CatParts
<1>9. ASSUME m = n PROVE A(c) = A(d) /\ B(c) = B(d)
  <2>1. Cat(A(c), B(c)) = Cat(A(d), B(d)) BY <1>9
  <2> QED BY ONLY <1>3, <1>6, <2>1, PartCancel, 1 \in Nat
<1>10. m = n => c = d BY <1>3, <1>4, <1>9 DEF ExactCleaning
<1> HIDE DEF m, n
<1>11. Bytes(3, m) \in Words /\ Bytes(3, n) \in Words /\ (Bytes(3, m) = Bytes(3, n) => m = n)
  BY <1>8, BytesField
<1>12. Bytes(1, Bytes(3, m)) \in Words /\ Begins(Bytes(1, Bytes(3, m)), 1) /\ <<>> \in Words
  BY <1>11, BytesField, FirstDoor, WordsEmpty
<1>13. Route(Bytes(15, Bytes(1, Bytes(1, Bytes(3, m)))), <<15, 1, 1>>) BY <1>12, LoneThird
<1>14. /\ CleaningPayload(c) = Bytes(15, Bytes(1, Bytes(1, Bytes(3, m))))
       /\ CleaningPayload(d) = Bytes(15, Bytes(1, Bytes(1, Bytes(3, n))))
  BY <1>5 DEF m, n
<1>15. CleaningPayload(c) = CleaningPayload(d) => Bytes(3, m) = Bytes(3, n)
  BY <1>11, <1>14, ThreeDeep
<1> QED BY <1>10, <1>11, <1>13, <1>14, <1>15

\* The goals of one area, for the modes there are.
Settings == 0..2

\* The eight specs of a vacuum pass and the four of a mop pass, the first of
\* which shows the setting.
LEMMA SpecLists ==
    ASSUME NEW v \in Settings
    PROVE  /\ VacuumSpecs(v) \in Seq(CoverageGoalSpecs) /\ Len(VacuumSpecs(v)) = 8
           /\ VacuumSpecs(v)[1] = CoverageGoalSpec(v, 0, 0, 0)
           /\ MopSpecs(v) \in Seq(CoverageGoalSpecs) /\ Len(MopSpecs(v)) = 4
           /\ MopSpecs(v)[1] = CoverageGoalSpec(v, 0, 1, 0)
<1>1. \A i \in 1..8 : CoverageGoalSpec(v, (i - 1) \div 4, 0, (i - 1) % 4) \in CoverageGoalSpecs
  <2> TAKE i \in 1..8
  <2>1. (i - 1) \div 4 \in 0..1 /\ (i - 1) % 4 \in 0..3 OBVIOUS
  <2> QED BY <2>1 DEF CoverageGoalSpec, CoverageGoalSpecs, Settings, CoverageGoalSettings,
                      CleaningFloors, CoverageGoalCleaningModes, CoverageBehaviors
<1>2. \A i \in 1..4 : CoverageGoalSpec(v, 0, 1, i - 1) \in CoverageGoalSpecs
  BY DEF CoverageGoalSpec, CoverageGoalSpecs, Settings, CoverageGoalSettings,
         CleaningFloors, CoverageGoalCleaningModes, CoverageBehaviors
<1>3. VacuumSpecs(v) \in Seq(CoverageGoalSpecs) /\ Len(VacuumSpecs(v)) = 8
  BY <1>1, IsASeq DEF VacuumSpecs
<1>4. MopSpecs(v) \in Seq(CoverageGoalSpecs) /\ Len(MopSpecs(v)) = 4
  BY <1>2, IsASeq DEF MopSpecs
<1>5. VacuumSpecs(v)[1] = CoverageGoalSpec(v, 0, 0, 0)
  <2>1. (1 - 1) \div 4 = 0 /\ (1 - 1) % 4 = 0 OBVIOUS
  <2> QED BY <2>1 DEF VacuumSpecs
<1>6. MopSpecs(v)[1] = CoverageGoalSpec(v, 0, 1, 0) BY DEF MopSpecs
<1> QED BY <1>3, <1>4, <1>5, <1>6

\* The first goal of vacuuming, and of mopping.
Sweep(v) == CoverageGoalSpec(v, 0, 0, 0)
Mop(v) == CoverageGoalSpec(v, 0, 1, 0)

\* The first spec of a pass tells whether it sweeps or mops, and the
\* setting.
LEMMA FirstsTell ==
    ASSUME NEW v, NEW w
    PROVE  Sweep(v) # Mop(w) /\ (Sweep(v) = Sweep(w) => v = w) /\ (Mop(v) = Mop(w) => v = w)
<1>1. Sweep(v).cleaning_mode = 0 /\ Mop(w).cleaning_mode = 1 BY DEF Sweep, Mop, CoverageGoalSpec
<1>2. Sweep(v).setting = v /\ Sweep(w).setting = w /\ Mop(v).setting = v /\ Mop(w).setting = w
  BY DEF Sweep, Mop, CoverageGoalSpec
<1> QED BY <1>1, <1>2

Amount(mode) == IF mode = "vacuum" THEN 8 ELSE IF mode = "mop" THEN 4 ELSE 12

\* The specs of a cleaning mode: how many they are, and which comes first.
LEMMA ListedAre ==
    ASSUME NEW mode \in CleaningModes, NEW v \in Settings, NEW w \in Settings
    PROVE  /\ Specs(mode, v, w) \in Seq(CoverageGoalSpecs)
           /\ Len(Specs(mode, v, w)) = Amount(mode)
           /\ mode # "mop" => Specs(mode, v, w)[1] = Sweep(v)
           /\ mode = "mop" => Specs(mode, v, w)[1] = Mop(w)
           /\ mode = "vacuum_and_mop" => Specs(mode, v, w)[9] = Mop(w)
<1> DEFINE a == VacuumSpecs(v)
           b == MopSpecs(w)
<1>1. /\ a \in Seq(CoverageGoalSpecs) /\ Len(a) = 8 /\ a[1] = Sweep(v)
      /\ b \in Seq(CoverageGoalSpecs) /\ Len(b) = 4 /\ b[1] = Mop(w)
  BY SpecLists DEF Sweep, Mop
<1>2. Specs(mode, v, w) = When(mode \in {"vacuum", "vacuum_and_mop"}, a) \o
                          When(mode \in {"mop", "vacuum_and_mop"}, b)
  BY DEF Specs
<1> HIDE DEF a, b
<1>3. CASE mode = "vacuum_and_mop"
  <2>1. Specs(mode, v, w) = a \o b BY <1>2, <1>3 DEF When
  <2>2. /\ a \o b \in Seq(CoverageGoalSpecs) /\ Len(a \o b) = Len(a) + Len(b)
        /\ \A i \in 1..Len(a) + Len(b) :
              (a \o b)[i] = IF i <= Len(a) THEN a[i] ELSE b[i - Len(a)]
    BY <1>1, ConcatProperties
  <2> DEFINE l == a \o b
  <2> HIDE DEF l
  <2>3. /\ l \in Seq(CoverageGoalSpecs) /\ Len(l) = 12
        /\ l[1] = a[1] /\ l[9] = b[1]
    BY <1>1, <2>2 DEF l
  <2>4. l = Specs(mode, v, w) BY <2>1 DEF l
  <2>5. Amount(mode) = 12 BY <1>3 DEF Amount
  <2> QED BY <1>1, <1>3, <2>3, <2>4, <2>5
<1>4. CASE mode = "vacuum"
  <2>1. Specs(mode, v, w) = a BY <1>1, <1>2, <1>4 DEF When
  <2>2. Amount(mode) = 8 BY <1>4 DEF Amount
  <2> QED BY <1>1, <1>4, <2>1, <2>2
<1>5. CASE mode = "mop"
  <2>1. Specs(mode, v, w) = b BY <1>1, <1>2, <1>5 DEF When
  <2>2. Amount(mode) = 4 BY <1>5 DEF Amount
  <2> QED BY <1>1, <1>5, <2>1, <2>2
<1> QED BY <1>3, <1>4, <1>5 DEF CleaningModes

\* The first spec for each target stands where a multiple of the number of
\* specs ends.
LEMMA Position ==
    ASSUME NEW L \in {4, 8, 12}, NEW m \in Nat, NEW i \in 1..m
    PROVE  /\ (i - 1) * L + 1 \in 1..m * L
           /\ 1 + ((((i - 1) * L + 1) - 1) \div L) = i
<1>1. CASE L = 4 BY <1>1
<1>2. CASE L = 8 BY <1>2
<1>3. CASE L = 12 BY <1>3
<1> QED BY <1>1, <1>2, <1>3

\* The n-th goal of a list: its target's place, and its specification's.
OfTarget(n, L) == 1 + ((n - 1) \div L)
OfSpec(n, L) == 1 + ((n - 1) % L)

\* The specs go round the targets: what the first and the ninth place show.
LEMMA Places ==
    ASSUME NEW L \in {4, 8, 12}, NEW m \in Nat, m > 0
    PROVE  /\ OfSpec(1, L) = 1 /\ OfTarget(1, L) = 1 /\ 1 \in 1..m * L
           /\ OfSpec(9, 8) = 1 /\ OfSpec(9, 12) = 9
           /\ L = 12 => 9 \in 1..m * L
           /\ \A n \in 1..m * L : OfSpec(n, L) \in 1..L /\ OfTarget(n, L) \in 1..m
<1>1. CASE L = 4 BY <1>1 DEF OfSpec, OfTarget
<1>2. CASE L = 8 BY <1>2 DEF OfSpec, OfTarget
<1>3. CASE L = 12 BY <1>3 DEF OfSpec, OfTarget
<1> QED BY <1>1, <1>2, <1>3

\* Two such products that are equal are of equal lists.
IsListed(s, mode, v, w) ==
    mode \in CleaningModes /\ v \in Settings /\ w \in Settings /\ s = Specs(mode, v, w)
Some(ts) == ts \in Seq(Words) /\ ts # <<>>
Matching(s, ts, z, us) ==
    /\ Len(ts) * Len(s) = Len(us) * Len(z)
    /\ \A n \in 1..Len(ts) * Len(s) :
          /\ s[OfSpec(n, Len(s))] = z[OfSpec(n, Len(z))]
          /\ ts[OfTarget(n, Len(s))] = us[OfTarget(n, Len(z))]

\* Two lists of goals whose specs and targets match, place by place, have
\* one cleaning mode, one setting and the same targets.
LEMMA ListedTell ==
    ASSUME NEW s, NEW p, NEW v, NEW w, IsListed(s, p, v, w),
           NEW z, NEW x, NEW a, NEW b, IsListed(z, x, a, b),
           NEW ts, NEW us, Some(ts), Some(us), Matching(s, ts, z, us)
    PROVE  p = x /\ (p # "mop" => v = a) /\ (p # "vacuum" => w = b) /\ ts = us
<1>a. /\ p \in CleaningModes /\ v \in Settings /\ w \in Settings /\ s = Specs(p, v, w)
      /\ x \in CleaningModes /\ a \in Settings /\ b \in Settings /\ z = Specs(x, a, b)
  BY DEF IsListed
<1>b. ts \in Seq(Words) /\ ts # <<>> /\ us \in Seq(Words) /\ us # <<>> BY DEF Some
<1> DEFINE m == Len(ts)
           k == Len(us)
           L == Len(s)
           M == Len(z)
<1>1. m \in Nat /\ m > 0 /\ k \in Nat /\ k > 0
  BY <1>b, LenProperties, EmptySeq
<1>2. /\ L = Amount(p) /\ M = Amount(x)
      /\ p # "mop" => s[1] = Sweep(v)
      /\ p = "mop" => s[1] = Mop(w)
      /\ x # "mop" => z[1] = Sweep(a)
      /\ x = "mop" => z[1] = Mop(b)
      /\ p = "vacuum_and_mop" => s[9] = Mop(w)
      /\ x = "vacuum_and_mop" => z[9] = Mop(b)
  BY <1>a, ListedAre
<1>3. L \in {4, 8, 12} /\ M \in {4, 8, 12} BY <1>2 DEF Amount
<1>0. /\ m * L = k * M
      /\ \A n \in 1..m * L : s[OfSpec(n, L)] = z[OfSpec(n, M)] /\ ts[OfTarget(n, L)] = us[OfTarget(n, M)]
  BY DEF Matching
<1> HIDE DEF m, k, L, M
<1>4. s[1] = z[1]
  <2>1. OfSpec(1, L) = 1 /\ OfSpec(1, M) = 1 /\ 1 \in 1..m * L BY <1>1, <1>3, Places
  <2> QED BY <1>0, <2>1
<1>5. /\ p = "mop" <=> x = "mop"
      /\ p # "mop" => v = a
      /\ p = "mop" => w = b
  BY <1>2, <1>4, FirstsTell
<1>6. ~(p = "vacuum_and_mop" /\ x = "vacuum")
  <2>1. SUFFICES ASSUME p = "vacuum_and_mop", x = "vacuum" PROVE FALSE OBVIOUS
  <2>2. L = 12 /\ M = 8 BY <1>2, <2>1 DEF Amount
  <2>3. 9 \in 1..m * L /\ OfSpec(9, L) = 9 /\ OfSpec(9, M) = 1 BY <1>1, <2>2, Places
  <2>4. s[9] = z[1] BY <1>0, <2>3
  <2>5. s[9] = Mop(w) /\ z[1] = Sweep(a) BY <1>2, <2>1
  <2> QED BY <2>4, <2>5, FirstsTell
<1>7. ~(x = "vacuum_and_mop" /\ p = "vacuum")
  <2>1. SUFFICES ASSUME x = "vacuum_and_mop", p = "vacuum" PROVE FALSE OBVIOUS
  <2>2. L = 8 /\ M = 12 BY <1>2, <2>1 DEF Amount
  <2>3. 9 \in 1..k * M /\ OfSpec(9, L) = 1 /\ OfSpec(9, M) = 9 BY <1>1, <2>2, Places
  <2>4. s[1] = z[9] BY <1>0, <2>3
  <2>5. z[9] = Mop(b) /\ s[1] = Sweep(v) BY <1>2, <2>1
  <2> QED BY <2>4, <2>5, FirstsTell
<1>8. p = x BY <1>a, <1>5, <1>6, <1>7 DEF CleaningModes
<1>13. p # "vacuum" => w = b
  <2>1. CASE p = "vacuum_and_mop"
    <3>1. L = 12 /\ M = 12 BY <1>2, <1>8, <2>1 DEF Amount
    <3>2. 9 \in 1..m * L /\ OfSpec(9, L) = 9 /\ OfSpec(9, M) = 9 BY <1>1, <3>1, Places
    <3>3. s[9] = z[9] BY <1>0, <3>2
    <3>4. s[9] = Mop(w) /\ z[9] = Mop(b) BY <1>2, <1>8, <2>1
    <3> QED BY <3>3, <3>4, FirstsTell
  <2> QED BY <1>a, <1>5, <2>1 DEF CleaningModes
<1>9. L = M /\ L \in {4, 8, 12} BY <1>2, <1>3, <1>8
<1>10. m = k
  <2>1. CASE L = 4 BY <1>0, <1>1, <1>9, <2>1
  <2>2. CASE L = 8 BY <1>0, <1>1, <1>9, <2>2
  <2>3. CASE L = 12 BY <1>0, <1>1, <1>9, <2>3
  <2> QED BY <1>9, <2>1, <2>2, <2>3
<1>11. ASSUME NEW i \in 1..m PROVE ts[i] = us[i]
  <2>1. /\ (i - 1) * L + 1 \in 1..m * L /\ OfTarget((i - 1) * L + 1, L) = i
    BY <1>1, <1>9, Position DEF OfTarget
  <2> QED BY <1>0, <1>9, <2>1
<1>12. ts = us BY <1>b, <1>10, <1>11, SeqEqual DEF m, k
<1> QED BY <1>5, <1>8, <1>12, <1>13

\* The goals of a job or of a schedule's event, ordered or not.
GoalList(k, gs) == [n \in DOMAIN gs |-> Bytes(k, gs[n])]

\* The list of goals tells the goals, and whether they are ordered unless it
\* is empty.
LEMMA GoalListTells ==
    ASSUME NEW k \in {1, 2}, NEW l \in {1, 2}, NEW gs \in Seq(Words), NEW hs \in Seq(Words)
    PROVE  /\ FlattenSeq(GoalList(k, gs)) \in Words
           /\ FlattenSeq(GoalList(k, gs)) = FlattenSeq(GoalList(l, hs)) =>
                 gs = hs /\ (gs # <<>> => k = l)
<1> DEFINE W == Items(1) \cup Items(2)
<1>1. Telling(W)
  <2>1. W \subseteq Words /\ <<>> \notin W BY ItemWords, SomeItem
  <2>2. ASSUME NEW x \in W, NEW y \in W, NEW r \in Words, NEW s \in Words, Cat(x, r) = Cat(y, s)
        PROVE  x = y /\ r = s
    <3>1. PICK n \in Nat : x \in Items(n) OBVIOUS
    <3>2. PICK m \in Nat : y \in Items(m) OBVIOUS
    <3> QED BY ONLY <2>2, <3>1, <3>2, ItemCancel, r \in Words, s \in Words
  <2> QED BY <2>1, <2>2 DEF Telling
<1>2. ASSUME NEW j \in {1, 2}, NEW fs \in Seq(Words)
      PROVE  /\ GoalList(j, fs) \in Seq(W) /\ Len(GoalList(j, fs)) = Len(fs)
             /\ \A i \in 1..Len(fs) : GoalList(j, fs)[i] = Bytes(j, fs[i])
  <2>1. Len(fs) \in Nat /\ DOMAIN fs = 1..Len(fs) /\ \A i \in 1..Len(fs) : fs[i] \in Words
    BY LenProperties, ElementOfSeq
  <2>2. \A i \in 1..Len(fs) : Bytes(j, fs[i]) \in W
    <3>1. j \in Nat OBVIOUS
    <3>2. \A i \in 1..Len(fs) : Bytes(j, fs[i]) \in Items(j) BY <2>1, <3>1, BytesField
    <3> QED BY <3>2
  <2> QED BY <2>1, <2>2, IsASeq DEF GoalList
<1> DEFINE x == GoalList(k, gs)
           y == GoalList(l, hs)
<1>3. /\ x \in Seq(W) /\ Len(x) = Len(gs) /\ \A i \in 1..Len(gs) : x[i] = Bytes(k, gs[i])
      /\ y \in Seq(W) /\ Len(y) = Len(hs) /\ \A i \in 1..Len(hs) : y[i] = Bytes(l, hs[i])
  BY <1>2
<1> HIDE DEF x, y
<1>4. FlattenSeq(x) \in Words
  <2>1. W \subseteq Words BY <1>1 DEF Telling
  <2>2. x \in Seq(Words) BY <1>3, <2>1, SeqMonotonic
  <2> QED BY <2>2, FlattenType DEF Words
<1>5. ASSUME FlattenSeq(x) = FlattenSeq(y) PROVE gs = hs /\ (gs # <<>> => k = l)
  <2>1. x = y
    <3> HIDE DEF W
    <3> QED BY <1>1, <1>3, <1>5, ListTells
  <2>2. Len(gs) = Len(hs) /\ \A i \in 1..Len(gs) : Bytes(k, gs[i]) = Bytes(l, hs[i])
    BY <1>3, <2>1
  <2>3. ASSUME NEW i \in 1..Len(gs) PROVE gs[i] = hs[i] /\ k = l
    <3>1. gs[i] \in Words /\ hs[i] \in Words /\ k \in Nat /\ l \in Nat BY <2>2, ElementOfSeq
    <3>2. Bytes(k, gs[i]) \in Items(k) /\ Bytes(l, hs[i]) \in Items(l) BY <3>1, BytesField
    <3>3. k = l BY <2>2, <3>1, <3>2, ItemsApart
    <3> QED BY <2>2, <3>1, <3>3, BytesField
  <2>4. gs = hs BY <2>2, <2>3, SeqEqual
  <2>5. ASSUME gs # <<>> PROVE k = l
    <3>1. 1 \in 1..Len(gs) BY <2>5, LenProperties, EmptySeq
    <3> QED BY <2>3, <3>1
  <2> QED BY <2>4, <2>5
<1> QED BY <1>4, <1>5 DEF x, y

Goal(h, t) == Cat(h, Bytes(7, t))

\* A goal tells its header and its target.
LEMMA GoalTells ==
    ASSUME NEW h \in Items(6), NEW g \in Items(6), NEW t \in Words, NEW u \in Words
    PROVE  Goal(h, t) \in Words /\ (Goal(h, t) = Goal(g, u) => h = g /\ t = u)
<1>1. Bytes(7, t) \in Words /\ Bytes(7, u) \in Words /\ (Bytes(7, t) = Bytes(7, u) => t = u)
  BY BytesField
<1>2. Cat(h, Bytes(7, t)) \in Words /\
      (Cat(h, Bytes(7, t)) = Cat(g, Bytes(7, u)) => h = g /\ Bytes(7, t) = Bytes(7, u))
  BY ONLY <1>1, ItemThen, 6 \in Nat, h \in Items(6), g \in Items(6)
<1> QED BY <1>1, <1>2 DEF Goal

\* A goal of every target and specification, in that order.
Grid(ids, s, ts) ==
    [n \in 1..Len(ts) * Len(s) |->
        Goal(Headed(ids[n], s[OfSpec(n, Len(s))]), ts[OfTarget(n, Len(s))])]

\* The goals of a plan: one for each spec and each target, in the code's
\* order.
LEMMA GridIs ==
    ASSUME NEW ids \in [Nat -> Words], NEW p, NEW v, NEW w, NEW s,
           IsListed(s, p, v, w), NEW ts, Some(ts)
    PROVE  /\ Grid(ids, s, ts) \in Seq(Words) /\ Len(Grid(ids, s, ts)) = Len(ts) * Len(s)
           /\ Len(ts) * Len(s) \in Nat /\ Len(ts) * Len(s) >= 4
           /\ \A n \in 1..Len(ts) * Len(s) :
                 /\ n \in Nat /\ ids[n] \in Words /\ s[OfSpec(n, Len(s))] \in CoverageGoalSpecs
                 /\ ts[OfTarget(n, Len(s))] \in Words
                 /\ Headed(ids[n], s[OfSpec(n, Len(s))]) \in Items(6)
<1>a. p \in CleaningModes /\ v \in Settings /\ w \in Settings /\ s = Specs(p, v, w)
  BY DEF IsListed
<1>b. ts \in Seq(Words) /\ ts # <<>> BY DEF Some
<1>1. s \in Seq(CoverageGoalSpecs) /\ Len(s) = Amount(p) BY <1>a, ListedAre
<1>2. Len(s) \in {4, 8, 12} BY <1>a, <1>1 DEF Amount
<1>3. Len(ts) \in Nat /\ Len(ts) > 0 BY <1>b, LenProperties, EmptySeq
<1> DEFINE c == Len(ts) * Len(s)
<1>4. c \in Nat /\ c >= 4
  <2>1. CASE Len(s) = 4 BY <1>3, <2>1
  <2>2. CASE Len(s) = 8 BY <1>3, <2>2
  <2>3. CASE Len(s) = 12 BY <1>3, <2>3
  <2> QED BY <1>2, <2>1, <2>2, <2>3
<1>5. \A n \in 1..c : OfSpec(n, Len(s)) \in 1..Len(s) /\ OfTarget(n, Len(s)) \in 1..Len(ts)
  BY <1>2, <1>3, Places
<1> HIDE DEF c
<1>6. \A n \in 1..c :
         /\ n \in Nat /\ ids[n] \in Words /\ s[OfSpec(n, Len(s))] \in CoverageGoalSpecs
         /\ ts[OfTarget(n, Len(s))] \in Words
  <2> TAKE n \in 1..c
  <2>1. n \in Nat /\ ids[n] \in Words BY <1>4
  <2>2. OfSpec(n, Len(s)) \in 1..Len(s) /\ OfTarget(n, Len(s)) \in 1..Len(ts) BY <1>5
  <2>3. s[OfSpec(n, Len(s))] \in CoverageGoalSpecs /\ ts[OfTarget(n, Len(s))] \in Words
    BY <1>b, <1>1, <2>2, ElementOfSeq
  <2> QED BY <2>1, <2>3
<1>7. \A n \in 1..c : Headed(ids[n], s[OfSpec(n, Len(s))]) \in Items(6) BY <1>6, HeadedTells
<1> DEFINE e(n) == Goal(Headed(ids[n], s[OfSpec(n, Len(s))]), ts[OfTarget(n, Len(s))])
<1>8. \A n \in 1..c : e(n) \in Words BY <1>6, <1>7, GoalTells
<1>9. Grid(ids, s, ts) = [n \in 1..c |-> e(n)] BY DEF Grid, c
<1> HIDE DEF e
<1>10. Grid(ids, s, ts) \in Seq(Words) /\ Len(Grid(ids, s, ts)) = c BY <1>4, <1>8, <1>9, IsASeq
<1> QED BY <1>4, <1>6, <1>7, <1>10 DEF c

\* The goals of a plan tell the cleaning mode, the setting and the targets.
LEMMA GridTells ==
    ASSUME NEW ids \in [Nat -> Words],
           NEW s, NEW p, NEW v, NEW w, IsListed(s, p, v, w),
           NEW z, NEW x, NEW a, NEW b, IsListed(z, x, a, b),
           NEW ts, NEW us, Some(ts), Some(us), Grid(ids, s, ts) = Grid(ids, z, us)
    PROVE  p = x /\ (p # "mop" => v = a) /\ (p # "vacuum" => w = b) /\ ts = us
<1> DEFINE c == Len(ts) * Len(s)
           d == Len(us) * Len(z)
<1>1. /\ Len(Grid(ids, s, ts)) = c /\ c \in Nat
      /\ \A n \in 1..c :
            /\ ids[n] \in Words /\ s[OfSpec(n, Len(s))] \in CoverageGoalSpecs
            /\ ts[OfTarget(n, Len(s))] \in Words
            /\ Headed(ids[n], s[OfSpec(n, Len(s))]) \in Items(6)
  BY GridIs
<1>2. /\ Len(Grid(ids, z, us)) = d /\ d \in Nat
      /\ \A n \in 1..d :
            /\ ids[n] \in Words /\ z[OfSpec(n, Len(z))] \in CoverageGoalSpecs
            /\ us[OfTarget(n, Len(z))] \in Words
            /\ Headed(ids[n], z[OfSpec(n, Len(z))]) \in Items(6)
  BY GridIs
<1>3. c = d BY <1>1, <1>2
<1>4. ASSUME NEW n \in 1..c
      PROVE  /\ s[OfSpec(n, Len(s))] = z[OfSpec(n, Len(z))]
             /\ ts[OfTarget(n, Len(s))] = us[OfTarget(n, Len(z))]
  <2> DEFINE e == s[OfSpec(n, Len(s))]
             f == z[OfSpec(n, Len(z))]
             t == ts[OfTarget(n, Len(s))]
             u == us[OfTarget(n, Len(z))]
  <2>1. /\ ids[n] \in Words /\ e \in CoverageGoalSpecs /\ t \in Words /\ Headed(ids[n], e) \in Items(6)
        /\ f \in CoverageGoalSpecs /\ u \in Words /\ Headed(ids[n], f) \in Items(6)
    BY <1>1, <1>2, <1>3
  <2>2. Grid(ids, s, ts)[n] = Goal(Headed(ids[n], e), t) BY DEF Grid
  <2>3. Grid(ids, z, us)[n] = Goal(Headed(ids[n], f), u) BY <1>3 DEF Grid
  <2> HIDE DEF e, f, t, u
  <2>4. Headed(ids[n], e) = Headed(ids[n], f) /\ t = u BY <2>1, <2>2, <2>3, GoalTells
  <2>5. e = f BY <2>1, <2>4, HeadedTells
  <2> QED BY <2>4, <2>5 DEF e, f, t, u
<1>5. Matching(s, ts, z, us) BY <1>3, <1>4 DEF Matching
<1> HIDE DEF c, d
<1> QED BY ONLY <1>5, ListedTell, IsListed(s, p, v, w), IsListed(z, x, a, b), Some(ts), Some(us)

\* Identifiers that are made afresh: those of the map's goals, and of a
\* schedule's.
MapIds == [n \in Nat |-> WrappedUuid(Fresh(n))]
EventIds == [n \in Nat |-> GeneratedUuid(Fresh(n))]

\* The generated identifiers are told apart by the order they are drawn in.
LEMMA FreshIds ==
    /\ \A n \in Nat : Fresh(n) \in Halves
    /\ MapIds \in [Nat -> Words] /\ EventIds \in [Nat -> Words]
    /\ \A m, n \in Nat : Fresh(m) = Fresh(n) => m = n
<1>1. \A n \in Nat : Fresh(n) \in Halves BY DEF Fresh, Halves
<1>2. \A n \in Nat : WrappedUuid(Fresh(n)) \in Words /\ GeneratedUuid(Fresh(n)) \in Words
  BY <1>1, WrappedTells, ItemWords, GeneratedTells
<1>3. \A m, n \in Nat : Fresh(m) = Fresh(n) => m = n BY DEF Fresh
<1> QED BY <1>1, <1>2, <1>3 DEF MapIds, EventIds

\* A coverage envelope has a route of its own.
LEMMA EnvelopeRoute ==
    ASSUME NEW m \in Int, NEW f \in Words, NEW u \in Halves, NEW x \in Halves
    PROVE  Route(CoverageEnvelope(m, f, u, x), <<15, 1, 3>>)
<1> DEFINE j == Job(m, f, u, x)
<1>1. j \in Words /\ CoverageEnvelope(m, f, u, x) = Bytes(15, Bytes(1, Bytes(3, j)))
  BY EnvelopeTells
<1> HIDE DEF j
<1>2. Bytes(3, j) \in Words /\ Begins(Bytes(3, j), 3) /\ <<>> \in Words
  BY <1>1, BytesField, FirstDoor, WordsEmpty
<1>3. Route(Bytes(15, Bytes(1, Bytes(3, j))), <<15, 1, 3>>) BY <1>2, LoneThird
<1> QED BY <1>1, <1>3

\* The job that a payload carries: its mission, goals and session.
Enveloped(p, m, f, u) ==
    /\ m \in Int /\ f \in Words /\ u \in Halves
    /\ \E x \in Halves : p = CoverageEnvelope(m, f, u, x)

\* What is in a coverage envelope is told: the mission, the goals and the
\* session.
LEMMA EnvelopedTells ==
    ASSUME NEW p, NEW m, NEW f, NEW u, Enveloped(p, m, f, u)
    PROVE  /\ Route(p, <<15, 1, 3>>)
           /\ \A k, g, v : Enveloped(p, k, g, v) => m = k /\ f = g /\ u = v
<1>1. /\ m \in Int /\ f \in Words /\ u \in Halves BY DEF Enveloped
<1>2. PICK x \in Halves : p = CoverageEnvelope(m, f, u, x) BY DEF Enveloped
<1>3. Route(p, <<15, 1, 3>>) BY <1>1, <1>2, EnvelopeRoute
<1>4. ASSUME NEW k, NEW g, NEW v, Enveloped(p, k, g, v) PROVE m = k /\ f = g /\ u = v
  <2>1. /\ k \in Int /\ g \in Words /\ v \in Halves BY <1>4 DEF Enveloped
  <2>2. PICK y \in Halves : p = CoverageEnvelope(k, g, v, y) BY <1>4 DEF Enveloped
  <2>3. CoverageEnvelope(m, f, u, x) = CoverageEnvelope(k, g, v, y) BY <1>2, <2>2
  <2>4. x \in Halves /\ y \in Halves OBVIOUS
  <2> QED BY ONLY <1>1, <2>1, <2>3, <2>4, EnvelopeTells
<1> QED BY <1>3, <1>4

\* A coverage of some regions of the map.
ExactNormal ==
    [type: {"CoverageCommand"}, action: {"normal"}, mission_id: Nat, partition_id: Halves,
     region_ids: Seq(Halves) \ {<<>>}, cleaning_mode: CleaningModes,
     coverage_setting: {"standard", "quick"}, ordered: Bools, stain_mode: {None},
     circles: {<<>>}]
SettingNumber(c) == IF c.coverage_setting = "standard" THEN 1 ELSE 2
SpecsFor(c) == Specs(c.cleaning_mode, SettingNumber(c), SettingNumber(c))
RegionsFor(c) == [i \in DOMAIN c.region_ids |-> RegionTarget(c.partition_id, c.region_ids[i])]
GridFor(c) == Grid(MapIds, SpecsFor(c), RegionsFor(c))

\* The targets of a normal coverage are its regions, in their order.
LEMMA RegionsAre ==
    ASSUME NEW c \in ExactNormal
    PROVE  /\ Some(RegionsFor(c)) /\ Len(RegionsFor(c)) = Len(c.region_ids)
           /\ Len(c.region_ids) \in Nat /\ Len(c.region_ids) > 0
           /\ \A i \in 1..Len(c.region_ids) :
                 /\ c.region_ids[i] \in Halves
                 /\ RegionsFor(c)[i] = RegionTarget(c.partition_id, c.region_ids[i])
<1>1. c.partition_id \in Halves /\ c.region_ids \in Seq(Halves) /\ c.region_ids # <<>>
  BY DEF ExactNormal
<1> DEFINE s == c.region_ids
<1>2. /\ Len(s) \in Nat /\ Len(s) > 0 /\ DOMAIN s = 1..Len(s)
      /\ \A i \in 1..Len(s) : s[i] \in Halves
  BY <1>1, LenProperties, EmptySeq, ElementOfSeq
<1> HIDE DEF s
<1>3. \A i \in 1..Len(s) : RegionTarget(c.partition_id, s[i]) \in Words BY <1>1, <1>2, RegionTells
<1>4. RegionsFor(c) = [i \in 1..Len(s) |-> RegionTarget(c.partition_id, s[i])]
  BY <1>2 DEF RegionsFor, s
<1>5. RegionsFor(c) \in Seq(Words) /\ Len(RegionsFor(c)) = Len(s) BY <1>2, <1>3, <1>4, IsASeq
<1>6. RegionsFor(c) # <<>> BY <1>2, <1>5, EmptySeq
<1>7. \A i \in 1..Len(s) : RegionsFor(c)[i] = RegionTarget(c.partition_id, s[i]) BY <1>4
<1> QED BY <1>2, <1>5, <1>6, <1>7 DEF s, Some

\* The specs of a normal coverage are those of its mode and setting.
LEMMA NormalListed ==
    ASSUME NEW c \in ExactNormal
    PROVE  IsListed(SpecsFor(c), c.cleaning_mode, SettingNumber(c), SettingNumber(c))
<1>1. c.cleaning_mode \in CleaningModes BY DEF ExactNormal
<1>2. SettingNumber(c) \in Settings BY DEF SettingNumber, Settings
<1> QED BY <1>1, <1>2 DEF IsListed, SpecsFor

CountFor(c) == Len(c.region_ids) * Len(SpecsFor(c))

\* The payload of a normal coverage: its goals, never none, in an envelope
\* whose identifiers are drawn after those of the goals.
LEMMA NormalIs ==
    ASSUME NEW c \in ExactNormal
    PROVE  /\ NormalPayload(c) =
                 CoverageEnvelope(c.mission_id, FlattenSeq(GoalList(GoalField(c.ordered), GridFor(c))),
                                  Fresh(CountFor(c) + 1), Fresh(CountFor(c) + 2))
           /\ GridFor(c) \in Seq(Words) /\ GridFor(c) # <<>>
           /\ CountFor(c) \in Nat /\ CountFor(c) > 0 /\ Len(GridFor(c)) = CountFor(c)
           /\ GoalField(c.ordered) \in {1, 2}
<1> DEFINE s == SpecsFor(c)
           ts == RegionsFor(c)
           f(n) == Goal(Headed(MapIds[n], s[OfSpec(n, Len(s))]), ts[OfTarget(n, Len(s))])
<1>1. /\ Some(ts) /\ Len(ts) = Len(c.region_ids)
      /\ \A i \in 1..Len(c.region_ids) : ts[i] = RegionTarget(c.partition_id, c.region_ids[i])
  BY RegionsAre
<1>2. IsListed(s, c.cleaning_mode, SettingNumber(c), SettingNumber(c)) BY NormalListed
<1> HIDE DEF s, ts
<1>3. MapIds \in [Nat -> Words] BY FreshIds
<1>4. /\ Grid(MapIds, s, ts) \in Seq(Words) /\ Len(Grid(MapIds, s, ts)) = Len(ts) * Len(s)
      /\ Len(ts) * Len(s) \in Nat /\ Len(ts) * Len(s) >= 4
  <2>1. Some(ts) BY <1>1
  <2> QED BY ONLY <1>2, <1>3, <2>1, GridIs
<1>5. Len(s) \in {4, 8, 12} BY <1>2, ListedAre DEF IsListed, Amount
<1>6. Len(ts) \in Nat /\ Len(ts) > 0 BY <1>1, RegionsAre
<1>7. \A n \in 1..Len(ts) * Len(s) : OfTarget(n, Len(s)) \in 1..Len(ts) BY <1>5, <1>6, Places
<1>8. GridFor(c) = [n \in 1..Len(ts) * Len(s) |-> f(n)] BY DEF GridFor, Grid, s, ts
<1>9. \A n \in 1..Len(ts) * Len(s) :
        f(n) = GoalHeader(Fresh(n), s[1 + ((n - 1) % Len(s))]) \o
               Bytes(7, RegionTarget(c.partition_id, c.region_ids[1 + ((n - 1) \div Len(s))]))
  <2> TAKE n \in 1..Len(ts) * Len(s)
  <2>1. MapIds[n] = WrappedUuid(Fresh(n)) BY <1>4 DEF MapIds
  <2>2. ts[OfTarget(n, Len(s))] = RegionTarget(c.partition_id, c.region_ids[OfTarget(n, Len(s))])
    BY <1>1, <1>7
  <2> QED BY <2>1, <2>2 DEF Goal, Cat, Headed, GoalHeader, OfSpec, OfTarget
<1>10. CountFor(c) = Len(ts) * Len(s) BY <1>1 DEF CountFor, s
<1> DEFINE g(n) == GoalHeader(Fresh(n), s[1 + ((n - 1) % Len(s))]) \o
               Bytes(7, RegionTarget(c.partition_id, c.region_ids[1 + ((n - 1) \div Len(s))]))
           k == GoalField(c.ordered)
<1>11. NormalPayload(c) =
          CoverageEnvelope(c.mission_id, FlattenSeq([n \in 1..CountFor(c) |-> Bytes(k, g(n))]),
                           Fresh(CountFor(c) + 1), Fresh(CountFor(c) + 2))
  BY DEF NormalPayload, CountFor, SpecsFor, SettingNumber, s
<1> HIDE DEF f, g, k
<1>12. GoalList(k, GridFor(c)) = [n \in 1..CountFor(c) |-> Bytes(k, g(n))]
  <2>1. DOMAIN GridFor(c) = 1..CountFor(c) /\ \A n \in 1..CountFor(c) : GridFor(c)[n] = g(n)
    <3>1. \A n \in 1..Len(ts) * Len(s) : f(n) = g(n) BY <1>9 DEF f, g
    <3> QED BY <1>8, <1>10, <3>1
  <2> QED BY <2>1 DEF GoalList
<1>13. GridFor(c) # <<>> /\ GridFor(c) \in Seq(Words) /\ Len(GridFor(c)) = CountFor(c)
  BY <1>4, <1>10, EmptySeq DEF GridFor, s, ts
<1>14. GoalField(c.ordered) \in {1, 2} BY DEF GoalField
<1> QED BY <1>4, <1>10, <1>11, <1>12, <1>13, <1>14 DEF k

GoalsFor(c) == FlattenSeq(GoalList(GoalField(c.ordered), GridFor(c)))

\* The payload of a normal coverage is an envelope.
LEMMA NormalEnveloped ==
    ASSUME NEW c \in ExactNormal
    PROVE  Enveloped(NormalPayload(c), c.mission_id, GoalsFor(c), Fresh(CountFor(c) + 1))
<1> DEFINE f == GoalsFor(c)
           n == CountFor(c)
<1>1. /\ NormalPayload(c) = CoverageEnvelope(c.mission_id, f, Fresh(n + 1), Fresh(n + 2))
      /\ GridFor(c) \in Seq(Words) /\ n \in Nat /\ GoalField(c.ordered) \in {1, 2}
  BY NormalIs DEF GoalsFor
<1>2. f \in Words BY <1>1, GoalListTells DEF GoalsFor
<1> HIDE DEF f, n
<1>3. n + 1 \in Nat /\ n + 2 \in Nat BY <1>1
<1>4. Fresh(n + 1) \in Halves /\ Fresh(n + 2) \in Halves BY <1>3, FreshIds
<1>5. c.mission_id \in Int BY DEF ExactNormal
<1>6. Enveloped(NormalPayload(c), c.mission_id, f, Fresh(n + 1))
  BY <1>1, <1>2, <1>4, <1>5 DEF Enveloped
<1> QED BY <1>6 DEF f, n

\* _VerifiedNormalCoverageCodec.encode tells every argument of a normal
\* coverage.
LEMMA NormalTells ==
    ASSUME NEW c \in ExactNormal, NEW d \in ExactNormal
    PROVE  NormalPayload(c) = NormalPayload(d) => c = d
<1>4. ASSUME NormalPayload(c) = NormalPayload(d) PROVE c = d
  <2>1. c.mission_id = d.mission_id /\ GoalsFor(c) = GoalsFor(d)
    BY <1>4, NormalEnveloped, EnvelopedTells
  <2>2. /\ GridFor(c) \in Seq(Words) /\ GridFor(c) # <<>> /\ GoalField(c.ordered) \in {1, 2}
        /\ GridFor(d) \in Seq(Words) /\ GridFor(d) # <<>> /\ GoalField(d.ordered) \in {1, 2}
    BY NormalIs
  <2>3. GridFor(c) = GridFor(d) /\ GoalField(c.ordered) = GoalField(d.ordered)
    BY <2>1, <2>2, GoalListTells DEF GoalsFor
  <2>4. c.ordered = d.ordered BY <2>3 DEF GoalField, ExactNormal, Bools
  <2>5. /\ c.cleaning_mode = d.cleaning_mode
        /\ c.cleaning_mode # "mop" => SettingNumber(c) = SettingNumber(d)
        /\ c.cleaning_mode # "vacuum" => SettingNumber(c) = SettingNumber(d)
        /\ RegionsFor(c) = RegionsFor(d)
    <3>1. /\ IsListed(SpecsFor(c), c.cleaning_mode, SettingNumber(c), SettingNumber(c))
          /\ IsListed(SpecsFor(d), d.cleaning_mode, SettingNumber(d), SettingNumber(d))
          /\ Some(RegionsFor(c)) /\ Some(RegionsFor(d)) /\ MapIds \in [Nat -> Words]
      BY NormalListed, RegionsAre, FreshIds
    <3>2. Grid(MapIds, SpecsFor(c), RegionsFor(c)) = Grid(MapIds, SpecsFor(d), RegionsFor(d))
      BY <2>3 DEF GridFor
    <3> QED BY ONLY <3>1, <3>2, GridTells
  <2>6. SettingNumber(c) = SettingNumber(d) BY <2>5
  <2>7. c.coverage_setting = d.coverage_setting BY <2>6 DEF SettingNumber, ExactNormal
  <2>8. Len(c.region_ids) = Len(d.region_ids) /\ Len(c.region_ids) > 0 /\ Len(c.region_ids) \in Nat
    BY <2>5, RegionsAre
  <2>9. c.partition_id \in Halves /\ d.partition_id \in Halves
        /\ c.region_ids \in Seq(Halves) /\ d.region_ids \in Seq(Halves) BY DEF ExactNormal
  <2>10. ASSUME NEW i \in 1..Len(c.region_ids)
         PROVE  c.partition_id = d.partition_id /\ c.region_ids[i] = d.region_ids[i]
    <3>1. c.region_ids[i] \in Halves /\ d.region_ids[i] \in Halves BY <2>8, RegionsAre
    <3>2. RegionTarget(c.partition_id, c.region_ids[i]) = RegionTarget(d.partition_id, d.region_ids[i])
      BY <2>5, <2>8, RegionsAre
    <3> QED BY <2>9, <3>1, <3>2, RegionTells
  <2>11. c.partition_id = d.partition_id
    <3>1. 1 \in 1..Len(c.region_ids) BY <2>8
    <3> QED BY <2>10, <3>1
  <2>12. c.region_ids = d.region_ids BY <2>8, <2>9, <2>10, SeqEqual
  <2> QED BY <2>1, <2>4, <2>5, <2>7, <2>11, <2>12 DEF ExactNormal
<1> QED BY <1>4

\* A stain that is drawn on the map.
ExactStain ==
    [type: {"CoverageCommand"}, action: {"stain_mode"}, mission_id: Nat, partition_id: {None},
     region_ids: {<<>>}, cleaning_mode: {"vacuum_and_mop"}, coverage_setting: {"standard"},
     ordered: {"False"}, stain_mode: StainModes, circles: Seq(Drawn)]
Thrice == MopSpecs(0) \o MopSpecs(0) \o MopSpecs(0)
StainSpecs(c) == When(c.stain_mode = "dry_stain", VacuumSpecs(1)) \o Thrice

\* A dry stain has twenty specs, a wet spill twelve.
LEMMA StainSpecsAre ==
    ASSUME NEW c
    PROVE  /\ StainSpecs(c) \in Seq(CoverageGoalSpecs)
           /\ Len(StainSpecs(c)) = IF c.stain_mode = "dry_stain" THEN 20 ELSE 12
<1> DEFINE a == MopSpecs(0)
           b == VacuumSpecs(1)
<1>1. /\ a \in Seq(CoverageGoalSpecs) /\ Len(a) = 4
      /\ b \in Seq(CoverageGoalSpecs) /\ Len(b) = 8
  <2>1. 0 \in Settings /\ 1 \in Settings BY DEF Settings
  <2> QED BY <2>1, SpecLists
<1> HIDE DEF a, b
<1>2. a \o a \in Seq(CoverageGoalSpecs) /\ Len(a \o a) = 8
  <2>1. a \o a \in Seq(CoverageGoalSpecs) /\ Len(a \o a) = Len(a) + Len(a)
    BY <1>1, ConcatProperties
  <2> QED BY <1>1, <2>1
<1>3. (a \o a) \o a \in Seq(CoverageGoalSpecs) /\ Len((a \o a) \o a) = 12
  BY <1>1, <1>2, ConcatProperties
<1> DEFINE t == (a \o a) \o a
<1> HIDE DEF t
<1>4. t \in Seq(CoverageGoalSpecs) /\ Len(t) = 12 BY <1>3 DEF t
<1>5. StainSpecs(c) = When(c.stain_mode = "dry_stain", b) \o t BY DEF StainSpecs, Thrice, a, b, t
<1>6. CASE c.stain_mode = "dry_stain"
  <2>1. StainSpecs(c) = b \o t BY <1>5, <1>6 DEF When
  <2>2. b \o t \in Seq(CoverageGoalSpecs) /\ Len(b \o t) = Len(b) + Len(t)
    BY <1>1, <1>4, ConcatProperties
  <2>3. Len(b) + Len(t) = 20 BY <1>1, <1>4
  <2> QED BY <1>6, <2>1, <2>2, <2>3
<1>7. CASE c.stain_mode # "dry_stain"
  <2>1. StainSpecs(c) = <<>> \o t BY <1>5, <1>7 DEF When
  <2>2. StainSpecs(c) = t BY <1>4, <2>1, ConcatEmptySeq
  <2> QED BY <1>4, <1>7, <2>2
<1> QED BY <1>6, <1>7

StainGoals(c) ==
    [n \in 1..Len(StainSpecs(c)) |->
        Goal(GoalHeader(Fresh(n + 2), StainSpecs(c)[n]), DrawnAreaTarget(Fresh(2), c.circles))]

\* The goals of a stain: one for each spec, each on the same area.
LEMMA StainGoalsAre ==
    ASSUME NEW c \in ExactStain
    PROVE  /\ StainGoals(c) \in Seq(Words) /\ Len(StainGoals(c)) = Len(StainSpecs(c))
           /\ 1 \in 1..Len(StainSpecs(c))
           /\ \A n \in 1..Len(StainSpecs(c)) :
                 GoalHeader(Fresh(n + 2), StainSpecs(c)[n]) \in Items(6)
           /\ DrawnAreaTarget(Fresh(2), c.circles) \in Words
           /\ StainGoals(c)[1] = Goal(GoalHeader(Fresh(1 + 2), StainSpecs(c)[1]),
                                      DrawnAreaTarget(Fresh(2), c.circles))
<1> DEFINE s == StainSpecs(c)
           t == DrawnAreaTarget(Fresh(2), c.circles)
           f(n) == Goal(GoalHeader(Fresh(n + 2), s[n]), t)
<1>1. s \in Seq(CoverageGoalSpecs) /\ Len(s) \in {12, 20} BY StainSpecsAre
<1> DEFINE l == Len(s)
<1>2. Len(s) \in Nat /\ 1 \in 1..Len(s) /\ \A n \in 1..Len(s) : n + 2 \in Nat
  <2>1. l \in {12, 20} BY <1>1
  <2> HIDE DEF l
  <2>2. l \in Nat /\ 1 \in 1..l /\ \A n \in 1..l : n + 2 \in Nat BY <2>1
  <2> QED BY <2>2 DEF l
<1>3. t \in Words
  <2>1. c.circles \in Seq(Drawn) BY DEF ExactStain
  <2>2. 2 \in Nat OBVIOUS
  <2>3. Fresh(2) \in Halves BY <2>2, FreshIds
  <2> QED BY <2>1, <2>3, AreaTells
<1>4. StainGoals(c) = [n \in 1..Len(s) |-> f(n)] BY DEF StainGoals
<1> HIDE DEF s, t
<1>5. \A n \in 1..Len(s) : GoalHeader(Fresh(n + 2), s[n]) \in Items(6)
  BY <1>1, <1>2, ElementOfSeq, FreshIds, HeaderTells
<1>6. \A n \in 1..Len(s) : f(n) \in Words BY <1>3, <1>5, GoalTells
<1> HIDE DEF f
<1>7. StainGoals(c) \in Seq(Words) /\ Len(StainGoals(c)) = Len(s) BY <1>2, <1>4, <1>6, IsASeq
<1>8. StainGoals(c)[1] = f(1) BY <1>2, <1>4
<1> QED BY <1>2, <1>3, <1>5, <1>7, <1>8 DEF s, t, f

StainList(c) == FlattenSeq(GoalList(2, StainGoals(c)))

\* The payload of a stain is an envelope.
LEMMA StainEnveloped ==
    ASSUME NEW c \in ExactStain
    PROVE  Enveloped(StainPayload(c), c.mission_id, StainList(c), Fresh(1))
<1> DEFINE s == StainSpecs(c)
           t == DrawnAreaTarget(Fresh(2), c.circles)
           g(n) == Bytes(2, GoalHeader(Fresh(n + 2), s[n]) \o Bytes(7, t))
<1>1. StainPayload(c) = CoverageEnvelope(c.mission_id, FlattenSeq([n \in 1..Len(s) |-> g(n)]),
                                         Fresh(1), Fresh(Len(s) + 3))
  BY DEF StainPayload, StainSpecs, Thrice
<1>2. GoalList(2, StainGoals(c)) = [n \in 1..Len(s) |-> g(n)]
  BY DEF GoalList, StainGoals, Goal, Cat
<1>3. StainList(c) \in Words
  <2>1. 2 \in {1, 2} OBVIOUS
  <2> QED BY <2>1, StainGoalsAre, GoalListTells DEF StainList
<1>4. Len(s) \in {12, 20} BY StainSpecsAre
<1> HIDE DEF s, t, g
<1>5. Len(s) + 3 \in Nat /\ 1 \in Nat BY <1>4
<1>6. Fresh(Len(s) + 3) \in Halves /\ Fresh(1) \in Halves BY <1>5, FreshIds
<1>7. c.mission_id \in Int BY DEF ExactStain
<1> QED BY <1>1, <1>2, <1>3, <1>6, <1>7 DEF Enveloped, StainList

\* _VerifiedStainCoverageCodec.encode tells every argument of a stain.
LEMMA StainTells ==
    ASSUME NEW c \in ExactStain, NEW d \in ExactStain, StainPayload(c) = StainPayload(d)
    PROVE  c = d
<1>1. c.mission_id = d.mission_id /\ StainList(c) = StainList(d)
  BY StainEnveloped, EnvelopedTells
<1>2. StainGoals(c) = StainGoals(d)
  <2>1. 2 \in {1, 2} OBVIOUS
  <2>2. StainGoals(c) \in Seq(Words) /\ StainGoals(d) \in Seq(Words) BY StainGoalsAre
  <2> QED BY <1>1, <2>1, <2>2, GoalListTells DEF StainList
<1>3. c.stain_mode = d.stain_mode
  <2>1. PICK m, n : m = Len(StainSpecs(c)) /\ n = Len(StainSpecs(d)) OBVIOUS
  <2>2. m = n BY <1>2, <2>1, StainGoalsAre
  <2>3. m = IF c.stain_mode = "dry_stain" THEN 20 ELSE 12 BY <2>1, StainSpecsAre
  <2>4. n = IF d.stain_mode = "dry_stain" THEN 20 ELSE 12 BY <2>1, StainSpecsAre
  <2>5. 20 # 12 OBVIOUS
  <2>6. c.stain_mode = "dry_stain" <=> d.stain_mode = "dry_stain"
    BY ONLY <2>2, <2>3, <2>4, <2>5
  <2>7. c.stain_mode \in StainModes /\ d.stain_mode \in StainModes BY DEF ExactStain
  <2> QED BY <2>6, <2>7 DEF StainModes
<1>4. c.circles = d.circles
  <2> DEFINE t == DrawnAreaTarget(Fresh(2), c.circles)
             u == DrawnAreaTarget(Fresh(2), d.circles)
             h == GoalHeader(Fresh(1 + 2), StainSpecs(c)[1])
             k == GoalHeader(Fresh(1 + 2), StainSpecs(d)[1])
  <2>1. /\ StainGoals(c)[1] = Goal(h, t) /\ h \in Items(6) /\ t \in Words BY StainGoalsAre
  <2>2. /\ StainGoals(d)[1] = Goal(k, u) /\ k \in Items(6) /\ u \in Words BY StainGoalsAre
  <2> HIDE DEF t, u, h, k
  <2>3. t = u BY <1>2, <2>1, <2>2, GoalTells
  <2>4. DrawnAreaTarget(Fresh(2), c.circles) = DrawnAreaTarget(Fresh(2), d.circles)
    BY <2>3 DEF t, u
  <2>5. 2 \in Nat /\ c.circles \in Seq(Drawn) /\ d.circles \in Seq(Drawn) BY DEF ExactStain
  <2>6. Fresh(2) \in Halves BY <2>5, FreshIds
  <2> QED BY <2>4, <2>5, <2>6, AreaTells
<1> QED BY <1>1, <1>3, <1>4 DEF ExactStain

\* A reprioritization.
IsReprioritize(c) ==
    /\ c.type = "ReprioritizeCoverageCommand" /\ c.mission_id \in Nat
    /\ c.goals \in Seq(CoveragePlanGoals) /\ c.ordered \in Bools
    /\ c.current_session_id = Session

\* The goals of a reprioritization are goals of a plan.
LEMMA TransformedIs ==
    ASSUME NEW c, IsReprioritize(c)
    PROVE  Transformed(c) \in Seq(CoveragePlanGoals)
<1>1. PICK goals, here, selected : goals = c.goals /\ here = c.current_region_id
                                   /\ selected = c.selected_region_id
  OBVIOUS
<1>2. goals \in Seq(CoveragePlanGoals) BY <1>1 DEF IsReprioritize
<1>3. Outside(goals, here) \in Seq(CoveragePlanGoals) /\ Inside(goals, here) \in Seq(CoveragePlanGoals)
  BY <1>2, FilterTypes
<1>4. Prioritized(goals, here, selected) \in Seq(CoveragePlanGoals)
  <2>1. PICK a, b \in Seq(CoveragePlanGoals) :
           Prioritized(goals, here, selected) = (a \o Inside(goals, here)) \o b
    <3>1. MovesBehind(goals, here, selected) BY <1>2, PrioritizedIs
    <3> QED BY <3>1 DEF MovesBehind
  <2>2. a \o Inside(goals, here) \in Seq(CoveragePlanGoals) BY <1>3, <2>1, ConcatProperties
  <2> QED BY <2>1, <2>2, ConcatProperties
<1> QED BY <1>1, <1>2, <1>3, <1>4 DEF Transformed

\* A goal of a plan is written back as it was read: its identifier, spec and
\* target are told.
LEMMA PlanGoalTells ==
    ASSUME NEW g \in CoveragePlanGoals, NEW h \in CoveragePlanGoals
    PROVE  PlanGoal(g) \in Words /\ (PlanGoal(g) = PlanGoal(h) => g = h)
<1> DEFINE A(e) == GoalHeader(e.goal_id, e.spec)
           B(e) == RegionTarget(e.partition_id, e.region_id)
<1>1. /\ g.goal_id \in Halves /\ g.spec \in CoverageGoalSpecs /\ g.partition_id \in Halves
      /\ g.region_id \in Halves
      /\ h.goal_id \in Halves /\ h.spec \in CoverageGoalSpecs /\ h.partition_id \in Halves
      /\ h.region_id \in Halves
  BY DEF CoveragePlanGoals
<1>2. /\ A(g) \in Items(6) /\ A(h) \in Items(6)
      /\ A(g) = A(h) => g.goal_id = h.goal_id /\ g.spec = h.spec
  BY <1>1, HeaderTells
<1>3. /\ B(g) \in Words /\ B(h) \in Words
      /\ B(g) = B(h) => g.partition_id = h.partition_id /\ g.region_id = h.region_id
  BY <1>1, RegionTells
<1>4. PlanGoal(g) = Goal(A(g), B(g)) /\ PlanGoal(h) = Goal(A(h), B(h)) BY DEF PlanGoal, Goal, Cat
<1> HIDE DEF A, B
<1>5. PlanGoal(g) \in Words /\ (PlanGoal(g) = PlanGoal(h) => A(g) = A(h) /\ B(g) = B(h))
  BY <1>2, <1>3, <1>4, GoalTells
<1> QED BY <1>2, <1>3, <1>5 DEF CoveragePlanGoals

\* The goals of a plan are told, and so is that there are none.
LEMMA PlanGoalsTell ==
    ASSUME NEW gs \in Seq(CoveragePlanGoals), NEW hs \in Seq(CoveragePlanGoals)
    PROVE  PlanGoalsOf(gs) \in Seq(Words) /\ (PlanGoalsOf(gs) = PlanGoalsOf(hs) => gs = hs)
           /\ (PlanGoalsOf(gs) = <<>> <=> gs = <<>>)
<1>1. ASSUME NEW fs \in Seq(CoveragePlanGoals)
      PROVE  /\ PlanGoalsOf(fs) \in Seq(Words) /\ Len(PlanGoalsOf(fs)) = Len(fs)
             /\ \A i \in 1..Len(fs) : fs[i] \in CoveragePlanGoals /\ PlanGoalsOf(fs)[i] = PlanGoal(fs[i])
  <2>1. Len(fs) \in Nat /\ DOMAIN fs = 1..Len(fs) /\ \A i \in 1..Len(fs) : fs[i] \in CoveragePlanGoals
    BY LenProperties, ElementOfSeq
  <2>2. \A i \in 1..Len(fs) : PlanGoal(fs[i]) \in Words BY <2>1, PlanGoalTells
  <2> QED BY <2>1, <2>2, IsASeq DEF PlanGoalsOf
<1>2. ASSUME PlanGoalsOf(gs) = PlanGoalsOf(hs) PROVE gs = hs
  <2>1. Len(gs) = Len(hs) BY <1>1, <1>2
  <2>2. \A i \in 1..Len(gs) : gs[i] = hs[i]
    <3> TAKE i \in 1..Len(gs)
    <3>1. gs[i] \in CoveragePlanGoals /\ hs[i] \in CoveragePlanGoals
          /\ PlanGoal(gs[i]) = PlanGoal(hs[i]) BY <1>1, <1>2, <2>1
    <3> QED BY <3>1, PlanGoalTells
  <2> QED BY <2>1, <2>2, SeqEqual
<1>3. PlanGoalsOf(gs) = <<>> <=> gs = <<>> BY <1>1, EmptySeq
<1> QED BY <1>1, <1>2, <1>3

ReprioritizeList(c) == FlattenSeq(GoalList(GoalField(c.ordered), PlanGoalsOf(Transformed(c))))

\* The payload of a reprioritization is an envelope.
LEMMA ReprioritizeEnveloped ==
    ASSUME NEW c, IsReprioritize(c)
    PROVE  Enveloped(ReprioritizePayload(c), c.mission_id, ReprioritizeList(c), Session)
<1> DEFINE gs == Transformed(c)
           k == GoalField(c.ordered)
<1>1. gs \in Seq(CoveragePlanGoals) BY TransformedIs
<1>2. k \in {1, 2} BY DEF GoalField
<1>3. /\ c.mission_id \in Int /\ c.current_session_id = Session BY DEF IsReprioritize
<1>4. ReprioritizePayload(c) =
         CoverageEnvelope(c.mission_id, FlattenSeq([i \in DOMAIN gs |-> Bytes(k, PlanGoal(gs[i]))]),
                          Session, Fresh(1))
  BY <1>3 DEF ReprioritizePayload
<1>5. ReprioritizeList(c) = FlattenSeq(GoalList(k, PlanGoalsOf(gs))) BY DEF ReprioritizeList
<1> HIDE DEF gs, k
<1>6. GoalList(k, PlanGoalsOf(gs)) = [i \in DOMAIN gs |-> Bytes(k, PlanGoal(gs[i]))]
  BY DEF GoalList, PlanGoalsOf
<1>7. ReprioritizeList(c) \in Words BY <1>1, <1>2, <1>5, PlanGoalsTell, GoalListTells
<1>8. 1 \in Nat /\ Session \in Halves BY DEF Session, Halves
<1>9. Fresh(1) \in Halves BY <1>8, FreshIds
<1> QED BY <1>3, <1>4, <1>5, <1>6, <1>7, <1>8, <1>9 DEF Enveloped

\* _VerifiedReprioritizeCoverageCodec.encode tells the goals as they are
\* transformed and the mission, so it tells what is asked.
LEMMA ReprioritizeTells ==
    ASSUME NEW c, NEW d, IsReprioritize(c), IsReprioritize(d),
           ReprioritizePayload(c) = ReprioritizePayload(d)
    PROVE  Intent(c) = Intent(d)
<1>1. c.mission_id = d.mission_id /\ ReprioritizeList(c) = ReprioritizeList(d)
  BY ReprioritizeEnveloped, EnvelopedTells
<1>2. Transformed(c) \in Seq(CoveragePlanGoals) /\ Transformed(d) \in Seq(CoveragePlanGoals)
  BY TransformedIs
<1>3. /\ PlanGoalsOf(Transformed(c)) \in Seq(Words) /\ PlanGoalsOf(Transformed(d)) \in Seq(Words)
      /\ PlanGoalsOf(Transformed(c)) = PlanGoalsOf(Transformed(d)) => Transformed(c) = Transformed(d)
      /\ PlanGoalsOf(Transformed(c)) = <<>> <=> Transformed(c) = <<>>
  BY <1>2, PlanGoalsTell
<1>4. GoalField(c.ordered) \in {1, 2} /\ GoalField(d.ordered) \in {1, 2} BY DEF GoalField
<1>5. /\ PlanGoalsOf(Transformed(c)) = PlanGoalsOf(Transformed(d))
      /\ PlanGoalsOf(Transformed(c)) # <<>> => GoalField(c.ordered) = GoalField(d.ordered)
  BY <1>1, <1>3, <1>4, GoalListTells DEF ReprioritizeList
<1>6. Transformed(c) = Transformed(d) BY <1>3, <1>5
<1>7. Transformed(c) # <<>> => c.ordered = d.ordered
  BY <1>3, <1>5 DEF GoalField, IsReprioritize, Bools
<1>8. ASSUME NEW e, IsReprioritize(e)
      PROVE  Intent(e) = [type |-> e.type, mission |-> e.mission_id, session |-> e.current_session_id,
                          plan |-> Transformed(e),
                          ordered |-> Transformed(e) # <<>> /\ e.ordered = "True"]
  BY <1>8 DEF Intent, IsReprioritize
<1>9. c.type = d.type /\ c.current_session_id = d.current_session_id BY DEF IsReprioritize
<1>10. (Transformed(c) # <<>> /\ c.ordered = "True") = (Transformed(d) # <<>> /\ d.ordered = "True")
  BY <1>6, <1>7
<1> QED BY <1>1, <1>6, <1>8, <1>9, <1>10

\* The three kinds of coverage are told apart by their sessions.
LEMMA CoverageApart ==
    /\ \A c \in ExactNormal, d \in ExactStain : NormalPayload(c) # StainPayload(d)
    /\ \A c \in ExactNormal : \A d : IsReprioritize(d) => NormalPayload(c) # ReprioritizePayload(d)
    /\ \A c \in ExactStain : \A d : IsReprioritize(d) => StainPayload(c) # ReprioritizePayload(d)
<1>1. \A n : Fresh(n) # Session BY DEF Fresh, Session
<1>2. ASSUME NEW c \in ExactNormal, NEW d \in ExactStain PROVE NormalPayload(c) # StainPayload(d)
  <2>1. CountFor(c) + 1 \in Nat /\ 1 \in Nat /\ CountFor(c) + 1 # 1 BY NormalIs
  <2>2. Fresh(CountFor(c) + 1) # Fresh(1) BY <2>1, FreshIds
  <2> QED BY <2>2, NormalEnveloped, StainEnveloped, EnvelopedTells
<1>3. ASSUME NEW c \in ExactNormal, NEW d, IsReprioritize(d)
      PROVE  NormalPayload(c) # ReprioritizePayload(d)
  BY <1>1, <1>3, NormalEnveloped, ReprioritizeEnveloped, EnvelopedTells
<1>4. ASSUME NEW c \in ExactStain, NEW d, IsReprioritize(d)
      PROVE  StainPayload(c) # ReprioritizePayload(d)
  BY <1>1, <1>4, StainEnveloped, ReprioritizeEnveloped, EnvelopedTells
<1> QED BY <1>2, <1>3, <1>4

\* The payload of each type of command, and what its codec looks at.
LEMMA MotionPayloads ==
    ASSUME NEW c
    PROVE  /\ c.type = "UserCommand" => Payload(c) = UserPayload(c) /\ Accepts(c) = UserAccepts(c)
           /\ c.type = "JoystickCommand" =>
                 Payload(c) = JoystickPayload(c) /\ Accepts(c) = JoystickAccepts(c)
           /\ c.type = "NavigationCommand" =>
                 Payload(c) = NavigationPayload(c) /\ Accepts(c) = NavigationAccepts(c)
           /\ c.type = "CleaningCommand" =>
                 Payload(c) = CleaningPayload(c) /\ Accepts(c) = CleaningAccepts(c)
           /\ c.type = "RawMotorCommand" =>
                 Payload(c) = RawMotorPayload(c) /\ Accepts(c) = RawMotorAccepts(c)
BY DEF Payload, Accepts

\* The payload and the checks of the two coverage models, by the arm of the
\* registry that is theirs.
LEMMA CoveragePayloads ==
    ASSUME NEW c
    PROVE  /\ c.type = "CoverageCommand" /\ c.action = "normal" =>
                 Payload(c) = NormalPayload(c) /\ Accepts(c) = NormalAccepts(c)
           /\ c.type = "CoverageCommand" /\ c.action = "stain_mode" =>
                 Payload(c) = StainPayload(c) /\ Accepts(c) = StainAccepts(c)
           /\ c.type = "ReprioritizeCoverageCommand" =>
                 Payload(c) = ReprioritizePayload(c) /\ Accepts(c) = ReprioritizeAccepts(c)
           /\ c.type = "MapEnvironmentCommand" =>
                 Payload(c) = MapPayload(c) /\ Accepts(c) = MapAccepts(c)
           /\ c.type = "ScheduleCommand" =>
                 Payload(c) = SchedulePayload(c) /\ Accepts(c) = ScheduleAccepts(c)
BY DEF Payload, Accepts

\* The payload and the checks of the device's models, by the arm of the
\* registry that is theirs.
LEMMA DevicePayloads ==
    ASSUME NEW c
    PROVE  /\ c.type = "WifiCommand" => Payload(c) = WifiPayload(c) /\ Accepts(c) = WifiAccepts(c)
           /\ c.type = "DeviceCommand" =>
                 Payload(c) = DevicePayload(c) /\ Accepts(c) = DeviceAccepts(c)
           /\ c.type = "SweeperMaintenanceCommand" =>
                 Payload(c) = SweeperMaintenancePayload(c)
                 /\ Accepts(c) = SweeperMaintenanceAccepts(c)
           /\ c.type = "BrushRollJamResponseCommand" =>
                 Payload(c) = BrushRollJamResponsePayload(c)
                 /\ Accepts(c) = BrushRollJamResponseAccepts(c)
           /\ c.type = "BrushRollJamOutcomeDismissCommand" => Payload(c) = <<>> /\ Accepts(c)
           /\ c.type = "LifecycleCommand" => Payload(c) = LifecyclePayload(c) /\ Accepts(c)
BY DEF Payload, Accepts

\* The payload and the checks of the settings' models, by the arm of the
\* registry that is theirs.
LEMMA SettingPayloads ==
    ASSUME NEW c
    PROVE  /\ c.type = "SettingsCommand" =>
                 Payload(c) = SettingsPayload(c) /\ Accepts(c) = SettingsAccepts(c)
           /\ c.type = "DeepMopOverrideCommand" =>
                 Payload(c) = DeepMopOverridePayload(c) /\ Accepts(c) = DeepMopOverrideAccepts(c)
           /\ c.type = "WaterFlowOverrideCommand" =>
                 Payload(c) = WaterFlowOverridePayload(c)
                 /\ Accepts(c) = WaterFlowOverrideAccepts(c)
           /\ c.type = "MediaCommand" =>
                 Payload(c) = MediaPayload(c) /\ Accepts(c) = MediaAccepts(c)
           /\ c.type = "UserAudioRecordingCommand" =>
                 Payload(c) = UserAudioRecordingPayload(c)
                 /\ Accepts(c) = UserAudioRecordingAccepts(c)
           /\ c.type = "TelemetryCommand" =>
                 Payload(c) = TelemetryPayload(c) /\ Accepts(c) = TelemetryAccepts(c)
           /\ c.type = "LiveActivityRegistrationCommand" =>
                 Payload(c) = LiveActivityRegistrationPayload(c)
                 /\ Accepts(c) = LiveActivityRegistrationAccepts(c)
BY DEF Payload, Accepts

\* Everything in a command counts, but for the three models whose requests
\* say one thing in two ways.
LEMMA IntentIs ==
    ASSUME NEW c, c.type \notin {"MapEnvironmentCommand", "ScheduleCommand",
                                 "ReprioritizeCoverageCommand"}
    PROVE  Intent(c) = c
BY DEF Intent
==============================================================================
