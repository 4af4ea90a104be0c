-------------------------- MODULE GrpcFramingProofs --------------------------
(***************************************************************************)
(* The decoder for any stream of bytes, cut anywhere, and any limit: the   *)
(* bound on what it holds between two calls, what it has returned at any   *)
(* moment, and how it judges the end of the stream.  Concatenations are    *)
(* reasoned about by induction over a set of numbers (EveryNumber).        *)
(***************************************************************************)
EXTENDS GrpcFraming, SequenceTheorems, WellFoundedInduction, TLAPS

(* Numbers and concatenations.                                              *)

(* Every nonempty set of numbers has a least element.                       *)
LEMMA LeastNumber ==
    ASSUME NEW T \in SUBSET Nat, T # {}
    PROVE  \E x \in T : \A y \in T : x <= y
<1>1. PICK x \in T : \A y \in T : ~ (<<y, x>> \in OpToRel(<, Nat))
  BY NatLessThanWellFounded, WFMin
<1>2. \A y \in T : ~(y < x) BY <1>1 DEF OpToRel
<1> QED BY <1>2

(* Induction over a set of numbers.                                         *)
LEMMA EveryNumber ==
    ASSUME NEW T \in SUBSET Nat, 0 \in T, \A n \in T : n + 1 \in T
    PROVE  T = Nat
<1>1. SUFFICES ASSUME Nat \ T # {} PROVE FALSE OBVIOUS
<1>2. PICK x \in Nat \ T : \A y \in Nat \ T : x <= y BY <1>1, LeastNumber
<1>3. x - 1 \in Nat /\ x - 1 < x BY <1>2
<1>4. x - 1 \in T BY <1>2, <1>3
<1> QED BY <1>2, <1>4

(* f[i] is the concatenation of the first i sequences.                      *)
Joins(f, seqs) ==
    f = [i \in 1..Len(seqs) |-> IF i = 1 THEN seqs[i] ELSE f[i - 1] \o seqs[i]]

(* FlattenSeq takes the last value of such a function,                      *)
LEMMA FlattenIsJoin ==
    ASSUME NEW seqs, Len(seqs) # 0
    PROVE  FlattenSeq(seqs) = (CHOOSE f : Joins(f, seqs))[Len(seqs)]
BY DEF FlattenSeq, Joins
(* which exists,                                                             *)
LEMMA JoinExists ==
    ASSUME NEW seqs \in Seq(Seq(Byte))
    PROVE  \E f \in [1..Len(seqs) -> Seq(Byte)] : Joins(f, seqs)
<1> DEFINE Step(f, i) == IF i = 1 THEN seqs[i] ELSE f[i - 1] \o seqs[i]
           P(n) == \E f \in [1..n -> Seq(Byte)] : \A i \in 1..n : f[i] = Step(f, i)
           T == {n \in Nat : n <= Len(seqs) => P(n)}
<1>1. 0 \in T
  <2>1. P(0)
    <3>1. [i \in 1..0 |-> <<>>] \in [1..0 -> Seq(Byte)] OBVIOUS
    <3>2. 1..0 = {} OBVIOUS
    <3> QED BY <3>1, <3>2
  <2> HIDE DEF P
  <2> QED BY <2>1
<1>2. ASSUME NEW n \in T PROVE n + 1 \in T
  <2>1. n \in Nat OBVIOUS
  <2>2. SUFFICES ASSUME n + 1 <= Len(seqs) PROVE P(n + 1)
    <3> HIDE DEF P
    <3> QED BY <2>1
  <2>3. PICK f \in [1..n -> Seq(Byte)] : \A i \in 1..n : f[i] = Step(f, i)
    BY <2>1, <2>2
  <2>4. n + 1 \in 1..Len(seqs) /\ seqs[n + 1] \in Seq(Byte) BY <2>1, <2>2
  <2> DEFINE last == Step(f, n + 1)
             g == [i \in 1..(n + 1) |-> IF i = n + 1 THEN last ELSE f[i]]
  <2>5. last \in Seq(Byte)
    <3>1. CASE n = 0 BY <2>4, <3>1
    <3>2. CASE n # 0
      <4>1. n \in 1..n /\ n + 1 # 1 /\ n + 1 - 1 = n BY <2>1, <3>2
      <4>2. f[n] \in Seq(Byte) BY <4>1
      <4>3. last = f[n] \o seqs[n + 1] BY <4>1
      <4> HIDE DEF last
      <4> QED BY <4>2, <4>3, <2>4
    <3> QED BY <3>1, <3>2
  <2>6. g \in [1..(n + 1) -> Seq(Byte)]
    <3> HIDE DEF last
    <3> QED BY <2>1, <2>5
  <2>7. ASSUME NEW i \in 1..(n + 1) PROVE g[i] = Step(g, i)
    <3>1. CASE i = 1
      <4>1. CASE n = 0 BY <3>1, <4>1
      <4>2. CASE n # 0
        <5>1. g[1] = f[1] BY <4>2, <2>1
        <5>2. 1 \in 1..n BY <4>2, <2>1
        <5>3. f[1] = seqs[1] BY <2>3, <5>2
        <5> QED BY <3>1, <5>1, <5>3
      <4> QED BY <4>1, <4>2
    <3>2. CASE i # 1
      <4>1. i - 1 \in 1..n /\ i - 1 \in 1..(n + 1) /\ i - 1 # n + 1 BY <2>1, <3>2
      <4>2. g[i - 1] = f[i - 1] BY <4>1
      <4>3. CASE i = n + 1 BY <3>2, <4>2, <4>3
      <4>4. CASE i # n + 1
        <5>1. i \in 1..n BY <2>1, <4>4
        <5>2. g[i] = f[i] BY <4>4
        <5>3. f[i] = f[i - 1] \o seqs[i] BY <2>3, <3>2, <5>1
        <5> QED BY <3>2, <4>2, <5>2, <5>3
      <4> QED BY <4>3, <4>4
    <3> QED BY <3>1, <3>2
  <2> HIDE DEF g, Step
  <2> QED BY <2>6, <2>7
<1>3. T = Nat
  <2> HIDE DEF P
  <2> SUFFICES /\ T \in SUBSET Nat
               /\ 0 \in T
               /\ \A n \in T : n + 1 \in T
    BY EveryNumber
  <2> HIDE DEF T
  <2>1. T \in SUBSET Nat BY DEF T
  <2> QED BY <1>1, <1>2, <2>1
<1>4. P(Len(seqs))
  <2> HIDE DEF P
  <2>1. Len(seqs) \in Nat BY LenProperties
  <2>2. Len(seqs) \in T BY <1>3, <2>1
  <2> QED BY <2>1, <2>2
<1>5. PICK f \in [1..Len(seqs) -> Seq(Byte)] : \A i \in 1..Len(seqs) : f[i] = Step(f, i)
  BY <1>4
<1>6. f = [i \in 1..Len(seqs) |-> Step(f, i)]
  <2> HIDE DEF Step
  <2> QED BY <1>5
<1> QED BY <1>6 DEF Joins
(* One element of such a function from the one before it.                    *)
LEMMA JoinStep ==
    ASSUME NEW s, NEW f, Len(s) \in Nat, Joins(f, s), NEW i \in 1..Len(s)
    PROVE  f[i] = IF i = 1 THEN s[i] ELSE f[i - 1] \o s[i]
<1> DEFINE F(j) == IF j = 1 THEN s[j] ELSE f[j - 1] \o s[j]
<1>1. f = [j \in 1..Len(s) |-> F(j)] BY DEF Joins
<1>2. f[i] = F(i)
  <2> HIDE DEF F
  <2> QED BY <1>1
<1> QED BY <1>2

(* Two functions agree up to n.                                              *)
Agree(s, t, n) == \A i \in 1..n : s[i] = t[i]

(* Two functions that join the same sequences agree as far as both go.       *)
LEMMA JoinsAgree ==
    ASSUME NEW s, NEW t, NEW f, NEW g, NEW n \in Nat,
           n <= Len(s), n <= Len(t), Len(s) \in Nat, Len(t) \in Nat,
           Agree(s, t, n), Joins(f, s), Joins(g, t)
    PROVE  Agree(f, g, n)
<1> DEFINE T == {i \in Nat : i \in 1..n => f[i] = g[i]}
<1>1. 0 \in T OBVIOUS
<1>2. ASSUME NEW i \in T PROVE i + 1 \in T
  <2>1. i \in Nat OBVIOUS
  <2>2. SUFFICES ASSUME i + 1 \in 1..n PROVE f[i + 1] = g[i + 1] BY <2>1
  <2> DEFINE k == i + 1
  <2>3. k \in 1..Len(s) /\ k \in 1..Len(t) /\ s[k] = t[k] /\ k - 1 = i BY <2>1, <2>2 DEF Agree
  <2>4. i # 0 => f[i] = g[i] BY <2>1, <2>2
  <2>5. k = 1 <=> i = 0 BY <2>1
  <2> HIDE DEF k
  <2>6. f[k] = IF k = 1 THEN s[k] ELSE f[k - 1] \o s[k] BY <2>3, JoinStep
  <2>7. g[k] = IF k = 1 THEN t[k] ELSE g[k - 1] \o t[k] BY <2>3, JoinStep
  <2>8. CASE k = 1
    <3>1. f[k] = s[k] /\ g[k] = t[k] BY <2>6, <2>7, <2>8
    <3> QED BY <2>3, <3>1 DEF k
  <2>9. CASE k # 1
    <3>1. f[k] = f[k - 1] \o s[k] BY <2>6, <2>9
    <3>2. g[k] = g[k - 1] \o t[k] BY <2>7, <2>9
    <3>3. f[k - 1] = g[k - 1] BY <2>3, <2>4, <2>5, <2>9
    <3> QED BY <2>3, <3>1, <3>2, <3>3 DEF k
  <2> QED BY <2>8, <2>9
<1>3. T = Nat
  <2>1. T \in SUBSET Nat OBVIOUS
  <2> HIDE DEF T
  <2> QED BY <1>1, <1>2, <2>1, EveryNumber
<1> QED BY <1>3 DEF Agree

(* The first n sequences, concatenated: one more appends to it.              *)
First(seqs, n) == [i \in 1..n |-> seqs[i]]

LEMMA FlattenFirst ==
    ASSUME NEW seqs \in Seq(Seq(Byte))
    PROVE  /\ FlattenSeq(First(seqs, 0)) = <<>>
           /\ \A n \in 1..Len(seqs) : FlattenSeq(First(seqs, n)) \in Seq(Byte)
           /\ \A n \in 0..Len(seqs) - 1 :
                 FlattenSeq(First(seqs, n + 1)) = FlattenSeq(First(seqs, n)) \o seqs[n + 1]
<1> USE DEF First
<1>1. Len(seqs) \in Nat BY LenProperties
<1>2. ASSUME NEW n \in 1..Len(seqs)
      PROVE  /\ First(seqs, n) \in Seq(Seq(Byte)) /\ Len(First(seqs, n)) = n
             /\ \A i \in 1..n : First(seqs, n)[i] = seqs[i]
  BY <1>1, IsASeq
<1>3. ASSUME NEW n \in 1..Len(seqs)
      PROVE  \E f \in [1..n -> Seq(Byte)] :
               Joins(f, First(seqs, n)) /\ FlattenSeq(First(seqs, n)) = f[n]
  <2> HIDE DEF First
  <2> DEFINE s == First(seqs, n)
  <2>1. Len(s) = n /\ Len(s) # 0 /\ s \in Seq(Seq(Byte)) BY <1>2
  <2>2. PICK f \in [1..n -> Seq(Byte)] : Joins(f, s)
    <3> HIDE DEF s
    <3> QED BY <2>1, JoinExists
  <2>3. Joins(CHOOSE g : Joins(g, s), s)
    <3> HIDE DEF s
    <3> QED BY <2>2
  <2>4. FlattenSeq(s) = (CHOOSE g : Joins(g, s))[Len(s)]
    <3> HIDE DEF s
    <3> QED BY <2>1, FlattenIsJoin
  <2>5. \A i \in 1..n : f[i] = (CHOOSE g : Joins(g, s))[i]
    <3> HIDE DEF s
    <3> DEFINE h == CHOOSE g : Joins(g, s)
    <3>1. Joins(h, s) BY <2>3
    <3> HIDE DEF h
    <3>2. n \in Nat /\ n <= Len(s) /\ Len(s) \in Nat BY <1>1, <2>1
    <3>3. Agree(s, s, n) BY DEF Agree
    <3>4. Agree(f, h, n) BY <2>2, <3>1, <3>2, <3>3, JoinsAgree
    <3> QED BY <3>4 DEF h, Agree
  <2>6. n \in 1..n BY <1>1
  <2> QED BY <2>1, <2>2, <2>4, <2>5, <2>6
<1>4. FlattenSeq(First(seqs, 0)) = <<>>
  <2>1. First(seqs, 0) = <<>> BY SMT
  <2>2. Len(First(seqs, 0)) = 0 BY <2>1
  <2> HIDE DEF First
  <2> QED BY <2>1, <2>2 DEF FlattenSeq
<1>5. ASSUME NEW n \in 1..Len(seqs) PROVE FlattenSeq(First(seqs, n)) \in Seq(Byte)
  <2>1. n \in 1..n BY <1>1
  <2> HIDE DEF First
  <2> QED BY <1>3, <2>1
<1>6. ASSUME NEW n \in 0..Len(seqs) - 1
      PROVE  FlattenSeq(First(seqs, n + 1)) = FlattenSeq(First(seqs, n)) \o seqs[n + 1]
  <2>1. n \in Nat /\ n + 1 \in 1..Len(seqs) /\ n + 1 \in 1..(n + 1) BY <1>1
  <2> DEFINE t == First(seqs, n + 1)
  <2> HIDE DEF First
  <2>2. PICK g : Joins(g, t) /\ FlattenSeq(t) = g[n + 1] BY <1>3, <2>1
  <2>3. Len(t) = n + 1 /\ t[n + 1] = seqs[n + 1] BY <1>2, <2>1
  <2>4. g[n + 1] = IF n + 1 = 1 THEN t[n + 1] ELSE g[n + 1 - 1] \o t[n + 1]
    <3>1. n + 1 \in 1..Len(t) /\ Len(t) \in Nat BY <2>1, <2>3
    <3> HIDE DEF t
    <3> QED BY <2>2, <3>1, JoinStep
  <2>5. CASE n = 0
    <3>1. FlattenSeq(t) = seqs[1] BY <2>2, <2>3, <2>4, <2>5
    <3>2. seqs[1] \in Seq(Byte) BY <2>1, <2>5, ElementOfSeq
    <3>3. <<>> \o seqs[1] = seqs[1] BY <3>2
    <3> QED BY <2>5, <3>1, <3>3, <1>4
  <2>6. CASE n # 0
    <3>1. n \in 1..Len(seqs) /\ n \in 1..n BY <1>1, <2>6
    <3> DEFINE s == First(seqs, n)
    <3>2. PICK f : Joins(f, s) /\ FlattenSeq(s) = f[n] BY <1>3, <3>1
    <3>3. Len(s) = n /\ \A i \in 1..n : s[i] = t[i] BY <1>2, <2>1, <3>1
    <3>4. f[n] = g[n]
      <4>1. n <= Len(s) /\ n <= Len(t) /\ Len(s) \in Nat /\ Len(t) \in Nat BY <2>1, <2>3, <3>3
      <4> HIDE DEF s, t
      <4>2. Joins(f, s) /\ Joins(g, t) BY <2>2, <3>2
      <4>3. Agree(s, t, n) BY <3>3 DEF Agree
      <4>4. Agree(f, g, n) BY <2>1, <4>1, <4>2, <4>3, JoinsAgree
      <4> QED BY <3>1, <4>4 DEF Agree
    <3>5. n + 1 # 1 /\ n + 1 - 1 = n BY <2>1, <2>6
    <3> HIDE DEF s, t
    <3>6. FlattenSeq(t) = g[n] \o seqs[n + 1] BY <2>2, <2>3, <2>4, <3>5
    <3>7. FlattenSeq(t) = FlattenSeq(s) \o seqs[n + 1] BY <3>2, <3>4, <3>6
    <3> QED BY <3>7 DEF s, t
  <2> QED BY <2>5, <2>6
<1> HIDE DEF First
<1> QED BY <1>4, <1>5, <1>6

Flat(seqs, n) == FlattenSeq(First(seqs, n))

(* The same, of Flat.                                                        *)
LEMMA FlatStep ==
    ASSUME NEW seqs \in Seq(Seq(Byte))
    PROVE  /\ Flat(seqs, 0) = <<>>
           /\ \A n \in 0..Len(seqs) : Flat(seqs, n) \in Seq(Byte)
           /\ \A n \in 0..Len(seqs) - 1 : Flat(seqs, n + 1) = Flat(seqs, n) \o seqs[n + 1]
<1>1. Len(seqs) \in Nat BY LenProperties
<1>2. Flat(seqs, 0) = <<>> BY FlattenFirst DEF Flat
<1>3. \A n \in 1..Len(seqs) : Flat(seqs, n) \in Seq(Byte) BY FlattenFirst DEF Flat
<1>4. ASSUME NEW n \in 0..Len(seqs) PROVE Flat(seqs, n) \in Seq(Byte)
  <2>1. CASE n = 0
    <3>1. <<>> \in Seq(Byte) BY EmptySeq
    <3> QED BY <1>2, <2>1, <3>1
  <2>2. CASE n # 0 BY <1>1, <1>3, <2>2
  <2> QED BY <2>1, <2>2
<1> QED BY <1>2, <1>4, FlattenFirst DEF Flat

(* What is concatenated first stays where it is.                             *)
LEMMA FlatGrows ==
    ASSUME NEW seqs \in Seq(Seq(Byte)), NEW k \in 0..Len(seqs), NEW n \in k..Len(seqs)
    PROVE  /\ Len(Flat(seqs, k)) <= Len(Flat(seqs, n))
           /\ \A i \in 1..Len(Flat(seqs, k)) : Flat(seqs, n)[i] = Flat(seqs, k)[i]
<1> DEFINE P(j) == /\ Len(Flat(seqs, k)) <= Len(Flat(seqs, j))
                   /\ \A i \in 1..Len(Flat(seqs, k)) : Flat(seqs, j)[i] = Flat(seqs, k)[i]
           T == {d \in Nat : k + d <= Len(seqs) => P(k + d)}
<1>1. Len(seqs) \in Nat /\ k \in Nat BY LenProperties
<1>2. 0 \in T
  <2>1. Len(Flat(seqs, k)) \in Nat BY FlatStep, LenProperties
  <2>2. k + 0 = k BY <1>1
  <2>3. P(k) BY <2>1
  <2> HIDE DEF P
  <2> QED BY <2>2, <2>3
<1>3. ASSUME NEW d \in T PROVE d + 1 \in T
  <2>1. d \in Nat OBVIOUS
  <2>2. SUFFICES ASSUME k + (d + 1) <= Len(seqs) PROVE P(k + (d + 1))
    <3> HIDE DEF P
    <3> QED BY <2>1
  <2> DEFINE j == k + d
  <2>3. j \in 0..Len(seqs) - 1 /\ j + 1 \in 1..Len(seqs) /\ k + (d + 1) = j + 1 BY <1>1, <2>1, <2>2
  <2>4. P(j)
    <3> HIDE DEF P
    <3> QED BY <1>1, <2>1, <2>2
  <2> HIDE DEF j
  <2>5. Flat(seqs, j + 1) = Flat(seqs, j) \o seqs[j + 1] BY <2>3, FlatStep
  <2>6. seqs[j + 1] \in Seq(Byte) BY <2>3, ElementOfSeq
  <2>7. Flat(seqs, j) \in Seq(Byte) /\ Flat(seqs, k) \in Seq(Byte) BY <1>1, <2>3, FlatStep
  <2>8. P(j + 1) BY <2>4, <2>5, <2>6, <2>7, ConcatProperties
  <2> HIDE DEF P
  <2> QED BY <2>3, <2>8
<1>4. T = Nat
  <2> HIDE DEF P
  <2>1. T \in SUBSET Nat OBVIOUS
  <2> HIDE DEF T
  <2> QED BY <1>2, <1>3, <2>1, EveryNumber
<1>5. n - k \in Nat /\ k + (n - k) = n /\ n <= Len(seqs) BY <1>1
<1>6. P(n)
  <2> HIDE DEF P
  <2>1. n - k \in T BY <1>4, <1>5
  <2> QED BY <1>5, <2>1
<1> QED BY <1>6

(* Where the sequences, and what follows them, lie in W.                     *)
Layout(W, seqs, rest) ==
    /\ W \in Seq(Byte)
    /\ Len(W) = Len(Flat(seqs, Len(seqs))) + Len(rest)
    /\ \A i \in 1..Len(rest) : W[Len(Flat(seqs, Len(seqs))) + i] = rest[i]
    /\ \A k \in 0..Len(seqs) - 1 :
         /\ Len(Flat(seqs, k + 1)) = Len(Flat(seqs, k)) + Len(seqs[k + 1])
         /\ Len(Flat(seqs, k + 1)) <= Len(W)
         /\ \A i \in 1..Len(seqs[k + 1]) : W[Len(Flat(seqs, k)) + i] = seqs[k + 1][i]

(* The concatenation of all, and what follows it, is laid out so.            *)
LEMMA FlatAt ==
    ASSUME NEW seqs \in Seq(Seq(Byte)), NEW rest \in Seq(Byte), NEW W,
           W = Flat(seqs, Len(seqs)) \o rest
    PROVE  Layout(W, seqs, rest)
<1> DEFINE N == Len(seqs)
           A == Flat(seqs, N)
<1>1. N \in Nat BY LenProperties
<1>2. A \in Seq(Byte)
  <2>1. N \in 0..Len(seqs) BY <1>1
  <2> QED BY <2>1, FlatStep
<1>3. /\ W \in Seq(Byte)
      /\ Len(W) = Len(A) + Len(rest)
      /\ \A i \in 1..Len(rest) : W[Len(A) + i] = rest[i]
      /\ \A i \in 1..Len(A) : W[i] = A[i]
  <2> HIDE DEF A
  <2>1. W = A \o rest BY DEF A
  <2>2. Len(A) \in Nat /\ Len(rest) \in Nat BY <1>2, LenProperties
  <2> QED BY <1>2, <2>1, <2>2, ConcatProperties
<1>4. ASSUME NEW k \in 0..N - 1
      PROVE  /\ Len(Flat(seqs, k + 1)) = Len(Flat(seqs, k)) + Len(seqs[k + 1])
             /\ Len(Flat(seqs, k + 1)) <= Len(W)
             /\ \A i \in 1..Len(seqs[k + 1]) :
                  W[Len(Flat(seqs, k)) + i] = seqs[k + 1][i]
  <2> DEFINE B == Flat(seqs, k)
             C == Flat(seqs, k + 1)
             m == seqs[k + 1]
  <2>1. k + 1 \in 0..N /\ N \in (k + 1)..N /\ k \in 0..N /\ k + 1 \in 1..N BY <1>1
  <2>2. B \in Seq(Byte) /\ C \in Seq(Byte) BY <2>1, FlatStep
  <2>3. m \in Seq(Byte) BY <2>1, ElementOfSeq
  <2>4. C = B \o m BY FlatStep
  <2>5. Len(C) <= Len(A) /\ \A i \in 1..Len(C) : A[i] = C[i] BY <2>1, FlatGrows
  <2> HIDE DEF A, B, C, m
  <2>6. Len(A) \in Nat /\ Len(B) \in Nat /\ Len(m) \in Nat /\ Len(rest) \in Nat
    BY <1>2, <2>2, <2>3, LenProperties
  <2>7. Len(C) = Len(B) + Len(m) BY <2>2, <2>3, <2>4, ConcatProperties
  <2>8. Len(C) <= Len(W) BY <1>3, <2>5, <2>6, <2>7
  <2>9. ASSUME NEW i \in 1..Len(m) PROVE W[Len(B) + i] = m[i]
    <3>1. Len(B) + i \in 1..Len(C) /\ Len(B) + i \in 1..Len(A) BY <2>5, <2>6, <2>7
    <3>2. C[Len(B) + i] = m[i] BY <2>2, <2>3, <2>4, <2>6, <3>1, ConcatProperties
    <3> QED BY <1>3, <2>5, <3>1, <3>2
  <2> QED BY <2>7, <2>8, <2>9 DEF B, C, m
<1> QED BY <1>3, <1>4 DEF A, Layout
------------------------------------------------------------------------------
(* Frames.                                                                  *)

(* Concatenation of bytes.                                                   *)
LEMMA JoinBytes ==
    ASSUME NEW a \in Seq(Byte), NEW b \in Seq(Byte)
    PROVE  /\ a \o b \in Seq(Byte)
           /\ Len(a \o b) = Len(a) + Len(b)
           /\ \A i \in 1..Len(a) : (a \o b)[i] = a[i]
           /\ \A i \in 1..Len(b) : (a \o b)[Len(a) + i] = b[i]
<1>1. Len(a) \in Nat /\ Len(b) \in Nat BY LenProperties
<1>2. a \o b \in Seq(Byte) /\ Len(a \o b) = Len(a) + Len(b) BY ConcatProperties
<1>3. \A i \in 1..Len(a) + Len(b) : (a \o b)[i] = IF i <= Len(a) THEN a[i] ELSE b[i - Len(a)]
  BY ConcatProperties
<1>4. \A i \in 1..Len(a) : (a \o b)[i] = a[i] BY <1>1, <1>3
<1>5. \A i \in 1..Len(b) : (a \o b)[Len(a) + i] = b[i] BY <1>1, <1>3
<1> QED BY <1>2, <1>4, <1>5

(* The four bytes of a length that fits them, and back.                      *)
LEMMA BigEndianIsBytes ==
    ASSUME NEW n \in Nat
    PROVE  BigEndian(n) \in Seq(Byte) /\ Len(BigEndian(n)) = 4
<1>1. \A x \in Nat : x % 256 \in Byte BY DEF Byte
<1>2. \A x \in Nat : x \div 256 \in Nat OBVIOUS
<1> DEFINE q == n \div 256
           r == q \div 256
           t == r \div 256
           a == t % 256
           b == r % 256
           c == q % 256
           d == n % 256
<1>3. a \in Byte /\ b \in Byte /\ c \in Byte /\ d \in Byte
  <2>1. q \in Nat BY <1>2
  <2>2. r \in Nat
    <3> HIDE DEF q
    <3> QED BY <1>2, <2>1
  <2>3. t \in Nat
    <3> HIDE DEF r
    <3> QED BY <1>2, <2>2
  <2> HIDE DEF q, r, t
  <2> QED BY <1>1, <2>1, <2>2, <2>3
<1>4. BigEndian(n) = <<a, b, c, d>> BY DEF BigEndian
<1> HIDE DEF a, b, c, d
<1> QED BY <1>3, <1>4

(* Reading them gives the length back.                                       *)
LEMMA LengthOfBigEndian ==
    ASSUME NEW n \in Nat, FitsFourBytes(n)
    PROVE  ((BigEndian(n)[1] * 256 + BigEndian(n)[2]) * 256 + BigEndian(n)[3]) * 256
             + BigEndian(n)[4] = n
<1> DEFINE q == n \div 256
           r == q \div 256
           t == r \div 256
<1>1. q \in Nat /\ n = q * 256 + (n % 256) OBVIOUS
<1>2. r \in Nat /\ q = r * 256 + (q % 256)
  <2> HIDE DEF q
  <2> QED BY <1>1
<1>3. t \in Nat /\ r = t * 256 + (r % 256)
  <2> HIDE DEF r
  <2> QED BY <1>2
<1>4. t \in Byte BY DEF FitsFourBytes
<1>5. t % 256 = t
  <2> HIDE DEF t
  <2> QED BY <1>4 DEF Byte
<1> DEFINE z == BigEndian(n)
<1>7. z[1] = t /\ z[2] = r % 256 /\ z[3] = q % 256 /\ z[4] = n % 256
  <2>1. z = <<t % 256, r % 256, q % 256, n % 256>> BY DEF BigEndian
  <2> HIDE DEF q, r, t, z
  <2> QED BY <1>5, <2>1
<1>8. (z[1] * 256 + z[2]) = r
  <2> HIDE DEF z, q, r, t
  <2> QED BY <1>3, <1>7
<1>9. (r * 256 + z[3]) = q
  <2> HIDE DEF z, q, r, t
  <2> QED BY <1>2, <1>7
<1>10. (q * 256 + z[4]) = n
  <2> HIDE DEF z, q, r, t
  <2> QED BY <1>1, <1>7
<1> HIDE DEF z, q, r
<1> QED BY <1>8, <1>9, <1>10 DEF z

(* A frame is a header, which holds its payload's length, and the payload.   *)
LEMMA FrameProperties ==
    ASSUME NEW m \in Seq(Byte), FitsFourBytes(Len(m))
    PROVE  /\ Frame(m) \in Seq(Byte) /\ Len(Frame(m)) = Len(m) + Header
           /\ Frame(m)[1] = 0 /\ Length(Frame(m)) = Len(m)
           /\ \A i \in 1..Len(m) : Frame(m)[Header + i] = m[i]
<1> DEFINE z == BigEndian(Len(m))
           h == <<0>> \o z
<1>1. Len(m) \in Nat BY LenProperties
<1>2. z \in Seq(Byte) /\ Len(z) = 4 BY <1>1, BigEndianIsBytes
<1>3. <<0>> \in Seq(Byte) /\ Len(<<0>>) = 1 /\ <<0>>[1] = 0 BY DEF Byte
<1>4. /\ h \in Seq(Byte) /\ Len(h) = 5
      /\ h[1] = 0 /\ h[2] = z[1] /\ h[3] = z[2] /\ h[4] = z[3] /\ h[5] = z[4]
  <2> HIDE DEF z
  <2> DEFINE x == <<0>>
  <2>1. x \in Seq(Byte) /\ Len(x) = 1 /\ x[1] = 0 BY <1>3
  <2> HIDE DEF x
  <2>2. /\ x \o z \in Seq(Byte) /\ Len(x \o z) = Len(x) + Len(z)
        /\ \A i \in 1..Len(x) : (x \o z)[i] = x[i]
        /\ \A i \in 1..Len(z) : (x \o z)[Len(x) + i] = z[i]
    BY <1>2, <2>1, JoinBytes
  <2>3. h = x \o z BY DEF x
  <2> HIDE DEF h
  <2>4. 1 \in 1..Len(x) /\ 1 \in 1..Len(z) /\ 2 \in 1..Len(z) /\ 3 \in 1..Len(z) /\ 4 \in 1..Len(z)
    BY <1>2, <2>1
  <2>5. h[1] = 0 BY <2>1, <2>2, <2>3, <2>4
  <2>6. h[1 + 1] = z[1] /\ h[1 + 2] = z[2] /\ h[1 + 3] = z[3] /\ h[1 + 4] = z[4]
    BY <2>1, <2>2, <2>3, <2>4
  <2>7. h \in Seq(Byte) /\ Len(h) = 5 BY <1>2, <2>1, <2>2, <2>3
  <2> QED BY <2>5, <2>6, <2>7
<1>5. Frame(m) = h \o m BY DEF Frame
<1>6. ((z[1] * 256 + z[2]) * 256 + z[3]) * 256 + z[4] = Len(m) BY <1>1, LengthOfBigEndian
<1> HIDE DEF h, z
<1>7. /\ Frame(m) \in Seq(Byte) /\ Len(Frame(m)) = 5 + Len(m)
      /\ \A i \in 1..5 : Frame(m)[i] = h[i]
      /\ \A i \in 1..Len(m) : Frame(m)[5 + i] = m[i]
  <2>1. /\ h \o m \in Seq(Byte) /\ Len(h \o m) = Len(h) + Len(m)
        /\ \A i \in 1..Len(h) : (h \o m)[i] = h[i]
        /\ \A i \in 1..Len(m) : (h \o m)[Len(h) + i] = m[i]
    BY <1>4, JoinBytes
  <2> QED BY <1>4, <1>5, <2>1
<1>8. Length(Frame(m)) = Len(m) BY <1>4, <1>6, <1>7 DEF Length
<1> QED BY <1>1, <1>4, <1>7, <1>8 DEF Header

(* The frames of a script, where the k-th ends, and a decoder that has left  *)
(* k of them behind after f bytes and holds b.                               *)
Frames(ms) == [i \in 1..Len(ms) |-> Frame(ms[i])]
End(s, k) == Len(Flat(Frames(s.messages), k))
At(s, k, f, b) ==
    /\ End(s, k) <= f /\ f <= Len(Wire(s))
    /\ b = SubSeq(Wire(s), End(s, k) + 1, f)

(* The first frames of a script are the frames of its first messages.        *)
LEMMA FlatIsFirst ==
    ASSUME NEW s, NEW k \in 0..Len(s.messages)
    PROVE  FlattenSeq([i \in 1..k |-> Frame(s.messages[i])]) = Flat(Frames(s.messages), k)
<1>1. First(Frames(s.messages), k) = [i \in 1..k |-> Frame(s.messages[i])] BY DEF First, Frames
<1> QED BY <1>1 DEF Flat

(* Where the frames and the tail of a script lie in its wire.                *)
LEMMA WireAt ==
    ASSUME NEW s \in Scripts
    PROVE  /\ Wire(s) \in Seq(Byte)
           /\ Len(s.messages) \in Nat
           /\ \A k \in 0..Len(s.messages) : End(s, k) \in Nat
           /\ End(s, 0) = 0
           /\ Len(Wire(s)) = End(s, Len(s.messages)) + Len(s.tail)
           /\ \A i \in 1..Len(s.tail) : Wire(s)[End(s, Len(s.messages)) + i] = s.tail[i]
           /\ \A k \in 0..Len(s.messages) - 1 :
                /\ End(s, k + 1) = End(s, k) + (Len(s.messages[k + 1]) + Header)
                /\ End(s, k + 1) <= Len(Wire(s))
                /\ \A i \in 1..(Len(s.messages[k + 1]) + Header) :
                     Wire(s)[End(s, k) + i] = Frame(s.messages[k + 1])[i]
<1> DEFINE N == Len(s.messages)
           F == Frames(s.messages)
<1>1. /\ N \in Nat /\ s.tail \in Seq(Byte)
      /\ \A i \in 1..N : s.messages[i] \in Seq(Byte) /\ FitsFourBytes(Len(s.messages[i]))
  BY ScriptsAssumption, LenProperties DEF IsScript
<1>2. \A i \in 1..N : Frame(s.messages[i]) \in Seq(Byte)
                      /\ Len(Frame(s.messages[i])) = Len(s.messages[i]) + Header
  BY <1>1, FrameProperties
<1>3. /\ F \in Seq(Seq(Byte)) /\ Len(F) = N
      /\ \A i \in 1..N : F[i] = Frame(s.messages[i])
  BY <1>1, <1>2 DEF Frames
<1>4. Wire(s) = Flat(F, Len(F)) \o s.tail
  <2>1. N \in 0..N BY <1>1
  <2>2. FlattenSeq([i \in 1..N |-> Frame(s.messages[i])]) = Flat(F, N) BY <2>1, FlatIsFirst
  <2> HIDE DEF F
  <2> QED BY <1>3, <2>2 DEF Wire
<1> HIDE DEF F
<1>5. /\ Wire(s) \in Seq(Byte)
      /\ Len(Wire(s)) = Len(Flat(F, Len(F))) + Len(s.tail)
      /\ \A i \in 1..Len(s.tail) : Wire(s)[Len(Flat(F, Len(F))) + i] = s.tail[i]
      /\ \A k \in 0..Len(F) - 1 :
           /\ Len(Flat(F, k + 1)) = Len(Flat(F, k)) + Len(F[k + 1])
           /\ Len(Flat(F, k + 1)) <= Len(Wire(s))
           /\ \A i \in 1..Len(F[k + 1]) : Wire(s)[Len(Flat(F, k)) + i] = F[k + 1][i]
  <2>1. Layout(Wire(s), F, s.tail) BY <1>1, <1>3, <1>4, FlatAt
  <2> QED BY <2>1 DEF Layout
<1>6. \A k \in 0..N : Flat(F, k) \in Seq(Byte) BY <1>3, FlatStep
<1>7. \A k \in 0..N : End(s, k) \in Nat
  <2> SUFFICES ASSUME NEW k \in 0..N PROVE Len(Flat(F, k)) \in Nat BY DEF End, F
  <2> QED BY <1>6, LenProperties
<1>8. End(s, 0) = 0
  <2>1. Flat(F, 0) = <<>> BY <1>3, FlatStep
  <2> QED BY <2>1 DEF End, F
<1>9. ASSUME NEW k \in 0..N - 1
      PROVE  /\ End(s, k + 1) = End(s, k) + (Len(s.messages[k + 1]) + Header)
             /\ End(s, k + 1) <= Len(Wire(s))
             /\ \A i \in 1..(Len(s.messages[k + 1]) + Header) :
                  Wire(s)[End(s, k) + i] = Frame(s.messages[k + 1])[i]
  <2>1. k + 1 \in 1..N BY <1>1
  <2>2. F[k + 1] = Frame(s.messages[k + 1])
        /\ Len(F[k + 1]) = Len(s.messages[k + 1]) + Header BY <1>2, <1>3, <2>1
  <2>3. End(s, k) = Len(Flat(F, k)) /\ End(s, k + 1) = Len(Flat(F, k + 1)) BY DEF End, F
  <2>4. k \in 0..Len(F) - 1 BY <1>3
  <2>5. /\ Len(Flat(F, k + 1)) = Len(Flat(F, k)) + Len(F[k + 1])
        /\ Len(Flat(F, k + 1)) <= Len(Wire(s))
        /\ \A i \in 1..Len(F[k + 1]) : Wire(s)[Len(Flat(F, k)) + i] = F[k + 1][i]
    BY <1>5, <2>4
  <2> QED BY <2>2, <2>3, <2>5
<1>10. End(s, N) = Len(Flat(F, Len(F))) BY <1>3 DEF End, F
<1> QED BY <1>1, <1>5, <1>7, <1>8, <1>9, <1>10

(* A length depends on the header alone.                                     *)
LEMMA LengthOfHeader ==
    ASSUME NEW a, NEW b, \A i \in 1..Header : a[i] = b[i]
    PROVE  a[1] = b[1] /\ Length(a) = Length(b)
<1>1. a[1] = b[1] /\ a[2] = b[2] /\ a[3] = b[3] /\ a[4] = b[4] /\ a[5] = b[5] BY DEF Header
<1> QED BY <1>1 DEF Length

(* A slice of a byte sequence.                                               *)
LEMMA Slice ==
    ASSUME NEW w \in Seq(Byte), NEW a \in Nat, NEW z \in Nat, a <= z, z <= Len(w),
           NEW v, v = SubSeq(w, a + 1, z)
    PROVE  /\ v \in Seq(Byte) /\ Len(v) = z - a
           /\ \A i \in 1..Len(v) : v[i] = w[a + i]
OBVIOUS

(* What the decoder sees before the end of the last frame.                   *)
LEMMA AtFrame ==
    ASSUME NEW s \in Scripts, NEW k \in 0..Len(s.messages) - 1, NEW f \in Nat,
           NEW b \in Seq(Byte), At(s, k, f, b), NEW m, m = s.messages[k + 1]
    PROVE  /\ m \in Seq(Byte) /\ Len(m) <= MaxMessage
           /\ Len(b) >= Header => b[1] = 0 /\ Length(b) = Len(m)
           /\ Len(b) >= Len(m) + Header <=> End(s, k + 1) <= f
           /\ Len(b) >= Len(m) + Header =>
                /\ SubSeq(b, Header + 1, Len(m) + Header) = m
                /\ At(s, k + 1, f, SubSeq(b, Len(m) + Header + 1, Len(b)))
<1> DEFINE W == Wire(s)
           e == End(s, k)
<1>1. /\ k \in Nat /\ k + 1 \in 1..Len(s.messages) /\ k \in 0..Len(s.messages)
      /\ k + 1 \in 0..Len(s.messages) BY WireAt
<1>2. /\ m \in Seq(Byte) /\ Len(m) <= MaxMessage /\ FitsFourBytes(Len(m))
  <2>1. s.messages \in Seq(Seq(Byte)) BY ScriptsAssumption DEF IsScript
  <2>2. m \in Seq(Byte) BY <1>1, <2>1, ElementOfSeq
  <2>3. Len(m) <= MaxMessage /\ FitsFourBytes(Len(m)) BY <1>1, ScriptsAssumption DEF IsScript
  <2> QED BY <2>2, <2>3
<1>3. /\ Frame(m) \in Seq(Byte) /\ Len(Frame(m)) = Len(m) + Header
      /\ Frame(m)[1] = 0 /\ Length(Frame(m)) = Len(m)
      /\ \A i \in 1..Len(m) : Frame(m)[Header + i] = m[i]
  BY <1>2, FrameProperties
<1>4. Len(m) \in Nat BY <1>2, LenProperties
<1>5. /\ W \in Seq(Byte) /\ e \in Nat /\ Len(W) \in Nat
      /\ End(s, k + 1) = e + (Len(m) + Header) /\ End(s, k + 1) <= Len(W)
      /\ \A i \in 1..(Len(m) + Header) : W[e + i] = Frame(m)[i]
  BY <1>1, WireAt, LenProperties
<1>6. e <= f /\ f <= Len(W) /\ b = SubSeq(W, e + 1, f) BY DEF At
<1> HIDE DEF W, e
<1>7. Len(b) = f - e /\ \A i \in 1..Len(b) : b[i] = W[e + i] BY <1>5, <1>6
<1>8. Len(b) >= Header => b[1] = 0 /\ Length(b) = Len(m)
  <2> SUFFICES ASSUME Len(b) >= Header PROVE b[1] = 0 /\ Length(b) = Len(m) OBVIOUS
  <2>1. \A i \in 1..Header : b[i] = Frame(m)[i] BY <1>4, <1>5, <1>6, <1>7 DEF Header
  <2> QED BY <1>3, <2>1, LengthOfHeader
<1>9. Len(b) >= Len(m) + Header <=> End(s, k + 1) <= f
  BY <1>4, <1>5, <1>6, <1>7 DEF Header
<1>10. ASSUME Len(b) >= Len(m) + Header
       PROVE  /\ SubSeq(b, Header + 1, Len(m) + Header) = m
              /\ At(s, k + 1, f, SubSeq(b, Len(m) + Header + 1, Len(b)))
  <2> DEFINE h == Len(m) + Header
             d == SubSeq(b, Header + 1, h)
             r == SubSeq(b, h + 1, Len(b))
             g == End(s, k + 1)
             t == SubSeq(W, g + 1, f)
  <2>0. h \in Nat /\ Header \in Nat /\ h <= Len(b) /\ g \in Nat /\ g <= f /\ h = Len(m) + Header
        /\ g = e + h /\ Len(b) \in Nat
    BY <1>4, <1>5, <1>6, <1>9, <1>10, LenProperties DEF Header
  <2>1. d \in Seq(Byte) /\ Len(d) = Len(m) /\ \A i \in 1..Len(m) : d[i] = b[Header + i]
    <3> HIDE DEF h
    <3>1. Header <= h BY <1>4, <2>0
    <3>2. /\ d \in Seq(Byte) /\ Len(d) = h - Header
          /\ \A i \in 1..Len(d) : d[i] = b[Header + i] BY <2>0, <3>1, Slice
    <3>3. Len(d) = Len(m) BY <1>4, <2>0, <3>2
    <3> QED BY <3>2, <3>3
  <2>2. \A i \in 1..Len(m) : d[i] = m[i]
    <3> SUFFICES ASSUME NEW i \in 1..Len(m) PROVE d[i] = m[i] OBVIOUS
    <3>1. Header + i \in 1..Len(b) /\ Header + i \in 1..(Len(m) + Header)
      BY <1>4, <2>0
    <3> HIDE DEF d
    <3> QED BY <1>3, <1>5, <1>7, <2>1, <3>1
  <2>3. d = m
    <3> HIDE DEF d
    <3> QED BY <1>2, <2>1, <2>2, SeqEqual
  <2>4. /\ r \in Seq(Byte) /\ Len(r) = Len(b) - h
        /\ \A i \in 1..Len(r) : r[i] = b[h + i]
    <3>1. r = SubSeq(b, h + 1, Len(b)) /\ Len(b) <= Len(b) BY <2>0
    <3>2. h \in Nat /\ Len(b) \in Nat /\ h <= Len(b) BY <2>0
    <3> HIDE DEF h, r
    <3> QED BY <3>1, <3>2, Slice
  <2>5. /\ t \in Seq(Byte) /\ Len(t) = f - g
        /\ \A i \in 1..Len(t) : t[i] = W[g + i]
    <3>1. t = SubSeq(W, g + 1, f) OBVIOUS
    <3>2. g \in Nat /\ g <= f BY <2>0
    <3> HIDE DEF g, t
    <3> QED BY <1>5, <1>6, <3>1, <3>2, Slice
  <2>6. Len(r) = Len(t)
    <3> HIDE DEF r, t, h, g
    <3> QED BY <1>5, <1>6, <1>7, <2>0, <2>4, <2>5
  <2>7. \A i \in 1..Len(r) : r[i] = t[i]
    <3> SUFFICES ASSUME NEW i \in 1..Len(r) PROVE r[i] = t[i] OBVIOUS
    <3> HIDE DEF r, t, h, g
    <3>1. Len(r) \in Nat BY <2>4, LenProperties
    <3>2. h + i \in 1..Len(b) BY <2>0, <2>4, <3>1
    <3>3. e + (h + i) = g + i
      <4>1. e \in Nat /\ h \in Nat /\ i \in Nat /\ g = e + h BY <1>5, <2>0, <3>1
      <4> QED BY <4>1
    <3>4. r[i] = b[h + i] /\ b[h + i] = W[e + (h + i)] BY <1>7, <2>4, <3>2
    <3>5. t[i] = W[g + i] BY <2>5, <2>6
    <3> QED BY <3>3, <3>4, <3>5
  <2>8. r = t
    <3> HIDE DEF r, t
    <3> QED BY <2>4, <2>5, <2>6, <2>7, SeqEqual
  <2>9. At(s, k + 1, f, t) BY <1>6, <2>0 DEF At, W
  <2> HIDE DEF d, r, t
  <2> QED BY <2>3, <2>8, <2>9 DEF d, r, h
<1> QED BY <1>2, <1>8, <1>9, <1>10

(* What it sees after that.                                                  *)
LEMMA AtTail ==
    ASSUME NEW s \in Scripts, NEW f \in Nat, NEW b \in Seq(Byte),
           At(s, Len(s.messages), f, b)
    PROVE  /\ s.tail \in Seq(Byte)
           /\ Len(b) <= Len(s.tail)
           /\ Len(b) >= Header => b[1] = s.tail[1] /\ Length(b) = Length(s.tail)
           /\ f = Len(Wire(s)) => b = s.tail
<1> DEFINE W == Wire(s)
           e == End(s, Len(s.messages))
           t == s.tail
<1>1. t \in Seq(Byte) BY ScriptsAssumption DEF IsScript
<1>2. Len(t) \in Nat BY <1>1, LenProperties
<1>3. Len(s.messages) \in 0..Len(s.messages) BY WireAt
<1>4. /\ W \in Seq(Byte) /\ e \in Nat /\ Len(W) = e + Len(t)
      /\ \A i \in 1..Len(t) : W[e + i] = t[i]
  BY <1>3, WireAt
<1>5. e <= f /\ f <= Len(W) /\ b = SubSeq(W, e + 1, f) BY DEF At
<1> HIDE DEF W, e, t
<1>6. Len(b) = f - e /\ \A i \in 1..Len(b) : b[i] = W[e + i] BY <1>4, <1>5
<1>7. Len(b) <= Len(t) BY <1>2, <1>4, <1>5, <1>6
<1>8. \A i \in 1..Len(b) : b[i] = t[i] BY <1>2, <1>4, <1>6, <1>7
<1>9. Len(b) >= Header => b[1] = t[1] /\ Length(b) = Length(t)
  <2> SUFFICES ASSUME Len(b) >= Header PROVE b[1] = t[1] /\ Length(b) = Length(t) OBVIOUS
  <2>1. \A i \in 1..Header : b[i] = t[i] BY <1>8 DEF Header
  <2> QED BY <2>1, LengthOfHeader
<1>10. ASSUME f = Len(W) PROVE b = t
  <2>1. Len(b) = Len(t) BY <1>2, <1>4, <1>6, <1>10
  <2> QED BY <1>1, <1>8, <2>1, SeqEqual
<1> QED BY <1>1, <1>7, <1>9, <1>10 DEF W, t
------------------------------------------------------------------------------
(* Types, and the bound on the buffer.                                      *)

IInv == TypeOK /\ BufferIsBounded

(* A header's length is a natural number.                                   *)
LEMMA LengthIsNatural ==
    ASSUME NEW b \in Seq(Byte), Len(b) >= Header
    PROVE  Length(b) \in Nat
<1>1. b[2] \in Byte /\ b[3] \in Byte /\ b[4] \in Byte /\ b[5] \in Byte BY DEF Header
<1>2. \A x \in Nat, y \in Byte : x * 256 + y \in Nat BY DEF Byte
<1>3. b[2] \in Nat
  <2>1. Byte \subseteq Nat BY DEF Byte
  <2> QED BY <1>1, <2>1
<1> DEFINE x == b[2] * 256 + b[3]
           y == x * 256 + b[4]
<1>4. x \in Nat BY <1>1, <1>2, <1>3
<1>5. y \in Nat
  <2> HIDE DEF x
  <2> QED BY <1>1, <1>2, <1>4
<1>6. y * 256 + b[5] \in Nat
  <2> HIDE DEF y
  <2> QED BY <1>1, <1>2, <1>5
<1> QED BY <1>6 DEF Length

(* A slice of a byte sequence within its bounds is one.                     *)
LEMMA SlicesAreBytes ==
    ASSUME NEW b \in Seq(Byte), NEW m \in Int, NEW n \in Int, m >= 1, n <= Len(b)
    PROVE  SubSeq(b, m, n) \in Seq(Byte)
OBVIOUS

(* Every step keeps the types.                                              *)
LEMMA StepKeepsTypes == TypeOK /\ Next => TypeOK'
<1> SUFFICES ASSUME TypeOK, Next PROVE TypeOK'
  OBVIOUS
<1> USE DEF TypeOK
<1>1. CASE \E n \in 1..(Len(Wire(script)) - fed) : Feed(n)
  <2>1. PICK n \in 1..(Len(Wire(script)) - fed) : Feed(n) BY <1>1
  <2>2. Wire(script) \in Seq(Byte) BY WireAt
  <2>3. n \in Nat /\ Len(Wire(script)) \in Nat BY <2>2
  <2>4. SubSeq(Wire(script), fed + 1, fed + n) \in Seq(Byte)
    BY <2>1, <2>2, <2>3, SlicesAreBytes DEF Feed
  <2> QED BY <2>1, <2>3, <2>4 DEF Feed
<1>2. CASE Decode
  <2>1. Length(buffer) \in Nat BY <1>2, LengthIsNatural DEF Decode, HasHeader
  <2>2. Len(buffer) \in Nat /\ Len(buffer) >= Length(buffer) + Header
    BY <1>2 DEF Decode, HasBody
  <2>3. SubSeq(buffer, Header + 1, Length(buffer) + Header) \in Seq(Byte)
    BY <2>1, <2>2, SlicesAreBytes DEF Header
  <2>4. SubSeq(buffer, Length(buffer) + Header + 1, Len(buffer)) \in Seq(Byte)
    BY <2>1, <2>2, SlicesAreBytes DEF Header
  <2>5. Len(SubSeq(buffer, Header + 1, Length(buffer) + Header)) = Length(buffer)
    BY <2>1, <2>2 DEF Header
  <2>6. Length(buffer) <= MaxMessage
    BY <1>2, <2>1, MaxMessageAssumption DEF Decode, TooLong
  <2>7. SubSeq(buffer, Header + 1, Length(buffer) + Header) \in Message
    BY <2>3, <2>5, <2>6 DEF Message
  <2> QED BY <1>2, <2>4, <2>7 DEF Decode
<1>3. CASE Reject BY <1>3 DEF Reject
<1>4. CASE Return BY <1>4 DEF Return
<1>5. CASE Finish BY <1>5 DEF Finish
<1>6. CASE Over   BY <1>6 DEF Over, vars
<1> QED BY <1>1, <1>2, <1>3, <1>4, <1>5, <1>6 DEF Next

(* Only Return leads back to the caller, and it has looked at the length of *)
(* the frame it leaves behind.                                              *)
LEMMA StepKeepsBound == IInv /\ Next => BufferIsBounded'
<1> SUFFICES ASSUME IInv, Next PROVE BufferIsBounded'
  OBVIOUS
<1> USE DEF IInv, BufferIsBounded
<1>1. CASE \E n \in 1..(Len(Wire(script)) - fed) : Feed(n) BY <1>1 DEF Feed
<1>2. CASE Decode BY <1>2 DEF Decode
<1>3. CASE Reject BY <1>3 DEF Reject
<1>4. CASE Return
  <2>1. Len(buffer) \in Nat BY DEF TypeOK
  <2>2. CASE ~HasHeader
    BY <1>4, <2>1, <2>2, MaxMessageAssumption DEF Return, HasHeader, Header
  <2>3. CASE HasHeader
    <3>1. Length(buffer) \in Nat BY <2>3, LengthIsNatural DEF TypeOK, HasHeader
    <3>2. Length(buffer) <= MaxMessage /\ Len(buffer) < Length(buffer) + Header
      BY <1>4, <2>1, <2>3, <3>1, MaxMessageAssumption
         DEF Return, NeedsMore, TooLong, HasBody, Header
    <3> QED BY <1>4, <2>1, <3>1, <3>2, MaxMessageAssumption DEF Return, Header
  <2> QED BY <2>2, <2>3
<1>5. CASE Finish BY <1>5 DEF Finish
<1>6. CASE Over   BY <1>6 DEF Over, vars
<1> QED BY <1>1, <1>2, <1>3, <1>4, <1>5, <1>6 DEF Next

(* Types and bound hold throughout.                                         *)
THEOREM Invariance == Spec => []IInv
<1>1. Init => IInv
  BY MaxMessageAssumption DEF Init, IInv, TypeOK, BufferIsBounded, Header
<1>2. IInv /\ [Next]_vars => IInv'
  <2>1. IInv /\ Next => IInv' BY StepKeepsTypes, StepKeepsBound DEF IInv
  <2>2. IInv /\ UNCHANGED vars => IInv' BY DEF IInv, TypeOK, BufferIsBounded, vars
  <2> QED BY <2>1, <2>2
<1> QED BY <1>1, <1>2, PTL DEF Spec

(* Type correctness of the decoder.                                         *)
THEOREM TypeCorrect == Spec => []TypeOK
<1>1. IInv => TypeOK BY DEF IInv
<1> QED BY <1>1, Invariance, PTL

(* Whatever the robot sends and however it is cut, the decoder never holds  *)
(* as much as one longest frame between two calls.                          *)
THEOREM BufferStaysBounded == Spec => []BufferIsBounded
<1>1. IInv => BufferIsBounded BY DEF IInv
<1> QED BY <1>1, Invariance, PTL
------------------------------------------------------------------------------
(* Where the decoder stands in the stream.                                  *)

(* What has come out of the frames the decoder has left behind.              *)
Got == IF state \in {"feeding", "failed"} THEN delivered \o messages ELSE delivered

(* The decoder stands at the end of some frame: it has got the messages up   *)
(* to there, and holds the bytes that have come since.                       *)
AtSomeFrame ==
    \E k \in 0..Len(script.messages) :
        At(script, k, fed, buffer) /\ Got = SubSeq(script.messages, 1, k)

(* What each state says of the buffer.                                       *)
StateTellsBuffer ==
    /\ state \in {"waiting", "finished", "truncated"} => NeedsMore
    /\ state \in {"finished", "truncated"} => fed = Len(Wire(script))
    /\ state = "finished" => buffer = <<>>
    /\ state = "truncated" => buffer # <<>>
    /\ state = "failed" => HasHeader /\ (Compressed \/ TooLong)

StreamInv == AtSomeFrame /\ StateTellsBuffer

(* A frame that can be taken is the next message's: the tail begins none.    *)
LEMMA FrameIsNext ==
    ASSUME NEW s \in Scripts, NEW k \in 0..Len(s.messages), NEW f \in Nat,
           NEW b \in Seq(Byte), At(s, k, f, b), BeginsWithFrame(b)
    PROVE  k \in 0..Len(s.messages) - 1
<1>1. Len(s.messages) \in Nat BY WireAt
<1>2. ASSUME k = Len(s.messages) PROVE FALSE
  <2>1. /\ s.tail \in Seq(Byte) /\ Len(b) <= Len(s.tail)
        /\ Len(b) >= Header => b[1] = s.tail[1] /\ Length(b) = Length(s.tail)
    BY <1>2, AtTail
  <2>2. Len(b) \in Nat /\ Len(s.tail) \in Nat BY <2>1, LenProperties
  <2>3. Length(b) \in Nat BY LengthIsNatural DEF BeginsWithFrame
  <2>4. BeginsWithFrame(s.tail) BY <2>1, <2>2, <2>3 DEF BeginsWithFrame, Header
  <2> QED BY <2>4, ScriptsAssumption DEF IsScript
<1> QED BY <1>1, <1>2

(* And what is no frame, and not the beginning of one, is in the tail.       *)
LEMMA BadFrameIsTail ==
    ASSUME NEW s \in Scripts, NEW k \in 0..Len(s.messages), NEW f \in Nat,
           NEW b \in Seq(Byte), At(s, k, f, b), Len(b) >= Header,
           b[1] # 0 \/ Length(b) > MaxMessage
    PROVE  k = Len(s.messages)
<1>1. Len(s.messages) \in Nat BY WireAt
<1>2. ASSUME k \in 0..Len(s.messages) - 1 PROVE FALSE
  <2> DEFINE m == s.messages[k + 1]
  <2>1. /\ m \in Seq(Byte) /\ Len(m) <= MaxMessage
        /\ b[1] = 0 /\ Length(b) = Len(m)
    BY <1>2, AtFrame
  <2>2. Len(m) \in Nat BY <2>1, LenProperties
  <2> QED BY <2>1, <2>2, MaxMessageAssumption
<1> QED BY <1>1, <1>2

(* Every step keeps it.                                                      *)
LEMMA StepKeepsStream == TypeOK /\ StreamInv /\ Next => StreamInv'
<1> SUFFICES ASSUME TypeOK, StreamInv, Next PROVE StreamInv'
  OBVIOUS
<1> DEFINE W == Wire(script)
           M == script.messages
<1>1. PICK k \in 0..Len(M) : At(script, k, fed, buffer) /\ Got = SubSeq(M, 1, k)
  BY DEF StreamInv, AtSomeFrame
<1>2. /\ script \in Scripts /\ fed \in Nat /\ buffer \in Seq(Byte) /\ k \in Nat
      /\ Len(M) \in Nat /\ W \in Seq(Byte) /\ Len(W) \in Nat /\ End(script, k) \in Nat
  BY <1>1, WireAt, LenProperties DEF TypeOK
<1>3. delivered \in Seq(Seq(Byte)) /\ messages \in Seq(Seq(Byte))
  BY DEF TypeOK, Message
<1>4. M \in Seq(Seq(Byte)) BY <1>2, ScriptsAssumption DEF IsScript
<1>5. StateTellsBuffer BY DEF StreamInv
<1>6. CASE \E n \in 1..(Len(W) - fed) : Feed(n)
  <2>1. PICK n \in 1..(Len(W) - fed) : Feed(n) BY <1>6
  <2>2. /\ n \in Nat /\ fed + n <= Len(W) /\ state = "waiting" /\ state' = "feeding"
        /\ buffer' = buffer \o SubSeq(W, fed + 1, fed + n)
        /\ fed' = fed + n /\ messages' = <<>> /\ script' = script /\ delivered' = delivered
    BY <1>2, <2>1 DEF Feed
  <2>3. Got' = Got BY <1>3, <2>2, ConcatEmptySeq DEF Got
  <2>4. buffer' = SubSeq(W, End(script, k) + 1, fed + n)
    <3>1. End(script, k) <= fed /\ buffer = SubSeq(W, End(script, k) + 1, fed)
      BY <1>1 DEF At
    <3>2. /\ End(script, k) + 1 \in 1..Len(W) + 1 /\ fed \in (End(script, k) + 1) - 1..Len(W)
          /\ fed + n \in fed..Len(W)
      BY <1>2, <2>2, <3>1
    <3> HIDE DEF W
    <3> QED BY <1>2, <2>2, <3>1, <3>2, ConcatAdjacentSubSeq
  <2>5. At(script, k, fed + n, buffer')
    <3>1. End(script, k) <= fed BY <1>1 DEF At
    <3>2. End(script, k) <= fed + n BY <1>2, <2>2, <3>1
    <3> QED BY <2>2, <2>4, <3>2 DEF At
  <2>6. AtSomeFrame' BY <1>1, <2>2, <2>3, <2>5 DEF AtSomeFrame
  <2>7. StateTellsBuffer' BY <2>2 DEF StateTellsBuffer
  <2> QED BY <2>6, <2>7 DEF StreamInv
<1>7. CASE Decode
  <2> DEFINE m == M[k + 1]
             n == Length(buffer)
  <2>1. /\ state = "feeding" /\ state' = "feeding" /\ UNCHANGED <<script, fed, delivered>>
        /\ messages' = Append(messages, SubSeq(buffer, Header + 1, n + Header))
        /\ buffer' = SubSeq(buffer, n + Header + 1, Len(buffer))
        /\ Len(buffer) >= Header /\ Len(buffer) >= n + Header
    BY <1>7 DEF Decode, HasHeader, HasBody
  <2>2. BeginsWithFrame(buffer)
    <3>1. Length(buffer) \in Nat BY <1>2, <2>1, LengthIsNatural
    <3>2. ~(Length(buffer) > MaxMessage) BY <1>7 DEF Decode, TooLong
    <3>3. Length(buffer) <= MaxMessage BY <3>1, <3>2, MaxMessageAssumption
    <3> QED BY <1>7, <2>1, <3>3 DEF Decode, Compressed, BeginsWithFrame
  <2>3. k \in 0..Len(M) - 1 BY <1>1, <1>2, <2>2, FrameIsNext
  <2>4. n = Len(m) /\ m \in Seq(Byte)
    <3>1. Len(buffer) >= Header BY <2>1
    <3> HIDE DEF M
    <3>2. M = script.messages BY DEF M
    <3>3. m \in Seq(Byte) BY <1>1, <1>2, <2>3, <3>2, AtFrame
    <3>4. n = Len(m) BY <1>1, <1>2, <2>3, <3>1, <3>2, AtFrame
    <3> QED BY <3>3, <3>4
  <2>5. messages' = Append(messages, m) /\ At(script, k + 1, fed, buffer')
    <3>1. Len(buffer) >= Len(m) + Header BY <2>1, <2>4
    <3>2. /\ SubSeq(buffer, Header + 1, Len(m) + Header) = m
          /\ At(script, k + 1, fed, SubSeq(buffer, Len(m) + Header + 1, Len(buffer)))
      BY <1>1, <1>2, <2>3, <3>1, AtFrame
    <3> HIDE DEF n, m
    <3> QED BY <2>1, <2>4, <3>2
  <2>6. Got' = Append(Got, m)
    <3>1. Got = delivered \o messages /\ Got' = delivered \o Append(messages, m)
      BY <2>1, <2>5 DEF Got
    <3> HIDE DEF m
    <3> QED BY <1>3, <2>4, <3>1
  <2>7. Got' = SubSeq(M, 1, k + 1)
    <3>1. k + 1 \in 1..Len(M) /\ k = (k + 1) - 1 BY <1>2, <2>3
    <3>2. SubSeq(M, 1, k + 1) = SubSeq(M, 1, (k + 1) - 1) \o <<M[k + 1]>>
      <4>1. 1 \in 1..Len(M) /\ k + 1 \in 1..Len(M) BY <1>2, <3>1
      <4> HIDE DEF M
      <4> QED BY <1>4, <4>1, SubSeqRecursiveSecond
    <3>3. Got \in Seq(Seq(Byte)) BY <1>3, <2>1, ConcatProperties DEF Got
    <3>4. Append(Got, m) = Got \o <<m>> BY <2>4, <3>3, AppendIsConcat
    <3> HIDE DEF M, m
    <3> QED BY <1>1, <2>6, <3>1, <3>2, <3>4 DEF m
  <2>8. k + 1 \in 0..Len(M) BY <1>2, <2>3
  <2>9. AtSomeFrame' BY <2>1, <2>5, <2>7, <2>8 DEF AtSomeFrame
  <2>10. StateTellsBuffer' BY <2>1 DEF StateTellsBuffer
  <2> QED BY <2>9, <2>10 DEF StreamInv
<1>8. ASSUME UNCHANGED <<script, fed, buffer>>, Got' = Got PROVE AtSomeFrame'
  BY <1>1, <1>8 DEF AtSomeFrame
<1>9. CASE Reject
  <2>1. Got' = Got BY <1>9 DEF Reject, Got
  <2>2. StateTellsBuffer' BY <1>9 DEF Reject, StateTellsBuffer, HasHeader, Compressed, TooLong
  <2> QED BY <1>8, <1>9, <2>1, <2>2 DEF Reject, StreamInv
<1>10. CASE Return
  <2>1. Got' = Got BY <1>10 DEF Return, Got
  <2>2. StateTellsBuffer'
    BY <1>10 DEF Return, StateTellsBuffer, NeedsMore, HasHeader, Compressed, TooLong, HasBody
  <2> QED BY <1>8, <1>10, <2>1, <2>2 DEF Return, StreamInv
<1>11. CASE Finish
  <2>1. Got' = Got BY <1>11 DEF Finish, Got
  <2>2. StateTellsBuffer'
    BY <1>5, <1>11 DEF Finish, StateTellsBuffer, NeedsMore, HasHeader, Compressed, TooLong, HasBody
  <2> QED BY <1>8, <1>11, <2>1, <2>2 DEF Finish, StreamInv
<1>12. CASE Over
  <2>1. UNCHANGED vars BY <1>12 DEF Over
  <2> QED BY <1>5, <1>8, <2>1
     DEF vars, Got, StreamInv, StateTellsBuffer, NeedsMore, HasHeader, Compressed, TooLong, HasBody
<1> QED BY <1>6, <1>7, <1>9, <1>10, <1>11, <1>12 DEF Next

(* The promises, at any moment, from where the decoder stands.               *)
LEMMA StreamTellsCut == TypeOK /\ StreamInv => CutDoesNotMatter
<1> SUFFICES ASSUME TypeOK, StreamInv, state = "waiting"
             PROVE  \E k \in WholeWithin(fed) :
                      /\ k + 1 \notin WholeWithin(fed)
                      /\ delivered = SubSeq(script.messages, 1, k)
  BY DEF CutDoesNotMatter
<1>1. PICK k \in 0..Len(script.messages) :
        At(script, k, fed, buffer) /\ Got = SubSeq(script.messages, 1, k)
  BY DEF StreamInv, AtSomeFrame
<1>2. /\ script \in Scripts /\ fed \in Nat /\ buffer \in Seq(Byte) /\ k \in Nat
      /\ Len(script.messages) \in Nat /\ Len(buffer) \in Nat
  BY <1>1, WireAt, LenProperties DEF TypeOK
<1>3. \A j \in 0..Len(script.messages) : j \in WholeWithin(fed) <=> End(script, j) <= fed
  BY FlatIsFirst DEF WholeWithin, End
<1>4. k \in WholeWithin(fed) BY <1>1, <1>3 DEF At
<1>5. ASSUME k + 1 \in WholeWithin(fed) PROVE FALSE
  <2> DEFINE m == script.messages[k + 1]
  <2>1. k + 1 \in 0..Len(script.messages) BY <1>5 DEF WholeWithin
  <2>2. k \in 0..Len(script.messages) - 1 BY <1>1, <1>2, <2>1
  <2>3. End(script, k + 1) <= fed BY <1>3, <1>5, <2>1
  <2>4. Len(buffer) >= Len(m) + Header BY <1>1, <1>2, <2>2, <2>3, AtFrame
  <2>5. m \in Seq(Byte) BY <1>1, <1>2, <2>2, AtFrame
  <2>6. Len(m) \in Nat BY <2>5, LenProperties
  <2> HIDE DEF m
  <2>7. Len(buffer) >= Header BY <1>2, <2>4, <2>6 DEF Header
  <2>8. Length(buffer) = Len(m) BY <1>1, <1>2, <2>2, <2>7, AtFrame DEF m
  <2>9. ~HasBody BY <2>7 DEF StreamInv, StateTellsBuffer, NeedsMore, HasHeader
  <2> QED BY <2>4, <2>8, <2>9 DEF HasBody
<1>6. delivered = SubSeq(script.messages, 1, k) BY <1>1 DEF Got
<1> QED BY <1>4, <1>5, <1>6

(* The verdict likewise.                                                     *)
LEMMA StreamTellsVerdict == TypeOK /\ StreamInv => VerdictIsTheStreams
<1> SUFFICES ASSUME TypeOK, StreamInv PROVE VerdictIsTheStreams
  OBVIOUS
<1> DEFINE M == script.messages
           t == script.tail
<1>1. PICK k \in 0..Len(M) : At(script, k, fed, buffer) /\ Got = SubSeq(M, 1, k)
  BY DEF StreamInv, AtSomeFrame
<1>2. /\ script \in Scripts /\ fed \in Nat /\ buffer \in Seq(Byte) /\ k \in Nat
      /\ Len(M) \in Nat /\ Len(buffer) \in Nat
  BY <1>1, WireAt, LenProperties DEF TypeOK
<1>3. M \in Seq(Seq(Byte)) /\ t \in Seq(Byte) BY <1>2, ScriptsAssumption DEF IsScript
<1>4. Len(t) \in Nat BY <1>3, LenProperties
<1>5. StateTellsBuffer BY DEF StreamInv
(* With all bytes fed, a frame that is left is whole.                        *)
<1>6. ASSUME state \in {"finished", "truncated"} PROVE k = Len(M) /\ buffer = t
  <2>1. fed = Len(Wire(script)) /\ NeedsMore BY <1>5, <1>6 DEF StateTellsBuffer
  <2>2. ASSUME k \in 0..Len(M) - 1 PROVE FALSE
    <3> DEFINE m == M[k + 1]
    <3>1. End(script, k + 1) <= fed BY <1>2, <2>1, <2>2, WireAt
    <3>2. Len(buffer) >= Len(m) + Header BY <1>1, <1>2, <2>2, <3>1, AtFrame
    <3>3. m \in Seq(Byte) BY <1>1, <1>2, <2>2, AtFrame
    <3>4. Len(m) \in Nat BY <3>3, LenProperties
    <3> HIDE DEF m
    <3>5. Len(buffer) >= Header BY <1>2, <3>2, <3>4 DEF Header
    <3>6. Length(buffer) = Len(m) BY <1>1, <1>2, <2>2, <3>5, AtFrame DEF m
    <3>7. ~HasBody BY <2>1, <3>5 DEF NeedsMore, HasHeader
    <3> QED BY <3>2, <3>6, <3>7 DEF HasBody
  <2>3. k = Len(M) BY <1>1, <1>2, <2>2
  <2>4. buffer = t BY <1>1, <1>2, <2>1, <2>3, AtTail
  <2> QED BY <2>3, <2>4
<1>7. k = Len(M) => Got = M
  <2> HIDE DEF M
  <2> QED BY <1>1, <1>3, SubSeqFull
<1>8. ASSUME state = "finished" PROVE script.tail = <<>> /\ delivered = script.messages
  <2>1. k = Len(M) /\ buffer = t BY <1>6, <1>8
  <2>2. buffer = <<>> BY <1>5, <1>8 DEF StateTellsBuffer
  <2> QED BY <1>7, <1>8, <2>1, <2>2 DEF Got
<1>9. ASSUME state = "truncated" PROVE IsPartial(script.tail) /\ delivered = script.messages
  <2>1. k = Len(M) /\ buffer = t BY <1>6, <1>9
  <2>2. buffer # <<>> /\ NeedsMore BY <1>5, <1>9 DEF StateTellsBuffer
  <2>3. ASSUME ~HasHeader PROVE IsPartial(script.tail)
    BY <1>2, <2>1, <2>2, <2>3 DEF IsPartial, HasHeader, Header
  <2>4. ASSUME HasHeader PROVE IsPartial(script.tail)
    <3>1. Length(buffer) \in Nat BY <1>2, <2>4, LengthIsNatural DEF HasHeader
    <3>2. buffer[1] = 0 /\ ~(Length(buffer) > MaxMessage)
      BY <2>2, <2>4 DEF NeedsMore, Compressed, TooLong
    <3>3. Length(buffer) <= MaxMessage BY <3>1, <3>2, MaxMessageAssumption
    <3> QED BY <2>1, <2>2, <3>2, <3>3 DEF IsPartial
  <2>5. delivered = script.messages BY <1>7, <1>9, <2>1 DEF Got
  <2> QED BY <2>3, <2>4, <2>5
<1>10. ASSUME state = "failed"
       PROVE  /\ script.tail # <<>> /\ ~IsPartial(script.tail)
              /\ IsPrefix(delivered \o messages, script.messages)
  <2>1. HasHeader /\ (Compressed \/ TooLong) BY <1>5, <1>10 DEF StateTellsBuffer
  <2>2. Len(buffer) >= Header /\ (buffer[1] # 0 \/ Length(buffer) > MaxMessage)
    BY <2>1 DEF HasHeader, Compressed, TooLong
  <2>3. k = Len(M) BY <1>1, <1>2, <2>2, BadFrameIsTail
  <2>4. Len(buffer) <= Len(t) /\ buffer[1] = t[1] /\ Length(buffer) = Length(t)
    BY <1>1, <1>2, <2>2, <2>3, AtTail
  <2>5. t # <<>>
    <3>1. Len(t) # 0 BY <1>2, <1>4, <2>2, <2>4 DEF Header
    <3> QED BY <3>1, EmptySeq
  <2>6. ~IsPartial(t)
    <3>1. Length(t) \in Nat BY <1>2, <2>2, <2>4, LengthIsNatural
    <3>2. ~(Len(t) < Header) BY <1>2, <1>4, <2>2, <2>4 DEF Header
    <3>3. t[1] # 0 \/ ~(Length(t) <= MaxMessage) BY <2>2, <2>4, <3>1, MaxMessageAssumption
    <3> QED BY <3>2, <3>3 DEF IsPartial
  <2>7. delivered \o messages = M BY <1>7, <1>10, <2>3 DEF Got
  <2>8. IsPrefix(M, M)
    <3> HIDE DEF M
    <3> QED BY <1>2 DEF IsPrefix
  <2> QED BY <2>5, <2>6, <2>7, <2>8
<1> QED BY <1>8, <1>9, <1>10 DEF VerdictIsTheStreams

(* The invariant holds throughout.                                           *)
LEMMA StreamInvariance == Spec => []StreamInv
<1>1. Init => TypeOK /\ StreamInv
  <2> SUFFICES ASSUME Init PROVE TypeOK /\ StreamInv OBVIOUS
  <2>1. TypeOK BY DEF Init, TypeOK
  <2>2. /\ script \in Scripts /\ fed = 0 /\ buffer = <<>> /\ messages = <<>>
        /\ delivered = <<>> /\ state = "waiting" BY DEF Init
  <2>3. /\ Len(script.messages) \in Nat /\ End(script, 0) = 0
        /\ Wire(script) \in Seq(Byte) BY <2>2, WireAt
  <2>4. 0 <= Len(Wire(script)) BY <2>3, LenProperties
  <2>5. SubSeq(Wire(script), 1, 0) = <<>> BY SubSeqEmpty
  <2>6. At(script, 0, fed, buffer) BY <2>2, <2>3, <2>4, <2>5 DEF At
  <2>7. Got = SubSeq(script.messages, 1, 0) BY <2>2, SubSeqEmpty DEF Got
  <2>8. 0 \in 0..Len(script.messages) BY <2>3
  <2>9. AtSomeFrame BY <2>6, <2>7, <2>8 DEF AtSomeFrame
  <2>10. StateTellsBuffer
    BY <2>2 DEF StateTellsBuffer, NeedsMore, HasHeader, Header
  <2> QED BY <2>1, <2>9, <2>10 DEF StreamInv
<1>2. TypeOK /\ StreamInv /\ [Next]_vars => StreamInv'
  <2>1. StreamInv /\ UNCHANGED vars => StreamInv'
    BY DEF StreamInv, AtSomeFrame, Got, StateTellsBuffer, NeedsMore, HasHeader, Compressed,
           TooLong, HasBody, vars
  <2> QED BY <2>1, StepKeepsStream
<1> QED BY <1>1, <1>2, TypeCorrect, PTL DEF Spec

(* Wherever the stream is cut, exactly the messages whose frames are complete *)
(* have been returned.                                                       *)
THEOREM CutNeverMatters == Spec => []CutDoesNotMatter
<1> QED BY StreamTellsCut, StreamInvariance, TypeCorrect, PTL

(* The stream is judged by how it ends, and by nothing else.                 *)
THEOREM VerdictIsAlwaysTheStreams == Spec => []VerdictIsTheStreams
<1> QED BY StreamTellsVerdict, StreamInvariance, TypeCorrect, PTL
------------------------------------------------------------------------------
(* Scripts stand for every stream.                                          *)

(* To the base 256: a number's last digit, and what is before it.            *)
Digits(x, y) == x * 256 + y
High(n) == n \div 256
Low(n) == n % 256

LEMMA LastDigit ==
    ASSUME NEW x \in Nat, NEW y \in Byte
    PROVE  /\ Digits(x, y) \in Nat
           /\ High(Digits(x, y)) = x /\ Low(Digits(x, y)) = y
BY DEF Byte, Digits, High, Low

(* Four bytes are the big-endian form of the number they stand for.          *)
LEMMA BigEndianOfLength ==
    ASSUME NEW b \in Seq(Byte), Len(b) >= Header
    PROVE  /\ FitsFourBytes(Length(b))
           /\ BigEndian(Length(b)) = <<b[2], b[3], b[4], b[5]>>
<1>1. b[2] \in Byte /\ b[3] \in Byte /\ b[4] \in Byte /\ b[5] \in Byte BY DEF Header
<1>2. b[2] \in Nat
  <2>1. \A y \in Byte : y \in Nat BY DEF Byte
  <2> QED BY <1>1, <2>1
<1> DEFINE r == Digits(b[2], b[3])
           q == Digits(r, b[4])
           n == Digits(q, b[5])
<1>3. r \in Nat /\ High(r) = b[2] /\ Low(r) = b[3] BY <1>1, <1>2, LastDigit
<1>4. q \in Nat /\ High(q) = r /\ Low(q) = b[4]
  <2> HIDE DEF r
  <2> QED BY <1>1, <1>3, LastDigit
<1>5. n \in Nat /\ High(n) = q /\ Low(n) = b[5]
  <2> HIDE DEF q
  <2> QED BY <1>1, <1>4, LastDigit
<1>6. b[2] % 256 = b[2]
  <2>1. \A y \in Byte : y % 256 = y BY DEF Byte
  <2> QED BY <1>1, <2>1
<1>7. Length(b) = n BY DEF Length, Digits
<1> HIDE DEF r, q, n
<1>8. FitsFourBytes(n) BY <1>1, <1>3, <1>4, <1>5 DEF FitsFourBytes, High
<1>9. BigEndian(n) = <<b[2], b[3], b[4], b[5]>>
  BY <1>3, <1>4, <1>5, <1>6 DEF BigEndian, High, Low
<1> QED BY <1>7, <1>8, <1>9

(* What begins with a frame is the frame of a message, and a rest.           *)
LEMMA TakeFrame ==
    ASSUME NEW b \in Seq(Byte), BeginsWithFrame(b)
    PROVE  \E m \in Seq(Byte), r \in Seq(Byte) :
             Len(m) <= MaxMessage /\ FitsFourBytes(Len(m)) /\ b = Frame(m) \o r
<1> DEFINE n == Length(b)
           h == n + Header
           m == SubSeq(b, Header + 1, h)
           r == SubSeq(b, h + 1, Len(b))
           z == SubSeq(b, 1, Header)
<1>1. n \in Nat /\ Len(b) \in Nat /\ Header \in Nat /\ n <= MaxMessage /\ h <= Len(b)
      /\ Len(b) >= Header /\ b[1] = 0
  BY LengthIsNatural, LenProperties DEF BeginsWithFrame, Header
<1>2. h \in Nat /\ Header <= h
  <2> HIDE DEF n
  <2> QED BY <1>1 DEF Header
<1>3. m \in Seq(Byte) /\ Len(m) = n
  <2>1. m = SubSeq(b, Header + 1, h) OBVIOUS
  <2>2. h - Header = n
    <3> HIDE DEF n
    <3> QED BY <1>1 DEF Header
  <2> HIDE DEF h, m
  <2>3. m \in Seq(Byte) /\ Len(m) = h - Header BY <1>1, <1>2, <2>1, Slice
  <2> QED BY <2>2, <2>3
<1>4. r \in Seq(Byte)
  <2>1. r = SubSeq(b, h + 1, Len(b)) /\ Len(b) <= Len(b) BY <1>1
  <2> HIDE DEF h, r
  <2> QED BY <1>1, <1>2, <2>1, Slice
<1>5. b = (z \o m) \o r
  <2> HIDE DEF h
  <2>1. 1 \in 1..Len(b) + 1 /\ Header \in 1 - 1..Len(b) /\ h \in Header..Len(b) BY <1>1, <1>2
  <2>2. z \o m = SubSeq(b, 1, h) BY <2>1, ConcatAdjacentSubSeq
  <2>3. h \in 1 - 1..Len(b) /\ Len(b) \in h..Len(b) BY <1>1, <1>2
  <2>4. SubSeq(b, 1, h) \o r = SubSeq(b, 1, Len(b)) BY <2>1, <2>3, ConcatAdjacentSubSeq
  <2>5. SubSeq(b, 1, Len(b)) = b BY SubSeqFull
  <2> QED BY <2>2, <2>4, <2>5
<1>6. z = <<0>> \o BigEndian(n)
  <2> DEFINE y == BigEndian(n)
             o == <<0>>
             x == o \o y
  <2>1. y = <<b[2], b[3], b[4], b[5]>> BY <1>1, BigEndianOfLength
  <2>2. y \in Seq(Byte) /\ Len(y) = 4 BY <1>1, BigEndianIsBytes
  <2>3. o \in Seq(Byte) /\ Len(o) = 1 /\ o[1] = 0 BY DEF Byte
  <2>4. z \in Seq(Byte) /\ Len(z) = 5 /\ \A i \in 1..5 : z[i] = b[i] BY <1>1 DEF Header
  <2> HIDE DEF n, z, y, o
  <2>5. y[1] = b[2] /\ y[2] = b[3] /\ y[3] = b[4] /\ y[4] = b[5] BY <2>1
  <2>6. /\ x \in Seq(Byte) /\ Len(x) = Len(o) + Len(y)
        /\ \A i \in 1..Len(o) : x[i] = o[i]
        /\ \A i \in 1..Len(y) : x[Len(o) + i] = y[i]
    BY <2>2, <2>3, JoinBytes
  <2> HIDE DEF x
  <2>7. 1 \in 1..Len(o) /\ 1 \in 1..Len(y) /\ 2 \in 1..Len(y) /\ 3 \in 1..Len(y) /\ 4 \in 1..Len(y)
    BY <2>2, <2>3
  <2>8. x[1] = 0 BY <2>3, <2>6, <2>7
  <2>9. x[1 + 1] = b[2] /\ x[1 + 2] = b[3] /\ x[1 + 3] = b[4] /\ x[1 + 4] = b[5]
    BY <2>3, <2>5, <2>6, <2>7
  <2>10. Len(x) = 5 /\ \A i \in 1..5 : z[i] = x[i] BY <1>1, <2>2, <2>3, <2>4, <2>6, <2>8, <2>9
  <2>11. z = x BY <2>4, <2>6, <2>10, SeqEqual
  <2> QED BY <2>11 DEF x, o, y
<1>7. Frame(m) = z \o m
  <2> HIDE DEF n, z, m
  <2> QED BY <1>3, <1>6 DEF Frame
<1>8. FitsFourBytes(n) BY <1>1, BigEndianOfLength
<1> HIDE DEF n, h, z, m, r
<1> QED BY <1>1, <1>3, <1>4, <1>5, <1>7, <1>8

(* The first n messages a stream w can be read as, and what follows them.    *)
ReadAs(w, n, ms, r) ==
    /\ ms \in Seq(Seq(Byte)) /\ Len(ms) = n
    /\ \A i \in 1..n : Len(ms[i]) <= MaxMessage /\ FitsFourBytes(Len(ms[i]))
    /\ r \in Seq(Byte)
    /\ w = Flat(Frames(ms), n) \o r

(* Frames are not empty.                                                     *)
LEMMA FramesAreBytes ==
    ASSUME NEW w, NEW n \in Nat, NEW ms, NEW r, ReadAs(w, n, ms, r)
    PROVE  /\ Frames(ms) \in Seq(Seq(Byte)) /\ Len(Frames(ms)) = n
           /\ \A i \in 1..n : Frames(ms)[i] = Frame(ms[i])
           /\ \A i \in 1..n : Len(Frames(ms)[i]) > 0
<1>1. \A i \in 1..n : /\ Frame(ms[i]) \in Seq(Byte)
                      /\ Len(Frame(ms[i])) > 0
  <2> SUFFICES ASSUME NEW i \in 1..n
               PROVE  Frame(ms[i]) \in Seq(Byte) /\ Len(Frame(ms[i])) > 0
    OBVIOUS
  <2>1. ms[i] \in Seq(Byte) /\ FitsFourBytes(Len(ms[i])) BY ElementOfSeq DEF ReadAs
  <2>2. Frame(ms[i]) \in Seq(Byte) /\ Len(Frame(ms[i])) = Len(ms[i]) + Header
    BY <2>1, FrameProperties
  <2>3. Len(ms[i]) \in Nat BY <2>1, LenProperties
  <2> QED BY <2>2, <2>3 DEF Header
<1>2. Frames(ms) = [i \in 1..n |-> Frame(ms[i])] BY DEF Frames, ReadAs
<1> QED BY <1>1, <1>2

(* It cannot be read as more messages than it has bytes.                     *)
LEMMA ReadAsIsBounded ==
    ASSUME NEW w, NEW n \in Nat, NEW ms, NEW r, ReadAs(w, n, ms, r)
    PROVE  w \in Seq(Byte) /\ n <= Len(w)
<1> DEFINE F == Frames(ms)
           T == {k \in Nat : k <= n => k <= Len(Flat(F, k))}
<1>1. F \in Seq(Seq(Byte)) /\ Len(F) = n /\ \A i \in 1..n : Len(F[i]) > 0
  BY FramesAreBytes
<1> HIDE DEF F
<1>2. 0 \in T
  <2>1. Flat(F, 0) = <<>> BY <1>1, FlatStep
  <2> QED BY <2>1
<1>3. ASSUME NEW k \in T PROVE k + 1 \in T
  <2>1. k \in Nat OBVIOUS
  <2>2. SUFFICES ASSUME k + 1 <= n PROVE k + 1 <= Len(Flat(F, k + 1)) BY <2>1
  <2>3. k \in 0..Len(F) - 1 /\ k \in 0..Len(F) /\ k + 1 \in 1..Len(F) /\ k <= n BY <1>1, <2>1, <2>2
  <2>4. Flat(F, k + 1) = Flat(F, k) \o F[k + 1] BY <1>1, <2>3, FlatStep
  <2>5. Flat(F, k) \in Seq(Byte) BY <1>1, <2>3, FlatStep
  <2>6. F[k + 1] \in Seq(Byte) /\ Len(F[k + 1]) > 0 BY <1>1, <2>3, ElementOfSeq
  <2>7. Len(Flat(F, k + 1)) = Len(Flat(F, k)) + Len(F[k + 1]) BY <2>4, <2>5, <2>6, JoinBytes
  <2>8. k <= Len(Flat(F, k)) BY <2>3
  <2>9. Len(Flat(F, k)) \in Nat /\ Len(F[k + 1]) \in Nat BY <2>5, <2>6, LenProperties
  <2> QED BY <2>1, <2>6, <2>7, <2>8, <2>9
<1>4. T = Nat
  <2>1. T \in SUBSET Nat OBVIOUS
  <2> HIDE DEF T
  <2> QED BY <1>2, <1>3, <2>1, EveryNumber
<1>5. n <= Len(Flat(F, n)) BY <1>4
<1>6. Flat(F, n) \in Seq(Byte)
  <2>1. n \in 0..Len(F) BY <1>1
  <2> QED BY <1>1, <2>1, FlatStep
<1>7. w = Flat(F, n) \o r /\ r \in Seq(Byte) BY DEF ReadAs, F
<1>8. w \in Seq(Byte) /\ Len(w) = Len(Flat(F, n)) + Len(r) BY <1>6, <1>7, JoinBytes
<1>9. Len(Flat(F, n)) \in Nat /\ Len(r) \in Nat BY <1>6, <1>7, LenProperties
<1> QED BY <1>5, <1>8, <1>9

(* While the rest begins with a frame, it can be read as one message more.   *)
LEMMA ReadOneMore ==
    ASSUME NEW w, NEW n \in Nat, NEW ms, NEW r, ReadAs(w, n, ms, r), BeginsWithFrame(r)
    PROVE  \E ns, q : ReadAs(w, n + 1, ns, q)
<1>1. /\ ms \in Seq(Seq(Byte)) /\ Len(ms) = n /\ r \in Seq(Byte)
      /\ \A i \in 1..n : Len(ms[i]) <= MaxMessage /\ FitsFourBytes(Len(ms[i]))
      /\ w = Flat(Frames(ms), n) \o r
  BY DEF ReadAs
<1>2. PICK m \in Seq(Byte), q \in Seq(Byte) :
        Len(m) <= MaxMessage /\ FitsFourBytes(Len(m)) /\ r = Frame(m) \o q
  BY <1>1, TakeFrame
<1> DEFINE ns == Append(ms, m)
<1>3. /\ ns \in Seq(Seq(Byte)) /\ Len(ns) = n + 1
      /\ \A i \in 1..n : ns[i] = ms[i]
      /\ ns[n + 1] = m
  BY <1>1, <1>2, AppendProperties
<1> HIDE DEF ns
<1>4. \A i \in 1..(n + 1) : /\ Len(ns[i]) <= MaxMessage /\ FitsFourBytes(Len(ns[i]))
                            /\ ns[i] \in Seq(Byte)
  <2> SUFFICES ASSUME NEW i \in 1..(n + 1)
               PROVE  Len(ns[i]) <= MaxMessage /\ FitsFourBytes(Len(ns[i]))
    BY <1>3, ElementOfSeq
  <2>1. CASE i = n + 1 BY <1>2, <1>3, <2>1
  <2>2. CASE i # n + 1
    <3>1. i \in 1..n BY <2>2
    <3> QED BY <1>1, <1>3, <3>1
  <2> QED BY <2>1, <2>2
<1>5. /\ Frames(ns) = [i \in 1..(n + 1) |-> Frame(ns[i])]
      /\ Frames(ms) = [i \in 1..n |-> Frame(ms[i])]
  BY <1>1, <1>3 DEF Frames
<1>6. \A i \in 1..(n + 1) : Frame(ns[i]) \in Seq(Byte) BY <1>4, FrameProperties
<1>7. Frames(ns) \in Seq(Seq(Byte)) /\ Len(Frames(ns)) = n + 1 BY <1>5, <1>6
<1>8. Flat(Frames(ns), n) = Flat(Frames(ms), n)
  <2>1. First(Frames(ns), n) = First(Frames(ms), n) BY <1>3, <1>5 DEF First
  <2> QED BY <2>1 DEF Flat
<1>9. Flat(Frames(ns), n + 1) = Flat(Frames(ms), n) \o Frame(m)
  <2>1. n \in 0..Len(Frames(ns)) - 1 BY <1>7
  <2>2. Flat(Frames(ns), n + 1) = Flat(Frames(ns), n) \o Frames(ns)[n + 1]
    BY <1>7, <2>1, FlatStep
  <2>3. Frames(ns)[n + 1] = Frame(m) BY <1>3, <1>5
  <2> QED BY <1>8, <2>2, <2>3
<1>10. Flat(Frames(ms), n) \in Seq(Byte)
  <2>1. n \in 0..Len(Frames(ns)) BY <1>7
  <2> QED BY <1>7, <1>8, <2>1, FlatStep
<1>11. w = Flat(Frames(ns), n + 1) \o q
  <2>1. Frame(m) \in Seq(Byte) BY <1>2, FrameProperties
  <2>2. w = Flat(Frames(ms), n) \o (Frame(m) \o q) BY <1>1, <1>2
  <2> DEFINE A == Flat(Frames(ms), n)
             B == Frame(m)
  <2>3. A \in Seq(Byte) /\ B \in Seq(Byte) BY <1>10, <2>1
  <2> HIDE DEF A, B
  <2>4. (A \o B) \o q = A \o (B \o q) BY <1>2, <2>3, ConcatAssociative
  <2> QED BY <1>9, <2>2, <2>4 DEF A, B
<1>12. ReadAs(w, n + 1, ns, q) BY <1>2, <1>3, <1>4, <1>11 DEF ReadAs
<1> QED BY <1>12

(* Every stream of bytes has a script: its longest reading as messages, and   *)
(* the tail that is left.                                                    *)
THEOREM EveryStreamHasAScript ==
    \A w \in Seq(Byte) : \E s : IsScript(s) /\ Wire(s) = w
<1> SUFFICES ASSUME NEW w \in Seq(Byte) PROVE \E s : IsScript(s) /\ Wire(s) = w
  OBVIOUS
<1> DEFINE Readable(n) == \E ms, r : ReadAs(w, n, ms, r)
           T == {d \in Nat : \E n \in Nat : Readable(n) /\ d = Len(w) - n}
<1>1. Len(w) \in Nat BY LenProperties
<1>2. ReadAs(w, 0, <<>>, w)
  <2>1. Frames(<<>>) = <<>> BY DEF Frames
  <2>2. <<>> \in Seq(Seq(Byte)) /\ Len(<<>>) = 0 BY EmptySeq
  <2>3. Flat(<<>>, 0) = <<>> BY <2>2, FlatStep
  <2>4. w = <<>> \o w BY ConcatEmptySeq
  <2> QED BY <2>1, <2>2, <2>3, <2>4 DEF ReadAs
<1>3. Len(w) \in T
  <2>1. Readable(0) BY <1>2
  <2> HIDE DEF Readable
  <2> QED BY <1>1, <2>1
<1>4. PICK d \in T : \A e \in T : d <= e
  <2>1. T \in SUBSET Nat OBVIOUS
  <2> HIDE DEF T
  <2> QED BY <1>3, <2>1, LeastNumber
<1>5. PICK n \in Nat : Readable(n) /\ d = Len(w) - n
  <2> HIDE DEF Readable
  <2> QED BY <1>4
<1>6. ~Readable(n + 1)
  <2> SUFFICES ASSUME Readable(n + 1) PROVE FALSE OBVIOUS
  <2>1. n + 1 <= Len(w) BY <1>5, ReadAsIsBounded
  <2> DEFINE e == Len(w) - (n + 1)
  <2>2. e \in Nat /\ n + 1 \in Nat /\ ~(d <= e) BY <1>1, <1>5, <2>1
  <2> HIDE DEF Readable
  <2>3. e \in T BY <2>2
  <2> QED BY <1>4, <2>2, <2>3
<1>7. PICK ms, r : ReadAs(w, n, ms, r) BY <1>5
<1>8. ~BeginsWithFrame(r) BY <1>6, <1>7, ReadOneMore
<1> DEFINE s == [messages |-> ms, tail |-> r]
<1>9. s.messages = ms /\ s.tail = r OBVIOUS
<1>10. IsScript(s)
  <2> HIDE DEF s
  <2> QED BY <1>7, <1>8, <1>9 DEF IsScript, ReadAs
<1>11. Wire(s) = w
  <2>1. n \in 0..Len(s.messages) /\ Len(s.messages) = n BY <1>7, <1>9 DEF ReadAs
  <2> HIDE DEF s
  <2>2. FlattenSeq([i \in 1..n |-> Frame(s.messages[i])]) = Flat(Frames(ms), n)
    BY <1>9, <2>1, FlatIsFirst
  <2> QED BY <1>7, <1>9, <2>1, <2>2 DEF Wire, ReadAs
<1> QED BY <1>10, <1>11
==============================================================================
