---------------------------- MODULE FlatSequences ----------------------------
(* Induction over an interval, and what follows from it for FlattenSeq: the  *)
(* pieces of a sequence are joined one after the other, so that the joined   *)
(* sequence can be followed piece by piece.                                  *)
(*                                                                           *)
(* The library's induction theorems take a predicate as a parameter. Here    *)
(* induction is about a set of numbers, and rests on the library's fact that *)
(* the strict subset relation is well-founded on finite sets.                *)
EXTENDS Integers, Sequences, SequencesExt, FiniteSetTheorems, SequenceTheorems,
        WellFoundedInduction, TLAPS

(* A set of numbers that is not empty has a least element: of the intervals  *)
(* from 0 to an element one has no other as a strict subset.                 *)
LEMMA LeastNumber ==
    ASSUME NEW T \in SUBSET Nat, T # {}
    PROVE  \E n \in T : \A m \in T : n <= m
<1> DEFINE Down == {0..n : n \in T}
           R == StrictSubsetOrdering(Nat)
<1>1. IsWellFoundedOn(R, FiniteSubsetsOf(Nat))
  BY FS_StrictSubsetOrderingWellFounded
<1>2. Down \subseteq FiniteSubsetsOf(Nat)
  <2> SUFFICES ASSUME NEW n \in T PROVE 0..n \in FiniteSubsetsOf(Nat)
    OBVIOUS
  <2>1. IsFiniteSet(0..n)
    BY FS_Interval
  <2> QED
    BY <2>1 DEF FiniteSubsetsOf
<1>3. Down # {}
  OBVIOUS
<1> HIDE DEF R
<1>4. \E x \in Down : \A y \in Down : ~ (<<y, x>> \in R)
  <2> HIDE DEF Down
  <2> QED
    BY <1>1, <1>2, <1>3, WFMin
<1>5. PICK n \in T : \A y \in Down : ~ (<<y, 0..n>> \in R)
  BY <1>4
<1>6. ASSUME NEW m \in T, m < n PROVE FALSE
  <2>1. 0..m \in Down
    OBVIOUS
  <2>2. 0..m \subseteq 0..n /\ 0..m # 0..n /\ 0..m \in SUBSET Nat /\ 0..n \in SUBSET Nat
    <3>1. n \in 0..n /\ n \notin 0..m
      BY <1>6
    <3>2. 0..m \subseteq 0..n
      BY <1>6
    <3> QED
      BY <3>1, <3>2
  <2>3. <<0..m, 0..n>> \in R
    BY <2>2 DEF R, StrictSubsetOrdering
  <2> QED
    BY <1>5, <2>1, <2>3
<1> QED
  BY <1>6

(* A set that contains 0, and with each number below k the next one,         *)
(* contains all numbers up to k.                                             *)
LEMMA Induction ==
    ASSUME NEW S, NEW k \in Nat, 0 \in S, \A n \in 0..k - 1 : n \in S => n + 1 \in S
    PROVE  0..k \subseteq S
<1> DEFINE T == 0..k \ S
<1> SUFFICES ASSUME T # {} PROVE FALSE
  OBVIOUS
<1>1. T \in SUBSET Nat
  OBVIOUS
<1>2. PICK n \in T : \A m \in T : n <= m
  <2> HIDE DEF T
  <2> QED
    BY <1>1, LeastNumber
<1>3. n # 0 /\ n \in 0..k /\ n \notin S
  OBVIOUS
<1>4. n - 1 \in 0..k - 1 /\ n - 1 \in 0..k /\ (n - 1) + 1 = n
  BY <1>3
<1>5. n - 1 \notin T
  <2> HIDE DEF T
  <2> QED
    BY <1>2, <1>3, <1>4
<1>6. n - 1 \in S
  BY <1>4, <1>5
<1> QED
  BY <1>3, <1>4, <1>6

(* Two sequences joined can be cut apart again. *)
LEMMA ConcatFacts ==
    ASSUME NEW D, NEW s \in Seq(D), NEW t \in Seq(D)
    PROVE  /\ s \o t \in Seq(D) /\ Len(s \o t) = Len(s) + Len(t)
           /\ Len(s) \in Nat /\ Len(t) \in Nat
           /\ \A n \in 1..Len(s) : (s \o t)[n] = s[n]
           /\ \A n \in 1..Len(t) : (s \o t)[Len(s) + n] = t[n]
           /\ s \o <<>> = s /\ <<>> \o s = s
<1>1. s \o <<>> = s /\ <<>> \o s = s
  BY ConcatEmptySeq
<1>2. Len(s) \in Nat /\ Len(t) \in Nat
  OBVIOUS
<1>3. s \o t \in Seq(D) /\ Len(s \o t) = Len(s) + Len(t)
  OBVIOUS
<1>4. \A n \in 1..Len(s) : (s \o t)[n] = s[n]
  OBVIOUS
<1>5. \A n \in 1..Len(t) : (s \o t)[Len(s) + n] = t[n]
  OBVIOUS
<1> QED
  BY <1>1, <1>2, <1>3, <1>4, <1>5

LEMMA SubSeqFacts ==
    ASSUME NEW D, NEW s \in Seq(D), NEW i \in 0..Len(s), NEW j \in i..Len(s)
    PROVE  /\ SubSeq(s, i + 1, j) \in Seq(D) /\ Len(SubSeq(s, i + 1, j)) = j - i
           /\ Len(s) \in Nat
           /\ \A n \in 1..j - i : SubSeq(s, i + 1, j)[n] = s[i + n]
<1>1. Len(s) \in Nat
  OBVIOUS
<1>2. SubSeq(s, i + 1, j) \in Seq(D) /\ Len(SubSeq(s, i + 1, j)) = j - i
  OBVIOUS
<1>3. \A n \in 1..j - i : SubSeq(s, i + 1, j)[n] = s[i + n]
  OBVIOUS
<1> QED
  BY <1>1, <1>2, <1>3

LEMMA CutConcat ==
    ASSUME NEW D, NEW s \in Seq(D), NEW t \in Seq(D)
    PROVE  /\ SubSeq(s \o t, 1, Len(s)) = s
           /\ SubSeq(s \o t, Len(s) + 1, Len(s \o t)) = t
<1> DEFINE u == s \o t
<1>1. /\ u \in Seq(D) /\ Len(u) = Len(s) + Len(t) /\ Len(s) \in Nat /\ Len(t) \in Nat
      /\ \A n \in 1..Len(s) : u[n] = s[n]
      /\ \A n \in 1..Len(t) : u[Len(s) + n] = t[n]
  BY ConcatFacts
<1> HIDE DEF u
<1>2. 0 \in 0..Len(u) /\ Len(s) \in 0..Len(u) /\ Len(u) \in Len(s)..Len(u)
  BY <1>1
<1>3. SubSeq(u, 1, Len(s)) = s
  <2> DEFINE v == SubSeq(u, 0 + 1, Len(s))
  <2>1. v \in Seq(D) /\ Len(v) = Len(s) - 0 /\ \A n \in 1..Len(s) - 0 : v[n] = u[0 + n]
    BY <1>1, <1>2, SubSeqFacts
  <2> HIDE DEF v
  <2>2. Len(v) = Len(s) /\ \A n \in 1..Len(s) : v[n] = s[n]
    BY <1>1, <2>1
  <2>3. v = s
    BY <2>1, <2>2, SeqEqual
  <2> QED
    BY <2>3 DEF v
<1>4. SubSeq(u, Len(s) + 1, Len(u)) = t
  <2> DEFINE v == SubSeq(u, Len(s) + 1, Len(u))
  <2>1. v \in Seq(D) /\ Len(v) = Len(u) - Len(s) /\ \A n \in 1..Len(u) - Len(s) : v[n] = u[Len(s) + n]
    BY <1>1, <1>2, SubSeqFacts
  <2> HIDE DEF v
  <2>2. Len(v) = Len(t) /\ \A n \in 1..Len(t) : v[n] = t[n]
    BY <1>1, <2>1
  <2>3. v = t
    BY <2>1, <2>2, SeqEqual
  <2> QED
    BY <2>3 DEF v
<1> QED
  BY <1>3, <1>4 DEF u

(* A sequence is cut at a place into two that make it up. *)
LEMMA CutApart ==
    ASSUME NEW D, NEW s \in Seq(D), NEW k \in 0..Len(s)
    PROVE  /\ SubSeq(s, 1, k) \in Seq(D) /\ Len(SubSeq(s, 1, k)) = k
           /\ SubSeq(s, k + 1, Len(s)) \in Seq(D)
           /\ Len(SubSeq(s, k + 1, Len(s))) = Len(s) - k
           /\ s = SubSeq(s, 1, k) \o SubSeq(s, k + 1, Len(s))
<1>1. Len(s) \in Nat /\ 0 \in 0..Len(s) /\ k \in 0..Len(s) /\ Len(s) \in k..Len(s)
  OBVIOUS
<1>2. SubSeq(s, 1, k) \in Seq(D) /\ Len(SubSeq(s, 1, k)) = k
  <2>1. SubSeq(s, 0 + 1, k) \in Seq(D) /\ Len(SubSeq(s, 0 + 1, k)) = k - 0
    BY <1>1, SubSeqFacts
  <2>2. 0 + 1 = 1 /\ k - 0 = k
    BY <1>1
  <2> QED
    BY <2>1, <2>2
<1>3. /\ SubSeq(s, k + 1, Len(s)) \in Seq(D)
      /\ Len(SubSeq(s, k + 1, Len(s))) = Len(s) - k
  BY <1>1, SubSeqFacts
<1>4. SubSeq(s, 1, k) \o SubSeq(s, k + 1, Len(s)) = SubSeq(s, 1, Len(s))
  <2>1. 1 \in 1..Len(s) + 1 /\ k \in 1 - 1..Len(s)
    BY <1>1
  <2> QED
    BY <1>1, <2>1, ConcatAdjacentSubSeq
<1>5. SubSeq(s, 1, Len(s)) = s
  BY SubSeqFull
<1>6. s = SubSeq(s, 1, k) \o SubSeq(s, k + 1, Len(s))
  BY <1>4, <1>5
<1> QED
  BY <1>2, <1>3, <1>6

LEMMA PrefixStep ==
    ASSUME NEW D, NEW s \in Seq(D), NEW k \in 0..Len(s) - 1
    PROVE  SubSeq(s, 1, k + 1) = SubSeq(s, 1, k) \o <<s[k + 1]>>
<1>1. Len(s) \in Nat
  OBVIOUS
<1>2. 1 \in 1..Len(s) /\ k + 1 \in 1..Len(s) /\ (k + 1) - 1 = k
  BY <1>1
<1>3. SubSeq(s, 1, k + 1) = SubSeq(s, 1, (k + 1) - 1) \o <<s[k + 1]>>
  BY <1>2, SubSeqRecursiveSecond
<1> QED
  BY <1>2, <1>3

(* What a definition by recursion over 1..n says of f. *)
Unfolds(D, base, step, n, f) ==
    /\ f \in [0..n -> D]
    /\ f[0] = base /\ \A m \in 1..n : f[m] = step[m][f[m - 1]]

LEMMA Recursion ==
    ASSUME NEW D, NEW base \in D, NEW k \in Nat, NEW step \in [1..k -> [D -> D]]
    PROVE  \E f : Unfolds(D, base, step, k, f)
<1> DEFINE S == {n \in 0..k : \E f : Unfolds(D, base, step, n, f)}
<1>1. 0 \in S
  <2>1. Unfolds(D, base, step, 0, [n \in 0..0 |-> base])
    BY DEF Unfolds
  <2> QED
    BY <2>1
<1>2. ASSUME NEW n \in 0..k - 1, NEW f, Unfolds(D, base, step, n, f)
      PROVE  \E g : Unfolds(D, base, step, n + 1, g)
  <2> DEFINE g == [m \in 0..n + 1 |-> IF m = n + 1 THEN step[n + 1][f[n]] ELSE f[m]]
  <2>1. f \in [0..n -> D] /\ f[0] = base /\ \A m \in 1..n : f[m] = step[m][f[m - 1]]
    BY <1>2 DEF Unfolds
  <2>2. step[n + 1][f[n]] \in D
    BY <2>1
  <2>3. g \in [0..n + 1 -> D]
    BY <2>1, <2>2
  <2>4. g[0] = base
    BY <2>1
  <2>5. ASSUME NEW m \in 1..n + 1 PROVE g[m] = step[m][g[m - 1]]
    <3>1. CASE m = n + 1
      BY <3>1
    <3>2. CASE m # n + 1
      <4>1. m \in 1..n /\ m - 1 \in 0..n /\ m - 1 # n + 1 /\ m \in 0..n + 1 /\ m - 1 \in 0..n + 1
        BY <3>2
      <4>2. g[m] = f[m] /\ g[m - 1] = f[m - 1]
        BY <3>2, <4>1
      <4> QED
        BY <2>1, <4>1, <4>2
    <3> QED
      BY <3>1, <3>2
  <2> HIDE DEF g
  <2>6. Unfolds(D, base, step, n + 1, g)
    BY <2>3, <2>4, <2>5 DEF Unfolds
  <2> QED
    BY <2>6
<1>3. \A n \in 0..k - 1 : n \in S => n + 1 \in S
  BY <1>2
<1>4. 0..k \subseteq S
  <2> HIDE DEF S
  <2> QED
    BY <1>1, <1>3, Induction
<1> QED
  BY <1>4

IsFlat(D, s, f) ==
    /\ f \in [0..Len(s) -> Seq(D)]
    /\ f[0] = <<>> /\ \A n \in 1..Len(s) : f[n] = f[n - 1] \o s[n]

LEMMA FlatExists ==
    ASSUME NEW D, NEW s \in Seq(Seq(D))
    PROVE  \E f : IsFlat(D, s, f)
<1> DEFINE step == [n \in 1..Len(s) |-> [t \in Seq(D) |-> t \o s[n]]]
<1>1. step \in [1..Len(s) -> [Seq(D) -> Seq(D)]]
  OBVIOUS
<1>2. <<>> \in Seq(D) /\ Len(s) \in Nat
  OBVIOUS
<1>3. \A n \in 1..Len(s), t \in Seq(D) : step[n][t] = t \o s[n]
  OBVIOUS
<1>4. PICK f : Unfolds(Seq(D), <<>>, step, Len(s), f)
  <2> HIDE DEF step
  <2> QED
    BY <1>1, <1>2, Recursion
<1> HIDE DEF step
<1>5. /\ f \in [0..Len(s) -> Seq(D)]
      /\ f[0] = <<>> /\ \A n \in 1..Len(s) : f[n] = step[n][f[n - 1]]
  BY <1>4 DEF Unfolds
<1>6. ASSUME NEW n \in 1..Len(s) PROVE f[n] = f[n - 1] \o s[n]
  <2>1. n - 1 \in 0..Len(s)
    OBVIOUS
  <2> QED
    BY <1>3, <1>5, <2>1
<1> QED
  BY <1>5, <1>6 DEF IsFlat

LEMMA FlatOf ==
    ASSUME NEW D, NEW s \in Seq(Seq(D)), NEW f, IsFlat(D, s, f)
    PROVE  FlattenSeq(s) = f[Len(s)]
<1>1. CASE Len(s) = 0
  <2>1. s = <<>>
    BY <1>1
  <2> QED
    BY <1>1, <2>1 DEF IsFlat, FlattenSeq
<1>2. CASE Len(s) # 0
  <2> DEFINE G(g) == g = [i \in 1..Len(s) |-> IF i = 1 THEN s[i] ELSE g[i - 1] \o s[i]]
             h == CHOOSE g : G(g)
             e == [i \in 1..Len(s) |-> f[i]]
  <2>1. FlattenSeq(s) = h[Len(s)]
    BY <1>2 DEF FlattenSeq
  <2>2. G(e)
    <3>1. ASSUME NEW i \in 1..Len(s)
          PROVE  e[i] = IF i = 1 THEN s[i] ELSE e[i - 1] \o s[i]
      <4>1. f[i] = f[i - 1] \o s[i]
        BY DEF IsFlat
      <4>2. CASE i = 1
        <5>1. s[i] \in Seq(D)
          OBVIOUS
        <5>2. f[i] = s[i]
          <6>1. f[i - 1] = <<>>
            BY <4>2 DEF IsFlat
          <6> QED
            BY <4>1, <5>1, <6>1, ConcatEmptySeq
        <5> QED
          BY <4>2, <5>2
      <4>3. CASE i # 1
        <5>1. i - 1 \in 1..Len(s) /\ e[i] = f[i] /\ e[i - 1] = f[i - 1]
          BY <4>3
        <5> HIDE DEF e
        <5> QED
          BY <4>1, <4>3, <5>1
      <4> QED
        BY <4>2, <4>3
    <3> QED
      BY <3>1
  <2>3. G(h)
    <3> HIDE DEF G, e
    <3> QED
      BY <2>2
  <2>4. ASSUME NEW n \in 0..Len(s) - 1, n = 0 \/ h[n] = f[n] PROVE h[n + 1] = f[n + 1]
    <3>1. n + 1 \in 1..Len(s) /\ (n + 1) - 1 = n /\ (n + 1 = 1 <=> n = 0)
      OBVIOUS
    <3> HIDE DEF h
    <3>2. h[n + 1] = IF n + 1 = 1 THEN s[n + 1] ELSE h[n] \o s[n + 1]
      BY <2>3, <3>1
    <3>3. f[n + 1] = f[n] \o s[n + 1]
      BY <3>1 DEF IsFlat
    <3>4. CASE n = 0
      <4>1. s[n + 1] \in Seq(D)
        BY <3>1
      <4>2. f[n + 1] = s[n + 1]
        BY <3>3, <3>4, <4>1, ConcatEmptySeq DEF IsFlat
      <4> QED
        BY <3>1, <3>2, <3>4, <4>2
    <3>5. CASE n # 0
      BY <2>4, <3>1, <3>2, <3>3, <3>5
    <3> QED
      BY <3>4, <3>5
  <2> DEFINE S == {n \in 0..Len(s) : n = 0 \/ h[n] = f[n]}
  <2>5. 0..Len(s) \subseteq S
    <3> HIDE DEF h
    <3>1. 0 \in S
      OBVIOUS
    <3>2. \A n \in 0..Len(s) - 1 : n \in S => n + 1 \in S
      BY <2>4
    <3>3. Len(s) \in Nat
      OBVIOUS
    <3> HIDE DEF S
    <3> QED
      BY <3>1, <3>2, <3>3, Induction
  <2>6. Len(s) \in 0..Len(s)
    OBVIOUS
  <2> HIDE DEF h
  <2> QED
    BY <1>2, <2>1, <2>5, <2>6
<1> QED
  BY <1>1, <1>2

(* What to know of the joins of a sequence of pieces. *)
LEMMA FlatSteps ==
    ASSUME NEW D, NEW s \in Seq(Seq(D)), NEW f, IsFlat(D, s, f)
    PROVE  /\ Len(s) \in Nat /\ f[0] = <<>>
           /\ \A n \in 0..Len(s) : f[n] \in Seq(D)
           /\ \A n \in 1..Len(s) : s[n] \in Seq(D) /\ f[n] = f[n - 1] \o s[n]
           /\ \A n \in 0..Len(s) - 1 : s[n + 1] \in Seq(D) /\ f[n + 1] = f[n] \o s[n + 1]
<1>1. Len(s) \in Nat
  OBVIOUS
<1>2. /\ f \in [0..Len(s) -> Seq(D)] /\ f[0] = <<>>
      /\ \A n \in 1..Len(s) : f[n] = f[n - 1] \o s[n]
  BY DEF IsFlat
<1>3. \A n \in 1..Len(s) : s[n] \in Seq(D)
  OBVIOUS
<1>4. \A n \in 0..Len(s) - 1 : n + 1 \in 1..Len(s) /\ (n + 1) - 1 = n
  BY <1>1
<1>5. \A n \in 0..Len(s) - 1 : f[n + 1] = f[n] \o s[n + 1]
  <2> TAKE n \in 0..Len(s) - 1
  <2>1. f[n + 1] = f[(n + 1) - 1] \o s[n + 1]
    BY <1>2, <1>4
  <2> QED
    BY <1>4, <2>1
<1> QED
  BY <1>1, <1>2, <1>3, <1>4, <1>5

(* The join of the first k pieces is what f says of k. *)
LEMMA FlatPrefix ==
    ASSUME NEW D, NEW s \in Seq(Seq(D)), NEW f, IsFlat(D, s, f),
           NEW k \in 0..Len(s), NEW p \in Seq(Seq(D)),
           Len(p) = k, \A n \in 1..k : p[n] = s[n]
    PROVE  FlattenSeq(p) = f[k]
<1> DEFINE g == [n \in 0..k |-> f[n]]
<1>1. /\ Len(s) \in Nat /\ f[0] = <<>> /\ \A n \in 0..Len(s) : f[n] \in Seq(D)
      /\ \A n \in 1..Len(s) : f[n] = f[n - 1] \o s[n]
  BY FlatSteps
<1>2. 0..k \subseteq 0..Len(s) /\ 1..k \subseteq 1..Len(s) /\ k \in 0..k /\ 0 \in 0..k
  BY <1>1
<1>3. g \in [0..k -> Seq(D)] /\ g[0] = <<>> /\ g[k] = f[k]
  BY <1>1, <1>2
<1>4. ASSUME NEW n \in 1..k PROVE g[n] = g[n - 1] \o p[n]
  <2>1. n \in 0..k /\ n - 1 \in 0..k
    OBVIOUS
  <2>2. g[n] = f[n] /\ g[n - 1] = f[n - 1]
    BY <2>1
  <2> HIDE DEF g
  <2> QED
    BY <1>1, <1>2, <2>2
<1> HIDE DEF g
<1>5. IsFlat(D, p, g)
  BY <1>3, <1>4 DEF IsFlat
<1> QED
  BY <1>3, <1>5, FlatOf

(* A longer join starts with a shorter one. *)
Extends(D, t, u) == \E r \in Seq(D) : t = u \o r

LEMMA ExtendsOnce ==
    ASSUME NEW D, NEW t, NEW u \in Seq(D), NEW more \in Seq(D), Extends(D, t, u)
    PROVE  Extends(D, t \o more, u)
<1>1. PICK r \in Seq(D) : t = u \o r
  BY DEF Extends
<1>2. t \o more = u \o (r \o more)
  BY <1>1, ConcatAssociative
<1>3. r \o more \in Seq(D)
  BY ConcatProperties
<1> QED
  BY <1>2, <1>3 DEF Extends

LEMMA ExtendsSelf == ASSUME NEW D, NEW t \in Seq(D) PROVE Extends(D, t, t)
<1>1. t = t \o <<>> /\ <<>> \in Seq(D)
  BY ConcatEmptySeq
<1> QED
  BY <1>1 DEF Extends

LEMMA ExtendsLonger ==
    ASSUME NEW D, NEW t, NEW u \in Seq(D), Extends(D, t, u)
    PROVE  Len(u) <= Len(t) /\ Len(t) \in Nat
<1>1. PICK r \in Seq(D) : t = u \o r
  BY DEF Extends
<1>2. Len(u \o r) = Len(u) + Len(r) /\ Len(u) \in Nat /\ Len(r) \in Nat
  BY ConcatFacts
<1> QED
  BY <1>1, <1>2

LEMMA FlatGrows ==
    ASSUME NEW D, NEW s \in Seq(Seq(D)), NEW f, IsFlat(D, s, f),
           NEW i \in 0..Len(s), NEW j \in i..Len(s)
    PROVE  Extends(D, f[j], f[i])
<1> DEFINE S == {n \in 0..Len(s) : n < i \/ Extends(D, f[n], f[i])}
<1>1. /\ Len(s) \in Nat /\ \A n \in 0..Len(s) : f[n] \in Seq(D)
      /\ \A n \in 0..Len(s) - 1 : s[n + 1] \in Seq(D) /\ f[n + 1] = f[n] \o s[n + 1]
  BY FlatSteps
<1>2. Extends(D, f[i], f[i])
  BY <1>1, ExtendsSelf
<1>3. 0 \in S
  BY <1>1, <1>2
<1>4. ASSUME NEW n \in 0..Len(s) - 1, n \in S PROVE n + 1 \in S
  <2>1. n + 1 \in 0..Len(s) /\ n \in Nat /\ i \in Nat
    BY <1>1
  <2>2. CASE n < i
    BY <1>2, <2>1, <2>2
  <2>3. CASE ~ n < i
    <3>1. Extends(D, f[n], f[i])
      BY <1>4, <2>3
    <3>2. Extends(D, f[n + 1], f[i])
      BY <1>1, <3>1, ExtendsOnce
    <3> QED
      BY <2>1, <3>2
  <2> QED
    BY <2>2, <2>3
<1>5. 0..Len(s) \subseteq S
  <2> HIDE DEF S
  <2> QED
    BY <1>1, <1>3, <1>4, Induction
<1>6. j \in 0..Len(s) /\ ~ j < i
  BY <1>1
<1> QED
  BY <1>5, <1>6

(* The join is a sequence of the elements of the pieces, and one piece more  *)
(* adds it at the end.                                                       *)
LEMMA FlatType ==
    ASSUME NEW D, NEW s \in Seq(Seq(D))
    PROVE  FlattenSeq(s) \in Seq(D)
<1>1. PICK f : IsFlat(D, s, f)
  BY FlatExists
<1>2. FlattenSeq(s) = f[Len(s)]
  BY <1>1, FlatOf
<1>3. Len(s) \in 0..Len(s)
  OBVIOUS
<1> QED
  BY <1>1, <1>2, <1>3 DEF IsFlat
=============================================================================
