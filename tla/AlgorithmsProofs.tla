-------------------------- MODULE AlgorithmsProofs --------------------------
(* Theorems about the algorithms that Algorithms puts together, one section  *)
(* for each, in which no length, number or depth is bounded except by a      *)
(* constant:                                                                 *)
(*   ApplyTextEdits   its splices never panic, never invalidate an offset    *)
(*                    still to be used, and end where the edits applied all  *)
(*                    at once do (TextEdits);                                *)
(*   idit replace     the same, and the report is what is written            *)
(*                    (Replacements);                                        *)
(*   the decoder      delivers every body, in order, at once (Framing);      *)
(*   URIToFile        returns the path that was spelled (URIs);              *)
(*   declaration      targets mean one declaration or are refused (Locate);  *)
(*   members          every match is replied, ranked (Members);              *)
(*   discovery        every file is searched once (Discovery);               *)
(*   find             prints what is asked for (Find).                       *)
(* What they share about sequences flattened is in FlatSequences.            *)
EXTENDS Algorithms, FlatSequences

(* One splice within the bounds of a text yields a text, keeps every byte    *)
(* before it, and changes the length by what it cuts and inserts.            *)
LEMMA SpliceKeepsFront ==
    ASSUME NEW txt \in Seq(Bytes), NEW new \in Seq(Bytes),
           NEW from \in Nat, NEW to \in Nat, from <= to, to <= Len(txt)
    PROVE  /\ Splice(txt, from, to, new) \in Seq(Bytes)
           /\ Len(Splice(txt, from, to, new)) = from + Len(new) + (Len(txt) - to)
           /\ \A n \in 1..from : Splice(txt, from, to, new)[n] = txt[n]
<1> DEFINE front == SubSeq(txt, 1, from)
           back  == SubSeq(txt, to + 1, Len(txt))
<1>1. front \in Seq(Bytes) /\ Len(front) = from /\ \A n \in 1..from : front[n] = txt[n]
  OBVIOUS
<1>2. back \in Seq(Bytes) /\ Len(back) = Len(txt) - to
  OBVIOUS
<1> HIDE DEF front, back
<1> DEFINE begun == front \o new
<1>3. ASSUME NEW s \in Seq(Bytes), NEW t \in Seq(Bytes)
      PROVE  s \o t \in Seq(Bytes) /\ Len(s \o t) = Len(s) + Len(t)
  OBVIOUS
<1>4. ASSUME NEW s \in Seq(Bytes), NEW t \in Seq(Bytes), NEW n \in 1..Len(s)
      PROVE  (s \o t)[n] = s[n]
  OBVIOUS
<1>5. begun \in Seq(Bytes) /\ Len(begun) = from + Len(new)
  BY <1>1, <1>3
<1>6. \A n \in 1..from : begun[n] = front[n]
  BY <1>1, <1>4
<1> HIDE DEF begun
<1>7. begun \o back \in Seq(Bytes) /\ Len(begun \o back) = Len(begun) + Len(back)
  BY <1>2, <1>3, <1>5
<1>8. \A n \in 1..Len(begun) : (begun \o back)[n] = begun[n]
  BY <1>2, <1>4, <1>5
<1>9. 1..from \subseteq 1..Len(begun)
  BY <1>5
<1>10. Splice(txt, from, to, new) = begun \o back
  BY DEF Splice, front, back, begun
<1>11. \A n \in 1..from : Splice(txt, from, to, new)[n] = txt[n]
  BY <1>1, <1>6, <1>8, <1>9, <1>10
<1> QED
  BY <1>2, <1>5, <1>7, <1>10, <1>11

LEMMA BytesJoin ==
    ASSUME NEW s \in Seq(Bytes), NEW t \in Seq(Bytes), NEW r \in Seq(Bytes)
    PROVE  s \o (t \o r) = (s \o t) \o r
  BY ConcatAssociative

(* What AtOnce builds, byte by byte: u[n] is the text when the first n bytes *)
(* are dealt with.                                                           *)
ChangesOf(txt) == {c \in [from : 0..Len(txt), to : 0..Len(txt), new : NewTexts] : c.from <= c.to}

Builds(txt, changes, u) ==
    /\ u[0] = NewAt(changes, 0)
    /\ \A n \in 0..Len(txt) : u[n] \in Seq(Bytes)
    /\ \A n \in 0..Len(txt) - 1 :
          u[n + 1] = u[n] \o (Kept(txt, changes, n + 1) \o NewAt(changes, n + 1))

LEMMA PieceTypes ==
    ASSUME NEW txt \in Seq(Bytes), NEW changes \in SUBSET ChangesOf(txt)
    PROVE  /\ \A n : NewAt(changes, n) \in Seq(Bytes)
           /\ \A n \in 1..Len(txt) : Kept(txt, changes, n) \in Seq(Bytes)
<1>1. \A c \in changes : c.new \in Seq(Bytes)
  BY TextsAssumption DEF ChangesOf
<1>2. <<>> \in Seq(Bytes) /\ \A n \in 1..Len(txt) : <<txt[n]>> \in Seq(Bytes)
  OBVIOUS
<1>3. \A n \in 1..Len(txt) : Kept(txt, changes, n) \in Seq(Bytes)
  BY <1>2 DEF Kept
<1>4. \A n : NewAt(changes, n) \in Seq(Bytes)
  BY <1>1, <1>2 DEF NewAt
<1> QED
  BY <1>3, <1>4

LEMMA BuildsExists ==
    ASSUME NEW txt \in Seq(Bytes), NEW changes \in SUBSET ChangesOf(txt)
    PROVE  \E u : Builds(txt, changes, u) /\ AtOnce(txt, changes) = u[Len(txt)]
<1> DEFINE s == [n \in 1..Len(txt) |-> Kept(txt, changes, n) \o NewAt(changes, n)]
           start == NewAt(changes, 0)
<1>1. /\ start \in Seq(Bytes)
      /\ \A n \in 1..Len(txt) : /\ Kept(txt, changes, n) \in Seq(Bytes)
                                /\ NewAt(changes, n) \in Seq(Bytes)
  BY PieceTypes
<1>2. \A n \in 1..Len(txt) : Kept(txt, changes, n) \o NewAt(changes, n) \in Seq(Bytes)
  BY <1>1, ConcatProperties
<1>3. s \in [1..Len(txt) -> Seq(Bytes)]
  BY <1>2
<1>4. Len(txt) \in Nat
  OBVIOUS
<1>5. \A n \in 0..Len(txt) - 1 : s[n + 1] = Kept(txt, changes, n + 1) \o NewAt(changes, n + 1)
  BY <1>4
<1>6. AtOnce(txt, changes) = start \o FlattenSeq(s)
  BY DEF AtOnce
<1> HIDE DEF s, start
<1>7. s \in Seq(Seq(Bytes)) /\ Len(s) = Len(txt)
  BY <1>3, <1>4
<1>8. PICK f : IsFlat(Bytes, s, f)
  BY <1>7, FlatExists
<1>9. /\ f[0] = <<>> /\ \A n \in 0..Len(txt) : f[n] \in Seq(Bytes)
      /\ \A n \in 0..Len(txt) - 1 : s[n + 1] \in Seq(Bytes) /\ f[n + 1] = f[n] \o s[n + 1]
  <2>1. /\ f[0] = <<>> /\ \A n \in 0..Len(s) : f[n] \in Seq(Bytes)
        /\ \A n \in 0..Len(s) - 1 : s[n + 1] \in Seq(Bytes) /\ f[n + 1] = f[n] \o s[n + 1]
    BY <1>7, <1>8, FlatSteps
  <2> QED
    BY <1>7, <2>1, Zenon
<1> DEFINE u == [n \in 0..Len(txt) |-> start \o f[n]]
<1>10. \A n \in 0..Len(txt) : u[n] = start \o f[n]
  OBVIOUS
<1>11. 0 \in 0..Len(txt) /\ Len(txt) \in 0..Len(txt)
       /\ \A n \in 0..Len(txt) - 1 : n \in 0..Len(txt) /\ n + 1 \in 0..Len(txt)
  BY <1>4
<1> HIDE DEF u
<1>12. u[0] = start
  BY <1>1, <1>9, <1>10, <1>11, ConcatEmptySeq
<1>13. \A n \in 0..Len(txt) : u[n] \in Seq(Bytes)
  BY <1>1, <1>9, <1>10, ConcatProperties
<1>14. ASSUME NEW n \in 0..Len(txt) - 1
       PROVE  u[n + 1] = u[n] \o (Kept(txt, changes, n + 1) \o NewAt(changes, n + 1))
  <2>1. f[n] \in Seq(Bytes) /\ s[n + 1] \in Seq(Bytes) /\ f[n + 1] = f[n] \o s[n + 1]
    BY <1>9, <1>11
  <2>2. start \o (f[n] \o s[n + 1]) = (start \o f[n]) \o s[n + 1]
    BY <1>1, <2>1, BytesJoin
  <2> QED
    BY <1>5, <1>10, <1>11, <2>1, <2>2
<1>15. Builds(txt, changes, u)
  BY <1>12, <1>13, <1>14 DEF Builds, start
<1>16. FlattenSeq(s) = f[Len(txt)]
  BY <1>7, <1>8, FlatOf
<1>17. AtOnce(txt, changes) = u[Len(txt)]
  BY <1>6, <1>10, <1>11, <1>16
<1> QED
  BY <1>15, <1>17

(* Up to the first change the text stays as it was. *)
LEMMA BuildsFront ==
    ASSUME NEW txt \in Seq(Bytes), NEW changes \in SUBSET ChangesOf(txt),
           NEW u, Builds(txt, changes, u),
           NEW k \in 0..Len(txt), \A c \in changes : k <= c.from
    PROVE  u[k] = SubSeq(txt, 1, k) \o NewAt(changes, k)
<1> DEFINE S == {n \in 0..k : u[n] = SubSeq(txt, 1, n) \o NewAt(changes, n)}
<1>1. /\ Len(txt) \in Nat /\ k \in Nat
      /\ \A c \in changes : c.from \in Nat /\ c.to \in Nat
  BY DEF ChangesOf
<1>2. \A n : NewAt(changes, n) \in Seq(Bytes)
  BY PieceTypes
<1>3. 0 \in S
  <2>1. SubSeq(txt, 1, 0) = <<>>
    BY SubSeqEmpty
  <2>2. <<>> \o NewAt(changes, 0) = NewAt(changes, 0)
    BY <1>2, ConcatEmptySeq
  <2> QED
    BY <1>1, <2>1, <2>2 DEF Builds
<1>4. ASSUME NEW n \in 0..k - 1, n \in S PROVE n + 1 \in S
  <2>1. n \in 0..Len(txt) - 1 /\ n + 1 \in 0..k /\ n + 1 \in 1..Len(txt) /\ n \in 0..Len(txt)
    BY <1>1
  <2>2. NewAt(changes, n) = <<>>
    BY <1>1 DEF NewAt
  <2>3. Kept(txt, changes, n + 1) = <<txt[n + 1]>>
    BY <1>1 DEF Kept
  <2>4. SubSeq(txt, 1, n) \in Seq(Bytes) /\ <<txt[n + 1]>> \in Seq(Bytes)
    BY <2>1
  <2>5. u[n] = SubSeq(txt, 1, n)
    BY <1>4, <2>2, <2>4, ConcatEmptySeq
  <2>6. u[n + 1] = SubSeq(txt, 1, n) \o (<<txt[n + 1]>> \o NewAt(changes, n + 1))
    BY <2>1, <2>3, <2>5 DEF Builds
  <2>7. SubSeq(txt, 1, n) \o (<<txt[n + 1]>> \o NewAt(changes, n + 1)) =
            (SubSeq(txt, 1, n) \o <<txt[n + 1]>>) \o NewAt(changes, n + 1)
    <3> DEFINE front == SubSeq(txt, 1, n)
               byte  == <<txt[n + 1]>>
               after == NewAt(changes, n + 1)
    <3>1. front \in Seq(Bytes) /\ byte \in Seq(Bytes) /\ after \in Seq(Bytes)
      BY <1>2, <2>4
    <3> HIDE DEF front, byte, after
    <3>2. front \o (byte \o after) = (front \o byte) \o after
      BY <3>1, BytesJoin
    <3> QED
      BY <3>2 DEF front, byte, after
  <2>8. SubSeq(txt, 1, n + 1) = SubSeq(txt, 1, n) \o <<txt[n + 1]>>
    BY <2>1, PrefixStep
  <2> QED
    BY <2>1, <2>6, <2>7, <2>8
<1>5. 0..k \subseteq S
  <2> HIDE DEF S
  <2> QED
    BY <1>1, <1>3, <1>4, Induction
<1>6. k \in 0..k
  BY <1>1
<1> QED
  BY <1>5, <1>6

(* Without a change the text stays as it was. *)
LEMMA NothingAtOnce == ASSUME NEW txt \in Seq(Bytes) PROVE AtOnce(txt, {}) = txt
<1>1. {} \in SUBSET ChangesOf(txt)
  OBVIOUS
<1>2. PICK u : Builds(txt, {}, u) /\ AtOnce(txt, {}) = u[Len(txt)]
  BY <1>1, BuildsExists
<1>3. Len(txt) \in 0..Len(txt)
  OBVIOUS
<1>4. u[Len(txt)] = SubSeq(txt, 1, Len(txt)) \o NewAt({}, Len(txt))
  BY <1>1, <1>2, <1>3, BuildsFront
<1>5. NewAt({}, Len(txt)) = <<>>
  BY DEF NewAt
<1>6. SubSeq(txt, 1, Len(txt)) = txt
  BY SubSeqFull
<1>7. txt \o <<>> = txt
  BY ConcatEmptySeq
<1> QED
  BY <1>2, <1>4, <1>5, <1>6, <1>7
(* Two builds that agree from n on, with different texts before. *)
SameRest(u, v, n, before, instead) ==
    \E r \in Seq(Bytes) : u[n] = before \o r /\ v[n] = instead \o r

(* To make one more change at once, before all others, is to splice it into  *)
(* the text with the others made: this is why splices are made from the last *)
(* to the first.                                                             *)
LEMMA AtOnceSplice ==
    ASSUME NEW txt \in Seq(Bytes), NEW C \in SUBSET ChangesOf(txt), NEW m \in ChangesOf(txt),
           \A c \in C : m.from < c.from /\ m.to <= c.from
    PROVE  AtOnce(txt, C \cup {m}) = Splice(AtOnce(txt, C), m.from, m.to, m.new)
<1> DEFINE before == SubSeq(txt, 1, m.to)
           front  == SubSeq(txt, 1, m.from)
           instead == front \o m.new
           More == C \cup {m}
<1>1. /\ Len(txt) \in Nat /\ m.from \in 0..Len(txt) /\ m.to \in m.from..Len(txt)
      /\ m.to \in 0..Len(txt) /\ m.new \in Seq(Bytes)
      /\ \A c \in C : c.from \in Nat /\ c.to \in Nat
  BY TextsAssumption DEF ChangesOf
<1>2. More \in SUBSET ChangesOf(txt)
  OBVIOUS
<1>3. before \in Seq(Bytes) /\ front \in Seq(Bytes) /\ Len(before) = m.to /\ Len(front) = m.from
  BY <1>1, CutApart
<1>4. instead \in Seq(Bytes)
  BY <1>1, <1>3, ConcatProperties
<1>5. \A n : NewAt(C, n) \in Seq(Bytes)
  BY PieceTypes
<1>6. PICK u : Builds(txt, C, u) /\ AtOnce(txt, C) = u[Len(txt)]
  BY BuildsExists
<1>7. PICK v : Builds(txt, More, v) /\ AtOnce(txt, More) = v[Len(txt)]
  BY <1>2, BuildsExists
<1>8. NewAt(More, m.from) = m.new /\ \A n : n # m.from => NewAt(More, n) = NewAt(C, n)
  <2>1. {c \in More : c.from = m.from} = {m}
    BY <1>1
  <2>2. NewAt(More, m.from) = m.new
    BY <1>1 DEF NewAt
  <2>3. ASSUME NEW n, n # m.from PROVE NewAt(More, n) = NewAt(C, n)
    <3>1. \A c : (c \in More /\ c.from = n) <=> (c \in C /\ c.from = n)
      BY <2>3
    <3> HIDE DEF More
    <3>2. (\E c \in More : c.from = n) <=> (\E c \in C : c.from = n)
      BY <3>1
    <3>3. (CHOOSE c \in More : c.from = n) = (CHOOSE c \in C : c.from = n)
      BY <3>1
    <3> QED
      BY <3>2, <3>3 DEF NewAt
  <2> QED
    BY <2>2, <2>3
<1>9. \A n \in m.from..m.to : n < m.to => NewAt(C, n) = <<>>
  BY <1>1 DEF NewAt
<1>10. u[m.to] = before \o NewAt(C, m.to)
  BY <1>1, <1>6, BuildsFront
<1>11. v[m.from] = instead
  <2>1. \A c \in More : m.from <= c.from
    BY <1>1
  <2> HIDE DEF More
  <2>2. v[m.from] = front \o NewAt(More, m.from)
    BY <1>1, <1>2, <1>7, <2>1, BuildsFront
  <2> QED
    BY <1>8, <2>2
<1> HIDE DEF before, front, instead, More
<1> DEFINE Cut == {n \in 0..m.to : n < m.from \/ v[n] = instead \o NewAt(C, n)}
           Rest == {n \in 0..Len(txt) : n < m.to \/ SameRest(u, v, n, before, instead)}
<1>12. \A c \in C : m.from < c.from /\ m.to <= c.from
  OBVIOUS
<1>13. m.from \in Cut
  <2>1. NewAt(C, m.from) = <<>>
    BY <1>1, <1>12 DEF NewAt
  <2>2. instead \o <<>> = instead
    BY <1>4, ConcatEmptySeq
  <2>3. v[m.from] = instead \o NewAt(C, m.from)
    BY <1>11, <2>1, <2>2
  <2>4. m.from \in 0..m.to
    BY <1>1
  <2> QED
    BY <2>3, <2>4
<1>14. 0..m.to \subseteq Cut
  <2>1. 0 \in Cut
    <3>1. 0 \in 0..m.to /\ (0 = m.from \/ 0 < m.from)
      BY <1>1
    <3> QED
      BY <1>13, <3>1
  <2>2. ASSUME NEW n \in 0..m.to - 1, n \in Cut PROVE n + 1 \in Cut
    <3>1. n + 1 \in 0..m.to /\ n \in 0..Len(txt) - 1 /\ n \in Nat
      BY <1>1
    <3>2. CASE n + 1 < m.from
      BY <3>1, <3>2
    <3>3. CASE n + 1 = m.from
      BY <1>13, <3>3
    <3>4. CASE n >= m.from
      <4>1. v[n] = instead \o NewAt(C, n) /\ n \in m.from..m.to /\ n < m.to
        BY <1>1, <2>2, <3>1, <3>4
      <4>2. v[n] = instead
        BY <1>4, <1>9, <4>1, ConcatEmptySeq
      <4>3. Kept(txt, More, n + 1) = <<>>
        BY <1>1, <3>1, <3>4 DEF Kept, More
      <4>4. NewAt(More, n + 1) = NewAt(C, n + 1)
        BY <1>1, <1>8, <3>1, <3>4
      <4>5. v[n + 1] = instead \o (<<>> \o NewAt(C, n + 1))
        BY <1>7, <3>1, <4>2, <4>3, <4>4 DEF Builds
      <4>6. <<>> \o NewAt(C, n + 1) = NewAt(C, n + 1)
        BY <1>5, ConcatEmptySeq
      <4> QED
        BY <3>1, <4>5, <4>6
    <3> QED
      BY <1>1, <3>1, <3>2, <3>3, <3>4
  <2>3. m.to \in Nat
    BY <1>1
  <2> HIDE DEF Cut
  <2> QED
    BY <2>1, <2>2, <2>3, Induction
<1>15. v[m.to] = instead \o NewAt(C, m.to)
  <2>1. m.to \in 0..m.to /\ ~ m.to < m.from
    BY <1>1
  <2> QED
    BY <1>14, <2>1
<1> HIDE DEF Cut
<1>16. m.to \in Rest
  BY <1>1, <1>5, <1>10, <1>15 DEF SameRest
<1>17. 0..Len(txt) \subseteq Rest
  <2>1. 0 \in Rest
    BY <1>1, <1>16
  <2>2. ASSUME NEW n \in 0..Len(txt) - 1, n \in Rest PROVE n + 1 \in Rest
    <3>1. n + 1 \in 0..Len(txt) /\ n \in Nat /\ n + 1 \in 1..Len(txt)
      BY <1>1
    <3>2. CASE n + 1 < m.to
      BY <3>1, <3>2
    <3>3. CASE n + 1 = m.to
      BY <1>16, <3>3
    <3>4. CASE n >= m.to
      <4> DEFINE piece == Kept(txt, C, n + 1) \o NewAt(C, n + 1)
      <4>1. PICK r \in Seq(Bytes) : u[n] = before \o r /\ v[n] = instead \o r
        <5>1. ~ n < m.to
          BY <1>1, <3>1, <3>4
        <5>2. SameRest(u, v, n, before, instead)
          BY <2>2, <5>1
        <5> QED
          BY <5>2 DEF SameRest
      <4>2. Kept(txt, More, n + 1) = Kept(txt, C, n + 1)
        BY <1>1, <3>1, <3>4 DEF Kept, More
      <4>3. NewAt(More, n + 1) = NewAt(C, n + 1)
        BY <1>1, <1>8, <3>1, <3>4
      <4>4. piece \in Seq(Bytes)
        BY <1>5, <3>1, PieceTypes, ConcatProperties
      <4>5. u[n + 1] = u[n] \o piece /\ v[n + 1] = v[n] \o piece
        BY <1>6, <1>7, <4>2, <4>3 DEF Builds
      <4> HIDE DEF piece
      <4>6. r \o piece \in Seq(Bytes)
        BY <4>4, ConcatProperties
      <4>7. before \o (r \o piece) = (before \o r) \o piece
            /\ instead \o (r \o piece) = (instead \o r) \o piece
        BY <1>3, <1>4, <4>4, BytesJoin, ZenonT(30)
      <4>8. SameRest(u, v, n + 1, before, instead)
        BY <4>1, <4>5, <4>6, <4>7 DEF SameRest
      <4> QED
        BY <3>1, <4>8
    <3> QED
      BY <1>1, <3>1, <3>2, <3>3, <3>4
  <2> HIDE DEF Rest
  <2> QED
    BY <1>1, <2>1, <2>2, Induction
<1>18. PICK r \in Seq(Bytes) : u[Len(txt)] = before \o r /\ v[Len(txt)] = instead \o r
  <2>1. Len(txt) \in 0..Len(txt) /\ ~ Len(txt) < m.to
    BY <1>1
  <2> QED
    BY <1>17, <2>1 DEF SameRest
<1> HIDE DEF Rest
<1>19. SubSeq(before \o r, m.to + 1, Len(before \o r)) = r /\ SubSeq(before \o r, 1, m.to) = before
  BY <1>3, CutConcat, SMTT(20)
<1>20. SubSeq(before \o r, 1, m.from) = front
  <2> DEFINE all == before \o r
  <2>1. /\ all \in Seq(Bytes) /\ Len(all) = m.to + Len(r) /\ Len(r) \in Nat
        /\ \A n \in 1..m.to : all[n] = before[n]
    <3>1. /\ before \o r \in Seq(Bytes) /\ Len(before \o r) = Len(before) + Len(r)
          /\ Len(r) \in Nat /\ \A n \in 1..Len(before) : (before \o r)[n] = before[n]
      BY <1>3, ConcatFacts
    <3> QED
      BY <1>3, <3>1
  <2>2. \A n \in 1..m.from : before[n] = txt[n] /\ front[n] = txt[n]
    BY <1>1 DEF before, front
  <2> HIDE DEF all
  <2>3. m.from \in 0..Len(all)
    BY <1>1, <2>1
  <2>4. /\ SubSeq(all, 1, m.from) \in Seq(Bytes) /\ Len(SubSeq(all, 1, m.from)) = m.from
        /\ \A n \in 1..m.from : SubSeq(all, 1, m.from)[n] = all[n]
    BY <2>1, <2>3
  <2>5. \A n \in 1..m.from : SubSeq(all, 1, m.from)[n] = front[n]
    BY <1>1, <2>1, <2>2, <2>4
  <2>6. SubSeq(all, 1, m.from) = front
    BY <1>3, <2>4, <2>5, SeqEqual
  <2> QED
    BY <2>6 DEF all
<1>21. Splice(u[Len(txt)], m.from, m.to, m.new) = instead \o r
  BY <1>18, <1>19, <1>20 DEF Splice, instead
<1> QED
  BY <1>6, <1>7, <1>18, <1>21 DEF More
-----------------------------------------------------------------------------
(* ApplyTextEdits *)

(* There are no more UTF-16 units than bytes. *)
LEMMA UnitsBounded ==
    ASSUME NEW txt, NEW from \in Nat, NEW to \in Nat, from <= to
    PROVE  Units(txt, from, to) \in Nat /\ Units(txt, from, to) <= to - from
<1> DEFINE first == from + 1
<1>1. first \in Int /\ to \in Int
  OBVIOUS
<1> HIDE DEF first
<1>2. IsFiniteSet(first..to) /\ Cardinality(first..to) = IF first > to THEN 0 ELSE to - first + 1
  BY <1>1, FS_Interval
<1>3. Cardinality(first..to) = to - from
  BY <1>2 DEF first
<1>4. {n \in first..to : txt[n] # Continuation} \in SUBSET (first..to)
  OBVIOUS
<1>5. /\ IsFiniteSet({n \in first..to : txt[n] # Continuation})
      /\ Cardinality({n \in first..to : txt[n] # Continuation}) <= Cardinality(first..to)
  BY <1>2, <1>4, FS_Subset
<1>6. Units(txt, from, to) = Cardinality({n \in first..to : txt[n] # Continuation})
  BY DEF Units, first
<1> QED
  BY <1>3, <1>5, <1>6, FS_CardinalityType

(* A position is that of the end, lies in its line, or is in the last line. *)
LEMMA PositionShape ==
    ASSUME NEW txt \in Seq(Bytes), NEW p \in Positions(txt)
    PROVE  /\ p.line \in Nat /\ p.character \in Nat /\ p.line <= Len(txt) + 1
           /\ \/ p.line = Len(txt) + 1
              \/ /\ p.line \in LineStarts(txt)
                 /\ \A n \in p.line + 1..Len(txt) : txt[n] # Newline
              \/ /\ p.line \in LineStarts(txt)
                 /\ \E o \in 0..Len(txt) :
                       /\ p.line + p.character <= o
                       /\ \A n \in p.line + 1..o : txt[n] # Newline
<1>1. Len(txt) \in Nat
  OBVIOUS
<1>2. CASE p = PastEnd(txt)
  BY <1>1, <1>2 DEF PastEnd
<1>3. CASE p # PastEnd(txt)
  <2>1. p.line \in LineStarts(txt) /\ p.character \in 0..Len(txt) + 1
    BY <1>3 DEF Positions
  <2>2. p.line \in 0..Len(txt)
    BY <1>1, <2>1 DEF LineStarts
  <2>3. CASE PastLastLine(txt, p)
    BY <1>1, <2>1, <2>2, <2>3 DEF PastLastLine
  <2>4. CASE \E o \in 0..Len(txt) : Names(txt, p, o)
    <3>1. PICK o \in 0..Len(txt) : Names(txt, p, o)
      BY <2>4
    <3>2. p.line <= o /\ p.character = Units(txt, p.line, o)
          /\ \A n \in p.line + 1..o : txt[n] # Newline
      BY <3>1 DEF Names
    <3>3. Units(txt, p.line, o) <= o - p.line
      BY <1>1, <2>2, <3>2, UnitsBounded
    <3>4. p.line + p.character <= o
      BY <1>1, <2>1, <2>2, <3>2, <3>3
    <3> QED
      BY <1>1, <2>1, <2>2, <3>2, <3>4
  <2> QED
    BY <1>3, <2>3, <2>4 DEF Positions
<1> QED
  BY <1>2, <1>3

(* Offsets are in the order of their positions: characters taken for bytes   *)
(* still end before the next line starts.                                    *)
LEMMA OffsetsOrdered ==
    ASSUME NEW txt \in Seq(Bytes), NEW p \in Positions(txt), NEW q \in Positions(txt)
    PROVE  /\ OffsetOf(txt, p) \in 0..Len(txt)
           /\ Before(p, q) => OffsetOf(txt, p) <= OffsetOf(txt, q)
<1>1. Len(txt) \in Nat /\ p.line \in Nat /\ p.character \in Nat
      /\ q.line \in Nat /\ q.character \in Nat /\ q.line <= Len(txt) + 1
      /\ p.line <= Len(txt) + 1
  BY PositionShape
<1>2. OffsetOf(txt, p) \in 0..Len(txt)
  BY <1>1 DEF OffsetOf, LesserOf
<1>3. CASE p.line = q.line /\ p.character <= q.character
  BY <1>1, <1>3 DEF OffsetOf, LesserOf
<1>4. CASE p.line < q.line
  <2>1. CASE q.line = Len(txt) + 1
    BY <1>1, <2>1 DEF OffsetOf, LesserOf
  <2>2. CASE q.line # Len(txt) + 1
    <3>1. q.line \in LineStarts(txt)
      BY <2>2, PositionShape
    <3>2. q.line \in 1..Len(txt) /\ txt[q.line] = Newline
      BY <1>1, <1>4, <3>1 DEF LineStarts
    <3>3. q.line \in p.line + 1..Len(txt)
      BY <1>1, <1>4, <3>2
    <3>4. PICK o \in 0..Len(txt) : /\ p.line + p.character <= o
                                    /\ \A n \in p.line + 1..o : txt[n] # Newline
      BY <1>1, <1>4, <2>2, <3>2, <3>3, PositionShape
    <3>5. o < q.line
      BY <1>1, <1>4, <3>2, <3>4
    <3>6. p.line + p.character <= q.line + q.character /\ p.line + p.character <= Len(txt)
      BY <1>1, <3>2, <3>4, <3>5
    <3>7. OffsetOf(txt, p) <= OffsetOf(txt, q)
      BY <1>1, <3>6 DEF OffsetOf, LesserOf
    <3> QED
      BY <1>2, <3>7
  <2> QED
    BY <2>1, <2>2
<1> QED
  BY <1>2, <1>3, <1>4 DEF Before

(* Slices are in order and within the document, and of two edits of which    *)
(* the first does not start later, the first ends where the second starts,   *)
(* or the second inserts at the very start of the first.                     *)
LEMMA EditsInOrder ==
    ASSUME TypeOK, NEW i \in DOMAIN edits, NEW j \in DOMAIN edits
    PROVE  /\ Start(i) \in Nat /\ End(i) \in Nat /\ Start(i) <= End(i)
           /\ End(i) <= Len(content)
           /\ edits[i].new \in Seq(Bytes)
           /\ i # j /\ Start(j) <= Start(i) =>
                 \/ End(j) <= Start(i)
                 \/ Start(j) = Start(i) /\ End(i) = Start(i)
<1>1. content \in Seq(Bytes) /\ edits \in Seq(ServerEdit(content))
  BY DEF TypeOK
<1>2. edits[i] \in ServerEdit(content) /\ edits[j] \in ServerEdit(content)
  BY <1>1
<1>3. /\ edits[i].start \in Positions(content) /\ edits[i].end \in Positions(content)
      /\ edits[j].start \in Positions(content) /\ edits[j].end \in Positions(content)
      /\ Before(edits[i].start, edits[i].end)
      /\ edits[i].new \in Seq(Bytes)
  BY <1>2, TextsAssumption DEF ServerEdit
<1>4. /\ Start(i) \in 0..Len(content) /\ End(i) \in 0..Len(content)
      /\ Start(j) \in 0..Len(content) /\ End(j) \in 0..Len(content)
      /\ Start(i) <= End(i)
  BY <1>1, <1>3, OffsetsOrdered DEF Start, End
<1>5. /\ Before(edits[j].end, edits[i].start) => End(j) <= Start(i)
      /\ Before(edits[i].end, edits[j].start) => End(i) <= Start(j)
  BY <1>1, <1>3, OffsetsOrdered DEF Start, End
<1>6. i # j => \/ Before(edits[j].end, edits[i].start)
               \/ Before(edits[i].end, edits[j].start)
  BY DEF TypeOK, AllApart, Apart
<1>7. Len(content) \in Nat
  BY <1>1
<1> QED
  BY <1>3, <1>4, <1>5, <1>6, <1>7

LEMMA InitEditsInv == Init => EditsInv
<1> SUFFICES ASSUME Init PROVE EditsInv
  OBVIOUS
<1>1. ASSUME NEW S, NEW k \in Nat PROVE [1..k -> S] \subseteq Seq(S)
  OBVIOUS
<1>2. content \in Seq(Bytes)
  BY <1>1 DEF Init, SeqOf
<1>3. edits \in Seq(ServerEdit(content)) /\ AllApart(edits)
  BY <1>1 DEF Init, ServerEdits, SeqOf
<1>4. TypeOK
  BY <1>2, <1>3 DEF Init, TypeOK
<1>5. \A i \in left : i \in DOMAIN edits
  BY DEF Init
<1>6. SlicesInRange
  BY <1>4, <1>5, EditsInOrder DEF Init, SlicesInRange
<1>7. OffsetsIntact
  BY <1>2, <1>4, <1>5, EditsInOrder DEF Init, OffsetsIntact, SplicesIndependent
<1> QED
  BY <1>4, <1>6, <1>7 DEF EditsInv

(* The edit applied starts no earlier than those still to come. *)
LEMMA ApplyEditKeeps == ASSUME NEW i \in left PROVE EditsInv /\ ApplyEdit(i) => EditsInv'
<1> SUFFICES ASSUME EditsInv, ApplyEdit(i) PROVE EditsInv'
  OBVIOUS
<1>1. /\ TypeOK /\ SlicesInRange /\ out \in Seq(Bytes)
      /\ i \in DOMAIN edits /\ left \subseteq DOMAIN edits
  BY DEF EditsInv, TypeOK
<1>2. /\ Start(i) \in Nat /\ End(i) \in Nat /\ Start(i) <= End(i)
      /\ End(i) <= Len(out) /\ edits[i].new \in Seq(Bytes)
  BY <1>1, EditsInOrder DEF SlicesInRange
<1>3. /\ out' \in Seq(Bytes)
      /\ Len(out') = Start(i) + Len(edits[i].new) + (Len(out) - End(i))
      /\ \A n \in 1..Start(i) : out'[n] = out[n]
  BY <1>1, <1>2, SpliceKeepsFront DEF ApplyEdit, CutUpTo
<1>4. content' = content /\ edits' = edits /\ left' = left \ {i}
  BY DEF ApplyEdit
<1>5. TypeOK'
  BY <1>1, <1>3, <1>4 DEF TypeOK, AllApart
<1>6. ASSUME NEW j \in left'
      PROVE  /\ j \in left /\ j # i /\ j \in DOMAIN edits
             /\ Start(j)' = Start(j) /\ End(j)' = End(j)
             /\ Start(j) \in Nat /\ End(j) \in Nat
             /\ Start(j) <= End(j) /\ End(j) <= Len(out)
             /\ Start(j) <= Start(i)
             /\ \/ End(j) <= Start(i)
                \/ Start(j) = Start(i) /\ End(i) = Start(i)
  <2>1. j \in left /\ j # i /\ j \in DOMAIN edits
    BY <1>1, <1>4
  <2>2. Start(j)' = Start(j) /\ End(j)' = End(j)
    BY <1>4 DEF Start, End
  <2>3. Start(j) \in Nat /\ End(j) \in Nat
    BY <1>1, <2>1, EditsInOrder
  <2>4. Start(j) <= End(j) /\ End(j) <= Len(out)
    BY <1>1, <2>1 DEF SlicesInRange
  <2>5. Start(j) <= Start(i)
    BY <1>2, <2>1, <2>3 DEF ApplyEdit, Precedes
  <2>6. \/ End(j) <= Start(i)
        \/ Start(j) = Start(i) /\ End(i) = Start(i)
    BY <1>1, <2>1, <2>5, EditsInOrder
  <2> QED
    BY <2>1, <2>2, <2>3, <2>4, <2>5, <2>6
<1>7. Len(out) \in Nat /\ Len(edits[i].new) \in Nat
  BY <1>1, <1>2
<1>8. SlicesInRange'
  <2> SUFFICES ASSUME NEW j \in left'
               PROVE  Start(j)' <= End(j)' /\ End(j)' <= Len(out')
    BY DEF SlicesInRange
  <2>1. End(j) <= Len(out')
    BY <1>2, <1>3, <1>6, <1>7, SMTT(20)
  <2> QED
    BY <1>6, <2>1
<1>9. OffsetsIntact'
  <2> SUFFICES ASSUME DistinctStarts', NEW j \in left', NEW n \in 1..End(j)'
               PROVE  n <= Len(out') /\ out'[n] = content'[n]
    BY DEF OffsetsIntact, SplicesIndependent
  <2>1. DistinctStarts
    BY <1>4 DEF DistinctStarts, Start
  <2>2. Start(j) # Start(i)
    BY <1>1, <1>6, <2>1 DEF DistinctStarts
  <2>3. n \in 1..End(j) /\ n \in 1..Start(i) /\ n <= Len(out')
    BY <1>2, <1>3, <1>6, <1>7, <2>2, SMTT(30)
  <2>4. out[n] = content[n]
    BY <1>6, <2>1, <2>3 DEF EditsInv, OffsetsIntact, SplicesIndependent
  <2> QED
    BY <1>3, <1>4, <2>3, <2>4
<1> QED
  BY <1>5, <1>8, <1>9 DEF EditsInv

LEMMA StepKeepsEditsInv == EditsInv /\ [Next]_editVars => EditsInv'
<1> SUFFICES ASSUME EditsInv, [Next]_editVars PROVE EditsInv'
  OBVIOUS
<1>1. CASE Next
  BY <1>1, ApplyEditKeeps DEF Next
<1>2. CASE UNCHANGED editVars
  BY <1>2 DEF editVars, EditsInv, TypeOK, AllApart, SlicesInRange, OffsetsIntact,
             SplicesIndependent, DistinctStarts, Start, End
<1> QED
  BY <1>1, <1>2

LEMMA EditsInvariant == Spec => []EditsInv
  BY InitEditsInv, StepKeepsEditsInv, PTL DEF Spec

(* No slice of ApplyTextEdits is out of range, whatever edits the server     *)
(* sends that keep apart: the daemon does not panic in the middle of a plan. *)
THEOREM SlicesStayInRange == Spec => []SlicesInRange
<1>1. EditsInv => SlicesInRange
  BY DEF EditsInv
<1> QED
  BY <1>1, EditsInvariant, PTL

(* If no two edits start at one offset, the text up to the end of every edit *)
(* still to come is that of the document, whatever the others inserted.      *)
THEOREM OffsetsStayIntact == Spec => []OffsetsIntact
<1>1. EditsInv => OffsetsIntact
  BY DEF EditsInv
<1> QED
  BY <1>1, EditsInvariant, PTL

(* Where every character is a byte, units are bytes ... *)
LEMMA UnitsAreBytes ==
    ASSUME NEW txt \in Seq(Bytes), NEW from \in 0..Len(txt), NEW to \in 0..Len(txt), from <= to,
           \A n \in 1..Len(txt) : txt[n] # Continuation
    PROVE  Units(txt, from, to) = to - from
<1> DEFINE first == from + 1
<1>1. Len(txt) \in Nat /\ first \in Int /\ to \in Int
  OBVIOUS
<1>2. \A n \in first..to : txt[n] # Continuation
  BY <1>1
<1>3. {n \in first..to : txt[n] # Continuation} = first..to
  BY <1>2
<1>4. Units(txt, from, to) = Cardinality(first..to)
  BY <1>3 DEF Units, first
<1> HIDE DEF first
<1>5. Cardinality(first..to) = IF first > to THEN 0 ELSE to - first + 1
  BY <1>1, FS_Interval
<1> QED
  BY <1>1, <1>4, <1>5 DEF first

(* ... and the client finds the offset the server means. *)
LEMMA OffsetIsNamed ==
    ASSUME NEW txt \in Seq(Bytes), NEW p \in Positions(txt),
           \A n \in 1..Len(txt) : txt[n] # Continuation
    PROVE  Named(txt, p) = OffsetOf(txt, p)
<1>1. Len(txt) \in Nat /\ p.line \in Nat /\ p.character \in Nat
  BY PositionShape
<1>2. CASE \E o \in 0..Len(txt) : Names(txt, p, o)
  <2>1. Named(txt, p) \in 0..Len(txt) /\ Names(txt, p, Named(txt, p))
    BY <1>2 DEF Named
  <2>2. p.line <= Named(txt, p) /\ p.character = Units(txt, p.line, Named(txt, p))
    BY <2>1 DEF Names
  <2>3. p.line \in 0..Len(txt)
    BY <1>1, <2>1, <2>2
  <2>4. p.character = Named(txt, p) - p.line
    BY <2>1, <2>2, <2>3, UnitsAreBytes
  <2> QED
    BY <1>1, <2>1, <2>4 DEF OffsetOf, LesserOf
<1>3. CASE ~ \E o \in 0..Len(txt) : Names(txt, p, o)
  <2>1. Named(txt, p) = Len(txt)
    BY <1>3 DEF Named
  <2>2. CASE p = PastEnd(txt)
    BY <1>1, <2>1, <2>2 DEF PastEnd, OffsetOf, LesserOf
  <2>3. CASE p # PastEnd(txt)
    <3>1. p.line \in LineStarts(txt) /\ PastLastLine(txt, p)
      BY <1>3, <2>3 DEF Positions
    <3>2. p.line \in 0..Len(txt) /\ p.character = Units(txt, p.line, Len(txt)) + 1
      BY <1>1, <3>1 DEF LineStarts, PastLastLine
    <3>3. Units(txt, p.line, Len(txt)) = Len(txt) - p.line
      BY <1>1, <3>2, UnitsAreBytes
    <3> QED
      BY <1>1, <2>1, <3>2, <3>3 DEF OffsetOf, LesserOf
  <2> QED
    BY <2>2, <2>3
<1> QED
  BY <1>2, <1>3

(* The edits applied so far, where the client applies them. *)
MadeBy(i) == [from |-> Start(i), to |-> End(i), new |-> edits[i].new]
Made == {MadeBy(i) : i \in DOMAIN edits \ left}

AtOnceInv ==
    DistinctStarts =>
        /\ out = AtOnce(content, Made)
        /\ \A j \in left, i \in DOMAIN edits \ left : Start(j) < Start(i)

LEMMA MadeType ==
    ASSUME TypeOK, NEW i \in DOMAIN edits
    PROVE  MadeBy(i) \in ChangesOf(content)
<1>1. /\ Start(i) \in Nat /\ End(i) \in Nat /\ Start(i) <= End(i) /\ End(i) <= Len(content)
  BY EditsInOrder
<1>2. edits \in Seq(ServerEdit(content)) /\ content \in Seq(Bytes)
  BY DEF TypeOK
<1>3. edits[i] \in ServerEdit(content) /\ Len(content) \in Nat
  BY <1>2
<1>4. edits[i].new \in NewTexts
  BY <1>3 DEF ServerEdit
<1>5. Start(i) \in 0..Len(content) /\ End(i) \in 0..Len(content)
  BY <1>1, <1>3
<1> QED
  BY <1>1, <1>4, <1>5 DEF MadeBy, ChangesOf

LEMMA InitAtOnceInv == EditsInv /\ Init => AtOnceInv
<1> SUFFICES ASSUME EditsInv, Init PROVE AtOnceInv
  OBVIOUS
<1>1. Made = {} /\ left = DOMAIN edits /\ out = content /\ content \in Seq(Bytes)
  BY DEF Init, Made, EditsInv, TypeOK
<1>2. AtOnce(content, {}) = content
  BY <1>1, NothingAtOnce
<1> QED
  BY <1>1, <1>2 DEF AtOnceInv

LEMMA ApplyEditKeepsAtOnce ==
    ASSUME NEW i \in left PROVE EditsInv /\ AtOnceInv /\ ApplyEdit(i) => AtOnceInv'
<1> SUFFICES ASSUME EditsInv, AtOnceInv, ApplyEdit(i), DistinctStarts' PROVE
             /\ out' = AtOnce(content', Made')
             /\ \A j \in left', k \in DOMAIN edits' \ left' : Start(j)' < Start(k)'
  BY DEF AtOnceInv
<1>1. /\ TypeOK /\ i \in DOMAIN edits /\ left \subseteq DOMAIN edits /\ content \in Seq(Bytes)
      /\ content' = content /\ edits' = edits /\ left' = left \ {i}
      /\ out' = Splice(out, Start(i), End(i), edits[i].new)
      /\ \A j \in left : Precedes(i, j)
  BY DEF EditsInv, TypeOK, ApplyEdit, CutUpTo
<1>2. DistinctStarts /\ \A j : Start(j)' = Start(j) /\ MadeBy(j)' = MadeBy(j)
  BY <1>1 DEF DistinctStarts, MadeBy, Start, End
<1>3. out = AtOnce(content, Made) /\ \A j \in left, k \in DOMAIN edits \ left : Start(j) < Start(k)
  BY <1>2 DEF AtOnceInv
<1>4. Made' = Made \cup {MadeBy(i)}
  BY <1>1, <1>2 DEF Made
<1>5. Made \in SUBSET ChangesOf(content) /\ MadeBy(i) \in ChangesOf(content)
  BY <1>1, MadeType DEF Made
<1>6. ASSUME NEW k \in DOMAIN edits \ left PROVE Start(i) < Start(k) /\ End(i) <= Start(k)
  <2>1. Start(i) < Start(k) /\ k # i
    BY <1>3
  <2>2. Start(i) \in Nat /\ Start(k) \in Nat
    BY <1>1, EditsInOrder
  <2>3. Start(i) <= Start(k) /\ Start(i) # Start(k)
    BY <2>1, <2>2
  <2> QED
    BY <1>1, <2>1, <2>3, EditsInOrder
<1>7. \A c \in Made : MadeBy(i).from < c.from /\ MadeBy(i).to <= c.from
  BY <1>6 DEF Made, MadeBy
<1>8. AtOnce(content, Made \cup {MadeBy(i)}) =
          Splice(AtOnce(content, Made), MadeBy(i).from, MadeBy(i).to, MadeBy(i).new)
  <2> DEFINE m == MadeBy(i)
  <2>1. m \in ChangesOf(content) /\ \A c \in Made : m.from < c.from /\ m.to <= c.from
    BY <1>5, <1>7
  <2> HIDE DEF m
  <2>2. AtOnce(content, Made \cup {m}) = Splice(AtOnce(content, Made), m.from, m.to, m.new)
    BY <1>1, <1>5, <2>1, AtOnceSplice
  <2> QED
    BY <2>2 DEF m
<1>9. out' = AtOnce(content', Made')
  BY <1>1, <1>3, <1>4, <1>8 DEF MadeBy
<1>10. ASSUME NEW j \in left', NEW k \in DOMAIN edits' \ left' PROVE Start(j)' < Start(k)'
  <2>1. j \in left /\ j # i /\ j \in DOMAIN edits /\ (k = i \/ k \in DOMAIN edits \ left)
    BY <1>1
  <2>2. CASE k = i
    <3>1. Start(i) \in Nat /\ Start(j) \in Nat
      BY <1>1, <2>1, EditsInOrder
    <3>2. Start(j) # Start(i)
      BY <1>1, <1>2, <2>1 DEF DistinctStarts
    <3> QED
      BY <1>1, <1>2, <2>1, <2>2, <3>1, <3>2 DEF Precedes
  <2>3. CASE k \in DOMAIN edits \ left
    BY <1>2, <1>3, <2>1, <2>3
  <2> QED
    BY <2>1, <2>2, <2>3
<1> QED
  BY <1>9, <1>10

(* Whatever edits the server sends that keep apart, no two of which start at *)
(* one place: the document ends up as the server described it, as long as    *)
(* every character is a byte.                                                *)
THEOREM EditsEndAtOnce == Spec => []AppliedAtOnce
<1>1. Init => EditsInv /\ AtOnceInv
  BY InitEditsInv, InitAtOnceInv
<1>2. EditsInv /\ AtOnceInv /\ [Next]_editVars => AtOnceInv'
  <2> SUFFICES ASSUME EditsInv, AtOnceInv, [Next]_editVars PROVE AtOnceInv'
    OBVIOUS
  <2>1. CASE Next
    BY <2>1, ApplyEditKeepsAtOnce DEF Next
  <2>2. CASE UNCHANGED editVars
    BY <2>2 DEF editVars, AtOnceInv, DistinctStarts, Made, MadeBy, Start, End
  <2> QED
    BY <2>1, <2>2
<1>3. EditsInv /\ AtOnceInv => AppliedAtOnce
  <2> SUFFICES ASSUME EditsInv, AtOnceInv, left = {}, DistinctStarts,
                      \A n \in 1..Len(content) : content[n] # Continuation
               PROVE  out = AtOnce(content, Changes)
    BY DEF AppliedAtOnce
  <2>1. content \in Seq(Bytes) /\ edits \in Seq(ServerEdit(content))
    BY DEF EditsInv, TypeOK
  <2>2. ASSUME NEW i \in DOMAIN edits
        PROVE  /\ Named(content, edits[i].start) = Start(i)
               /\ Named(content, edits[i].end) = End(i)
    <3>1. edits[i] \in ServerEdit(content)
      BY <2>1
    <3>2. edits[i].start \in Positions(content) /\ edits[i].end \in Positions(content)
      BY <3>1 DEF ServerEdit
    <3> QED
      BY <2>1, <3>2, OffsetIsNamed DEF Start, End
  <2>3. Changes = Made
    BY <2>2 DEF Changes, Made, MadeBy
  <2> QED
    BY <2>3 DEF AtOnceInv
<1> QED
  BY <1>1, <1>2, <1>3, EditsInvariant, PTL DEF Spec
-----------------------------------------------------------------------------
(* applyReplacements *)

(* The matches found are a sequence of matches, the file a text. *)
LEMMA InitTypes ==
    ASSUME RE!Init PROVE src \in Seq(Bytes) /\ captures \in Seq(RE!MatchesOf(src))
<1>1. \A k \in Nat : [1..k -> Bytes] \subseteq Seq(Bytes)
  OBVIOUS
<1>2. \A k \in Nat : [1..k -> RE!MatchesOf(src)] \subseteq Seq(RE!MatchesOf(src))
  OBVIOUS
<1> QED
  BY <1>1, <1>2 DEF RE!Init, RE!SeqOf

LEMMA InitReplaceInv == RE!Init => RE!ReplaceInv
  BY InitTypes DEF RE!Init, RE!ReplaceInv, RE!TypeOK, RE!FrontIntact

(* Collecting touches neither text. *)
LEMMA CollectKeeps == RE!ReplaceInv /\ RE!Collect => RE!ReplaceInv'
<1> SUFFICES ASSUME RE!ReplaceInv, RE!Collect PROVE RE!ReplaceInv'
  OBVIOUS
<1> USE DEF RE!ReplaceInv, RE!TypeOK
<1>1. Head(captures) \in RE!MatchesOf(src) /\ Tail(captures) \in Seq(RE!MatchesOf(src))
  BY DEF RE!Collect
<1>2. RE!TypeOK'
  BY <1>1 DEF RE!Collect, RE!MatchesOf, RE!fileVars
<1>3. RE!FrontIntact'
  BY DEF RE!Collect, RE!FrontIntact
<1> QED
  BY <1>2, <1>3

(* An applied match ends before the lowest one applied so far, so the text   *)
(* it is spliced into is the file up to its end.                             *)
LEMMA ApplyKeeps == ASSUME NEW m \in waiting PROVE RE!ReplaceInv /\ RE!Apply(m) => RE!ReplaceInv'
<1> SUFFICES ASSUME RE!ReplaceInv, RE!Apply(m) PROVE RE!ReplaceInv'
  OBVIOUS
<1>1. /\ m \in RE!MatchesOf(src) /\ m.new \in Seq(Bytes)
      /\ m.from \in Nat /\ m.to \in Nat /\ m.from <= m.to /\ m.to <= Len(src)
      /\ m.to <= prevStart /\ prevStart \in 0..Len(src) + 1
      /\ src \in Seq(Bytes) /\ text \in Seq(Bytes)
  BY TextsAssumption DEF RE!ReplaceInv, RE!TypeOK, RE!Apply, RE!Overlaps, RE!MatchesOf
<1>2. m.to <= Len(text)
  BY <1>1 DEF RE!ReplaceInv, RE!FrontIntact
<1>3. /\ text' \in Seq(Bytes)
      /\ Len(text') = m.from + Len(m.new) + (Len(text) - m.to)
      /\ \A n \in 1..m.from : text'[n] = text[n]
  <2>1. text' = Splice(text, m.from, m.to, m.new)
    BY DEF RE!Apply, RE!Splice, Splice
  <2> QED
    BY <1>1, <1>2, <2>1, SpliceKeepsFront
<1>4. RE!TypeOK'
  BY <1>1, <1>3 DEF RE!ReplaceInv, RE!TypeOK, RE!Apply, RE!MatchesOf, RE!fileVars
<1>5. \A n \in 1..m.from : n <= Len(text) /\ text[n] = src[n]
  BY <1>1 DEF RE!ReplaceInv, RE!FrontIntact
<1>6. m.from <= Len(text') /\ m.from # Len(src) + 1
  <2>1. Len(m.new) \in Nat /\ Len(text) \in Nat /\ Len(src) \in Nat
    BY <1>1
  <2> QED
    BY <1>1, <1>2, <1>3, <2>1, SMTT(20)
<1>7. RE!FrontIntact'
  BY <1>1, <1>3, <1>5, <1>6 DEF RE!FrontIntact, RE!Apply
<1> QED
  BY <1>4, <1>7 DEF RE!ReplaceInv

(* Every step keeps the invariant. *)
LEMMA StepKeepsReplaceInv == RE!ReplaceInv /\ [RE!Next]_RE!replaceVars => RE!ReplaceInv'
<1> SUFFICES ASSUME RE!ReplaceInv, [RE!Next]_RE!replaceVars PROVE RE!ReplaceInv'
  OBVIOUS
<1>1. CASE RE!Collect
  BY <1>1, CollectKeeps
<1>2. ASSUME NEW m \in waiting, RE!Apply(m) PROVE RE!ReplaceInv'
  BY <1>2, ApplyKeeps
<1>3. ASSUME NEW m \in waiting, RE!Skip(m) PROVE RE!ReplaceInv'
  BY <1>3 DEF RE!Skip, RE!ReplaceInv, RE!TypeOK, RE!FrontIntact, RE!fileVars
<1>4. CASE RE!WriteFile
  BY <1>4 DEF RE!WriteFile, RE!ReplaceInv, RE!TypeOK, RE!FrontIntact
<1>5. CASE UNCHANGED RE!replaceVars
  BY <1>5 DEF RE!replaceVars, RE!fileVars, RE!ReplaceInv, RE!TypeOK, RE!FrontIntact
<1> QED
  BY <1>1, <1>2, <1>3, <1>4, <1>5 DEF RE!Next

(* However many matches a file has, and whatever is put in their place, the  *)
(* text before the lowest match applied is that of the file: the offsets of  *)
(* the matches still to come mean what they meant when they were found.      *)
THEOREM ReplaceFrontIntact == RE!Spec => []RE!ReplaceInv
  BY InitReplaceInv, StepKeepsReplaceInv, PTL DEF RE!Spec

(* Matches are taken from the last to the first, so one that is left out     *)
(* reaches beyond the lowest start applied, and starts no later.             *)
Reason(m) == \E k \in applied : m.from <= k.from /\ k.from < m.to
SkipInv ==
    /\ captures # <<>> => waiting = matches /\ applied = {}
    /\ prevStart = Len(src) + 1 \/ \E k \in applied : k.from = prevStart
    /\ \A m \in waiting : m.from <= prevStart
    /\ \A m \in matches \ applied : m \in waiting \/ Reason(m)

LEMMA StepKeepsSkipInv ==
    RE!ReplaceInv /\ SkipInv /\ [RE!Next]_RE!replaceVars => SkipInv'
<1> SUFFICES ASSUME RE!ReplaceInv, SkipInv, [RE!Next]_RE!replaceVars PROVE SkipInv'
  OBVIOUS
<1>1. /\ Len(src) \in Nat /\ prevStart \in 0..Len(src) + 1 /\ applied \subseteq matches
      /\ \A m \in matches : /\ m.from \in Nat /\ m.to \in Nat
                             /\ m.from <= m.to /\ m.to <= Len(src)
      /\ captures \in Seq(RE!MatchesOf(src)) /\ waiting \subseteq matches
  BY DEF RE!ReplaceInv, RE!TypeOK, RE!MatchesOf
<1>2. CASE RE!Collect
  <2>1. Head(captures) \in RE!MatchesOf(src)
    BY <1>1, <1>2 DEF RE!Collect
  <2>2. applied = {} /\ prevStart = Len(src) + 1
    BY <1>2 DEF RE!Collect, SkipInv
  <2>3. \A m \in matches' : m.from <= prevStart
    BY <1>1, <1>2, <2>1, <2>2 DEF RE!Collect, RE!MatchesOf
  <2> QED
    BY <1>2, <2>2, <2>3 DEF RE!Collect, SkipInv
<1>3. ASSUME NEW m \in waiting, RE!Apply(m) PROVE SkipInv'
  BY <1>1, <1>3 DEF RE!Apply, RE!Highest, SkipInv, Reason
<1>4. ASSUME NEW m \in waiting, RE!Skip(m) PROVE SkipInv'
  <2>1. m.to > prevStart /\ m.from <= prevStart /\ m \in matches
    BY <1>1, <1>4 DEF RE!Skip, RE!Overlaps, SkipInv
  <2>2. Reason(m)
    BY <1>1, <2>1 DEF SkipInv, Reason
  <2> QED
    BY <1>4, <2>2 DEF RE!Skip, RE!Highest, SkipInv, Reason
<1>5. CASE RE!WriteFile \/ UNCHANGED RE!replaceVars
  BY <1>5 DEF RE!WriteFile, RE!replaceVars, SkipInv, Reason
<1> QED
  BY <1>2, <1>3, <1>4, <1>5 DEF RE!Next

(* Whatever matches overlap, `idit replace` leaves out only those in which   *)
(* an applied one starts.                                                    *)
THEOREM SkipsOnlyOverlaps == RE!Spec => []OnlyOverlapsSkipped
<1>1. RE!Init => SkipInv
  BY DEF RE!Init, SkipInv
<1>2. SkipInv => OnlyOverlapsSkipped
  BY DEF SkipInv, Reason, OnlyOverlapsSkipped, RE!OnlyOverlapsSkipped, RE!Done
<1> QED
  BY <1>1, <1>2, InitReplaceInv, StepKeepsReplaceInv, StepKeepsSkipInv, PTL DEF RE!Spec

(* The text is at every moment the file with the applied matches made at     *)
(* once: the next one comes before all of them.  It is written when there is *)
(* nothing left to apply.                                                    *)
DiskInv == onDisk = IF dryRun THEN src ELSE AtOnce(src, reported)
ReportInv ==
    /\ DiskInv
    /\ text = AtOnce(src, applied)
    /\ \A m, k \in matches : m.from = k.from => m = k
    /\ \A k \in applied : prevStart <= k.from /\ k \notin waiting
    /\ \A m \in waiting, k \in applied : m.from < k.from

LEMMA InitReportInv == RE!Init => ReportInv
<1> SUFFICES ASSUME RE!Init PROVE ReportInv
  OBVIOUS
<1>1. AtOnce(src, {}) = src
  BY InitTypes, NothingAtOnce
<1> QED
  BY <1>1 DEF RE!Init, ReportInv, DiskInv

(* Collecting, applying and skipping leave the file and the report alone.    *)
LEMMA DiskStays ==
    ASSUME DiskInv, src' = src, UNCHANGED RE!fileVars
    PROVE  DiskInv'
  BY DEF DiskInv, RE!fileVars

LEMMA StepKeepsReportInv ==
    RE!ReplaceInv /\ SkipInv /\ ReportInv /\ [RE!Next]_RE!replaceVars => ReportInv'
<1> SUFFICES ASSUME RE!ReplaceInv, SkipInv, ReportInv, [RE!Next]_RE!replaceVars PROVE ReportInv'
  OBVIOUS
<1>1. /\ Len(src) \in Nat /\ prevStart \in 0..Len(src) + 1 /\ applied \subseteq matches
      /\ \A m \in matches : /\ m \in ChangesOf(src)
                             /\ m.from \in Nat /\ m.to \in Nat /\ m.from <= m.to
      /\ src \in Seq(Bytes) /\ waiting \subseteq matches
  BY DEF RE!ReplaceInv, RE!TypeOK, RE!MatchesOf, ChangesOf
<1>2. CASE RE!Collect
  <2>1. applied = {} /\ applied' = {} /\ src' = src /\ text' = text
    BY <1>2 DEF RE!Collect, SkipInv
  <2>2. \A m, k \in matches' : m.from = k.from => m = k
    BY <1>2 DEF RE!Collect, RE!Seen, ReportInv
  <2>3. DiskInv'
    BY <1>2, <2>1, DiskStays DEF RE!Collect, ReportInv
  <2> QED
    BY <2>1, <2>2, <2>3 DEF ReportInv
<1>3. ASSUME NEW m \in waiting, RE!Apply(m) PROVE ReportInv'
  <2>1. /\ m \in ChangesOf(src) /\ applied \in SUBSET ChangesOf(src)
        /\ m.from \in Nat /\ m.to \in Nat /\ m.from <= m.to
    BY <1>1
  <2>2. m.to <= prevStart /\ \A k \in waiting : k.from <= m.from
    BY <1>1, <1>3, <2>1 DEF RE!Apply, RE!Overlaps, RE!Highest
  <2>3. \A k \in applied : m.from < k.from /\ m.to <= k.from
    BY <1>1, <2>1, <2>2 DEF ReportInv
  <2>4. AtOnce(src, applied \cup {m}) = Splice(AtOnce(src, applied), m.from, m.to, m.new)
    BY <1>1, <2>1, <2>3, AtOnceSplice
  <2>5. text' = AtOnce(src, applied \cup {m})
    BY <1>3, <2>4 DEF RE!Apply, RE!Splice, Splice, ReportInv
  <2>6. /\ src' = src /\ matches' = matches /\ applied' = applied \cup {m}
        /\ prevStart' = m.from /\ waiting' = waiting \ {m}
    BY <1>3 DEF RE!Apply
  <2>7. \A k \in waiting' : k.from < m.from
    <3> SUFFICES ASSUME NEW k \in waiting' PROVE k.from < m.from
      OBVIOUS
    <3>1. k \in waiting /\ k # m /\ k \in matches /\ m \in matches
      BY <1>1, <2>6
    <3>2. k.from # m.from /\ k.from \in Nat
      BY <1>1, <3>1 DEF ReportInv
    <3> QED
      BY <2>1, <2>2, <3>1, <3>2
  <2>8. \A k \in applied' : prevStart' <= k.from /\ k \notin waiting'
    <3> SUFFICES ASSUME NEW k \in applied' PROVE m.from <= k.from /\ k \notin waiting'
      BY <2>6
    <3>1. CASE k = m
      BY <2>1, <2>6, <3>1
    <3>2. CASE k \in applied
      <4>1. k.from \in Nat
        BY <1>1, <3>2
      <4> QED
        BY <2>1, <2>3, <2>6, <3>2, <4>1 DEF ReportInv
    <3> QED
      BY <2>6, <3>1, <3>2
  <2>9. \A j \in waiting', k \in applied' : j.from < k.from
    BY <2>6, <2>7 DEF ReportInv
  <2>10. \A j, k \in matches' : j.from = k.from => j = k
    BY <2>6 DEF ReportInv
  <2>11. text' = AtOnce(src', applied')
    BY <2>5, <2>6
  <2>12. DiskInv'
    BY <1>3, DiskStays DEF RE!Apply, ReportInv
  <2> QED
    BY <2>8, <2>9, <2>10, <2>11, <2>12 DEF ReportInv
<1>4. ASSUME NEW m \in waiting, RE!Skip(m) PROVE ReportInv'
  <2>1. DiskInv'
    BY <1>4, DiskStays DEF RE!Skip, ReportInv
  <2> QED
    BY <1>4, <2>1 DEF RE!Skip, ReportInv
<1>5. CASE RE!WriteFile
  <2>1. DiskInv'
    BY <1>5 DEF RE!WriteFile, ReportInv, DiskInv
  <2> QED
    BY <1>5, <2>1 DEF RE!WriteFile, ReportInv
<1>6. CASE UNCHANGED RE!replaceVars
  BY <1>6 DEF RE!replaceVars, RE!fileVars, ReportInv, DiskInv
<1> QED
  BY <1>2, <1>3, <1>4, <1>5, <1>6 DEF RE!Next

(* Whatever matches are found and however they overlap, the file holds the   *)
(* substitutions `idit replace` reports, all of them and nothing else, and a *)
(* dry run changes nothing.                                                  *)
THEOREM WritesWhatItReports == RE!Spec => []WrittenIsReported
<1>1. RE!Init => SkipInv
  BY DEF RE!Init, SkipInv
<1>2. RE!AtOnce(src, reported) = AtOnce(src, reported)
  BY DEF RE!AtOnce, AtOnce, RE!NewAt, NewAt, RE!Kept, Kept, RE!FlattenSeq, FlattenSeq
<1>3. ReportInv => WrittenIsReported
  BY <1>2 DEF ReportInv, DiskInv, WrittenIsReported, RE!WrittenIsReported
<1> QED
  BY <1>1, <1>3, InitReplaceInv, InitReportInv, StepKeepsReplaceInv, StepKeepsSkipInv,
     StepKeepsReportInv, PTL DEF RE!Spec
-----------------------------------------------------------------------------
(* MessageDecoder *)
Token == {FR!Eol, FR!Other} \cup {FR!LengthOf(n) : n \in Nat}

(* What to know of a frame on the wire: the first empty line ends a header   *)
(* of h tokens; only its last one can be the length, which is that of the    *)
(* body behind the empty line.                                               *)
Shaped(frame, bytes, h, body) ==
    /\ bytes \in Seq(Token) /\ body \in Seq(Token) /\ h \in Nat \ {0}
    /\ Len(bytes) = h + 2 + Len(body)
    /\ bytes[h + 1] = FR!Eol /\ bytes[h + 2] = FR!Eol
    /\ \A n \in 0..h - 1 : ~(bytes[n + 1] = FR!Eol /\ bytes[n + 2] = FR!Eol)
    /\ \A n \in 1..Len(body) : bytes[h + 2 + n] = body[n]
    /\ \A n \in 1..h - 1 : bytes[n].is # "length"
    /\ \/ FR!Body(frame) = <<>> /\ body = <<>> /\ bytes[h].is # "length"
       \/ FR!Body(frame) = <<body>> /\ bytes[h] = FR!LengthOf(Len(body))

LEMMA BodyType == ASSUME NEW frame \in FR!Frames PROVE frame.body \in Seq(Token)
<1>1. \A k \in Nat : [1..k -> {FR!Eol, FR!Other}] \subseteq Seq(Token)
  <2> SUFFICES ASSUME NEW k \in Nat, NEW f \in [1..k -> {FR!Eol, FR!Other}] PROVE f \in Seq(Token)
    OBVIOUS
  <2>1. f \in [1..k -> Token]
    BY DEF Token
  <2> QED
    BY <2>1
<1>2. <<>> \in Seq(Token)
  OBVIOUS
<1>3. \A n \in 0..MaxBody : n \in Nat
  OBVIOUS
<1>4. FR!Bodies \subseteq Seq(Token)
  BY <1>1, <1>3 DEF FR!Bodies, FR!SeqOf
<1> QED
  BY <1>2, <1>4 DEF FR!Frames

Framed(head, body, bytes) ==
    /\ bytes \in Seq(Token) /\ Len(bytes) = Len(head) + 2 + Len(body)
    /\ \A n \in 1..Len(head) : bytes[n] = head[n]
    /\ bytes[Len(head) + 1] = FR!Eol /\ bytes[Len(head) + 2] = FR!Eol
    /\ \A n \in 1..Len(body) : bytes[Len(head) + 2 + n] = body[n]

LEMMA FrameBytes ==
    ASSUME NEW head \in Seq(Token), NEW body \in Seq(Token)
    PROVE  Framed(head, body, (head \o <<FR!Eol, FR!Eol>>) \o body)
<1> PICK line : line = <<FR!Eol, FR!Eol>>
  OBVIOUS
<1> PICK bytes : bytes = (head \o line) \o body
  OBVIOUS
<1>1. line \in Seq(Token) /\ Len(line) = 2 /\ line[1] = FR!Eol /\ line[2] = FR!Eol
  <2>1. FR!Eol \in Token
    BY DEF Token
  <2> QED
    BY <2>1
<1>2. PICK front : front = head \o line
  OBVIOUS
<1>3. /\ head \o line \in Seq(Token) /\ Len(head \o line) = Len(head) + Len(line)
      /\ Len(head) \in Nat
      /\ \A n \in 1..Len(head) : (head \o line)[n] = head[n]
      /\ \A n \in 1..Len(line) : (head \o line)[Len(head) + n] = line[n]
  BY <1>1, ConcatFacts
<1>4. /\ front \in Seq(Token) /\ Len(front) = Len(head) + 2 /\ Len(head) \in Nat
      /\ \A n \in 1..Len(head) : front[n] = head[n]
      /\ front[Len(head) + 1] = FR!Eol /\ front[Len(head) + 2] = FR!Eol
  <2>1. 1 \in 1..Len(line) /\ 2 \in 1..Len(line)
    BY <1>1
  <2> QED
    BY <1>1, <1>2, <1>3, <2>1
<1>5. /\ front \o body \in Seq(Token) /\ Len(front \o body) = Len(front) + Len(body)
      /\ Len(body) \in Nat
      /\ \A n \in 1..Len(front) : (front \o body)[n] = front[n]
      /\ \A n \in 1..Len(body) : (front \o body)[Len(front) + n] = body[n]
  <2>1. front \in Seq(Token)
    BY <1>4
  <2> QED
    BY <2>1, ConcatFacts
<1>6. bytes = front \o body
  BY <1>2
<1>7. /\ \A n \in 1..Len(head) : n \in 1..Len(front)
      /\ Len(head) + 1 \in 1..Len(front) /\ Len(head) + 2 \in 1..Len(front)
  BY <1>4
<1> QED
  BY <1>4, <1>5, <1>6, <1>7 DEF Framed

LEMMA FrameShape ==
    ASSUME NEW frame \in FR!Frames
    PROVE  \E h, body : Shaped(frame, FR!Encode(frame), h, body)
<1> DEFINE body == frame.body
           len == FR!LengthOf(Len(body))
           bytes == FR!Encode(frame)
<1>1. body \in Seq(Token) /\ Len(body) \in Nat
  BY BodyType
<1>2. \/ frame.shape = "plain"
      \/ frame.shape = "extra"
      \/ (frame.shape = "junk" /\ body = <<>>)
  BY DEF FR!Frames
<1>3. len \in Token /\ FR!Eol \in Token /\ FR!Other \in Token
  BY <1>1 DEF Token
<1>4. FR!Eol # FR!Other /\ FR!Eol # len /\ FR!Other.is # "length" /\ FR!Eol.is # "length"
  BY DEF FR!Eol, FR!Other, FR!LengthOf
<1>5. CASE frame.shape = "plain"
  <2> DEFINE head == <<len>>
  <2>1. bytes = (head \o <<FR!Eol, FR!Eol>>) \o body /\ FR!Body(frame) = <<body>>
    BY <1>5 DEF FR!Encode, FR!Body
  <2> HIDE DEF body, len, bytes
  <2>2. head \in Seq(Token) /\ Len(head) = 1 /\ head[1] = len
    BY <1>3
  <2> HIDE DEF head
  <2>3. /\ bytes \in Seq(Token) /\ Len(bytes) = 1 + 2 + Len(body) /\ bytes[1] = len
        /\ bytes[2] = FR!Eol /\ bytes[3] = FR!Eol
        /\ \A n \in 1..Len(body) : bytes[1 + 2 + n] = body[n]
    <3>1. head \in Seq(Token) /\ body \in Seq(Token)
      BY <1>1, <2>2
    <3>2. Framed(head, body, bytes)
      BY <2>1, <3>1, FrameBytes
    <3> QED
      BY <2>2, <3>2 DEF Framed
  <2>4. \A n \in 0..1 - 1 : ~(bytes[n + 1] = FR!Eol /\ bytes[n + 2] = FR!Eol)
    BY <1>4, <2>3
  <2>5. Shaped(frame, bytes, 1, body)
    BY <1>1, <2>1, <2>3, <2>4 DEF Shaped, len
  <2> QED
    BY <2>5 DEF bytes
<1>6. CASE frame.shape = "extra"
  <2> DEFINE head == <<FR!Other, FR!Eol, len>>
  <2>1. bytes = (head \o <<FR!Eol, FR!Eol>>) \o body /\ FR!Body(frame) = <<body>>
    BY <1>6 DEF FR!Encode, FR!Body
  <2> HIDE DEF body, len, bytes
  <2>2. head \in Seq(Token) /\ Len(head) = 3 /\ head[1] = FR!Other /\ head[2] = FR!Eol /\ head[3] = len
    BY <1>3
  <2> HIDE DEF head
  <2>3. /\ bytes \in Seq(Token) /\ Len(bytes) = 3 + 2 + Len(body)
        /\ bytes[1] = FR!Other /\ bytes[2] = FR!Eol /\ bytes[3] = len
        /\ bytes[4] = FR!Eol /\ bytes[5] = FR!Eol
        /\ \A n \in 1..Len(body) : bytes[3 + 2 + n] = body[n]
    <3>1. head \in Seq(Token) /\ body \in Seq(Token)
      BY <1>1, <2>2
    <3>2. Framed(head, body, bytes)
      BY <2>1, <3>1, FrameBytes
    <3> QED
      BY <2>2, <3>2 DEF Framed
  <2>4. \A n \in 0..3 - 1 : ~(bytes[n + 1] = FR!Eol /\ bytes[n + 2] = FR!Eol)
    BY <1>4, <2>3
  <2>5. \A n \in 1..3 - 1 : bytes[n].is # "length"
    BY <1>4, <2>3
  <2>6. Shaped(frame, bytes, 3, body)
    BY <1>1, <2>1, <2>3, <2>4, <2>5 DEF Shaped, len
  <2> QED
    BY <2>6 DEF bytes
<1>7. CASE frame.shape = "junk" /\ body = <<>>
  <2> DEFINE head == <<FR!Other>>
  <2>1. bytes = (head \o <<FR!Eol, FR!Eol>>) \o body /\ FR!Body(frame) = <<>>
    BY <1>7 DEF FR!Encode, FR!Body
  <2>2. body = <<>> /\ Len(body) = 0
    BY <1>7
  <2> HIDE DEF body, len, bytes
  <2>3. head \in Seq(Token) /\ Len(head) = 1 /\ head[1] = FR!Other
    BY <1>3
  <2> HIDE DEF head
  <2>4. /\ bytes \in Seq(Token) /\ Len(bytes) = 1 + 2 + Len(body) /\ bytes[1] = FR!Other
        /\ bytes[2] = FR!Eol /\ bytes[3] = FR!Eol
        /\ \A n \in 1..Len(body) : bytes[1 + 2 + n] = body[n]
    <3>1. head \in Seq(Token) /\ body \in Seq(Token)
      BY <1>1, <2>3
    <3>2. Framed(head, body, bytes)
      BY <2>1, <3>1, FrameBytes
    <3> QED
      BY <2>3, <3>2 DEF Framed
  <2>5. \A n \in 0..1 - 1 : ~(bytes[n + 1] = FR!Eol /\ bytes[n + 2] = FR!Eol)
    BY <1>4, <2>4
  <2>6. Shaped(frame, bytes, 1, body)
    BY <1>1, <1>4, <2>1, <2>2, <2>4, <2>5 DEF Shaped
  <2> QED
    BY <2>6 DEF bytes
<1> QED
  BY <1>2, <1>5, <1>6, <1>7

(* What the decoder makes of a buffer that starts like a frame.              *)
DecodesAs(frame, h, body, b) ==
    /\ FR!Terminated(b) <=> Len(b) >= h + 2
    /\ FR!Terminated(b) =>
          /\ FR!HeaderEnd(b) = h
          /\ FR!BodyStart(b) = h + 2
          /\ FR!LengthFields(b) = {} <=> FR!Body(frame) = <<>>
          /\ FR!LengthFields(b) # {} => FR!BodyLength(b) = Len(body)

(* What the decoder makes of a buffer that starts like a frame. *)
LEMMA DecodesFrame ==
    ASSUME NEW frame, NEW bytes, NEW h, NEW body, Shaped(frame, bytes, h, body),
           NEW b \in Seq(Token), \A n \in 1..Len(b) : n <= Len(bytes) => b[n] = bytes[n]
    PROVE  DecodesAs(frame, h, body, b)
<1>1. /\ Len(b) \in Nat /\ Len(body) \in Nat /\ h \in Nat \ {0}
      /\ Len(bytes) = h + 2 + Len(body)
      /\ bytes[h + 1] = FR!Eol /\ bytes[h + 2] = FR!Eol
      /\ \A n \in 0..h - 1 : ~(bytes[n + 1] = FR!Eol /\ bytes[n + 2] = FR!Eol)
      /\ \A n \in 1..h - 1 : bytes[n].is # "length"
      /\ \/ FR!Body(frame) = <<>> /\ body = <<>> /\ bytes[h].is # "length"
         \/ FR!Body(frame) = <<body>> /\ bytes[h] = FR!LengthOf(Len(body))
  BY DEF Shaped
<1> DEFINE Empty(n) == b[n + 1] = FR!Eol /\ b[n + 2] = FR!Eol
<1>2. ASSUME NEW n \in 0..Len(b) - 2, Empty(n) PROVE n >= h
  <2> SUFFICES ASSUME n < h PROVE FALSE
    BY <1>1
  <2>1. n \in 0..h - 1 /\ n + 1 \in 1..Len(b) /\ n + 2 \in 1..Len(b)
        /\ n + 1 <= Len(bytes) /\ n + 2 <= Len(bytes)
    BY <1>1
  <2>2. b[n + 1] = bytes[n + 1] /\ b[n + 2] = bytes[n + 2]
    BY <2>1
  <2> QED
    BY <1>1, <1>2, <2>1, <2>2
<1>3. ASSUME Len(b) >= h + 2 PROVE h \in 0..Len(b) - 2 /\ Empty(h)
  <2>1. h + 1 \in 1..Len(b) /\ h + 2 \in 1..Len(b)
        /\ h + 1 <= Len(bytes) /\ h + 2 <= Len(bytes) /\ h \in 0..Len(b) - 2
    BY <1>1, <1>3
  <2>2. b[h + 1] = bytes[h + 1] /\ b[h + 2] = bytes[h + 2]
    BY <2>1
  <2> QED
    BY <1>1, <2>1, <2>2
<1>4. FR!Terminated(b) <=> Len(b) >= h + 2
  <2>1. FR!Terminated(b) <=> \E n \in 0..Len(b) - 2 : Empty(n)
    BY DEF FR!Terminated
  <2> HIDE DEF Empty
  <2> QED
    BY <1>1, <1>2, <1>3, <2>1
<1>5. ASSUME FR!Terminated(b)
      PROVE  /\ FR!HeaderEnd(b) = h
             /\ FR!BodyStart(b) = h + 2
             /\ FR!LengthFields(b) = {} <=> FR!Body(frame) = <<>>
             /\ FR!LengthFields(b) # {} => FR!BodyLength(b) = Len(body)
  <2> DEFINE First(n) == Empty(n) /\ \A k \in 0..n - 1 : ~Empty(k)
  <2>1. Len(b) >= h + 2 /\ h \in 0..Len(b) - 2 /\ Empty(h)
    BY <1>3, <1>4, <1>5
  <2>2. \A n \in 0..Len(b) - 2 : Empty(n) => n >= h
    BY <1>2
  <2>3. FR!HeaderEnd(b) = CHOOSE n \in 0..Len(b) - 2 : First(n)
    BY DEF FR!HeaderEnd
  <2> HIDE DEF Empty
  <2>4. First(h)
    BY <1>1, <2>1, <2>2
  <2>5. \A n \in 0..Len(b) - 2 : First(n) => n = h
    BY <1>1, <2>1, <2>2
  <2> HIDE DEF First
  <2>6. FR!HeaderEnd(b) = h
    BY <2>1, <2>3, <2>4, <2>5
  <2>7. ASSUME NEW n \in 1..h PROVE b[n] = bytes[n]
    <3>1. n \in 1..Len(b) /\ n <= Len(bytes)
      BY <1>1, <2>1
    <3> QED
      BY <3>1
  <2>8. FR!LengthFields(b) = {n \in 1..h : bytes[n].is = "length"}
    BY <2>6, <2>7 DEF FR!LengthFields
  <2>9. CASE FR!Body(frame) = <<>> /\ body = <<>> /\ bytes[h].is # "length"
    <3>1. FR!LengthFields(b) = {}
      BY <1>1, <2>8, <2>9
    <3> QED
      BY <2>6, <2>9, <3>1 DEF FR!BodyStart
  <2>10. CASE FR!Body(frame) = <<body>> /\ bytes[h] = FR!LengthOf(Len(body))
    <3>1. bytes[h].is = "length" /\ bytes[h].length = Len(body)
      BY <2>10 DEF FR!LengthOf
    <3>2. FR!LengthFields(b) = {h}
      BY <1>1, <2>8, <3>1
    <3>3. (CHOOSE n \in {h} : \A k \in {h} : n <= k) = h
      BY <1>1
    <3>4. FR!BodyLength(b) = Len(body)
      BY <1>1, <2>7, <3>1, <3>2, <3>3 DEF FR!BodyLength
    <3>5. FR!Body(frame) # <<>>
      BY <2>10
    <3> QED
      BY <2>6, <3>2, <3>4, <3>5 DEF FR!BodyStart
  <2> QED
    BY <1>1, <2>9, <2>10
<1> QED
  BY <1>4, <1>5 DEF DecodesAs

(* What follows a part of a text that is taken off the front. *)
Beyond(b, bytes) == SubSeq(b, Len(bytes) + 1, Len(b))

LEMMA TakeFront ==
    ASSUME NEW D, NEW b \in Seq(D), NEW w \in Seq(D), NEW bytes \in Seq(D), NEW rest \in Seq(D),
           b \o w = bytes \o rest
    PROVE  \A n \in 1..Len(b) : n <= Len(bytes) => b[n] = bytes[n]
<1>1. /\ Len(b) \in Nat /\ Len(w) \in Nat
      /\ \A n \in 1..Len(b) : (b \o w)[n] = b[n]
  BY ConcatFacts
<1>2. /\ Len(bytes) \in Nat /\ \A n \in 1..Len(bytes) : (bytes \o rest)[n] = bytes[n]
  BY ConcatFacts
<1> QED
  BY <1>1, <1>2

LEMMA TakeRest ==
    ASSUME NEW D, NEW b \in Seq(D), NEW w \in Seq(D), NEW bytes \in Seq(D), NEW rest \in Seq(D),
           b \o w = bytes \o rest, Len(bytes) <= Len(b)
    PROVE  Beyond(b, bytes) \in Seq(D) /\ Beyond(b, bytes) \o w = rest
<1> DEFINE p == SubSeq(b, 1, Len(bytes))
           q == SubSeq(b, Len(bytes) + 1, Len(b))
<1>1. Len(b) \in Nat /\ Len(bytes) \in Nat /\ Len(bytes) \in 0..Len(b)
  OBVIOUS
<1>2. p \in Seq(D) /\ Len(p) = Len(bytes) /\ q \in Seq(D) /\ b = p \o q
  BY <1>1, CutApart
<1>3. \A n \in 1..Len(bytes) : p[n] = b[n]
  BY <1>1
<1> HIDE DEF p, q
<1>4. \A n \in 1..Len(b) : n <= Len(bytes) => b[n] = bytes[n]
  BY TakeFront
<1>5. \A n \in 1..Len(bytes) : p[n] = bytes[n]
  BY <1>1, <1>3, <1>4
<1>6. p = bytes
  BY <1>2, <1>5, SeqEqual
<1>7. b \o w = bytes \o (q \o w) /\ q \o w \in Seq(D)
  <2>1. q \in Seq(D)
    BY <1>2
  <2>2. (bytes \o q) \o w = bytes \o (q \o w)
    BY <2>1, ConcatAssociative
  <2>3. q \o w \in Seq(D)
    BY <2>1, ConcatProperties
  <2>4. b = bytes \o q
    BY <1>2, <1>6
  <2> QED
    BY <2>2, <2>3, <2>4
<1>8. q \o w = rest
  BY <1>7, ConcatSimplifications
<1> QED
  BY <1>2, <1>8 DEF q, Beyond

(* The stream, frame by frame, and what is to be delivered of it. *)
Pieces(fs) == [n \in 1..Len(fs) |-> FR!Encode(fs[n])]
Parts(fs)  == [n \in 1..Len(fs) |-> FR!Body(fs[n])]

Streams(fs, e, d) == IsFlat(Token, Pieces(fs), e) /\ IsFlat(Seq(Token), Parts(fs), d)

(* k frames are decoded; the buffer and the wire hold the others, and        *)
(* between two calls of Push the buffer does not hold a whole one.           *)
Decoded(k, e, d) ==
    /\ got = d[k]
    /\ e[Len(frames)] = e[k] \o (buf \o wire)
    /\ ~decoding /\ k < Len(frames) => Len(buf) < Len(FR!Encode(frames[k + 1]))

FrameInv ==
    /\ frames \in Seq(FR!Frames)
    /\ buf \in Seq(Token) /\ wire \in Seq(Token)
    /\ \A e, d : Streams(frames, e, d) => \E k \in 0..Len(frames) : Decoded(k, e, d)

LEMMA StreamTypes ==
    ASSUME NEW fs \in Seq(FR!Frames)
    PROVE  /\ Pieces(fs) \in Seq(Seq(Token)) /\ Len(Pieces(fs)) = Len(fs)
           /\ Parts(fs) \in Seq(Seq(Seq(Token))) /\ Len(Parts(fs)) = Len(fs)
           /\ \A n \in 1..Len(fs) : /\ fs[n] \in FR!Frames
                                    /\ Pieces(fs)[n] = FR!Encode(fs[n])
                                    /\ Parts(fs)[n] = FR!Body(fs[n])
<1>1. Len(fs) \in Nat /\ \A n \in 1..Len(fs) : fs[n] \in FR!Frames
  OBVIOUS
<1>2. ASSUME NEW frame \in FR!Frames
      PROVE  FR!Encode(frame) \in Seq(Token) /\ FR!Body(frame) \in Seq(Seq(Token))
  <2>1. PICK h, body : Shaped(frame, FR!Encode(frame), h, body)
    BY FrameShape
  <2>2. frame.body \in Seq(Token)
    BY BodyType
  <2>3. <<frame.body>> \in Seq(Seq(Token)) /\ <<>> \in Seq(Seq(Token))
    BY <2>2
  <2> QED
    BY <2>1, <2>3 DEF Shaped, FR!Body
<1>3. Pieces(fs) \in [1..Len(fs) -> Seq(Token)]
  BY <1>1, <1>2 DEF Pieces
<1>4. Parts(fs) \in [1..Len(fs) -> Seq(Seq(Token))]
  BY <1>1, <1>2 DEF Parts
<1>5. \A n \in 1..Len(fs) : Pieces(fs)[n] = FR!Encode(fs[n]) /\ Parts(fs)[n] = FR!Body(fs[n])
  BY DEF Pieces, Parts
<1>6. Pieces(fs) \in Seq(Seq(Token)) /\ Len(Pieces(fs)) = Len(fs)
  BY <1>1, <1>3
<1>7. Parts(fs) \in Seq(Seq(Seq(Token))) /\ Len(Parts(fs)) = Len(fs)
  BY <1>1, <1>4
<1> QED
  BY <1>1, <1>5, <1>6, <1>7

(* What is on the stream and what is to be delivered, up to each frame. *)
LEMMA StreamSteps ==
    ASSUME NEW fs \in Seq(FR!Frames), NEW e, NEW d, Streams(fs, e, d)
    PROVE  /\ Len(fs) \in Nat /\ e[0] = <<>> /\ d[0] = <<>>
           /\ \A n \in 0..Len(fs) : e[n] \in Seq(Token) /\ d[n] \in Seq(Seq(Token))
           /\ \A n \in 0..Len(fs) - 1 :
                 /\ fs[n + 1] \in FR!Frames
                 /\ e[n + 1] = e[n] \o FR!Encode(fs[n + 1])
                 /\ d[n + 1] = d[n] \o FR!Body(fs[n + 1])
           /\ \A i \in 0..Len(fs), j \in 0..Len(fs) :
                 i <= j => Extends(Token, e[j], e[i]) /\ Extends(Seq(Token), d[j], d[i])
<1> DEFINE P == Pieces(fs)
           Q == Parts(fs)
<1>1. Len(fs) \in Nat
  OBVIOUS
<1>2. /\ P \in Seq(Seq(Token)) /\ Len(P) = Len(fs)
      /\ Q \in Seq(Seq(Seq(Token))) /\ Len(Q) = Len(fs)
      /\ \A n \in 1..Len(fs) : fs[n] \in FR!Frames /\ P[n] = FR!Encode(fs[n]) /\ Q[n] = FR!Body(fs[n])
  BY StreamTypes
<1>3. IsFlat(Token, P, e) /\ IsFlat(Seq(Token), Q, d)
  BY DEF Streams
<1> HIDE DEF P, Q
<1>4. /\ e[0] = <<>> /\ \A n \in 0..Len(P) : e[n] \in Seq(Token)
      /\ \A n \in 0..Len(P) - 1 : e[n + 1] = e[n] \o P[n + 1]
  BY <1>2, <1>3, FlatSteps
<1>M. PICK M : M = Seq(Token)
  OBVIOUS
<1>5. /\ d[0] = <<>> /\ \A n \in 0..Len(Q) : d[n] \in Seq(Seq(Token))
      /\ \A n \in 0..Len(Q) - 1 : d[n + 1] = d[n] \o Q[n + 1]
  <2>1. Q \in Seq(Seq(M)) /\ IsFlat(M, Q, d)
    BY <1>2, <1>3, <1>M
  <2>2. /\ d[0] = <<>> /\ \A n \in 0..Len(Q) : d[n] \in Seq(M)
        /\ \A n \in 0..Len(Q) - 1 : d[n + 1] = d[n] \o Q[n + 1]
    BY <2>1, FlatSteps
  <2> QED
    BY <2>2, <1>M
<1>6. \A n \in 0..Len(fs) - 1 : n + 1 \in 1..Len(fs)
  BY <1>1
<1>7. ASSUME NEW i \in 0..Len(fs), NEW j \in 0..Len(fs), i <= j
      PROVE  Extends(Token, e[j], e[i]) /\ Extends(Seq(Token), d[j], d[i])
  <2>1. i \in 0..Len(P) /\ j \in i..Len(P) /\ i \in 0..Len(Q) /\ j \in i..Len(Q)
    BY <1>1, <1>2, <1>7
  <2> QED
    BY <1>2, <1>3, <2>1, FlatGrows
<1> QED
  BY <1>1, <1>2, <1>4, <1>5, <1>6, <1>7

LEMMA StreamPrefix ==
    ASSUME NEW fs \in Seq(FR!Frames), NEW e, NEW d, Streams(fs, e, d),
           NEW k \in 0..Len(fs), NEW first \in Seq(FR!Frames),
           Len(first) = k, \A n \in 1..k : first[n] = fs[n]
    PROVE  FR!EncodeAll(first) = e[k] /\ FR!Messages(first) = d[k]
<1> DEFINE P == Pieces(fs)
           Q == Parts(fs)
<1>1. Len(fs) \in Nat
  OBVIOUS
<1>2. /\ P \in Seq(Seq(Token)) /\ Len(P) = Len(fs)
      /\ Q \in Seq(Seq(Seq(Token))) /\ Len(Q) = Len(fs)
      /\ \A n \in 1..Len(fs) : P[n] = FR!Encode(fs[n]) /\ Q[n] = FR!Body(fs[n])
  BY StreamTypes
<1>3. IsFlat(Token, P, e) /\ IsFlat(Seq(Token), Q, d)
  BY DEF Streams
<1> HIDE DEF P, Q
<1>M. PICK M : M = Seq(Token)
  OBVIOUS
<1>5. first \in Seq(FR!Frames) /\ Len(first) = k /\ DOMAIN first = 1..k
      /\ \A n \in 1..k : first[n] = fs[n]
  BY <1>1
<1>6. /\ Pieces(first) \in Seq(Seq(Token)) /\ Len(Pieces(first)) = k
      /\ Parts(first) \in Seq(Seq(Seq(Token))) /\ Len(Parts(first)) = k
      /\ \A n \in 1..k : /\ Pieces(first)[n] = FR!Encode(first[n])
                          /\ Parts(first)[n] = FR!Body(first[n])
  BY <1>5, StreamTypes
<1>7. k \in 0..Len(P) /\ k \in 0..Len(Q) /\ \A n \in 1..k : n \in 1..Len(fs)
  BY <1>1, <1>2
<1>8. \A n \in 1..k : Pieces(first)[n] = P[n] /\ Parts(first)[n] = Q[n]
  BY <1>2, <1>5, <1>6, <1>7
<1>9. FlattenSeq(Pieces(first)) = e[k]
  <2>1. PICK p : p = Pieces(first)
    OBVIOUS
  <2>2. p \in Seq(Seq(Token)) /\ Len(p) = k /\ \A n \in 1..k : p[n] = P[n]
    BY <1>6, <1>8, <2>1
  <2>3. P \in Seq(Seq(Token)) /\ IsFlat(Token, P, e) /\ k \in 0..Len(P)
    BY <1>2, <1>3, <1>7
  <2>4. FlattenSeq(p) = e[k]
    BY <2>2, <2>3, FlatPrefix, SMTT(20)
  <2> QED
    BY <2>1, <2>4
<1>10. FlattenSeq(Parts(first)) = d[k]
  <2>1. PICK p : p = Parts(first)
    OBVIOUS
  <2>2. p \in Seq(Seq(M)) /\ Len(p) = k /\ \A n \in 1..k : p[n] = Q[n]
    BY <1>6, <1>8, <2>1, <1>M
  <2>3. Q \in Seq(Seq(M)) /\ IsFlat(M, Q, d) /\ k \in 0..Len(Q)
    BY <1>2, <1>3, <1>7, <1>M
  <2>4. FlattenSeq(p) = d[k]
    BY <2>2, <2>3, FlatPrefix
  <2> QED
    BY <2>1, <2>4
<1>11. FR!EncodeAll(first) = FlattenSeq(Pieces(first))
  BY <1>5 DEF FR!EncodeAll, FR!FlattenSeq, FlattenSeq, Pieces
<1>12. FR!Messages(first) = FlattenSeq(Parts(first))
  BY <1>5 DEF FR!Messages, FR!FlattenSeq, FlattenSeq, Parts
<1> QED
  BY <1>9, <1>10, <1>11, <1>12

LEMMA StreamsExist ==
    ASSUME NEW fs \in Seq(FR!Frames)
    PROVE  \E e, d : Streams(fs, e, d)
<1>1. Pieces(fs) \in Seq(Seq(Token)) /\ Parts(fs) \in Seq(Seq(Seq(Token)))
  BY StreamTypes
<1>2. PICK e : IsFlat(Token, Pieces(fs), e)
  BY <1>1, FlatExists
<1>3. PICK M : M = Seq(Token)
  OBVIOUS
<1>4. Parts(fs) \in Seq(Seq(M))
  BY <1>1, <1>3
<1>5. PICK d : IsFlat(M, Parts(fs), d)
  BY <1>4, FlatExists
<1> QED
  BY <1>2, <1>3, <1>5 DEF Streams

LEMMA WholeStream ==
    ASSUME NEW fs \in Seq(FR!Frames), NEW e, NEW d, Streams(fs, e, d)
    PROVE  FR!EncodeAll(fs) = e[Len(fs)] /\ FR!Messages(fs) = d[Len(fs)]
<1>1. Len(fs) \in 0..Len(fs)
  OBVIOUS
<1> QED
  BY <1>1, StreamPrefix

LEMMA InitFrameInv == FR!Init => FrameInv
<1> SUFFICES ASSUME FR!Init PROVE FrameInv
  OBVIOUS
<1>1. frames \in Seq(FR!Frames)
  <2>1. \A k \in Nat : [1..k -> FR!Frames] \subseteq Seq(FR!Frames)
    OBVIOUS
  <2> QED
    BY <2>1 DEF FR!Init, FR!SeqOf
<1>2. buf = <<>> /\ got = <<>> /\ wire = FR!EncodeAll(frames)
  BY DEF FR!Init
<1>3. wire \in Seq(Token)
  <2>1. PICK e, d : Streams(frames, e, d)
    BY <1>1, StreamsExist
  <2>2. wire = e[Len(frames)]
    BY <1>1, <1>2, <2>1, WholeStream
  <2>3. Len(frames) \in Nat /\ \A n \in 0..Len(frames) : e[n] \in Seq(Token)
    BY <1>1, <2>1, StreamSteps
  <2>4. Len(frames) \in 0..Len(frames)
    BY <2>3
  <2> QED
    BY <2>2, <2>3, <2>4
<1>4. ASSUME NEW e, NEW d, Streams(frames, e, d) PROVE Decoded(0, e, d)
  <2>1. e[0] = <<>> /\ d[0] = <<>> /\ Len(frames) \in Nat
    BY <1>1, <1>4, StreamSteps
  <2>2. e[Len(frames)] = wire
    BY <1>1, <1>2, <1>4, WholeStream
  <2>3. <<>> \o wire = wire
    BY <1>3, ConcatEmptySeq
  <2>4. ASSUME 0 < Len(frames) PROVE Len(buf) < Len(FR!Encode(frames[0 + 1]))
    <3>1. frames[0 + 1] \in FR!Frames
      BY <1>1, <2>1, <2>4
    <3>2. PICK h, body : Shaped(frames[0 + 1], FR!Encode(frames[0 + 1]), h, body)
      BY <3>1, FrameShape
    <3>3. h \in Nat /\ Len(body) \in Nat /\ Len(FR!Encode(frames[0 + 1])) = h + 2 + Len(body)
      BY <3>2 DEF Shaped
    <3>4. Len(buf) = 0
      BY <1>2
    <3> QED
      BY <3>3, <3>4
  <2>5. e[Len(frames)] = e[0] \o (buf \o wire)
    BY <1>2, <2>1, <2>2, <2>3
  <2> QED
    BY <1>2, <2>1, <2>4, <2>5 DEF Decoded
<1>5. 0 \in 0..Len(frames)
  BY <1>1
<1>6. buf \in Seq(Token)
  BY <1>2
<1> QED
  BY <1>1, <1>3, <1>4, <1>5, <1>6 DEF FrameInv

(* While frames are left, the next one is what the buffer and the wire       *)
(* start with.                                                               *)
LEMMA NextFrame ==
    ASSUME FrameInv, NEW e, NEW d, Streams(frames, e, d),
           NEW k \in 0..Len(frames), k # Len(frames), Decoded(k, e, d)
    PROVE  /\ frames[k + 1] \in FR!Frames /\ k + 1 \in 0..Len(frames)
           /\ \E rest \in Seq(Token) :
                 /\ buf \o wire = FR!Encode(frames[k + 1]) \o rest
                 /\ e[Len(frames)] = e[k + 1] \o rest
<1>1. frames \in Seq(FR!Frames) /\ buf \in Seq(Token) /\ wire \in Seq(Token)
  BY DEF FrameInv
<1>2. /\ Len(frames) \in Nat
      /\ \A n \in 0..Len(frames) : e[n] \in Seq(Token)
      /\ \A n \in 0..Len(frames) - 1 :
            frames[n + 1] \in FR!Frames /\ e[n + 1] = e[n] \o FR!Encode(frames[n + 1])
      /\ \A i \in 0..Len(frames), j \in 0..Len(frames) : i <= j => Extends(Token, e[j], e[i])
  BY <1>1, StreamSteps
<1>3. k \in 0..Len(frames) - 1 /\ k + 1 \in 0..Len(frames) /\ Len(frames) \in 0..Len(frames)
      /\ k + 1 <= Len(frames)
  BY <1>2
<1>4. Extends(Token, e[Len(frames)], e[k + 1])
  BY <1>2, <1>3
<1>5. PICK rest \in Seq(Token) : e[Len(frames)] = e[k + 1] \o rest
  BY <1>4 DEF Extends
<1>6. PICK bytes : bytes = FR!Encode(frames[k + 1])
  OBVIOUS
<1>7. bytes \in Seq(Token) /\ e[k] \in Seq(Token) /\ e[k + 1] = e[k] \o bytes
  <2>1. PICK h, body : Shaped(frames[k + 1], FR!Encode(frames[k + 1]), h, body)
    BY <1>2, <1>3, FrameShape
  <2> QED
    BY <1>2, <1>3, <1>6, <2>1 DEF Shaped
<1>8. (e[k] \o bytes) \o rest = e[k] \o (bytes \o rest)
  <2>1. PICK t : t = e[k]
    OBVIOUS
  <2>2. t \in Seq(Token) /\ bytes \in Seq(Token)
    BY <1>7, <2>1
  <2>3. (t \o bytes) \o rest = t \o (bytes \o rest)
    BY <2>2, ConcatAssociative
  <2> QED
    BY <2>1, <2>3
<1>9. e[k] \o (buf \o wire) = e[k] \o (bytes \o rest)
  BY <1>5, <1>7, <1>8 DEF Decoded
<1>10. buf \o wire \in Seq(Token) /\ bytes \o rest \in Seq(Token)
  BY <1>1, <1>7, ConcatProperties
<1>11. buf \o wire = bytes \o rest
  BY <1>7, <1>9, <1>10, ConcatSimplifications
<1> QED
  BY <1>2, <1>3, <1>5, <1>6, <1>11

(* When no frame is left, neither is a byte. *)
LEMMA NoFrame ==
    ASSUME FrameInv, NEW e, NEW d, Streams(frames, e, d), Decoded(Len(frames), e, d)
    PROVE  buf = <<>>
<1>1. frames \in Seq(FR!Frames) /\ buf \in Seq(Token) /\ wire \in Seq(Token)
  BY DEF FrameInv
<1>2. /\ Len(frames) \in Nat /\ \A n \in 0..Len(frames) : e[n] \in Seq(Token)
  BY <1>1, StreamSteps
<1>3. PICK t : t = e[Len(frames)]
  OBVIOUS
<1>4. t \in Seq(Token) /\ t = t \o (buf \o wire)
  <2>1. Len(frames) \in 0..Len(frames)
    BY <1>2
  <2> QED
    BY <1>2, <1>3, <2>1 DEF Decoded
<1>5. buf \o wire \in Seq(Token)
  BY <1>1, ConcatProperties
<1>6. buf \o wire = <<>>
  BY <1>4, <1>5, ConcatSimplifications
<1> QED
  BY <1>1, <1>6, ConcatSimplifications

(* A header that ends in the buffer is that of the next frame. *)
LEMMA HeaderOfFrame ==
    ASSUME FrameInv, NEW e, NEW d, Streams(frames, e, d),
           NEW k \in 0..Len(frames), Decoded(k, e, d), FR!Terminated(buf)
    PROVE  k # Len(frames)
<1> SUFFICES ASSUME k = Len(frames) PROVE FALSE
  OBVIOUS
<1>1. buf = <<>>
  BY NoFrame
<1>2. Len(buf) = 0
  BY <1>1
<1>3. PICK n \in 0..Len(buf) - 2 : TRUE
  BY DEF FR!Terminated
<1> QED
  BY <1>2, <1>3

LEMMA PushKeeps ==
    ASSUME FrameInv, NEW n \in 1..Len(wire), FR!Push(n)
    PROVE  FrameInv'
<1>1. frames \in Seq(FR!Frames) /\ buf \in Seq(Token) /\ wire \in Seq(Token)
  BY DEF FrameInv
<1>2. PICK chunk : chunk = SubSeq(wire, 1, n)
  OBVIOUS
<1>3. PICK unread : unread = SubSeq(wire, n + 1, Len(wire))
  OBVIOUS
<1>4. n \in 0..Len(wire)
  BY <1>1
<1>5. chunk \in Seq(Token) /\ unread \in Seq(Token) /\ wire = chunk \o unread
  BY <1>1, <1>2, <1>3, <1>4, CutApart
<1>6. /\ frames' = frames /\ buf' = buf \o chunk /\ wire' = unread
      /\ decoding' = TRUE /\ got' = got
  BY <1>2, <1>3 DEF FR!Push, FR!From
<1>7. (buf \o chunk) \o unread = buf \o (chunk \o unread)
  BY <1>1, <1>5, ConcatAssociative
<1>8. buf' \in Seq(Token) /\ wire' \in Seq(Token) /\ buf' \o wire' = buf \o wire
  BY <1>1, <1>5, <1>6, <1>7, ConcatProperties
<1>9. ASSUME NEW e, NEW d, NEW k \in 0..Len(frames), Decoded(k, e, d) PROVE Decoded(k, e, d)'
  BY <1>6, <1>8, <1>9 DEF Decoded
<1> QED
  BY <1>1, <1>6, <1>8, <1>9 DEF FrameInv

LEMMA WaitKeeps ==
    ASSUME FrameInv, FR!NoHeader \/ FR!BodyMissing PROVE FrameInv'
<1>1. frames \in Seq(FR!Frames) /\ buf \in Seq(Token) /\ wire \in Seq(Token)
  BY DEF FrameInv
<1>2. /\ frames' = frames /\ buf' = buf /\ wire' = wire /\ got' = got
      /\ \/ ~FR!Terminated(buf)
         \/ FR!Terminated(buf) /\ FR!LengthFields(buf) # {} /\ ~FR!Complete(buf)
  BY DEF FR!NoHeader, FR!BodyMissing
<1>3. ASSUME NEW e, NEW d, Streams(frames, e, d), NEW k \in 0..Len(frames), Decoded(k, e, d),
             k < Len(frames)
      PROVE  Len(buf) < Len(FR!Encode(frames[k + 1]))
  <2>1. PICK frame : frame = frames[k + 1]
    OBVIOUS
  <2>2. k # Len(frames)
    BY <1>1, <1>3
  <2>3. frame \in FR!Frames /\ \E rest \in Seq(Token) : buf \o wire = FR!Encode(frame) \o rest
    BY <1>3, <2>1, <2>2, NextFrame
  <2>4. PICK h, body : Shaped(frame, FR!Encode(frame), h, body)
    BY <2>3, FrameShape
  <2>5. PICK bytes : bytes = FR!Encode(frame)
    OBVIOUS
  <2>6. PICK rest \in Seq(Token) : buf \o wire = bytes \o rest
    BY <2>3, <2>5
  <2>7. /\ Shaped(frame, bytes, h, body) /\ bytes \in Seq(Token) /\ h \in Nat /\ Len(body) \in Nat
        /\ Len(bytes) = h + 2 + Len(body)
    BY <2>4, <2>5 DEF Shaped
  <2>8. \A n \in 1..Len(buf) : n <= Len(bytes) => buf[n] = bytes[n]
    BY <1>1, <2>6, <2>7, TakeFront
  <2>9. /\ FR!Terminated(buf) <=> Len(buf) >= h + 2
        /\ FR!Terminated(buf) =>
              /\ FR!BodyStart(buf) = h + 2
              /\ FR!LengthFields(buf) # {} => FR!BodyLength(buf) = Len(body)
    <3>1. DecodesAs(frame, h, body, buf)
      BY <1>1, <2>7, <2>8, DecodesFrame
    <3> QED
      BY <3>1 DEF DecodesAs
  <2>10. Len(buf) \in Nat
    BY <1>1
  <2>11. Len(buf) < Len(bytes)
    BY <1>2, <2>7, <2>9, <2>10 DEF FR!Complete
  <2> QED
    BY <2>1, <2>5, <2>11
<1>4. ASSUME NEW e, NEW d, Streams(frames, e, d), NEW k \in 0..Len(frames), Decoded(k, e, d)
      PROVE  Decoded(k, e, d)'
  <2>1. k < Len(frames) => Len(buf) < Len(FR!Encode(frames[k + 1]))
    BY <1>3, <1>4
  <2>2. got = d[k] /\ e[Len(frames)] = e[k] \o (buf \o wire)
    BY <1>4 DEF Decoded
  <2> QED
    BY <1>2, <2>1, <2>2 DEF Decoded
<1> QED
  BY <1>1, <1>2, <1>4 DEF FrameInv

(* A frame is taken off the buffer, and its body, if it has one, delivered.  *)
LEMMA TakeKeeps ==
    ASSUME FrameInv, FR!DropHeader \/ FR!TakeBody PROVE FrameInv'
<1>1. frames \in Seq(FR!Frames) /\ buf \in Seq(Token) /\ wire \in Seq(Token)
  BY DEF FrameInv
<1>2. FR!Terminated(buf) /\ frames' = frames /\ wire' = wire /\ decoding /\ decoding' = decoding
  BY DEF FR!DropHeader, FR!TakeBody
<1>3. ASSUME NEW e, NEW d, Streams(frames, e, d), NEW k \in 0..Len(frames), Decoded(k, e, d)
      PROVE  k + 1 \in 0..Len(frames) /\ Decoded(k + 1, e, d)' /\ buf' \in Seq(Token)
  <2>1. PICK frame : frame = frames[k + 1]
    OBVIOUS
  <2>2. k # Len(frames)
    BY <1>2, <1>3, HeaderOfFrame
  <2>3. /\ frame \in FR!Frames /\ k + 1 \in 0..Len(frames)
        /\ \E rest \in Seq(Token) : /\ buf \o wire = FR!Encode(frame) \o rest
                                   /\ e[Len(frames)] = e[k + 1] \o rest
    BY <1>3, <2>1, <2>2, NextFrame
  <2>4. PICK h, body : Shaped(frame, FR!Encode(frame), h, body)
    BY <2>3, FrameShape
  <2>5. PICK bytes : bytes = FR!Encode(frame)
    OBVIOUS
  <2>6. PICK rest \in Seq(Token) : buf \o wire = bytes \o rest /\ e[Len(frames)] = e[k + 1] \o rest
    BY <2>3, <2>5
  <2>7. /\ Shaped(frame, bytes, h, body) /\ bytes \in Seq(Token) /\ h \in Nat
        /\ body \in Seq(Token) /\ Len(body) \in Nat /\ Len(bytes) = h + 2 + Len(body)
        /\ \A n \in 1..Len(body) : bytes[h + 2 + n] = body[n]
        /\ \/ FR!Body(frame) = <<>> /\ body = <<>>
           \/ FR!Body(frame) = <<body>>
    BY <2>4, <2>5 DEF Shaped
  <2>8. \A n \in 1..Len(buf) : n <= Len(bytes) => buf[n] = bytes[n]
    BY <1>1, <2>6, <2>7, TakeFront
  <2>9. /\ Len(buf) >= h + 2
        /\ FR!BodyStart(buf) = h + 2
        /\ FR!LengthFields(buf) = {} <=> FR!Body(frame) = <<>>
        /\ FR!LengthFields(buf) # {} => FR!BodyLength(buf) = Len(body)
    <3>1. DecodesAs(frame, h, body, buf)
      BY <1>1, <2>7, <2>8, DecodesFrame
    <3> QED
      BY <1>2, <3>1 DEF DecodesAs
  <2>10. Len(buf) \in Nat
    BY <1>1
  <2>11. d[k + 1] = d[k] \o FR!Body(frame) /\ d[k] \in Seq(Seq(Token)) /\ got = d[k]
    <3>1. k \in 0..Len(frames) - 1
      BY <1>1, <2>3
    <3>2. /\ \A n \in 0..Len(frames) : d[n] \in Seq(Seq(Token))
          /\ \A n \in 0..Len(frames) - 1 : d[n + 1] = d[n] \o FR!Body(frames[n + 1])
      BY <1>1, <1>3, StreamSteps
    <3> QED
      BY <1>3, <2>1, <3>1, <3>2 DEF Decoded
  <2>12. Len(bytes) <= Len(buf) /\ buf' = SubSeq(buf, Len(bytes) + 1, Len(buf)) /\ got' = d[k + 1]
    <3>1. CASE FR!DropHeader
      <4>1. FR!Body(frame) = <<>> /\ got' = got /\ buf' = SubSeq(buf, h + 2 + 1, Len(buf))
        BY <2>9, <3>1 DEF FR!DropHeader, FR!From
      <4>2. Len(bytes) = h + 2
        <5>1. body = <<>>
          BY <2>7, <4>1
        <5>2. Len(body) = 0
          BY <5>1
        <5> QED
          BY <2>7, <5>2
      <4>3. got = got \o <<>>
        BY <2>11, ConcatEmptySeq
      <4> QED
        BY <2>9, <2>11, <4>1, <4>2, <4>3
    <3>2. CASE FR!TakeBody
      <4>1. FR!LengthFields(buf) # {} /\ FR!Complete(buf)
        BY <3>2 DEF FR!TakeBody
      <4>2. FR!Body(frame) = <<body>> /\ FR!BodyLength(buf) = Len(body)
        BY <2>7, <2>9, <4>1
      <4>3. Len(bytes) <= Len(buf)
        BY <2>7, <2>9, <2>10, <4>1, <4>2 DEF FR!Complete
      <4>4. PICK part : part = SubSeq(buf, (h + 2) + 1, h + 2 + Len(body))
        OBVIOUS
      <4>5. /\ got' = Append(got, part)
            /\ buf' = SubSeq(buf, h + 2 + Len(body) + 1, Len(buf))
        BY <2>9, <3>2, <4>2, <4>4 DEF FR!TakeBody, FR!From
      <4>6. part = body
        <5>1. h + 2 \in 0..Len(buf) /\ h + 2 + Len(body) \in (h + 2)..Len(buf)
          BY <2>7, <2>10, <4>3
        <5>2. /\ part \in Seq(Token) /\ Len(part) = (h + 2 + Len(body)) - (h + 2)
              /\ \A n \in 1..(h + 2 + Len(body)) - (h + 2) : part[n] = buf[h + 2 + n]
          BY <1>1, <4>4, <5>1, SubSeqFacts
        <5>3. Len(part) = Len(body) /\ \A n \in 1..Len(body) : part[n] = buf[h + 2 + n]
          BY <2>7, <5>2
        <5>4. ASSUME NEW n \in 1..Len(body) PROVE part[n] = body[n]
          <6>1. h + 2 + n \in 1..Len(buf) /\ h + 2 + n <= Len(bytes)
            BY <2>7, <2>10, <4>3
          <6> QED
            BY <2>7, <2>8, <5>3, <6>1
        <5> QED
          BY <2>7, <5>2, <5>3, <5>4, SeqEqual
      <4>7. Append(got, body) = got \o <<body>>
        BY <2>7, <2>11, AppendIsConcat
      <4> QED
        BY <2>7, <2>11, <4>2, <4>3, <4>5, <4>6, <4>7
    <3> QED
      BY <3>1, <3>2
  <2>13. buf' \in Seq(Token) /\ buf' \o wire = rest
    <3>1. Beyond(buf, bytes) \in Seq(Token) /\ Beyond(buf, bytes) \o wire = rest
      <4>1. Len(bytes) <= Len(buf)
        BY <2>12
      <4>2. bytes \in Seq(Token) /\ buf \o wire = bytes \o rest
        BY <2>6, <2>7
      <4>3. buf \in Seq(Token) /\ wire \in Seq(Token) /\ rest \in Seq(Token)
        BY <1>1, <2>6
      <4> QED
        BY <4>1, <4>2, <4>3, TakeRest
    <3> QED
      BY <2>12, <3>1 DEF Beyond
  <2> QED
    BY <1>2, <2>3, <2>6, <2>12, <2>13 DEF Decoded
<1>4. buf' \in Seq(Token)
  <2>1. PICK e, d : Streams(frames, e, d)
    BY <1>1, StreamsExist
  <2>2. PICK k \in 0..Len(frames) : Decoded(k, e, d)
    BY <2>1 DEF FrameInv
  <2> QED
    BY <1>3, <2>1, <2>2
<1>5. ASSUME NEW e, NEW d, Streams(frames, e, d) PROVE \E k \in 0..Len(frames) : Decoded(k, e, d)'
  <2>1. PICK k \in 0..Len(frames) : Decoded(k, e, d)
    BY <1>5 DEF FrameInv
  <2> QED
    BY <1>3, <1>5, <2>1
<1> QED
  BY <1>1, <1>2, <1>4, <1>5 DEF FrameInv

LEMMA StepKeepsFrameInv == FrameInv /\ [FR!Next]_FR!frameVars => FrameInv'
<1> SUFFICES ASSUME FrameInv, [FR!Next]_FR!frameVars PROVE FrameInv'
  OBVIOUS
<1>1. ASSUME NEW n \in 1..Len(wire), FR!Push(n) PROVE FrameInv'
  BY <1>1, PushKeeps
<1>2. CASE FR!NoHeader \/ FR!BodyMissing
  BY <1>2, WaitKeeps
<1>3. CASE FR!DropHeader \/ FR!TakeBody
  BY <1>3, TakeKeeps
<1>4. CASE UNCHANGED FR!frameVars
  <2>1. frames' = frames /\ wire' = wire /\ buf' = buf /\ decoding' = decoding /\ got' = got
    BY <1>4 DEF FR!frameVars
  <2> QED
    BY <2>1 DEF FrameInv, Decoded
<1> QED
  BY <1>1, <1>2, <1>3, <1>4 DEF FR!Next

LEMMA FrameInvariant == FR!Spec => []FrameInv
  BY InitFrameInv, StepKeepsFrameInv, PTL DEF FR!Spec

(* However long the frames are, however many, and wherever the bytes are     *)
(* cut: the decoder returns the bodies the server wrote, in their order.     *)
THEOREM BodiesInOrder == FR!Spec => []DeliveredInOrder
<1>1. FrameInv => DeliveredInOrder
  <2> SUFFICES ASSUME FrameInv PROVE FR!IsPrefix(got, FR!Messages(frames))
    BY DEF DeliveredInOrder, FR!DeliveredInOrder
  <2>1. frames \in Seq(FR!Frames)
    BY DEF FrameInv
  <2>2. PICK e, d : Streams(frames, e, d)
    BY <2>1, StreamsExist
  <2>3. PICK k \in 0..Len(frames) : Decoded(k, e, d)
    BY <2>2 DEF FrameInv
  <2>4. /\ Len(frames) \in Nat /\ \A n \in 0..Len(frames) : d[n] \in Seq(Seq(Token))
        /\ \A i \in 0..Len(frames), j \in 0..Len(frames) :
              i <= j => Extends(Seq(Token), d[j], d[i])
    BY <2>1, <2>2, StreamSteps
  <2>5. PICK all : all = FR!Messages(frames)
    OBVIOUS
  <2>6. all = d[Len(frames)] /\ got = d[k]
    BY <2>1, <2>2, <2>3, <2>5, WholeStream DEF Decoded
  <2>7. got \in Seq(Seq(Token)) /\ Extends(Seq(Token), all, got)
    <3>1. Len(frames) \in 0..Len(frames) /\ k <= Len(frames)
      BY <2>4
    <3> QED
      BY <2>4, <2>6, <3>1
  <2>8. PICK r \in Seq(Seq(Token)) : all = got \o r
    BY <2>7 DEF Extends
  <2>9. SubSeq(got \o r, 1, Len(got)) = got
    BY <2>7, CutConcat
  <2>10. Len(got \o r) = Len(got) + Len(r) /\ Len(got) \in Nat /\ Len(r) \in Nat
    BY <2>7, ConcatFacts
  <2>11. SubSeq(got, 1, Len(got)) = got
    BY <2>7, SubSeqFull
  <2>12. Len(got) <= Len(all) /\ SubSeq(got, 1, Len(got)) = SubSeq(all, 1, Len(got))
    BY <2>8, <2>9, <2>10, <2>11
  <2> QED
    BY <2>5, <2>12 DEF FR!IsPrefix
<1> QED
  BY <1>1, FrameInvariant, PTL

LEMMA NoFrameWithheld ==
    ASSUME FrameInv, ~decoding, NEW j \in 0..Len(frames), NEW first \in Seq(FR!Frames),
           Len(first) = j, \A n \in 1..j : first[n] = frames[n],
           Len(FR!EncodeAll(frames)) - Len(wire) >= Len(FR!EncodeAll(first))
    PROVE  Len(got) >= Len(FR!Messages(first))
<1>1. frames \in Seq(FR!Frames) /\ buf \in Seq(Token) /\ wire \in Seq(Token)
  BY DEF FrameInv
<1>2. PICK e, d : Streams(frames, e, d)
  BY <1>1, StreamsExist
<1>3. PICK k \in 0..Len(frames) : Decoded(k, e, d)
  BY <1>2 DEF FrameInv
<1>4. /\ Len(frames) \in Nat
      /\ \A n \in 0..Len(frames) : e[n] \in Seq(Token) /\ d[n] \in Seq(Seq(Token))
      /\ \A n \in 0..Len(frames) - 1 : /\ frames[n + 1] \in FR!Frames
                                     /\ e[n + 1] = e[n] \o FR!Encode(frames[n + 1])
      /\ \A i \in 0..Len(frames), n \in 0..Len(frames) :
            i <= n => Extends(Token, e[n], e[i]) /\ Extends(Seq(Token), d[n], d[i])
  BY <1>1, <1>2, StreamSteps
<1>5. FR!EncodeAll(frames) = e[Len(frames)]
  BY <1>1, <1>2, WholeStream
<1>6. FR!EncodeAll(first) = e[j] /\ FR!Messages(first) = d[j]
  BY <1>1, <1>2, StreamPrefix
<1>7. got = d[k] /\ (k < Len(frames) => Len(buf) < Len(FR!Encode(frames[k + 1])))
  BY <1>3 DEF Decoded
<1>8. /\ Len(e[Len(frames)]) = Len(e[k]) + (Len(buf) + Len(wire))
      /\ Len(e[k]) \in Nat /\ Len(buf) \in Nat /\ Len(wire) \in Nat
  <2>1. buf \o wire \in Seq(Token) /\ Len(buf \o wire) = Len(buf) + Len(wire)
        /\ Len(buf) \in Nat /\ Len(wire) \in Nat
    BY <1>1, ConcatFacts
  <2>2. PICK t : t = e[k]
    OBVIOUS
  <2>3. t \in Seq(Token) /\ e[Len(frames)] = t \o (buf \o wire)
    BY <1>3, <1>4, <2>2 DEF Decoded
  <2>4. Len(t \o (buf \o wire)) = Len(t) + Len(buf \o wire) /\ Len(t) \in Nat
    BY <2>1, <2>3, ConcatFacts
  <2> QED
    BY <2>1, <2>2, <2>3, <2>4
<1>9. CASE j <= k
  <2>1. Extends(Seq(Token), d[k], d[j])
    BY <1>4, <1>9
  <2>2. Len(d[j]) <= Len(d[k])
    BY <1>4, <2>1, ExtendsLonger
  <2> QED
    BY <1>4, <1>6, <1>7, <2>2
<1>10. CASE k < j
  <2>1. k + 1 \in 0..Len(frames) /\ k \in 0..Len(frames) - 1 /\ k + 1 <= j /\ k < Len(frames)
    BY <1>4, <1>10
  <2>2. Len(e[k + 1]) <= Len(e[j])
    <3>1. Extends(Token, e[j], e[k + 1])
      BY <1>4, <2>1
    <3> QED
      BY <1>4, <2>1, <3>1, ExtendsLonger
  <2>3. Len(e[k + 1]) = Len(e[k]) + Len(FR!Encode(frames[k + 1])) /\ Len(FR!Encode(frames[k + 1])) \in Nat
    <3>1. PICK t, bytes : t = e[k] /\ bytes = FR!Encode(frames[k + 1])
      OBVIOUS
    <3>2. PICK h, body : Shaped(frames[k + 1], FR!Encode(frames[k + 1]), h, body)
      BY <1>4, <2>1, FrameShape
    <3>3. t \in Seq(Token) /\ bytes \in Seq(Token) /\ e[k + 1] = t \o bytes
      BY <1>4, <2>1, <3>1, <3>2 DEF Shaped
    <3>4. Len(t \o bytes) = Len(t) + Len(bytes) /\ Len(bytes) \in Nat
      BY <3>3, ConcatFacts
    <3> QED
      BY <3>1, <3>3, <3>4
  <2>4. Len(e[j]) \in Nat /\ Len(e[k + 1]) \in Nat
    BY <1>4, <2>1
  <2>5. FALSE
    <3>1. PICK all, upTo, far : all = Len(e[Len(frames)]) /\ upTo = Len(e[k]) /\ far = Len(e[j])
      OBVIOUS
    <3>2. PICK size : size = Len(FR!Encode(frames[k + 1]))
      OBVIOUS
    <3>3. all - Len(wire) >= far
      BY <1>5, <1>6, <3>1
    <3>4. /\ all = upTo + (Len(buf) + Len(wire)) /\ upTo \in Nat /\ far \in Nat
          /\ Len(buf) \in Nat /\ Len(wire) \in Nat
      BY <1>8, <2>4, <3>1
    <3>5. upTo + size <= far /\ size \in Nat
      BY <2>2, <2>3, <3>1, <3>2
    <3>6. Len(buf) < size
      BY <1>7, <2>1, <3>2
    <3> QED
      BY <3>3, <3>4, <3>5, <3>6
  <2> QED
    BY <2>5
<1> QED
  BY <1>4, <1>9, <1>10

(* When Push has returned, every body that was read to its last byte is      *)
(* delivered: no answer waits in the buffer for the next one to arrive.      *)
THEOREM NoBodyWithheld == FR!Spec => []NothingWithheld
<1>1. FrameInv => NothingWithheld
  <2> SUFFICES ASSUME FrameInv, ~decoding, NEW j \in 0..Len(frames),
                      Len(FR!EncodeAll(frames)) - Len(wire) >= Len(FR!EncodeAll(SubSeq(frames, 1, j)))
               PROVE  Len(got) >= Len(FR!Messages(SubSeq(frames, 1, j)))
    BY DEF NothingWithheld, FR!NothingWithheld
  <2>1. frames \in Seq(FR!Frames)
    BY DEF FrameInv
  <2>2. /\ SubSeq(frames, 1, j) \in Seq(FR!Frames) /\ Len(SubSeq(frames, 1, j)) = j
        /\ \A n \in 1..j : SubSeq(frames, 1, j)[n] = frames[n]
    BY <2>1
  <2> QED
    BY <2>2, NoFrameWithheld
<1> QED
  BY <1>1, FrameInvariant, PTL
-----------------------------------------------------------------------------
(* URIs.                                                                     *)

(* A byte is made up of its two digits. *)
LEMMA DivMod ==
    ASSUME NEW B \in Nat \ {0}, NEW c \in Nat
    PROVE  c \div B \in Nat /\ c % B \in 0..B - 1 /\ c = B * (c \div B) + (c % B)
<1>1. c % B \in 0..B - 1
  OBVIOUS
<1>2. c = B * (c \div B) + (c % B)
  OBVIOUS
<1>3. c \div B \in Nat
  OBVIOUS
<1> QED
  BY <1>1, <1>2, <1>3

LEMMA SquareBelow ==
    ASSUME NEW B \in Nat \ {0}, NEW q \in Nat, q >= B
    PROVE  B * q >= B * B /\ B * q \in Nat /\ B * B \in Nat
<1>1. PICK d \in Nat : q = B + d
  <2>1. q - B \in Nat /\ q = B + (q - B)
    OBVIOUS
  <2> QED
    BY <2>1
<1>2. B * d \in Nat /\ B * B \in Nat
  OBVIOUS
<1>3. B * (B + d) = B * B + B * d
  OBVIOUS
<1> QED
  BY <1>1, <1>2, <1>3

LEMMA TwoDigits ==
    ASSUME NEW B \in Nat \ {0}, NEW c \in 0..B * B - 1
    PROVE  /\ c \div B \in 0..B - 1 /\ c % B \in 0..B - 1
           /\ (c \div B) * B + (c % B) = c
<1>1. B * B \in Nat
  OBVIOUS
<1>2. c \in Nat /\ c < B * B
  BY <1>1
<1>3. c \div B \in Nat /\ c % B \in 0..B - 1 /\ c = B * (c \div B) + (c % B)
  BY <1>2, DivMod
<1>4. PICK q, r : q = c \div B /\ r = c % B
  OBVIOUS
<1>5. q \in Nat /\ r \in 0..B - 1 /\ c = B * q + r
  BY <1>3, <1>4
<1>6. ~ q >= B
  <2> SUFFICES ASSUME q >= B PROVE FALSE
    OBVIOUS
  <2>1. B * q >= B * B /\ B * q \in Nat
    BY <1>5, SquareBelow
  <2>2. PICK t, s : t = B * q /\ s = B * B
    OBVIOUS
  <2> QED
    BY <1>1, <1>2, <1>5, <2>1, <2>2
<1>7. B * q = q * B
  BY <1>5
<1>8. q * B + r = c /\ q \in 0..B - 1
  BY <1>5, <1>6, <1>7
<1> QED
  BY <1>4, <1>5, <1>8

Code == UR!Byte

(* One piece for each byte of the path. *)
Spelling(p, at, digit) ==
    [i \in 1..Len(p) |-> IF i \in at THEN UR!Escaped(p[i], digit) ELSE <<p[i]>>]

Spelled(p, u, at, digit, f) ==
    /\ p \in Seq(Code) /\ digit \in {Upper, Lower}
    /\ \A i \in 1..Len(p) : p[i] = Percent => i \in at
    /\ IsFlat(Code, Spelling(p, at, digit), f)
    /\ u = f[Len(p)]

(* A URI still to be read to its end stands for the rest of the path. *)
UriInv ==
    \E at, digit, f :
        /\ Spelled(path, uri, at, digit, f)
        /\ \E k \in 0..Len(path) : next = Len(f[k]) + 1 /\ decoded = SubSeq(path, 1, k)

LEMMA CodeFacts ==
    /\ Base \in Nat \ {0} /\ Percent \in Code /\ Slash \in Code /\ Percent # Slash
    /\ \A c \in Code : /\ c \div Base \in UR!Digits /\ c % Base \in UR!Digits
                       /\ (c \div Base) * Base + (c % Base) = c
    /\ \A digit \in {Upper, Lower}, v \in UR!Digits :
          digit[v] \in Code /\ digit[v] # Slash /\ UR!Values(digit[v]) = {v}
<1> USE CodesAssumption DEF UR!CodesApart, UR!Digits, Code, UR!Byte
<1>1. Base \in Nat \ {0} /\ Percent \in Code /\ Slash \in Code /\ Percent # Slash
  OBVIOUS
<1>2. ASSUME NEW c \in Code
      PROVE  /\ c \div Base \in UR!Digits /\ c % Base \in UR!Digits
             /\ (c \div Base) * Base + (c % Base) = c
  BY TwoDigits
<1>3. ASSUME NEW digit \in {Upper, Lower}, NEW v \in UR!Digits
      PROVE  digit[v] \in Code /\ digit[v] # Slash /\ UR!Values(digit[v]) = {v}
  <2>1. digit[v] \in Code
    BY <1>3
  <2>2. digit[v] # Slash
    BY <1>3
  <2>3. UR!Values(digit[v]) = {v}
    BY <1>3 DEF UR!Values
  <2> QED
    BY <2>1, <2>2, <2>3
<1> QED
  BY <1>1, <1>2, <1>3

LEMMA PieceOf ==
    ASSUME NEW p \in Seq(Code), NEW at, NEW digit \in {Upper, Lower}
    PROVE  /\ Len(p) \in Nat /\ Spelling(p, at, digit) \in Seq(Seq(Code))
           /\ Len(Spelling(p, at, digit)) = Len(p)
           /\ \A i \in 1..Len(p) :
                 /\ p[i] \in Code /\ Spelling(p, at, digit)[i] \in Seq(Code)
                 /\ Spelling(p, at, digit)[i] =
                       IF i \in at THEN UR!Escaped(p[i], digit) ELSE <<p[i]>>
<1>1. Len(p) \in Nat /\ \A i \in 1..Len(p) : p[i] \in Code
  OBVIOUS
<1>2. ASSUME NEW c \in Code PROVE UR!Escaped(c, digit) \in Seq(Code) /\ <<c>> \in Seq(Code)
  BY CodeFacts DEF UR!Escaped
<1> DEFINE s == Spelling(p, at, digit)
<1>3. \A i \in 1..Len(p) : s[i] = IF i \in at THEN UR!Escaped(p[i], digit) ELSE <<p[i]>>
  BY DEF Spelling
<1>4. DOMAIN s = 1..Len(p) /\ s = [i \in 1..Len(p) |-> s[i]]
  BY DEF Spelling
<1> HIDE DEF s
<1>5. \A i \in 1..Len(p) : s[i] \in Seq(Code)
  BY <1>1, <1>2, <1>3
<1>6. s \in [1..Len(p) -> Seq(Code)]
  BY <1>4, <1>5
<1>7. s \in Seq(Seq(Code)) /\ Len(s) = Len(p)
  BY <1>1, <1>4, <1>6
<1> QED
  BY <1>1, <1>3, <1>5, <1>7 DEF s

(* What it means for the pieces to be joined. *)
Joined(p, u, s, f) ==
    /\ Len(p) \in Nat /\ f[0] = <<>> /\ u \in Seq(Code)
    /\ \A n \in 0..Len(p) : f[n] \in Seq(Code)
    /\ \A n \in 0..Len(p) - 1 : f[n + 1] = f[n] \o s[n + 1]
    /\ \A n \in 0..Len(p) : Extends(Code, u, f[n])

LEMMA SpelledSteps ==
    ASSUME NEW p, NEW u, NEW at, NEW digit, NEW f, Spelled(p, u, at, digit, f)
    PROVE  Joined(p, u, Spelling(p, at, digit), f)
<1>1. /\ p \in Seq(Code) /\ digit \in {Upper, Lower} /\ u = f[Len(p)]
      /\ IsFlat(Code, Spelling(p, at, digit), f)
  BY DEF Spelled
<1>2. PICK s : s = Spelling(p, at, digit)
  OBVIOUS
<1>3. s \in Seq(Seq(Code)) /\ Len(s) = Len(p) /\ Len(p) \in Nat
  BY <1>1, <1>2, PieceOf
<1>4. IsFlat(Code, s, f)
  BY <1>1, <1>2
<1>5. /\ f[0] = <<>> /\ \A n \in 0..Len(s) : f[n] \in Seq(Code)
      /\ \A n \in 0..Len(s) - 1 : f[n + 1] = f[n] \o s[n + 1]
  BY <1>3, <1>4, FlatSteps
<1>6. \A n \in 0..Len(s) : Extends(Code, f[Len(s)], f[n])
  <2> TAKE n \in 0..Len(s)
  <2>1. Len(s) \in n..Len(s)
    BY <1>3
  <2> QED
    BY <1>3, <1>4, <2>1, FlatGrows
<1>7. Len(p) \in 0..Len(s)
  BY <1>3
<1> QED
  BY <1>1, <1>2, <1>3, <1>5, <1>6, <1>7 DEF Joined

(* The piece that is read next. *)
LEMMA PieceAhead ==
    ASSUME NEW p, NEW u, NEW at, NEW digit, NEW f, Spelled(p, u, at, digit, f),
           NEW k \in 0..Len(p) - 1
    PROVE  \E piece \in Seq(Code) :
              /\ k + 1 \in 1..Len(p) /\ p[k + 1] \in Code
              /\ piece = IF k + 1 \in at THEN UR!Escaped(p[k + 1], digit) ELSE <<p[k + 1]>>
              /\ Len(f[k]) \in Nat /\ Len(u) \in Nat /\ Len(piece) \in Nat \ {0}
              /\ Len(f[k + 1]) = Len(f[k]) + Len(piece)
              /\ Len(f[k]) + Len(piece) <= Len(u)
              /\ \A n \in 1..Len(piece) : u[Len(f[k]) + n] = piece[n]
<1>0. Joined(p, u, Spelling(p, at, digit), f)
  BY SpelledSteps
<1>1. /\ Len(p) \in Nat /\ u \in Seq(Code)
      /\ \A n \in 0..Len(p) : f[n] \in Seq(Code)
      /\ \A n \in 0..Len(p) - 1 : f[n + 1] = f[n] \o Spelling(p, at, digit)[n + 1]
      /\ \A n \in 0..Len(p) : Extends(Code, u, f[n])
  BY <1>0 DEF Joined
<1>2. p \in Seq(Code) /\ digit \in {Upper, Lower} /\ u = f[Len(p)]
  BY DEF Spelled
<1>3. Len(u) \in Nat /\ Len(f[k]) \in Nat
  BY <1>1
<1>5. k \in 0..Len(p) /\ k + 1 \in 1..Len(p) /\ k + 1 \in 0..Len(p)
  BY <1>1
<1>6. PICK piece : piece = Spelling(p, at, digit)[k + 1]
  OBVIOUS
<1>7. /\ piece \in Seq(Code) /\ p[k + 1] \in Code
      /\ piece = IF k + 1 \in at THEN UR!Escaped(p[k + 1], digit) ELSE <<p[k + 1]>>
  BY <1>2, <1>5, <1>6, PieceOf
<1>8. PICK t : t = f[k]
  OBVIOUS
<1>9. f[k + 1] = t \o piece /\ t \in Seq(Code)
  BY <1>1, <1>5, <1>6, <1>8
<1>10. /\ Len(t \o piece) = Len(t) + Len(piece) /\ Len(t) \in Nat /\ Len(piece) \in Nat
       /\ \A n \in 1..Len(piece) : (t \o piece)[Len(t) + n] = piece[n]
       /\ t \o piece \in Seq(Code)
  BY <1>7, <1>9, ConcatFacts
<1>11. PICK joined : joined = t \o piece
  OBVIOUS
<1>12. PICK r \in Seq(Code) : u = joined \o r
  <2>1. Extends(Code, u, joined)
    BY <1>1, <1>5, <1>9, <1>11
  <2> QED
    BY <2>1 DEF Extends
<1>13. /\ Len(joined \o r) = Len(joined) + Len(r) /\ Len(r) \in Nat /\ Len(joined) \in Nat
       /\ \A n \in 1..Len(joined) : (joined \o r)[n] = joined[n]
  BY <1>10, <1>11, ConcatFacts
<1>14. ASSUME NEW n \in 1..Len(piece) PROVE u[Len(t) + n] = piece[n]
  <2>1. Len(t) + n \in 1..Len(joined)
    BY <1>10, <1>11
  <2> QED
    BY <1>10, <1>11, <1>12, <1>13, <2>1
<1>15. Len(piece) # 0
  BY <1>7 DEF UR!Escaped
<1>16. Len(t) + Len(piece) <= Len(u)
  BY <1>10, <1>11, <1>12, <1>13
<1> QED
  BY <1>3, <1>5, <1>7, <1>8, <1>9, <1>10, <1>14, <1>15, <1>16

(* The host is cut off, since it has no slash and the path begins with one.  *)
LEMMA HostIsSkipped ==
    ASSUME NEW host \in Seq(Code), \A i \in 1..Len(host) : host[i] # Slash,
           NEW rest \in Seq(Code), Len(rest) >= 1, rest[1] = Slash
    PROVE  UR!SkipHost(host \o rest) = rest
<1>1. PICK u : u = host \o rest
  OBVIOUS
<1>2. /\ u \in Seq(Code) /\ Len(u) = Len(host) + Len(rest) /\ Len(host) \in Nat /\ Len(rest) \in Nat
      /\ \A n \in 1..Len(host) : u[n] = host[n]
      /\ \A n \in 1..Len(rest) : u[Len(host) + n] = rest[n]
  BY <1>1, ConcatFacts
<1>3. Len(host) + 1 \in UR!Slashes(u)
  <2>1. 1 \in 1..Len(rest) /\ Len(host) + 1 \in 1..Len(u)
    BY <1>2
  <2> QED
    BY <1>2, <2>1 DEF UR!Slashes
<1>4. \A i \in UR!Slashes(u) : i \in Nat /\ Len(host) + 1 <= i
  <2> SUFFICES ASSUME NEW i \in 1..Len(u), u[i] = Slash PROVE Len(host) + 1 <= i
    BY <1>2 DEF UR!Slashes
  <2>1. i \notin 1..Len(host)
    BY <1>2
  <2> QED
    BY <1>2, <2>1
<1>5. UR!Min(UR!Slashes(u)) = Len(host) + 1
  <2>1. PICK S : S = UR!Slashes(u)
    OBVIOUS
  <2>2. Len(host) + 1 \in S /\ \A i \in S : i \in Nat /\ Len(host) + 1 <= i
    BY <1>3, <1>4, <2>1
  <2>3. UR!Min(S) \in S /\ \A i \in S : UR!Min(S) <= i
    BY <2>2 DEF UR!Min
  <2>4. UR!Min(S) = Len(host) + 1
    BY <1>2, <2>2, <2>3
  <2> QED
    BY <2>1, <2>4
<1>6. UR!SkipHost(u) = SubSeq(u, Len(host) + 1, Len(u))
  BY <1>3, <1>5 DEF UR!SkipHost
<1>7. SubSeq(host \o rest, Len(host) + 1, Len(host \o rest)) = rest
  BY CutConcat
<1> QED
  BY <1>1, <1>6, <1>7

LEMMA EncodedIsSpelled ==
    ASSUME NEW p \in Seq(Code), Len(p) >= 1, p[1] = Slash, NEW at, 1 \notin at,
           \A i \in 1..Len(p) : p[i] = Percent => i \in at, NEW digit \in {Upper, Lower}
    PROVE  /\ UR!Encode(p, at, digit) \in Seq(Code)
           /\ Len(UR!Encode(p, at, digit)) >= 1 /\ UR!Encode(p, at, digit)[1] = Slash
           /\ \E f : Spelled(p, UR!Encode(p, at, digit), at, digit, f)
<1>1. PICK s : s = Spelling(p, at, digit)
  OBVIOUS
<1>2. s \in Seq(Seq(Code)) /\ Len(s) = Len(p) /\ Len(p) \in Nat
  BY <1>1, PieceOf
<1>3. s[1] = <<Slash>>
  <2>1. 1 \in 1..Len(p)
    BY <1>2
  <2>2. s[1] = IF 1 \in at THEN UR!Escaped(p[1], digit) ELSE <<p[1]>>
    BY <1>1, <2>1 DEF Spelling
  <2> QED
    BY <2>2
<1>4. PICK f : IsFlat(Code, s, f)
  BY <1>2, FlatExists
<1>5. FlattenSeq(s) = f[Len(s)]
  BY <1>2, <1>4, FlatOf
<1>6. UR!Encode(p, at, digit) = FlattenSeq(s)
  BY <1>1 DEF UR!Encode, UR!FlattenSeq, FlattenSeq, Spelling
<1>7. PICK u : u = UR!Encode(p, at, digit)
  OBVIOUS
<1>8. Spelled(p, u, at, digit, f)
  BY <1>1, <1>2, <1>4, <1>5, <1>6, <1>7 DEF Spelled
<1>9. u \in Seq(Code) /\ f[0] = <<>> /\ Extends(Code, u, f[1]) /\ f[1] = f[0] \o s[1]
  <2>1. /\ u \in Seq(Code) /\ f[0] = <<>>
        /\ \A n \in 0..Len(p) - 1 : f[n + 1] = f[n] \o s[n + 1]
        /\ \A n \in 0..Len(p) : Extends(Code, u, f[n])
    <3>1. Joined(p, u, Spelling(p, at, digit), f)
      BY <1>8, SpelledSteps
    <3> QED
      BY <1>1, <3>1 DEF Joined
  <2>2. 0 \in 0..Len(p) - 1 /\ 1 \in 0..Len(p) /\ 0 + 1 = 1
    BY <1>2
  <2>3. f[0 + 1] = f[0] \o s[0 + 1]
    BY <2>1, <2>2
  <2> QED
    BY <2>1, <2>2, <2>3
<1>10. f[1] = <<Slash>>
  BY <1>3, <1>9, CodeFacts, ConcatEmptySeq
<1>11. PICK r \in Seq(Code) : u = <<Slash>> \o r
  BY <1>9, <1>10 DEF Extends
<1>12. Len(u) >= 1 /\ u[1] = Slash
  <2>1. <<Slash>> \in Seq(Code) /\ Len(<<Slash>>) = 1 /\ <<Slash>>[1] = Slash
    BY CodeFacts
  <2>2. PICK one : one = <<Slash>>
    OBVIOUS
  <2>3. /\ Len(one \o r) = Len(one) + Len(r) /\ Len(r) \in Nat
        /\ \A n \in 1..Len(one) : (one \o r)[n] = one[n]
    BY <2>1, <2>2, ConcatFacts
  <2> QED
    BY <1>11, <2>1, <2>2, <2>3
<1> QED
  BY <1>7, <1>8, <1>9, <1>12

LEMMA InitUriInv == UR!Init => UriInv
<1> SUFFICES ASSUME UR!Init PROVE UriInv
  OBVIOUS
<1>1. path \in Seq(Code) /\ Len(path) >= 1 /\ path[1] = Slash
  <2>1. PICK m \in 0..MaxPath - 1 :
             \E p \in [1..m -> {Slash, Percent} \cup Special \cup Ordinary] : path = <<Slash>> \o p
    BY DEF UR!Init, UR!Paths, UR!SeqOf
  <2>2. {Slash, Percent} \cup Special \cup Ordinary \subseteq Code /\ MaxPath \in Nat
    BY CodesAssumption DEF UR!CodesApart, Code
  <2>3. PICK p \in Seq(Code) : path = <<Slash>> \o p
    BY <2>1, <2>2
  <2>4. <<Slash>> \in Seq(Code) /\ Len(<<Slash>>) = 1 /\ <<Slash>>[1] = Slash
    BY CodeFacts
  <2>5. PICK one : one = <<Slash>>
    OBVIOUS
  <2>6. /\ one \o p \in Seq(Code) /\ Len(one \o p) = Len(one) + Len(p) /\ Len(p) \in Nat
        /\ \A n \in 1..Len(one) : (one \o p)[n] = one[n]
    BY <2>3, <2>4, <2>5, ConcatFacts
  <2> QED
    BY <2>3, <2>4, <2>5, <2>6
<1>2. ASSUME NEW at, 1 \notin at, \A i \in 1..Len(path) : path[i] = Percent => i \in at,
             NEW digit \in {Upper, Lower}, NEW host \in Seq(Code),
             \A i \in 1..Len(host) : host[i] # Slash,
             uri = UR!SkipHost(host \o UR!Encode(path, at, digit))
      PROVE  \E f : Spelled(path, uri, at, digit, f)
  <2>1. PICK u : u = UR!Encode(path, at, digit)
    OBVIOUS
  <2>2. u \in Seq(Code) /\ Len(u) >= 1 /\ u[1] = Slash /\ \E f : Spelled(path, u, at, digit, f)
    BY <1>1, <1>2, <2>1, EncodedIsSpelled
  <2>3. UR!SkipHost(host \o u) = u
    BY <1>2, <2>2, HostIsSkipped
  <2> QED
    BY <1>2, <2>1, <2>2, <2>3
<1>3. <<>> \in Seq(Code) /\ \A c \in Ordinary : /\ <<c>> \in Seq(Code)
                                                /\ \A i \in 1..Len(<<c>>) : <<c>>[i] # Slash
  BY CodesAssumption DEF UR!CodesApart, Code
<1>4. \E at, digit, f : Spelled(path, uri, at, digit, f)
  <2>1. CASE uri = UR!SkipHost(UR!FileToURI(path))
    <3>1. PICK at : at = {i \in 1..Len(path) : UR!ShouldEncode(path[i])}
      OBVIOUS
    <3>2. UR!FileToURI(path) = UR!Encode(path, at, Upper)
      BY <3>1 DEF UR!FileToURI
    <3>3. 1 \notin at /\ \A i \in 1..Len(path) : path[i] = Percent => i \in at
      BY <1>1, <3>1, CodesAssumption DEF UR!ShouldEncode, UR!CodesApart
    <3>4. UR!Encode(path, at, Upper) \in Seq(Code)
      BY <1>1, <3>3, EncodedIsSpelled
    <3>5. <<>> \o UR!Encode(path, at, Upper) = UR!Encode(path, at, Upper)
      BY <3>4, ConcatEmptySeq
    <3>6. \A i \in 1..Len(<<>>) : <<>>[i] # Slash
      OBVIOUS
    <3>7. uri = UR!SkipHost(<<>> \o UR!Encode(path, at, Upper))
      BY <2>1, <3>2, <3>5
    <3> QED
      BY <1>2, <1>3, <3>3, <3>6, <3>7
  <2>2. ASSUME NEW u, u \in UR!ServerURIs(path), uri = UR!SkipHost(u)
        PROVE  \E at, digit, f : Spelled(path, uri, at, digit, f)
    <3>1. PICK host \in {<<>>} \cup {<<c>> : c \in Ordinary},
               some \in SUBSET {i \in 1..Len(path) : path[i] # Slash}, digit \in {Upper, Lower} :
                  u = UR!ServerURI(path, host, some, digit)
      BY <2>2 DEF UR!ServerURIs
    <3>2. PICK at : at = some \cup {i \in 1..Len(path) : path[i] = Percent}
      OBVIOUS
    <3>3. u = host \o UR!Encode(path, at, digit)
      BY <3>1, <3>2 DEF UR!ServerURI
    <3>4. 1 \notin at /\ \A i \in 1..Len(path) : path[i] = Percent => i \in at
      BY <1>1, <3>2, CodeFacts
    <3>5. host \in Seq(Code) /\ \A i \in 1..Len(host) : host[i] # Slash
      <4>1. CASE host = <<>>
        BY <1>3, <4>1
      <4>2. ASSUME NEW c \in Ordinary, host = <<c>>
            PROVE  host \in Seq(Code) /\ \A i \in 1..Len(host) : host[i] # Slash
        BY <1>3, <4>2
      <4> QED
        BY <4>1, <4>2
    <3>6. uri = UR!SkipHost(host \o UR!Encode(path, at, digit))
      BY <2>2, <3>3
    <3> QED
      BY <1>2, <3>4, <3>5, <3>6
  <2> QED
    BY <2>1, <2>2 DEF UR!Init
<1>5. PICK at, digit, f : Spelled(path, uri, at, digit, f)
  BY <1>4
<1>6. f[0] = <<>> /\ 0 \in 0..Len(path)
  <2>1. Joined(path, uri, Spelling(path, at, digit), f)
    BY <1>5, SpelledSteps
  <2> QED
    BY <1>1, <2>1 DEF Joined
<1>7. next = Len(f[0]) + 1 /\ decoded = SubSeq(path, 1, 0)
  <2>1. SubSeq(path, 1, 0) = <<>>
    BY <1>1, SubSeqEmpty
  <2> QED
    BY <1>6, <2>1 DEF UR!Init
<1> QED
  BY <1>5, <1>6, <1>7 DEF UriInv

LEMMA DecodeKeeps ==
    ASSUME NEW at, NEW digit, NEW f, Spelled(path, uri, at, digit, f), NEW k \in 0..Len(path),
           next = Len(f[k]) + 1, decoded = SubSeq(path, 1, k), UR!Next
    PROVE  /\ k + 1 \in 0..Len(path)
           /\ next' = Len(f[k + 1]) + 1 /\ decoded' = SubSeq(path, 1, k + 1)
<1>1. next <= Len(uri)
  BY DEF UR!Next, UR!DecodeEscape, UR!CopyByte
<1>0. k \in 0..Len(path) - 1
  <2>1. uri = f[Len(path)] /\ Len(path) \in Nat /\ f[k] \in Seq(Code) /\ uri \in Seq(Code)
    <3>1. Joined(path, uri, Spelling(path, at, digit), f)
      BY SpelledSteps
    <3> QED
      BY <3>1 DEF Joined, Spelled
  <2>2. Len(f[k]) \in Nat /\ Len(uri) \in Nat
    BY <2>1
  <2>3. k # Len(path)
    BY <1>1, <2>1, <2>2
  <2> QED
    BY <2>1, <2>3
<1>2. PICK piece \in Seq(Code) :
          /\ k + 1 \in 1..Len(path) /\ path[k + 1] \in Code
          /\ piece = IF k + 1 \in at THEN UR!Escaped(path[k + 1], digit) ELSE <<path[k + 1]>>
          /\ Len(f[k]) \in Nat /\ Len(uri) \in Nat /\ Len(piece) \in Nat \ {0}
          /\ Len(f[k + 1]) = Len(f[k]) + Len(piece)
          /\ Len(f[k]) + Len(piece) <= Len(uri)
          /\ \A n \in 1..Len(piece) : uri[Len(f[k]) + n] = piece[n]
  BY <1>0, PieceAhead
<1>3. PICK c, len : c = path[k + 1] /\ len = Len(f[k])
  OBVIOUS
<1>4. /\ c \in Code /\ len \in Nat /\ next = len + 1
      /\ len + Len(piece) <= Len(uri) /\ Len(f[k + 1]) = len + Len(piece)
      /\ \A n \in 1..Len(piece) : uri[len + n] = piece[n]
  BY <1>2, <1>3
<1>5. path \in Seq(Code) /\ digit \in {Upper, Lower} /\ (c = Percent => k + 1 \in at)
  BY <1>2, <1>3 DEF Spelled
<1>6. SubSeq(path, 1, k + 1) = Append(decoded, c)
  <2>1. k \in 0..Len(path) - 1 /\ k \in 0..Len(path) /\ Len(path) \in Nat
    BY <1>2, <1>5
  <2>2. SubSeq(path, 1, k) \in Seq(Code)
    BY <1>5, <2>1
  <2>3. SubSeq(path, 1, k + 1) = SubSeq(path, 1, k) \o <<c>>
    BY <1>3, <1>5, <2>1, PrefixStep
  <2> QED
    BY <1>4, <2>2, <2>3, AppendIsConcat
<1>7. CASE k + 1 \in at
  <2>1. PICK high, low : high = c \div Base /\ low = c % Base
    OBVIOUS
  <2>2. high \in UR!Digits /\ low \in UR!Digits /\ high * Base + low = c
    BY <1>4, <2>1, CodeFacts
  <2>3. piece = <<Percent, digit[high], digit[low]>>
    BY <1>2, <1>3, <1>7, <2>1 DEF UR!Escaped
  <2>4. Len(piece) = 3 /\ piece[1] = Percent /\ piece[2] = digit[high] /\ piece[3] = digit[low]
    BY <2>3
  <2>5. /\ uri[len + 1] = Percent /\ uri[len + 2] = digit[high] /\ uri[len + 3] = digit[low]
        /\ Len(f[k + 1]) = len + 3 /\ len + 3 <= Len(uri)
    <3>1. 1 \in 1..Len(piece) /\ 2 \in 1..Len(piece) /\ 3 \in 1..Len(piece)
      BY <2>4
    <3> QED
      BY <1>4, <2>4, <3>1
  <2>6. uri[next] = Percent /\ uri[next + 1] = digit[high] /\ uri[next + 2] = digit[low]
    <3>1. next = len + 1 /\ next + 1 = len + 2 /\ next + 2 = len + 3
      BY <1>4
    <3> QED
      BY <2>5, <3>1
  <2>7. UR!Values(uri[next + 1]) = {high} /\ UR!Values(uri[next + 2]) = {low}
    BY <1>5, <2>2, <2>6, CodeFacts
  <2>8. UR!IsEscape(next)
    <3>1. next + 2 <= Len(uri)
      BY <1>2, <1>4, <2>5
    <3>2. UR!Values(uri[next + 1]) # {} /\ UR!Values(uri[next + 2]) # {}
      BY <2>7
    <3> QED
      BY <2>6, <3>1, <3>2 DEF UR!IsEscape, UR!HasDigits
  <2>9. decoded' = Append(decoded, high * Base + low) /\ next' = next + 3
    BY <2>7, <2>8 DEF UR!Next, UR!DecodeEscape, UR!CopyByte
  <2> QED
    <3>1. k + 1 \in 0..Len(path)
      BY <1>2
    <3>2. decoded' = SubSeq(path, 1, k + 1)
      BY <1>6, <2>2, <2>9
    <3>3. next' = Len(f[k + 1]) + 1
      BY <1>4, <2>5, <2>9
    <3> QED
      BY <3>1, <3>2, <3>3
<1>8. CASE k + 1 \notin at
  <2>1. piece = <<c>>
    BY <1>2, <1>3, <1>8
  <2>2. Len(piece) = 1 /\ piece[1] = c
    BY <2>1
  <2>3. uri[len + 1] = c /\ Len(f[k + 1]) = len + 1
    <3>1. 1 \in 1..Len(piece)
      BY <2>2
    <3> QED
      BY <1>4, <2>2, <3>1
  <2>4. uri[next] = c /\ ~UR!IsEscape(next)
    BY <1>4, <1>5, <1>8, <2>3 DEF UR!IsEscape
  <2>5. decoded' = Append(decoded, c) /\ next' = next + 1
    BY <2>4 DEF UR!Next, UR!DecodeEscape, UR!CopyByte
  <2> QED
    <3>1. k + 1 \in 0..Len(path)
      BY <1>2
    <3>2. decoded' = SubSeq(path, 1, k + 1)
      BY <1>6, <2>5
    <3>3. next' = Len(f[k + 1]) + 1
      BY <1>4, <2>3, <2>5
    <3> QED
      BY <3>1, <3>2, <3>3
<1> QED
  BY <1>7, <1>8

LEMMA StepKeepsUriInv == UriInv /\ [UR!Next]_UR!uriVars => UriInv'
<1> SUFFICES ASSUME UriInv, [UR!Next]_UR!uriVars PROVE UriInv'
  OBVIOUS
<1>1. PICK at, digit, f : /\ Spelled(path, uri, at, digit, f)
                          /\ \E k \in 0..Len(path) : /\ next = Len(f[k]) + 1
                                                     /\ decoded = SubSeq(path, 1, k)
  BY DEF UriInv
<1>2. PICK k \in 0..Len(path) : next = Len(f[k]) + 1 /\ decoded = SubSeq(path, 1, k)
  BY <1>1
<1>3. path' = path /\ uri' = uri
  BY DEF UR!Next, UR!DecodeEscape, UR!CopyByte, UR!uriVars
<1>4. \E n \in 0..Len(path) : next' = Len(f[n]) + 1 /\ decoded' = SubSeq(path, 1, n)
  <2>1. CASE UR!Next
    BY <1>1, <1>2, <2>1, DecodeKeeps
  <2>2. CASE UNCHANGED UR!uriVars
    BY <1>2, <2>2 DEF UR!uriVars
  <2> QED
    BY <2>1, <2>2
<1>5. Spelled(path', uri', at, digit, f)
  BY <1>1, <1>3
<1> QED
  BY <1>3, <1>4, <1>5 DEF UriInv

(* Whatever bytes are in the name of a file, and in whatever spelling the    *)
(* server writes its URI, with a host or without: what URIToFile returns for *)
(* it is the name.                                                           *)
THEOREM PathsComeBack == UR!Spec => []PathComesBack
<1>1. UriInv => PathComesBack
  <2> SUFFICES ASSUME UriInv, next > Len(uri) PROVE decoded = path
    BY DEF PathComesBack, UR!PathComesBack
  <2>1. PICK at, digit, f : /\ Spelled(path, uri, at, digit, f)
                            /\ \E k \in 0..Len(path) : /\ next = Len(f[k]) + 1
                                                       /\ decoded = SubSeq(path, 1, k)
    BY DEF UriInv
  <2>2. PICK k \in 0..Len(path) : next = Len(f[k]) + 1 /\ decoded = SubSeq(path, 1, k)
    BY <2>1
  <2>3. path \in Seq(Code)
    BY <2>1 DEF Spelled
  <2>4. k = Len(path)
    <3> SUFFICES ASSUME k # Len(path) PROVE FALSE
      OBVIOUS
    <3>1. k \in 0..Len(path) - 1
      BY <2>3
    <3>2. PICK piece \in Seq(Code) :
              /\ Len(f[k]) + Len(piece) <= Len(uri)
              /\ Len(piece) \in Nat \ {0} /\ Len(f[k]) \in Nat /\ Len(uri) \in Nat
      BY <2>1, <3>1, PieceAhead
    <3> QED
      BY <2>2, <3>2
  <2>5. SubSeq(path, 1, Len(path)) = path
    BY <2>3, SubSeqFull
  <2> QED
    BY <2>2, <2>4, <2>5
<1> QED
  BY <1>1, InitUriInv, StepKeepsUriInv, PTL DEF UR!Spec
-----------------------------------------------------------------------------
(* Targets.                                                                  *)

LEMMA GreatestNumber ==
    ASSUME NEW N \in Nat, NEW S \in SUBSET 0..N, S # {}
    PROVE  \E n \in S : \A m \in S : m <= n
<1>1. PICK T : T = {N - m : m \in S}
  OBVIOUS
<1>2. T \in SUBSET Nat /\ T # {}
  <2>1. \A m \in S : N - m \in Nat
    OBVIOUS
  <2>2. PICK m \in S : TRUE
    OBVIOUS
  <2>3. N - m \in T
    BY <1>1
  <2> QED
    BY <1>1, <2>1, <2>3
<1>3. PICK d \in T : \A t \in T : d <= t
  BY <1>2, LeastNumber
<1>4. PICK n \in S : d = N - n
  BY <1>1, <1>3
<1>5. ASSUME NEW m \in S PROVE m <= n
  <2>1. N - m \in T
    BY <1>1
  <2>2. N - n <= N - m
    BY <1>3, <1>4, <2>1
  <2> QED
    BY <2>2
<1> QED
  BY <1>5

LEMMA ImageIsFinite ==
    ASSUME NEW S, IsFiniteSet(S), NEW f
    PROVE  IsFiniteSet({f[x] : x \in S})
<1> DEFINE g == [x \in S |-> f[x]]
           T == {f[x] : x \in S}
<1>1. g \in [S -> T] /\ \A t \in T : \E x \in S : g[x] = t
  OBVIOUS
<1> HIDE DEF g, T
<1>2. g \in Surjection(S, T)
  BY <1>1 DEF Surjection
<1>3. IsFiniteSet(T)
  BY <1>2, FS_Surjection
<1> QED
  BY <1>3 DEF T

LEMMA LocateCardinality == \A S : LO!Cardinality(S) = Cardinality(S)
  BY DEF LO!Cardinality, Cardinality

(* The declarations a path can go through. *)
Chain(k, c) ==
    /\ c \in [1..k -> decls] /\ \A i \in 1..k : c[i].text = segments[i]
    /\ \A i \in 1..k - 1 : c[i + 1].root \in LO!Subtree(LO!Parent(c[i].name))

LEMMA MeantIsChained ==
    ASSUME NEW k, NEW n
    PROVE  n \in LO!Meant(k) <=> \E c : Chain(k, c) /\ n = c[k].name
  BY DEF LO!Meant, Chain

(* The node looked in is that of the one declaration the segments before     *)
(* mean, and what was found is what the path means.                          *)
LocateInv ==
    /\ IsFiniteSet(decls) /\ Len(segments) \in Nat /\ seg \in 1..Len(segments)
    /\ \A d \in decls : d.root \in LO!Subtree(1)
    /\ seg = 1 => scope = 1
    /\ seg # 1 => \E n : LO!Meant(seg - 1) = {n} /\ scope = LO!Parent(n)
    /\ outcome # LO!NotYet =>
          /\ outcome.segment \in 1..Len(segments)
          /\ outcome.matches = LO!Meant(outcome.segment) /\ IsFiniteSet(outcome.matches)
          /\ Cardinality(outcome.matches) = 1 => outcome.segment = Len(segments)
    /\ reply # LO!NoReply /\ readable =>
          /\ outcome # LO!NotYet
          /\ reply.exit = CASE Cardinality(outcome.matches) = 1 -> 0
                            [] outcome.matches = {} -> 2
                            [] OTHER -> 3
          /\ {p.position : p \in reply.places} = outcome.matches

(* A path can be cut at any segment. *)
LEMMA ChainFront ==
    ASSUME NEW k \in Nat, NEW m \in 1..k, NEW c, Chain(k, c)
    PROVE  \E f : Chain(m, f) /\ f[m] = c[m]
<1> DEFINE f == [i \in 1..m |-> c[i]]
<1>1. 1..m \subseteq 1..k /\ 1..m - 1 \subseteq 1..k - 1 /\ m \in 1..m
      /\ \A i \in 1..m - 1 : i \in 1..m /\ i + 1 \in 1..m
  OBVIOUS
<1>2. \A i \in 1..m : f[i] = c[i]
  OBVIOUS
<1>3. f \in [1..m -> decls]
  BY <1>1 DEF Chain
<1> HIDE DEF f
<1>4. Chain(m, f)
  BY <1>1, <1>2, <1>3 DEF Chain
<1> QED
  BY <1>1, <1>2, <1>4

(* The candidates are the declarations the path means so far. *)
LEMMA CandidatesAreMeant ==
    ASSUME LocateInv
    PROVE  LO!DeclsNamed(segments[seg]) = LO!Meant(seg)
<1>1. /\ seg \in 1..Len(segments) /\ Len(segments) \in Nat
      /\ \A d \in decls : d.root \in LO!Subtree(1)
      /\ seg = 1 => scope = 1
      /\ seg # 1 => \E n : LO!Meant(seg - 1) = {n} /\ scope = LO!Parent(n)
  BY DEF LocateInv
<1>2. \A n : n \in LO!DeclsNamed(segments[seg]) <=>
                \E e \in decls : e.root \in LO!Subtree(scope) /\ e.text = segments[seg] /\ n = e.name
  BY DEF LO!DeclsNamed
<1>3. ASSUME NEW n, n \in LO!Meant(seg) PROVE n \in LO!DeclsNamed(segments[seg])
  <2>1. PICK c : Chain(seg, c) /\ n = c[seg].name
    BY <1>3, MeantIsChained
  <2>2. c[seg] \in decls /\ c[seg].text = segments[seg]
    BY <1>1, <2>1 DEF Chain
  <2>3. c[seg].root \in LO!Subtree(scope)
    <3>1. CASE seg = 1
      BY <1>1, <2>2, <3>1
    <3>2. CASE seg # 1
      <4>1. PICK m : LO!Meant(seg - 1) = {m} /\ scope = LO!Parent(m)
        BY <1>1, <3>2
      <4>2. seg - 1 \in 1..seg /\ seg \in Nat /\ seg - 1 \in 1..seg - 1 /\ (seg - 1) + 1 = seg
        BY <1>1, <3>2
      <4>3. PICK f : Chain(seg - 1, f) /\ f[seg - 1] = c[seg - 1]
        BY <2>1, <4>2, ChainFront
      <4>4. c[seg - 1].name = m
        <5>1. f[seg - 1].name \in LO!Meant(seg - 1)
          BY <4>3, MeantIsChained
        <5> QED
          BY <4>1, <4>3, <5>1
      <4>5. c[(seg - 1) + 1].root \in LO!Subtree(LO!Parent(c[seg - 1].name))
        BY <2>1, <4>2 DEF Chain
      <4> QED
        BY <4>1, <4>2, <4>4, <4>5
    <3> QED
      BY <3>1, <3>2
  <2> QED
    BY <1>2, <2>1, <2>2, <2>3
<1>4. ASSUME NEW n, n \in LO!DeclsNamed(segments[seg]) PROVE n \in LO!Meant(seg)
  <2>1. PICK e \in decls : e.root \in LO!Subtree(scope) /\ e.text = segments[seg] /\ n = e.name
    BY <1>2, <1>4
  <2>2. CASE seg = 1
    <3> DEFINE c == [i \in 1..1 |-> e]
    <3>1. c \in [1..1 -> decls] /\ c[1] = e /\ \A i \in 1..1 : i = 1
      OBVIOUS
    <3> HIDE DEF c
    <3>2. 1..1 - 1 = {}
      OBVIOUS
    <3>3. Chain(1, c)
      BY <2>1, <2>2, <3>1, <3>2 DEF Chain
    <3>4. n = c[1].name
      BY <2>1, <3>1
    <3> QED
      BY <2>2, <3>3, <3>4, MeantIsChained
  <2>3. CASE seg # 1
    <3>1. PICK m : LO!Meant(seg - 1) = {m} /\ scope = LO!Parent(m)
      BY <1>1, <2>3
    <3>2. PICK f : Chain(seg - 1, f) /\ m = f[seg - 1].name
      BY <3>1, MeantIsChained
    <3> DEFINE c == [i \in 1..seg |-> IF i = seg THEN e ELSE f[i]]
    <3>3. seg \in Nat /\ seg \in 1..seg /\ \A i \in 1..seg : i # seg => i \in 1..seg - 1
      BY <1>1
    <3>4. \A i \in 1..seg - 1 : /\ i \in 1..seg /\ i # seg /\ i + 1 \in 1..seg
                                /\ (i + 1 = seg <=> i = seg - 1)
                                /\ (i # seg - 1 => i \in 1..(seg - 1) - 1)
      BY <1>1
    <3>5. c[seg] = e /\ \A i \in 1..seg - 1 : c[i] = f[i]
      BY <3>3, <3>4
    <3>6. c \in [1..seg -> decls]
      BY <3>2, <3>3 DEF Chain
    <3> HIDE DEF c
    <3>7. \A i \in 1..seg : c[i].text = segments[i]
      BY <2>1, <3>2, <3>3, <3>5 DEF Chain
    <3>8. ASSUME NEW i \in 1..seg - 1 PROVE c[i + 1].root \in LO!Subtree(LO!Parent(c[i].name))
      <4>1. CASE i = seg - 1
        <5>1. c[i + 1] = e /\ c[i].name = m
          BY <3>2, <3>4, <3>5, <4>1
        <5> QED
          BY <2>1, <3>1, <5>1
      <4>2. CASE i # seg - 1
        <5>1. i \in 1..(seg - 1) - 1 /\ i + 1 \in 1..seg - 1
          BY <3>3, <3>4, <4>2
        <5>2. f[i + 1].root \in LO!Subtree(LO!Parent(f[i].name))
          BY <3>2, <5>1 DEF Chain
        <5> QED
          BY <3>5, <5>1, <5>2
      <4> QED
        BY <4>1, <4>2
    <3>9. Chain(seg, c)
      BY <3>6, <3>7, <3>8 DEF Chain
    <3> QED
      BY <2>1, <3>5, <3>9, MeantIsChained
  <2> QED
    BY <2>2, <2>3
<1> QED
  BY <1>3, <1>4

LEMMA FoundIsFinite ==
    ASSUME LocateInv PROVE IsFiniteSet(LO!DeclsNamed(segments[seg]))
<1>1. PICK found : found = {e \in decls : e.root \in LO!Subtree(scope) /\ e.text = segments[seg]}
  OBVIOUS
<1>2. IsFiniteSet(found)
  BY <1>1, FS_Subset DEF LocateInv
<1> DEFINE called == [d \in found |-> d.name]
<1>3. IsFiniteSet({called[d] : d \in found})
  <2> HIDE DEF called
  <2> QED
    BY <1>2, ImageIsFinite
<1>4. LO!DeclsNamed(segments[seg]) = {called[d] : d \in found}
  BY <1>1 DEF LO!DeclsNamed
<1> QED
  BY <1>3, <1>4

(* Every pattern lies in the tree. *)
LEMMA ParentIsNode ==
    ASSUME NEW N \in Nat, last \in [1..N -> 1..N], last[1] = N, NEW n \in 1..N, n # 1
    PROVE  LO!Parent(n) \in 1..N
<1>1. PICK S : S = {m \in 1..N : m < n /\ n \in m..last[m]}
  OBVIOUS
<1>2. LO!Parent(n) = LO!Max(S)
  BY <1>1 DEF LO!Parent, LO!Nodes, LO!Subtree
<1>3. 1 \in S
  BY <1>1
<1>4. S \in SUBSET 0..N /\ S # {} /\ S \subseteq 1..N
  BY <1>1, <1>3
<1>5. \E m \in S : \A i \in S : i <= m
  BY <1>4, GreatestNumber
<1>6. LO!Max(S) \in S
  <2>1. \E m \in S : \A i \in S : m >= i
    BY <1>4, <1>5
  <2> QED
    BY <2>1 DEF LO!Max
<1> QED
  BY <1>2, <1>4, <1>6

LEMMA InitLocateInv == LO!Init => LocateInv
<1> SUFFICES ASSUME LO!Init PROVE LocateInv
  OBVIOUS
<1>1. PICK N \in Nat : last \in [1..N -> 1..N] /\ last[1] = N /\ DOMAIN last = 1..N
  <2>1. PICK n \in 1..MaxNodes : last \in [1..n -> 1..n] /\ last[1] = n
    BY DEF LO!Init, LO!Trees
  <2>2. n \in Nat
    BY LocateBounds
  <2> QED
    BY <2>1, <2>2
<1>2. ASSUME NEW n \in LO!Names, NEW r \in LO!Above(n) PROVE n \in 1..N /\ r \in 1..N
  <2>1. n \in 1..N /\ n # 1
    BY <1>1 DEF LO!Names, LO!Nodes
  <2>2. LO!Parent(n) \in 1..N
    BY <1>1, <2>1, ParentIsNode
  <2>3. LO!Parent(n) # 1 => LO!Parent(LO!Parent(n)) \in 1..N
    BY <1>1, <2>2, ParentIsNode
  <2> QED
    BY <2>1, <2>2, <2>3 DEF LO!Above
<1>3. PICK found \in SUBSET LO!Captures, called \in [LO!Names -> Idents] :
          decls = {[name |-> c.name, root |-> c.root, text |-> called[c.name]] : c \in found}
  BY DEF LO!Init
<1>4. found \subseteq {[name |-> p[1], root |-> p[2]] : p \in (1..N) \X (1..N)}
  <2> SUFFICES ASSUME NEW c \in LO!Captures
               PROVE  \E p \in (1..N) \X (1..N) : c = [name |-> p[1], root |-> p[2]]
    BY <1>3
  <2>1. PICK n \in LO!Names : \E r \in LO!Above(n) : c = [name |-> n, root |-> r]
    BY DEF LO!Captures
  <2>2. PICK r \in LO!Above(n) : c = [name |-> n, root |-> r]
    BY <2>1
  <2>3. <<n, r>> \in (1..N) \X (1..N)
    BY <1>2
  <2>4. c = [name |-> <<n, r>>[1], root |-> <<n, r>>[2]]
    BY <2>2
  <2> QED
    BY <2>3, <2>4
<1>5. IsFiniteSet(decls)
  <2>1. IsFiniteSet(1..N)
    BY FS_Interval
  <2>2. IsFiniteSet((1..N) \X (1..N))
    BY <2>1, FS_Product
  <2>3. IsFiniteSet({[name |-> p[1], root |-> p[2]] : p \in (1..N) \X (1..N)})
    <3> DEFINE pairs == (1..N) \X (1..N)
               f == [p \in pairs |-> [name |-> p[1], root |-> p[2]]]
    <3>1. IsFiniteSet({f[p] : p \in pairs})
      <4> HIDE DEF f, pairs
      <4> QED
        BY <2>2, ImageIsFinite DEF pairs
    <3>2. {f[p] : p \in pairs} = {[name |-> p[1], root |-> p[2]] : p \in pairs}
      <4> HIDE DEF pairs
      <4> QED
        OBVIOUS
    <3> QED
      BY <3>1, <3>2
  <2>4. IsFiniteSet(found)
    BY <1>4, <2>3, FS_Subset
  <2>5. IsFiniteSet({[name |-> c.name, root |-> c.root, text |-> called[c.name]] : c \in found})
    <3> DEFINE f == [c \in found |-> [name |-> c.name, root |-> c.root, text |-> called[c.name]]]
    <3>1. IsFiniteSet({f[c] : c \in found})
      <4> HIDE DEF f
      <4> QED
        BY <2>4, ImageIsFinite
    <3>2. {f[c] : c \in found} =
              {[name |-> c.name, root |-> c.root, text |-> called[c.name]] : c \in found}
      OBVIOUS
    <3> QED
      BY <3>1, <3>2
  <2> QED
    BY <1>3, <2>5
<1>6. \A d \in decls : d.root \in LO!Subtree(1)
  <2> SUFFICES ASSUME NEW c \in found PROVE c.root \in 1..N
    BY <1>1, <1>3 DEF LO!Subtree
  <2>1. PICK p \in (1..N) \X (1..N) : c = [name |-> p[1], root |-> p[2]]
    BY <1>4
  <2> QED
    BY <2>1
<1>7. Len(segments) \in Nat /\ Len(segments) # 0
  <2>1. PICK m \in 0..MaxSegments : segments \in [1..m -> Idents] /\ segments # <<>>
    BY DEF LO!Init, LO!SeqOf
  <2>2. m \in Nat
    BY LocateBounds
  <2>3. segments \in Seq(Idents)
    BY <2>1, <2>2
  <2> QED
    BY <2>1, <2>3
<1>8. seg = 1 /\ scope = 1 /\ outcome = LO!NotYet /\ reply = LO!NoReply
  BY DEF LO!Init
<1> QED
  BY <1>5, <1>6, <1>7, <1>8 DEF LocateInv

LEMMA StepKeepsLocateInv == LocateInv /\ [LO!Next]_LO!locateVars => LocateInv'
<1> SUFFICES ASSUME LocateInv, [LO!Next]_LO!locateVars PROVE LocateInv'
  OBVIOUS
<1>1. last' = last /\ decls' = decls /\ segments' = segments /\ readable' = readable
  BY DEF LO!Next, LO!Descend, LO!Stop, LO!Answer, LO!Refuse, LO!locateVars
<1>2. \A k : LO!Meant(k)' = LO!Meant(k)
  BY <1>1 DEF LO!Meant, LO!Subtree, LO!Parent, LO!Nodes
<1>3. \A n : LO!Parent(n)' = LO!Parent(n) /\ LO!Subtree(n)' = LO!Subtree(n)
  BY <1>1 DEF LO!Subtree, LO!Parent, LO!Nodes
<1>4. PICK cands : cands = LO!DeclsNamed(segments[seg])
  OBVIOUS
<1>5. cands = LO!Meant(seg) /\ IsFiniteSet(cands)
  BY <1>4, CandidatesAreMeant, FoundIsFinite
<1>6. /\ IsFiniteSet(decls') /\ Len(segments') \in Nat
      /\ \A d \in decls' : d.root \in LO!Subtree(1)'
  BY <1>1, <1>3 DEF LocateInv
<1>7. Len(segments) \in Nat /\ seg \in 1..Len(segments)
  BY DEF LocateInv
<1>8. CASE LO!Descend
  <2>1. /\ Cardinality(cands) = 1 /\ seg < Len(segments)
        /\ \E n \in cands : scope' = LO!Parent(n)
        /\ seg' = seg + 1 /\ outcome' = outcome /\ reply' = reply /\ outcome = LO!NotYet
    BY <1>4, <1>8, LocateCardinality DEF LO!Descend, LO!Resolves, LO!Descent
  <2>2. PICK n : cands = {n}
    BY <1>5, <2>1, FS_Singleton
  <2>3. seg' \in 1..Len(segments) /\ seg' # 1 /\ seg' - 1 = seg
    BY <1>7, <2>1
  <2>4. LO!Meant(seg' - 1) = {n} /\ scope' = LO!Parent(n)
    BY <1>5, <2>1, <2>2, <2>3
  <2>5. LO!Meant(seg - 1)' = {n} /\ scope' = LO!Parent(n)'
    BY <1>2, <1>3, <2>4
  <2>6. readable' /\ reply' # LO!NoReply => FALSE
    BY <1>1, <2>1 DEF LocateInv
  <2> QED
    BY <1>1, <1>6, <2>1, <2>3, <2>5, <2>6 DEF LocateInv, LO!NotYet, LO!NoReply
<1>9. CASE LO!Stop
  <2>1. /\ ~(Cardinality(cands) = 1 /\ seg < Len(segments))
        /\ outcome' = [segment |-> seg, matches |-> cands]
        /\ seg' = seg /\ scope' = scope /\ reply' = reply /\ outcome = LO!NotYet
    BY <1>4, <1>9, LocateCardinality DEF LO!Stop, LO!Resolves
  <2>2. /\ outcome'.segment = seg /\ outcome'.matches = cands
    BY <2>1
  <2>3. LO!Meant(outcome.segment)' = cands
    BY <1>2, <1>5, <2>2
  <2>4. Cardinality(cands) = 1 => seg = Len(segments)
    BY <1>7, <2>1
  <2>5. readable' /\ reply' # LO!NoReply => FALSE
    BY <1>1, <2>1 DEF LocateInv
  <2>6. seg # 1 => \E n : LO!Meant(seg - 1)' = {n} /\ scope' = LO!Parent(n)'
    BY <1>2, <1>3, <2>1 DEF LocateInv
  <2>7. seg = 1 => scope = 1
    BY DEF LocateInv
  <2> QED
    BY <1>1, <1>5, <1>6, <1>7, <2>1, <2>2, <2>3, <2>4, <2>5, <2>6, <2>7 DEF LocateInv, LO!NotYet, LO!NoReply
<1>10. ASSUME seg' = seg, scope' = scope, outcome' = outcome,
              readable /\ reply' # LO!NoReply =>
                  /\ outcome # LO!NotYet
                  /\ reply'.exit = CASE Cardinality(outcome.matches) = 1 -> 0
                                     [] outcome.matches = {} -> 2
                                     [] OTHER -> 3
                  /\ {p.position : p \in reply'.places} = outcome.matches
       PROVE  LocateInv'
  <2>1. LO!Meant(seg - 1)' = LO!Meant(seg - 1) /\ LO!Meant(outcome.segment)' = LO!Meant(outcome.segment)
    BY <1>2, <1>10
  <2> QED
    BY <1>1, <1>3, <1>6, <1>10, <2>1 DEF LocateInv, LO!NotYet, LO!NoReply
<1>11. CASE LO!Answer
  <2>1. /\ outcome # LO!NotYet
        /\ reply' = [exit   |-> CASE Cardinality(outcome.matches) = 1 -> 0
                                  [] outcome.matches = {} -> 2
                                  [] OTHER -> 3,
                     places |-> {LO!LocateMatch(n) : n \in outcome.matches}]
        /\ seg' = seg /\ scope' = scope /\ outcome' = outcome
    BY <1>11, LocateCardinality DEF LO!Answer, LO!ExitOf
  <2>2. {p.position : p \in reply'.places} = outcome.matches
    <3>1. reply'.places = {LO!LocateMatch(n) : n \in outcome.matches}
      BY <2>1
    <3>2. \A n \in outcome.matches : LO!LocateMatch(n).position = n
      BY DEF LO!LocateMatch
    <3> QED
      BY <3>1, <3>2, ZenonT(30)
  <2> QED
    BY <1>10, <2>1, <2>2
<1>12. CASE LO!Refuse
  <2>1. ~readable /\ seg' = seg /\ scope' = scope /\ outcome' = outcome
    BY <1>12 DEF LO!Refuse
  <2> QED
    BY <1>10, <2>1
<1>13. CASE UNCHANGED LO!locateVars
  <2>1. seg' = seg /\ scope' = scope /\ outcome' = outcome /\ reply' = reply
    BY <1>13 DEF LO!locateVars
  <2> QED
    BY <1>10, <2>1 DEF LocateInv
<1> QED
  BY <1>8, <1>9, <1>11, <1>12, <1>13 DEF LO!Next

(* Whatever the tree, and however many declarations share a name: a target   *)
(* is resolved only if its path means one declaration, and to that one; a    *)
(* path reported missing means nothing, and a choice lists what it means.    *)
THEOREM TargetsAreUnambiguous == LO!Spec => []OneMeaning
<1>1. LocateInv => OneMeaning
  <2> SUFFICES ASSUME LocateInv, reply # LO!NoReply, readable PROVE LO!OneMeaning
    BY DEF OneMeaning, LO!OneMeaning
  <2>1. PICK places : places = {p.position : p \in reply.places}
    OBVIOUS
  <2>2. PICK k : k = outcome.segment
    OBVIOUS
  <2>3. /\ places = LO!Meant(k) /\ places = outcome.matches /\ IsFiniteSet(places)
        /\ k \in 1..Len(segments) /\ Len(segments) \in Nat
        /\ Cardinality(places) = 1 => k = Len(segments)
        /\ reply.exit = CASE Cardinality(places) = 1 -> 0
                          [] places = {} -> 2
                          [] OTHER -> 3
    BY <2>1, <2>2 DEF LocateInv
  <2>4. Cardinality(places) \in Nat /\ (Cardinality(places) = 0 <=> places = {})
    BY <2>3, FS_CardinalityType, FS_EmptySet
  <2>5. reply.exit = 0 => Cardinality(places) = 1
    BY <2>3, <2>4
  <2>6. reply.exit = 2 => places = {}
    BY <2>3, <2>4
  <2>7. reply.exit = 3 => Cardinality(places) > 1
    BY <2>3, <2>4
  <2>8. places = {} => LO!Meant(Len(segments)) = {}
    <3> SUFFICES ASSUME places = {}, NEW n, n \in LO!Meant(Len(segments)) PROVE FALSE
      OBVIOUS
    <3>1. PICK c : Chain(Len(segments), c)
      BY MeantIsChained
    <3>2. PICK f : Chain(k, f)
      BY <2>3, <3>1, ChainFront
    <3>3. f[k].name \in LO!Meant(k)
      BY <3>2, MeantIsChained
    <3> QED
      BY <2>3, <3>3
  <2> QED
    BY <2>1, <2>2, <2>3, <2>5, <2>6, <2>7, <2>8, LocateCardinality DEF LO!OneMeaning
<1> QED
  BY <1>1, InitLocateInv, StepKeepsLocateInv, PTL DEF LO!Spec
-----------------------------------------------------------------------------
(* Members.                                                                  *)

(* Writing at a place behind what is kept keeps it, and keeps one more. *)
LEMMA Overwrite ==
    ASSUME NEW D, NEW s \in Seq(D), NEW k \in 0..Len(s) - 1, NEW e \in D
    PROVE  /\ [s EXCEPT ![k + 1] = e] \in Seq(D)
           /\ Len([s EXCEPT ![k + 1] = e]) = Len(s)
           /\ \A i \in 1..Len(s) :
                 [s EXCEPT ![k + 1] = e][i] = IF i = k + 1 THEN e ELSE s[i]
           /\ SubSeq([s EXCEPT ![k + 1] = e], 1, k + 1) = SubSeq(s, 1, k) \o <<e>>
<1> DEFINE t == [s EXCEPT ![k + 1] = e]
<1>1. Len(s) \in Nat /\ k + 1 \in 1..Len(s) /\ k \in 0..Len(s) /\ 0 \in 0..Len(s) /\ k \in 0..k
  OBVIOUS
<1>2. t \in Seq(D) /\ Len(t) = Len(s)
  OBVIOUS
<1>3. \A i \in 1..Len(s) : t[i] = IF i = k + 1 THEN e ELSE s[i]
  OBVIOUS
<1> HIDE DEF t
<1>4. SubSeq(t, 1, k + 1) = SubSeq(t, 1, k) \o <<t[k + 1]>>
  BY <1>1, <1>2, PrefixStep
<1>5. SubSeq(t, 1, k) = SubSeq(s, 1, k)
  <2> DEFINE u == SubSeq(t, 0 + 1, k)
             v == SubSeq(s, 0 + 1, k)
  <2>1. u \in Seq(D) /\ Len(u) = k - 0 /\ \A n \in 1..k - 0 : u[n] = t[0 + n]
    BY <1>1, <1>2, SubSeqFacts
  <2>2. v \in Seq(D) /\ Len(v) = k - 0 /\ \A n \in 1..k - 0 : v[n] = s[0 + n]
    BY <1>1, SubSeqFacts
  <2> HIDE DEF u, v
  <2>3. \A n \in 1..k : u[n] = v[n]
    <3> TAKE n \in 1..k
    <3>1. n \in 1..k - 0 /\ n \in 1..Len(s) /\ n # k + 1 /\ 0 + n = n
      BY <1>1
    <3> QED
      BY <1>3, <2>1, <2>2, <3>1
  <2>4. u = v
    BY <1>1, <2>1, <2>2, <2>3, SeqEqual
  <2> QED
    BY <2>4 DEF u, v
<1>6. t[k + 1] = e
  BY <1>1, <1>3
<1> QED
  BY <1>2, <1>3, <1>4, <1>5, <1>6 DEF t

Item == [id : Nat, fits : BOOLEAN, rank : Int, full : BOOLEAN]
Fits(s) == [i \in 1..Len(s) |-> IF s[i].fits THEN <<s[i]>> ELSE <<>>]

LEMMA MembersCardinality == \A S : ME!Cardinality(S) = Cardinality(S)
  BY DEF ME!Cardinality, Cardinality

(* A stable sort: each item has a place of its own. *)
LEMMA PlaceGrows ==
    ASSUME NEW s \in Seq(Item), NEW i \in 1..Len(s), NEW j \in 1..Len(s), ME!Before(s, i, j)
    PROVE  ME!Place(s, i) < ME!Place(s, j)
<1>1. PICK S, T : /\ S = {m \in 1..Len(s) : m = i \/ ME!Before(s, m, i)}
                  /\ T = {m \in 1..Len(s) : m = j \/ ME!Before(s, m, j)}
  OBVIOUS
<1>2. \A m \in 1..Len(s) : s[m].rank \in Int /\ m \in Int
  <2>1. \A m \in 1..Len(s) : s[m] \in Item /\ m \in Int
    OBVIOUS
  <2> QED
    BY <2>1 DEF Item
<1>3. IsFiniteSet(1..Len(s))
  BY FS_Interval
<1>4. IsFiniteSet(T)
  BY <1>1, <1>3, FS_Subset
<1>5. S \in SUBSET T
  <2> SUFFICES ASSUME NEW m \in 1..Len(s), m = i \/ ME!Before(s, m, i) PROVE ME!Before(s, m, j)
    BY <1>1
  <2> QED
    BY <1>2 DEF ME!Before
<1>6. j \in T /\ j \notin S
  <2>1. j # i /\ ~ME!Before(s, j, i)
    BY <1>2 DEF ME!Before
  <2> QED
    BY <1>1, <2>1
<1>7. IsFiniteSet(S) /\ Cardinality(S) <= Cardinality(T) /\ Cardinality(S) # Cardinality(T)
  BY <1>4, <1>5, <1>6, FS_Subset
<1>8. Cardinality(S) \in Nat /\ Cardinality(T) \in Nat
  BY <1>4, <1>7, FS_CardinalityType
<1> QED
  BY <1>1, <1>7, <1>8, MembersCardinality DEF ME!Place

Sorts(s, r, o) ==
    /\ o \in [1..Len(s) -> 1..Len(s)]
    /\ \A i \in 1..Len(s) : \E k \in 1..Len(s) : o[k] = i
    /\ r \in Seq(Item) /\ Len(r) = Len(s) /\ \A k \in 1..Len(s) : r[k] = s[o[k]]
    /\ \A k \in 1..Len(s) - 1 : ME!Before(s, o[k], o[k + 1])

LEMMA RankedSorts ==
    ASSUME NEW s \in Seq(Item)
    PROVE  \E o : Sorts(s, ME!Ranked(s), o)
<1> DEFINE place == [i \in 1..Len(s) |-> ME!Place(s, i)]
           o == [k \in 1..Len(s) |-> CHOOSE i \in 1..Len(s) : ME!Place(s, i) = k]
<1>1. Len(s) \in Nat /\ IsFiniteSet(1..Len(s)) /\ \A i \in 1..Len(s) : s[i] \in Item
  <2>1. Len(s) \in Nat
    OBVIOUS
  <2> QED
    BY <2>1, FS_Interval
<1>2. \A i \in 1..Len(s) : ME!Place(s, i) \in 1..Len(s)
  <2> TAKE i \in 1..Len(s)
  <2>1. PICK S : S = {m \in 1..Len(s) : m = i \/ ME!Before(s, m, i)}
    OBVIOUS
  <2>2. S \in SUBSET (1..Len(s)) /\ i \in S
    BY <2>1
  <2>3. IsFiniteSet(S) /\ Cardinality(S) <= Cardinality(1..Len(s))
    BY <1>1, <2>2, FS_Subset
  <2>4. Cardinality(1..Len(s)) = Len(s)
    BY <1>1, FS_Interval
  <2>5. Cardinality(S) \in Nat /\ Cardinality(S) # 0
    BY <2>2, <2>3, FS_CardinalityType, FS_EmptySet
  <2> QED
    BY <1>1, <2>1, <2>3, <2>4, <2>5, MembersCardinality DEF ME!Place
<1>3. ASSUME NEW i \in 1..Len(s), NEW j \in 1..Len(s), i # j, ~ME!Before(s, i, j)
      PROVE  ME!Before(s, j, i)
  <2>1. s[i].rank \in Int /\ s[j].rank \in Int /\ i \in Int /\ j \in Int
    BY <1>1 DEF Item
  <2> QED
    BY <1>3, <2>1 DEF ME!Before
<1>4. place \in Injection(1..Len(s), 1..Len(s))
  <2>1. place \in [1..Len(s) -> 1..Len(s)]
    BY <1>2
  <2>2. ASSUME NEW i \in 1..Len(s), NEW j \in 1..Len(s), place[i] = place[j] PROVE i = j
    <3> SUFFICES ASSUME i # j PROVE FALSE
      OBVIOUS
    <3>1. ME!Place(s, i) < ME!Place(s, j) \/ ME!Place(s, j) < ME!Place(s, i)
      BY <1>3, PlaceGrows
    <3>2. ME!Place(s, i) = ME!Place(s, j) /\ ME!Place(s, i) \in Int
      BY <1>2, <2>2
    <3> QED
      BY <3>1, <3>2
  <2> HIDE DEF place
  <2> QED
    BY <2>1, <2>2 DEF Injection, IsInjective
<1>5. place \in Surjection(1..Len(s), 1..Len(s))
  <2> HIDE DEF place
  <2> QED
    BY <1>1, <1>4, FS_Injection
<1>6. \A k \in 1..Len(s) : \E i \in 1..Len(s) : ME!Place(s, i) = k
  <2>1. \A k \in 1..Len(s) : \E i \in 1..Len(s) : place[i] = k
    <3> HIDE DEF place
    <3> QED
      BY <1>5 DEF Surjection
  <2> QED
    BY <2>1
<1>7. \A k \in 1..Len(s) : o[k] \in 1..Len(s) /\ ME!Place(s, o[k]) = k
  <2> TAKE k \in 1..Len(s)
  <2>1. \E i \in 1..Len(s) : ME!Place(s, i) = k
    BY <1>6
  <2> QED
    BY <2>1
<1>8. o \in [1..Len(s) -> 1..Len(s)] /\ \A k \in 1..Len(s) : ME!Ranked(s)[k] = s[o[k]]
  BY <1>7 DEF ME!Ranked
<1> HIDE DEF o, place
<1>9. \A i \in 1..Len(s) : \E k \in 1..Len(s) : o[k] = i
  <2> TAKE i \in 1..Len(s)
  <2>1. PICK k : k = ME!Place(s, i)
    OBVIOUS
  <2>2. k \in 1..Len(s) /\ o[k] \in 1..Len(s) /\ ME!Place(s, o[k]) = ME!Place(s, i)
    BY <1>2, <1>7, <2>1
  <2>3. o[k] = i
    <3> SUFFICES ASSUME o[k] # i PROVE FALSE
      OBVIOUS
    <3>1. ME!Place(s, i) < ME!Place(s, o[k]) \/ ME!Place(s, o[k]) < ME!Place(s, i)
      BY <1>3, <2>2, PlaceGrows
    <3> QED
      BY <2>1, <2>2, <3>1
  <2> QED
    BY <2>2, <2>3
<1>10. ASSUME NEW k \in 1..Len(s) - 1 PROVE ME!Before(s, o[k], o[k + 1])
  <2>1. k \in 1..Len(s) /\ k + 1 \in 1..Len(s) /\ k \in Int
    BY <1>1
  <2>2. ME!Place(s, o[k]) = k /\ ME!Place(s, o[k + 1]) = k + 1
        /\ o[k] \in 1..Len(s) /\ o[k + 1] \in 1..Len(s)
    BY <1>7, <2>1
  <2> SUFFICES ASSUME ~ME!Before(s, o[k], o[k + 1]) PROVE FALSE
    OBVIOUS
  <2>3. o[k] # o[k + 1]
    BY <2>1, <2>2
  <2>4. ME!Place(s, o[k + 1]) < ME!Place(s, o[k])
    BY <1>3, <2>2, <2>3, PlaceGrows
  <2> QED
    BY <2>1, <2>2, <2>4
<1>11. ME!Ranked(s) \in Seq(Item) /\ Len(ME!Ranked(s)) = Len(s)
  <2>1. DOMAIN ME!Ranked(s) = 1..Len(s) /\ ME!Ranked(s) = [k \in 1..Len(s) |-> ME!Ranked(s)[k]]
    BY DEF ME!Ranked
  <2>2. \A k \in 1..Len(s) : ME!Ranked(s)[k] \in Item
    BY <1>1, <1>8
  <2>3. ME!Ranked(s) \in [1..Len(s) -> Item]
    BY <2>1, <2>2
  <2> QED
    BY <1>1, <2>1, <2>3
<1> QED
  BY <1>8, <1>9, <1>10, <1>11 DEF Sorts
-----------------------------------------------------------------------------
(* The loop that filters in place has kept what matches of what it read, and *)
(* not yet overwritten what it has still to read.                            *)
FilterInv ==
    /\ answer \in Seq(Item) /\ items \in Seq(Item) /\ Len(items) = Len(answer)
    /\ \A i \in 1..Len(answer) : answer[i].id = i
    /\ read \in 1..Len(answer) + 1 /\ kept \in 0..read - 1
    /\ \A i \in read..Len(answer) : items[i] = answer[i]
    /\ \A i \in 1..Len(answer) : items[i].full = FALSE
    /\ \A i \in 1..kept : items[i].id \in 1..read - 1 /\ items[i] = answer[items[i].id]
    /\ \A i \in 1..kept, j \in 1..kept : i < j => items[i].id < items[j].id
    /\ \A f : IsFlat(Item, Fits(answer), f) => SubSeq(items, 1, kept) = f[read - 1]

(* A goroutine that is done has written its item as the server told it; of   *)
(* no other item did the server tell anything but its answer.                *)
TaskInv ==
    \/ task = <<>> /\ told = answer /\ resolved = <<>>
    \/ /\ task # <<>> /\ read > Len(answer) /\ detail
       /\ task \in [1..ME!Spawned -> {"spawned", "asking", "done"}]
       /\ resolved \in [1..ME!Spawned -> Item] /\ DOMAIN told = 1..Len(answer)
       /\ \A i \in 1..ME!Spawned :
             IF task[i] = "done" THEN resolved[i] = told[items[i].id] /\ resolved[i].id = items[i].id
                                 ELSE told[items[i].id] = items[i]

ReplyInv ==
    members # ME!NoMembers =>
        /\ read > Len(answer)
        /\ detail => DOMAIN task = 1..ME!Spawned /\ ME!AllDone
        /\ ~detail => told = answer
        /\ members = IF detail THEN ME!Ranked(resolved) ELSE ME!Ranked(ME!Filtered)

MembersInv == FilterInv /\ TaskInv /\ ReplyInv

LEMMA FitsType ==
    ASSUME NEW s \in Seq(Item)
    PROVE  /\ Fits(s) \in Seq(Seq(Item)) /\ Len(Fits(s)) = Len(s) /\ Len(s) \in Nat
           /\ \A i \in 1..Len(s) : Fits(s)[i] = IF s[i].fits THEN <<s[i]>> ELSE <<>>
<1> DEFINE p == Fits(s)
<1>1. Len(s) \in Nat /\ \A i \in 1..Len(s) : s[i] \in Item
  OBVIOUS
<1>2. \A i \in 1..Len(s) : p[i] = IF s[i].fits THEN <<s[i]>> ELSE <<>>
  BY DEF Fits
<1>3. DOMAIN p = 1..Len(s) /\ p = [i \in 1..Len(s) |-> p[i]]
  BY DEF Fits
<1> HIDE DEF p
<1>4. \A i \in 1..Len(s) : p[i] \in Seq(Item)
  <2> TAKE i \in 1..Len(s)
  <2>1. s[i] \in Item /\ p[i] = IF s[i].fits THEN <<s[i]>> ELSE <<>>
    BY <1>1, <1>2
  <2>2. <<s[i]>> \in Seq(Item) /\ <<>> \in Seq(Item)
    BY <2>1
  <2> QED
    BY <2>1, <2>2
<1>5. p \in [1..Len(s) -> Seq(Item)]
  BY <1>3, <1>4
<1>6. p \in Seq(Seq(Item)) /\ Len(p) = Len(s)
  BY <1>1, <1>3, <1>5
<1> QED
  BY <1>1, <1>2, <1>6 DEF p

LEMMA InitMembersInv == ME!Init => MembersInv
<1> SUFFICES ASSUME ME!Init PROVE MembersInv
  OBVIOUS
<1>1. /\ items = answer /\ read = 1 /\ kept = 0 /\ task = <<>> /\ resolved = <<>>
      /\ told = answer /\ members = ME!NoMembers /\ answer \in ME!Items
  BY DEF ME!Init
<1>2. PICK m \in 0..MaxItems :
          answer \in [1..m -> [id : 1..MaxItems, fits : BOOLEAN, rank : Ranks, full : {FALSE}]]
  BY <1>1 DEF ME!Items, ME!SeqOf
<1>3. \A i \in 1..m : answer[i] \in Item
  <2> TAKE i \in 1..m
  <2>1. answer[i] \in [id : 1..MaxItems, fits : BOOLEAN, rank : Ranks, full : {FALSE}]
    BY <1>2
  <2>2. 1..MaxItems \subseteq Nat /\ Ranks \subseteq Int
    BY MembersBounds
  <2> QED
    BY <2>1, <2>2 DEF Item
<1>4. m \in Nat /\ answer = [i \in 1..m |-> answer[i]]
  BY <1>2, MembersBounds
<1>5. answer \in Seq(Item) /\ Len(answer) = m
  <2>1. answer \in [1..m -> Item]
    BY <1>3, <1>4
  <2> QED
    BY <1>4, <2>1
<1>6. \A i \in 1..Len(answer) : answer[i].id = i
  BY <1>1 DEF ME!Items
<1>7. \A i \in 1..Len(answer) : answer[i].full = FALSE
  BY <1>2, <1>5
<1>8. ASSUME NEW f, IsFlat(Item, Fits(answer), f) PROVE SubSeq(answer, 1, 0) = f[1 - 1]
  <2>1. SubSeq(answer, 1, 0) = <<>>
    BY <1>5, SubSeqEmpty
  <2>2. f[0] = <<>> /\ 1 - 1 = 0
    BY <1>8 DEF IsFlat
  <2> QED
    BY <2>1, <2>2
<1>9. FilterInv
  BY <1>1, <1>4, <1>5, <1>6, <1>7, <1>8 DEF FilterInv
<1> QED
  BY <1>1, <1>9 DEF MembersInv, TaskInv, ReplyInv

LEMMA FilterKeeps ==
    ASSUME MembersInv, ME!FilterItem PROVE MembersInv'
<1>1. /\ answer \in Seq(Item) /\ items \in Seq(Item) /\ Len(items) = Len(answer)
      /\ \A i \in 1..Len(answer) : answer[i].id = i
      /\ read \in 1..Len(answer) + 1 /\ kept \in 0..read - 1
      /\ \A i \in read..Len(answer) : items[i] = answer[i]
      /\ \A i \in 1..Len(answer) : items[i].full = FALSE
      /\ \A i \in 1..kept : items[i].id \in 1..read - 1 /\ items[i] = answer[items[i].id]
      /\ \A i \in 1..kept, j \in 1..kept : i < j => items[i].id < items[j].id
  BY DEF MembersInv, FilterInv
<1>2. /\ read <= Len(answer) /\ read' = read + 1 /\ task = <<>> /\ members = ME!NoMembers
      /\ answer' = answer /\ detail' = detail /\ task' = task /\ resolved' = resolved
      /\ told' = told /\ members' = members
  BY DEF ME!FilterItem, ME!Filtering
<1>3. Len(answer) \in Nat /\ read \in 1..Len(answer) /\ kept \in 0..Len(items) - 1 /\ kept + 1 \in 0..read
      /\ read' \in 1..Len(answer) + 1 /\ read' - 1 = read /\ kept \in 0..read' - 1 /\ kept + 1 \in 0..read' - 1
  BY <1>1, <1>2
<1>4. items[read] = answer[read] /\ answer[read] \in Item /\ answer[read].id = read
  BY <1>1, <1>3
<1>5. \A i \in 1..Len(answer) : items[i] \in Item /\ items[i].id \in Nat
  <2>1. \A i \in 1..Len(answer) : items[i] \in Item
    BY <1>1
  <2> QED
    BY <2>1 DEF Item
<1>6. TaskInv' /\ ReplyInv'
  <2>1. TaskInv'
    BY <1>2, <1>3 DEF MembersInv, TaskInv
  <2>2. ReplyInv'
    BY <1>2 DEF ReplyInv
  <2> QED
    BY <2>1, <2>2
<1>7. ASSUME NEW f, IsFlat(Item, Fits(answer), f)
      PROVE  /\ SubSeq(items, 1, kept) = f[read - 1] /\ f[read - 1] \in Seq(Item)
             /\ f[read] = f[read - 1] \o (IF answer[read].fits THEN <<answer[read]>> ELSE <<>>)
  <2>1. SubSeq(items, 1, kept) = f[read - 1]
    BY <1>7 DEF MembersInv, FilterInv
  <2>2. PICK p : p = Fits(answer)
    OBVIOUS
  <2>3. /\ p \in Seq(Seq(Item)) /\ Len(p) = Len(answer)
        /\ p[read] = IF answer[read].fits THEN <<answer[read]>> ELSE <<>>
    BY <1>1, <1>3, <2>2, FitsType
  <2>4. IsFlat(Item, p, f)
    BY <1>7, <2>2
  <2>5. /\ \A n \in 0..Len(p) : f[n] \in Seq(Item)
        /\ \A n \in 1..Len(p) : f[n] = f[n - 1] \o p[n]
    BY <2>3, <2>4, FlatSteps
  <2>6. read \in 1..Len(p) /\ read - 1 \in 0..Len(p)
    BY <1>3, <2>3
  <2> QED
    BY <2>1, <2>3, <2>5, <2>6
<1>8. CASE ~answer[read].fits
  <2>1. items' = items /\ kept' = kept
    BY <1>4, <1>8 DEF ME!FilterItem
  <2>2. ASSUME NEW f, IsFlat(Item, Fits(answer), f) PROVE SubSeq(items, 1, kept) = f[read]
    <3>1. /\ SubSeq(items, 1, kept) = f[read - 1] /\ f[read - 1] \in Seq(Item)
          /\ f[read] = f[read - 1] \o <<>>
      BY <1>7, <1>8, <2>2
    <3> QED
      BY <3>1, ConcatEmptySeq
  <2>3. \A i \in read'..Len(answer) : i \in read..Len(answer)
    BY <1>2, <1>3
  <2>4. \A i \in 1..kept : items[i].id \in 1..read' - 1
    <3>1. \A i \in 1..kept : i \in 1..Len(answer)
      BY <1>1, <1>3
    <3> QED
      BY <1>1, <1>2, <1>3, <1>5, <3>1
  <2>5. FilterInv'
    BY <1>1, <1>2, <1>3, <2>1, <2>2, <2>3, <2>4 DEF FilterInv
  <2> QED
    BY <1>6, <2>5 DEF MembersInv
<1>9. CASE answer[read].fits
  <2>1. items' = [items EXCEPT ![kept + 1] = items[read]] /\ kept' = kept + 1
    BY <1>4, <1>9 DEF ME!FilterItem
  <2>2. PICK e : e = items[read]
    OBVIOUS
  <2>3. e \in Item /\ e.id = read /\ e.full = FALSE /\ e = answer[read] /\ items' = [items EXCEPT ![kept + 1] = e]
    BY <1>1, <1>3, <1>4, <2>1, <2>2
  <2>4. /\ items' \in Seq(Item) /\ Len(items') = Len(items)
        /\ \A i \in 1..Len(items) : items'[i] = IF i = kept + 1 THEN e ELSE items[i]
        /\ SubSeq(items', 1, kept + 1) = SubSeq(items, 1, kept) \o <<e>>
    <3>1. [items EXCEPT ![kept + 1] = e] \in Seq(Item)
      BY <1>1, <1>3, <2>3, Overwrite
    <3>2. Len([items EXCEPT ![kept + 1] = e]) = Len(items)
      BY <1>1, <1>3, <2>3, Overwrite
    <3>3. \A i \in 1..Len(items) :
              [items EXCEPT ![kept + 1] = e][i] = IF i = kept + 1 THEN e ELSE items[i]
      BY <1>1, <1>3, <2>3, Overwrite
    <3>4. SubSeq([items EXCEPT ![kept + 1] = e], 1, kept + 1) = SubSeq(items, 1, kept) \o <<e>>
      BY <1>1, <1>3, <2>3, Overwrite
    <3> QED
      BY <2>3, <3>1, <3>2, <3>3, <3>4, Zenon
  <2>5. ASSUME NEW f, IsFlat(Item, Fits(answer), f) PROVE SubSeq(items', 1, kept + 1) = f[read]
    <3>1. SubSeq(items, 1, kept) = f[read - 1] /\ f[read] = f[read - 1] \o <<e>>
      BY <1>7, <1>9, <2>3, <2>5
    <3> QED
      BY <2>4, <3>1
  <2>6. \A i \in read'..Len(answer) : items'[i] = answer[i]
    <3> TAKE i \in read'..Len(answer)
    <3>1. i \in read..Len(answer) /\ i \in 1..Len(items) /\ i # kept + 1
      BY <1>1, <1>2, <1>3
    <3> QED
      BY <1>1, <2>4, <3>1
  <2>7. \A i \in 1..Len(answer) : items'[i].full = FALSE
    BY <1>1, <2>3, <2>4
  <2>8. \A i \in 1..kept + 1 : i \in 1..Len(items) /\ (i # kept + 1 => i \in 1..kept /\ i < kept + 1)
    BY <1>1, <1>3
  <2>9. \A i \in 1..kept + 1 : items'[i].id \in 1..read' - 1 /\ items'[i] = answer[items'[i].id]
    <3> TAKE i \in 1..kept + 1
    <3>1. CASE i = kept + 1
      BY <1>2, <1>3, <2>3, <2>4, <2>8, <3>1
    <3>2. CASE i # kept + 1
      <4>1. items'[i] = items[i] /\ items[i].id \in 1..read - 1 /\ items[i] = answer[items[i].id]
        BY <1>1, <1>5, <2>4, <2>8, <3>2
      <4> QED
        BY <1>2, <1>3, <4>1
    <3> QED
      BY <3>1, <3>2
  <2>10. ASSUME NEW i \in 1..kept + 1, NEW j \in 1..kept + 1, i < j
         PROVE  items'[i].id < items'[j].id
    <3>1. i # kept + 1 /\ i \in 1..kept
      BY <1>3, <2>8, <2>10
    <3>2. items'[i] = items[i] /\ items[i].id < read /\ items[i].id \in Nat
      BY <1>1, <2>4, <2>8, <3>1
    <3>3. CASE j = kept + 1
      BY <2>3, <2>4, <2>8, <3>2, <3>3
    <3>4. CASE j # kept + 1
      BY <1>1, <2>4, <2>8, <2>10, <3>1, <3>2, <3>4
    <3> QED
      BY <3>3, <3>4
  <2>11. FilterInv'
    BY <1>1, <1>2, <1>3, <2>1, <2>4, <2>5, <2>6, <2>7, <2>9, <2>10 DEF FilterInv
  <2> QED
    BY <1>6, <2>11 DEF MembersInv
<1> QED
  BY <1>8, <1>9

LEMMA SpawnedBound ==
    ASSUME FilterInv
    PROVE  /\ ME!Spawned \in 0..kept /\ kept \in 0..Len(items)
           /\ ME!Spawned = IF kept <= ResolveLimit THEN kept ELSE ResolveLimit
<1>1. kept \in Nat /\ ResolveLimit \in Nat /\ kept \in 0..Len(items)
  BY MembersBounds DEF FilterInv
<1>2. PICK S : S = {kept, ResolveLimit}
  OBVIOUS
<1>3. \E x \in S : \A y \in S : x <= y
  <2>1. CASE kept <= ResolveLimit
    BY <1>1, <1>2, <2>1
  <2>2. CASE ResolveLimit <= kept
    BY <1>1, <1>2, <2>2
  <2> QED
    BY <1>1, <2>1, <2>2
<1>4. ME!Min(S) \in S /\ \A y \in S : ME!Min(S) <= y
  BY <1>3 DEF ME!Min
<1>5. ME!Spawned = ME!Min(S)
  BY <1>2 DEF ME!Spawned
<1> QED
  BY <1>1, <1>2, <1>4, <1>5

LEMMA SpawnKeeps ==
    ASSUME MembersInv, ME!Spawn PROVE MembersInv'
<1>1. FilterInv /\ FilterInv'
  BY DEF MembersInv, FilterInv, ME!Spawn
<1>2. /\ read > Len(answer) /\ detail /\ members = ME!NoMembers /\ task = <<>>
      /\ task' = [i \in 1..ME!Spawned |-> "spawned"]
      /\ resolved' = [i \in 1..ME!Spawned |-> ME!Zero]
      /\ read' = read /\ answer' = answer /\ detail' = detail /\ told' = told /\ items' = items
      /\ kept' = kept /\ members' = members
  BY DEF ME!Spawn, ME!Filtering
<1>3. ME!Spawned' = ME!Spawned /\ ME!Spawned \in Nat /\ task' # <<>>
  <2>1. ME!Spawned' = ME!Spawned
    BY <1>2 DEF ME!Spawned
  <2>2. ME!Spawned \in 0..kept /\ ME!Spawned > 0
    BY <1>1, SpawnedBound DEF ME!Spawn
  <2>3. 1 \in DOMAIN task'
    BY <1>2, <2>2
  <2> QED
    BY <2>1, <2>2, <2>3
<1>4. ME!Zero \in Item
  BY DEF ME!Zero, Item
<1>5. told = answer /\ DOMAIN told = 1..Len(answer)
      /\ \A i \in 1..ME!Spawned : told[items[i].id] = items[i]
  <2>1. told = answer /\ answer \in Seq(Item)
    BY <1>1, <1>2 DEF MembersInv, TaskInv, FilterInv
  <2>2. kept \in Nat /\ ME!Spawned \in 0..kept
    <3>1. kept \in Nat
      BY <1>1 DEF FilterInv
    <3> QED
      BY <1>1, <3>1, SpawnedBound
  <2>3. \A i \in 1..ME!Spawned : i \in 1..kept
    BY <2>2
  <2>4. \A i \in 1..kept : items[i] = answer[items[i].id]
    BY <1>1 DEF FilterInv
  <2> QED
    BY <2>1, <2>3, <2>4
<1>6. TaskInv'
  BY <1>2, <1>3, <1>4, <1>5 DEF TaskInv
<1>7. ReplyInv'
  BY <1>2 DEF ReplyInv
<1> QED
  BY <1>1, <1>6, <1>7 DEF MembersInv

(* No two items that were kept are the same. *)
LEMMA KeptApart ==
    ASSUME FilterInv, NEW i \in 1..kept, NEW j \in 1..kept, items[i].id = items[j].id
    PROVE  i = j
<1>1. items[i].id \in Nat /\ items[j].id \in Nat
  <2>1. i \in 1..Len(items) /\ j \in 1..Len(items) /\ items \in Seq(Item)
    BY SpawnedBound DEF FilterInv
  <2>2. items[i] \in Item /\ items[j] \in Item
    BY <2>1
  <2> QED
    BY <2>2 DEF Item
<1>2. ~ i < j /\ ~ j < i
  BY <1>1 DEF FilterInv
<1> QED
  BY <1>2

LEMMA GoroutineKeeps ==
    ASSUME MembersInv, NEW i \in DOMAIN task,
           ME!Ask(i) \/ \E result \in {items[i]} \cup ME!Replies(items[i]) : ME!Resolved(i, result)
    PROVE  MembersInv'
<1>1. FilterInv /\ TaskInv /\ ReplyInv
  BY DEF MembersInv
<1>2. /\ read' = read /\ answer' = answer /\ detail' = detail /\ items' = items
      /\ kept' = kept /\ members' = members /\ task[i] \in {"spawned", "asking"}
  BY DEF ME!Ask, ME!Resolved
<1>3. FilterInv'
  BY <1>1, <1>2 DEF FilterInv
<1>4. ME!Spawned' = ME!Spawned /\ ME!Spawned \in 0..kept /\ kept \in Nat
  <2>1. ME!Spawned' = ME!Spawned
    BY <1>2 DEF ME!Spawned
  <2>2. kept \in Nat
    BY <1>1 DEF FilterInv
  <2>3. ME!Spawned \in 0..kept
    BY <1>1, SpawnedBound
  <2> QED
    BY <2>1, <2>2, <2>3
<1>5. task # <<>>
  OBVIOUS
<1>6. /\ read > Len(answer) /\ detail
      /\ task \in [1..ME!Spawned -> {"spawned", "asking", "done"}]
      /\ resolved \in [1..ME!Spawned -> Item] /\ DOMAIN told = 1..Len(answer)
      /\ \A n \in 1..ME!Spawned :
            IF task[n] = "done" THEN resolved[n] = told[items[n].id] /\ resolved[n].id = items[n].id
                                ELSE told[items[n].id] = items[n]
  BY <1>1, <1>5 DEF TaskInv
<1>7. i \in 1..ME!Spawned /\ i \in 1..kept
  BY <1>4, <1>6
<1>8. ReplyInv'
  <2>1. members = ME!NoMembers
    BY <1>1, <1>2, <1>6, <1>7 DEF ReplyInv, ME!AllDone
  <2> QED
    BY <1>2, <2>1 DEF ReplyInv
<1>9. CASE ME!Ask(i)
  <2>1. task' = [task EXCEPT ![i] = "asking"] /\ resolved' = resolved /\ told' = told
        /\ task[i] = "spawned"
    BY <1>9 DEF ME!Ask
  <2>2. task' \in [1..ME!Spawned -> {"spawned", "asking", "done"}]
    BY <1>6, <2>1
  <2>3. \A n \in 1..ME!Spawned :
            IF task'[n] = "done" THEN resolved[n] = told[items[n].id] /\ resolved[n].id = items[n].id
                                 ELSE told[items[n].id] = items[n]
    BY <1>6, <2>1
  <2>4. TaskInv'
    BY <1>2, <1>4, <1>6, <2>1, <2>2, <2>3 DEF TaskInv
  <2> QED
    BY <1>3, <1>8, <2>4 DEF MembersInv
<1>10. ASSUME NEW result, result \in {items[i]} \cup ME!Replies(items[i]), ME!Resolved(i, result)
       PROVE  MembersInv'
  <2>1. /\ task[i] = "asking" /\ task' = [task EXCEPT ![i] = "done"]
        /\ resolved' = [resolved EXCEPT ![i] = result]
        /\ told' = [told EXCEPT ![items[i].id] = result]
    BY <1>10 DEF ME!Resolved
  <2>2. items[i] \in Item /\ items[i].id \in 1..Len(answer)
    <3>1. items \in Seq(Item) /\ i \in 1..Len(items) /\ Len(answer) \in Nat /\ read \in 1..Len(answer) + 1
          /\ items[i].id \in 1..read - 1
      BY <1>1, <1>4, <1>7, SpawnedBound DEF FilterInv
    <3> QED
      BY <3>1
  <2>3. result \in Item /\ result.id = items[i].id
    <3>1. CASE result = items[i]
      BY <2>2, <3>1
    <3>2. CASE result \in ME!Replies(items[i])
      <4>1. PICK item : item = items[i]
        OBVIOUS
      <4>2. PICK r \in Ranks : result = [item EXCEPT !.rank = r, !.full = TRUE]
        BY <3>2, <4>1, Zenon DEF ME!Replies
      <4>3. r \in Int /\ item \in Item
        BY <2>2, <4>1, MembersBounds
      <4> QED
        BY <4>1, <4>2, <4>3 DEF Item
    <3> QED
      BY <1>10, <3>1, <3>2
  <2>4. /\ task' \in [1..ME!Spawned -> {"spawned", "asking", "done"}]
        /\ resolved' \in [1..ME!Spawned -> Item] /\ DOMAIN told' = 1..Len(answer)
    BY <1>6, <2>1, <2>3
  <2>5. told'[items[i].id] = result
    BY <1>6, <2>1, <2>2
  <2>6. \A n \in 1..ME!Spawned : n # i => told'[items[n].id] = told[items[n].id]
    <3> SUFFICES ASSUME NEW n \in 1..ME!Spawned, n # i PROVE items[n].id # items[i].id
      BY <2>1
    <3>1. n \in 1..kept
      BY <1>4
    <3> QED
      BY <1>1, <1>7, <3>1, KeptApart
  <2>7. ASSUME NEW n \in 1..ME!Spawned
        PROVE  IF task'[n] = "done" THEN resolved'[n] = told'[items[n].id] /\ resolved'[n].id = items[n].id
                                    ELSE told'[items[n].id] = items[n]
    <3>1. CASE n = i
      <4>1. task'[n] = "done" /\ resolved'[n] = result
        BY <1>6, <1>7, <2>1, <3>1
      <4> QED
        BY <2>3, <2>5, <3>1, <4>1
    <3>2. CASE n # i
      <4>1. task'[n] = task[n] /\ resolved'[n] = resolved[n]
        BY <1>6, <2>1, <3>2
      <4>2. told'[items[n].id] = told[items[n].id]
        BY <2>6, <3>2
      <4> QED
        BY <1>6, <4>1, <4>2
    <3> QED
      BY <3>1, <3>2
  <2>8. TaskInv'
    BY <1>2, <1>4, <1>6, <2>4, <2>7 DEF TaskInv
  <2> QED
    BY <1>3, <1>8, <2>8 DEF MembersInv
<1> QED
  BY <1>9, <1>10

LEMMA ReplyKeeps ==
    ASSUME MembersInv, ME!Reply PROVE MembersInv'
<1>1. FilterInv /\ FilterInv' /\ TaskInv
  BY DEF MembersInv, FilterInv, ME!Reply
<1>2. /\ read > Len(answer)
      /\ members' = IF detail THEN ME!Ranked(resolved) ELSE ME!Ranked(ME!Filtered)
      /\ read' = read /\ answer' = answer /\ detail' = detail /\ told' = told /\ items' = items
      /\ kept' = kept /\ task' = task /\ resolved' = resolved
  BY DEF ME!Reply
<1>3. ME!Spawned' = ME!Spawned /\ ME!Filtered' = ME!Filtered /\ ME!AllDone' = ME!AllDone
  BY <1>2 DEF ME!Spawned, ME!Filtered, ME!AllDone
<1>4. ~detail => told = answer
  BY <1>1 DEF TaskInv
<1>5. TaskInv'
  BY <1>1, <1>2, <1>3 DEF TaskInv
<1>6. /\ ME!Ranked(resolved)' = ME!Ranked(resolved)
      /\ ME!Ranked(ME!Filtered)' = ME!Ranked(ME!Filtered)
  BY <1>2, <1>3
<1>7. ReplyInv'
  <2>1. CASE detail
    <3>1. DOMAIN task = 1..ME!Spawned /\ ME!AllDone
      BY <2>1 DEF ME!Reply
    <3>2. DOMAIN task' = 1..ME!Spawned' /\ ME!AllDone'
      BY <1>2, <1>3, <3>1
    <3>3. members' = ME!Ranked(resolved)'
      BY <1>2, <1>6, <2>1
    <3> QED
      BY <1>2, <2>1, <3>2, <3>3 DEF ReplyInv
  <2>2. CASE ~detail
    <3>1. members' = ME!Ranked(ME!Filtered)'
      BY <1>2, <1>6, <2>2
    <3> QED
      BY <1>2, <1>4, <2>2, <3>1 DEF ReplyInv
  <2> QED
    BY <2>1, <2>2
<1> QED
  BY <1>1, <1>5, <1>7 DEF MembersInv

LEMMA StepKeepsMembersInv == MembersInv /\ [ME!Next]_ME!memberVars => MembersInv'
<1> SUFFICES ASSUME MembersInv, [ME!Next]_ME!memberVars PROVE MembersInv'
  OBVIOUS
<1>1. CASE ME!FilterItem
  BY <1>1, FilterKeeps
<1>2. CASE ME!Spawn
  BY <1>2, SpawnKeeps
<1>3. CASE ME!Reply
  BY <1>3, ReplyKeeps
<1>4. ASSUME NEW i \in DOMAIN task,
             ME!Ask(i) \/ \E result \in {items[i]} \cup ME!Replies(items[i]) : ME!Resolved(i, result)
      PROVE  MembersInv'
  BY <1>4, GoroutineKeeps
<1>5. CASE UNCHANGED ME!memberVars
  <2>1. /\ read' = read /\ answer' = answer /\ detail' = detail /\ told' = told /\ items' = items
        /\ kept' = kept /\ task' = task /\ resolved' = resolved /\ members' = members
    BY <1>5 DEF ME!memberVars
  <2>2. FilterInv'
    BY <2>1 DEF MembersInv, FilterInv
  <2>3. TaskInv'
    BY <2>1 DEF MembersInv, TaskInv, ME!Spawned
  <2>4. ReplyInv'
    <3>1. ME!Spawned' = ME!Spawned /\ ME!Filtered' = ME!Filtered /\ ME!AllDone' = ME!AllDone
      BY <2>1 DEF ME!Spawned, ME!Filtered, ME!AllDone
    <3>2. /\ ME!Ranked(resolved)' = ME!Ranked(resolved)
          /\ ME!Ranked(ME!Filtered)' = ME!Ranked(ME!Filtered)
      BY <2>1, <3>1
    <3>3. ReplyInv
      BY DEF MembersInv
    <3> QED
      BY <2>1, <3>1, <3>2, <3>3 DEF ReplyInv
  <2> QED
    BY <2>2, <2>3, <2>4 DEF MembersInv
<1> QED
  BY <1>1, <1>2, <1>3, <1>4, <1>5 DEF ME!Next

(* What is replied, before it is ranked. *)
LEMMA WhatIsRanked ==
    ASSUME MembersInv, members # ME!NoMembers,
           NEW n, n = IF detail THEN ME!Spawned ELSE kept
    PROVE  \E s \in Seq(Item) : /\ members = ME!Ranked(s) /\ Len(s) = n
                                /\ \A i \in 1..n : s[i] = told[items[i].id] /\ s[i].id = items[i].id
<1>1. FilterInv /\ TaskInv /\ ReplyInv
  BY DEF MembersInv
<1>2. ME!Spawned \in 0..kept /\ kept \in 0..Len(items) /\ items \in Seq(Item) /\ Len(items) \in Nat
      /\ 0 \in 0..Len(items) /\ kept \in 0..kept
  <2>1. items \in Seq(Item) /\ kept \in Nat /\ Len(items) \in Nat
    BY <1>1 DEF FilterInv
  <2>2. ME!Spawned \in 0..kept /\ kept \in 0..Len(items)
    BY <1>1, SpawnedBound
  <2> QED
    BY <2>1, <2>2
<1>3. CASE detail
  <2>1. n = ME!Spawned /\ n \in Nat /\ members = ME!Ranked(resolved)
        /\ DOMAIN task = 1..n /\ ME!AllDone
    BY <1>1, <1>2, <1>3 DEF ReplyInv
  <2>2. CASE task = <<>>
    <3>1. n = 0
      BY <2>1, <2>2
    <3>2. resolved = <<>>
      BY <1>1, <2>2, <3>1, <2>1 DEF TaskInv
    <3>3. <<>> \in Seq(Item) /\ Len(<<>>) = 0 /\ 1..0 = {}
      OBVIOUS
    <3> QED
      BY <2>1, <3>1, <3>2, <3>3
  <2>3. CASE task # <<>>
    <3>1. /\ resolved \in [1..n -> Item]
          /\ \A i \in 1..n : resolved[i] = told[items[i].id] /\ resolved[i].id = items[i].id
      BY <1>1, <2>1, <2>3 DEF TaskInv, ME!AllDone
    <3>2. resolved \in Seq(Item) /\ Len(resolved) = n
      BY <2>1, <3>1
    <3> QED
      BY <2>1, <3>1, <3>2
  <2> QED
    BY <2>2, <2>3
<1>4. CASE ~detail
  <2>1. n = kept /\ members = ME!Ranked(ME!Filtered) /\ told = answer
    BY <1>1, <1>4 DEF ReplyInv
  <2>2. PICK s : s = ME!Filtered
    OBVIOUS
  <2>3. s \in Seq(Item) /\ Len(s) = kept /\ \A i \in 1..kept : s[i] = items[i]
    <3>1. /\ SubSeq(items, 0 + 1, kept) \in Seq(Item) /\ Len(SubSeq(items, 0 + 1, kept)) = kept - 0
          /\ \A i \in 1..kept - 0 : SubSeq(items, 0 + 1, kept)[i] = items[0 + i]
      BY <1>2, SubSeqFacts
    <3>2. s = SubSeq(items, 0 + 1, kept) /\ kept - 0 = kept /\ \A i \in 1..kept : 0 + i = i
      BY <1>2, <2>2 DEF ME!Filtered
    <3> QED
      BY <3>1, <3>2
  <2>4. ASSUME NEW i \in 1..kept PROVE s[i] = told[items[i].id] /\ s[i].id = items[i].id
    <3>1. items[i] = answer[items[i].id]
      BY <1>1 DEF FilterInv
    <3> QED
      BY <2>1, <2>3, <3>1
  <2> QED
    BY <2>1, <2>2, <2>3, <2>4
<1> QED
  BY <1>3, <1>4

(* Whatever the number of items, goroutines at a time and the limit, and in  *)
(* whatever order the server tells the details: every item that matches is   *)
(* replied, up to the limit, with its own details and in the right order.    *)
THEOREM MembersAreComplete == ME!Spec => []EveryMatchResolved
<1>1. MembersInv => EveryMatchResolved
  <2> SUFFICES ASSUME MembersInv, members # ME!NoMembers PROVE ME!EveryMatchResolved
    BY DEF EveryMatchResolved, ME!EveryMatchResolved
  <2>1. PICK n : n = IF detail THEN ME!Spawned ELSE kept
    OBVIOUS
  <2>2. PICK s \in Seq(Item) :
            /\ members = ME!Ranked(s) /\ Len(s) = n
            /\ \A i \in 1..n : s[i] = told[items[i].id] /\ s[i].id = items[i].id
    BY <2>1, WhatIsRanked, ZenonT(30)
  <2>3. PICK o : Sorts(s, members, o)
    BY <2>2, RankedSorts
  <2>4. FilterInv /\ read > Len(answer) /\ answer \in Seq(Item) /\ items \in Seq(Item)
    BY DEF MembersInv, ReplyInv, FilterInv
  <2>5. /\ ME!Spawned \in 0..kept /\ kept \in 0..Len(items) /\ n \in 0..kept /\ n \in Nat
        /\ ME!Spawned = IF kept <= ResolveLimit THEN kept ELSE ResolveLimit
        /\ Len(items) \in Nat /\ 0 \in 0..Len(items) /\ kept \in 0..kept
        /\ 0 \in 0..kept
    <3>1. kept \in Nat /\ Len(items) \in Nat
      BY <2>4 DEF FilterInv
    <3>2. /\ ME!Spawned \in 0..kept /\ kept \in 0..Len(items)
          /\ ME!Spawned = IF kept <= ResolveLimit THEN kept ELSE ResolveLimit
      BY <2>4, SpawnedBound
    <3> QED
      BY <2>1, <3>1, <3>2
  <2>6. PICK fit : fit = ME!Matching(answer)
    OBVIOUS
  <2>7. fit = SubSeq(items, 1, kept)
    <3>1. PICK p : p = Fits(answer)
      OBVIOUS
    <3>2. p \in Seq(Seq(Item)) /\ Len(p) = Len(answer) /\ Len(answer) \in Nat
      BY <2>4, <3>1, FitsType
    <3>3. PICK f : IsFlat(Item, p, f)
      BY <3>2, FlatExists
    <3>4. FlattenSeq(p) = f[Len(p)]
      BY <3>2, <3>3, FlatOf
    <3>5. read - 1 = Len(answer)
      BY <2>4, <3>2 DEF FilterInv
    <3>6. SubSeq(items, 1, kept) = f[read - 1]
      BY <2>4, <3>1, <3>3 DEF FilterInv
    <3>7. fit = FlattenSeq(p)
      BY <2>6, <3>1 DEF ME!Matching, ME!FlattenSeq, FlattenSeq, Fits
    <3> QED
      BY <3>2, <3>4, <3>5, <3>6, <3>7
  <2>8. fit \in Seq(Item) /\ Len(fit) = kept /\ \A i \in 1..kept : fit[i] = items[i]
    <3>1. /\ SubSeq(items, 0 + 1, kept) \in Seq(Item) /\ Len(SubSeq(items, 0 + 1, kept)) = kept - 0
          /\ \A i \in 1..kept - 0 : SubSeq(items, 0 + 1, kept)[i] = items[0 + i]
      BY <2>4, <2>5, SubSeqFacts
    <3>2. fit = SubSeq(items, 0 + 1, kept) /\ kept - 0 = kept /\ \A i \in 1..kept : 0 + i = i
      BY <2>5, <2>7
    <3> QED
      BY <3>1, <3>2
  <2>9. PICK asked : asked = IF detail THEN SubSeq(fit, 1, ME!Min({Len(fit), ResolveLimit})) ELSE fit
    OBVIOUS
  <2>10. asked = SubSeq(fit, 1, n)
    <3>1. CASE detail
      BY <2>1, <2>8, <2>9, <3>1 DEF ME!Spawned
    <3>2. CASE ~detail
      <4>1. SubSeq(fit, 1, Len(fit)) = fit
        BY <2>8, SubSeqFull
      <4> QED
        BY <2>1, <2>8, <2>9, <3>2, <4>1
    <3> QED
      BY <3>1, <3>2
  <2>11. asked \in Seq(Item) /\ Len(asked) = n /\ \A i \in 1..n : asked[i] = items[i]
    <3>1. 0 \in 0..Len(fit) /\ n \in 0..Len(fit)
      BY <2>5, <2>8
    <3>2. /\ SubSeq(fit, 0 + 1, n) \in Seq(Item) /\ Len(SubSeq(fit, 0 + 1, n)) = n - 0
          /\ \A i \in 1..n - 0 : SubSeq(fit, 0 + 1, n)[i] = fit[0 + i]
      BY <2>8, <3>1, SubSeqFacts
    <3>3. asked = SubSeq(fit, 0 + 1, n) /\ n - 0 = n /\ \A i \in 1..n : 0 + i = i /\ i \in 1..kept
      BY <2>5, <2>10
    <3> QED
      BY <2>8, <3>2, <3>3
  <2>12. /\ o \in [1..n -> 1..n] /\ \A i \in 1..n : \E k \in 1..n : o[k] = i
         /\ members \in Seq(Item) /\ Len(members) = n /\ \A k \in 1..n : members[k] = s[o[k]]
         /\ \A k \in 1..n - 1 : ME!Before(s, o[k], o[k + 1])
    BY <2>2, <2>3 DEF Sorts
  <2>13. ME!Range(members) = {ME!Detailed(a) : a \in ME!Range(asked)}
    <3>1. DOMAIN members = 1..n /\ DOMAIN asked = 1..n
      BY <2>11, <2>12
    <3>2. \A i \in 1..n : s[i] = ME!Detailed(asked[i])
      BY <2>2, <2>11 DEF ME!Detailed
    <3>3. \A k \in 1..n : o[k] \in 1..n /\ members[k] = ME!Detailed(asked[o[k]])
      BY <2>12, <3>2
    <3>4. ASSUME NEW i \in 1..n PROVE \E k \in 1..n : members[k] = ME!Detailed(asked[i])
      <4>1. PICK k \in 1..n : o[k] = i
        BY <2>12
      <4>2. members[k] = ME!Detailed(asked[o[k]])
        BY <3>3
      <4> QED
        BY <4>1, <4>2
    <3>5. ME!Range(members) = {members[k] : k \in 1..n} /\ ME!Range(asked) = {asked[k] : k \in 1..n}
      BY <3>1 DEF ME!Range
    <3>6. ASSUME NEW x, x \in ME!Range(members)
          PROVE  \E a \in ME!Range(asked) : x = ME!Detailed(a)
      BY <3>3, <3>5, <3>6
    <3>7. ASSUME NEW a, a \in ME!Range(asked) PROVE ME!Detailed(a) \in ME!Range(members)
      BY <3>4, <3>5, <3>7
    <3> QED
      BY <3>6, <3>7
  <2>14. ASSUME NEW k \in 1..Len(members) - 1
         PROVE  \/ members[k].rank < members[k + 1].rank
                \/ members[k].rank = members[k + 1].rank /\ members[k].id < members[k + 1].id
    <3>1. PICK i, j : i = o[k] /\ j = o[k + 1]
      OBVIOUS
    <3>2. k \in 1..n /\ k + 1 \in 1..n /\ k \in 1..n - 1
      BY <2>5, <2>12
    <3>3. i \in 1..n /\ j \in 1..n /\ ME!Before(s, i, j) /\ members[k] = s[i] /\ members[k + 1] = s[j]
      BY <2>12, <3>1, <3>2
    <3>4. \A m \in 1..n : items[m] \in Item /\ m \in 1..kept /\ m \in 1..Len(items)
      <4>1. \A m \in 1..n : m \in 1..kept /\ m \in 1..Len(items)
        BY <2>5
      <4> QED
        BY <2>4, <4>1
    <3>5. s[i].id = items[i].id /\ s[j].id = items[j].id
      BY <2>2, <3>3, <3>4 DEF Item
    <3>6. i < j => items[i].id < items[j].id
      BY <2>4, <3>3, <3>4 DEF FilterInv
    <3> QED
      BY <3>3, <3>5, <3>6 DEF ME!Before
  <2> QED
    BY <2>6, <2>9, <2>11, <2>12, <2>13, <2>14 DEF ME!EveryMatchResolved
<1> QED
  BY <1>1, InitMembersInv, StepKeepsMembersInv, PTL DEF ME!Spec
-----------------------------------------------------------------------------
(* Discovery.                                                                *)

Has(s, f) == \E i \in 1..Len(s) : s[i] = f
Once(s)   == \A i, j \in 1..Len(s) : s[i] = s[j] => i = j

LEMMA WalkCardinality == \A S : DI!Cardinality(S) = Cardinality(S)
  BY DEF DI!Cardinality, Cardinality

LEMMA RangeHas ==
    ASSUME NEW D, NEW s \in Seq(D), NEW f
    PROVE  f \in DI!Range(s) <=> Has(s, f)
<1>1. DOMAIN s = 1..Len(s)
  OBVIOUS
<1> QED
  BY <1>1 DEF DI!Range, Has

(* A finite set of numbers can be put in order. *)
LEMMA SortedExists ==
    ASSUME NEW S \in SUBSET Nat, IsFiniteSet(S)
    PROVE  \E s \in [1..Cardinality(S) -> S] :
               \A i, j \in 1..Cardinality(S) : i < j => s[i] < s[j]
<1> DEFINE upto == [e \in S |-> Cardinality({m \in S : m <= e})]
<1>1. PICK n : n = Cardinality(S)
  OBVIOUS
<1>2. n \in Nat /\ IsFiniteSet(1..n) /\ Cardinality(1..n) = n
  BY <1>1, FS_CardinalityType, FS_Interval
<1>3. ASSUME NEW e \in S PROVE upto[e] \in 1..n
  <2>1. PICK T : T = {m \in S : m <= e}
    OBVIOUS
  <2>2. T \in SUBSET S /\ e \in T
    BY <2>1
  <2>3. IsFiniteSet(T) /\ Cardinality(T) <= n
    BY <1>1, <2>2, FS_Subset
  <2>4. Cardinality(T) \in Nat /\ Cardinality(T) # 0
    BY <2>2, <2>3, FS_CardinalityType, FS_EmptySet
  <2> QED
    BY <1>2, <2>1, <2>3, <2>4
<1>4. ASSUME NEW d \in S, NEW e \in S, d < e PROVE upto[d] < upto[e]
  <2>1. PICK T, U : T = {m \in S : m <= d} /\ U = {m \in S : m <= e}
    OBVIOUS
  <2>2. U \in SUBSET S /\ T \in SUBSET U /\ e \in U /\ e \notin T
    <3>1. \A m \in S : m \in Int
      OBVIOUS
    <3>2. \A m \in S : m <= d => m <= e
      BY <1>4, <3>1
    <3>3. e \in Int /\ ~ e <= d
      BY <1>4, <3>1
    <3>4. \A m \in T : m \in U
      BY <2>1, <3>2
    <3>5. U \subseteq S /\ T \subseteq U
      BY <2>1, <3>4
    <3>6. e <= e
      BY <3>1
    <3>7. e \in U /\ e \notin T
      BY <2>1, <3>3, <3>6
    <3> QED
      BY <3>5, <3>7
  <2>3. IsFiniteSet(U)
    BY <2>2, FS_Subset
  <2>4. IsFiniteSet(T) /\ Cardinality(T) <= Cardinality(U) /\ Cardinality(T) # Cardinality(U)
    BY <2>2, <2>3, FS_Subset
  <2>5. Cardinality(T) \in Nat /\ Cardinality(U) \in Nat
    BY <2>3, <2>4, FS_CardinalityType
  <2> QED
    BY <2>1, <2>4, <2>5
<1>5. upto \in [S -> 1..n]
  BY <1>3
<1> HIDE DEF upto
<1>6. \A d, e \in S : d = e \/ d < e \/ e < d
  OBVIOUS
<1>7. upto \in Injection(S, 1..n)
  <2>1. ASSUME NEW d \in S, NEW e \in S, upto[d] = upto[e] PROVE d = e
    <3>1. upto[d] \in Int /\ upto[e] \in Int
      BY <1>3
    <3> QED
      BY <1>4, <1>6, <2>1, <3>1
  <2> QED
    BY <1>5, <2>1 DEF Injection, IsInjective
<1>8. upto \in Surjection(S, 1..n)
  BY <1>1, <1>2, <1>7, FS_Injection
<1>9. \A k \in 1..n : \E e \in S : upto[e] = k
  BY <1>8 DEF Surjection
<1> DEFINE s == [k \in 1..n |-> CHOOSE e \in S : upto[e] = k]
<1>10. \A k \in 1..n : s[k] \in S /\ upto[s[k]] = k
  <2> TAKE k \in 1..n
  <2>1. \E e \in S : upto[e] = k
    BY <1>9
  <2> QED
    BY <2>1
<1>11. s \in [1..n -> S]
  BY <1>10
<1> HIDE DEF s
<1>12. ASSUME NEW i \in 1..n, NEW j \in 1..n, i < j PROVE s[i] < s[j]
  <2>1. s[i] \in S /\ s[j] \in S /\ upto[s[i]] = i /\ upto[s[j]] = j /\ i \in Int /\ j \in Int
    BY <1>10
  <2>2. s[i] # s[j]
    BY <1>12, <2>1
  <2>3. s[j] < s[i] => upto[s[j]] < upto[s[i]]
    BY <1>4, <2>1
  <2>4. ~ s[j] < s[i]
    BY <1>12, <2>1, <2>3
  <2> QED
    BY <1>6, <2>1, <2>2, <2>4
<1> QED
  BY <1>1, <1>11, <1>12

(* A sequence of all elements of a set, each once. *)
Lists(s, S) == s \in Seq(S) /\ Once(s) /\ \A f : Has(s, f) <=> f \in S

LEMMA InjectionLists ==
    ASSUME NEW S, IsFiniteSet(S), NEW s \in [1..Cardinality(S) -> S],
           \A i, j \in 1..Cardinality(S) : s[i] = s[j] => i = j
    PROVE  Lists(s, S)
<1>1. PICK n : n = Cardinality(S)
  OBVIOUS
<1>2. n \in Nat /\ IsFiniteSet(1..n) /\ Cardinality(1..n) = n
  BY <1>1, FS_CardinalityType, FS_Interval
<1>3. s \in [1..n -> S] /\ \A i, j \in 1..n : s[i] = s[j] => i = j
  BY <1>1
<1>4. s \in Injection(1..n, S)
  BY <1>3 DEF Injection, IsInjective
<1>5. s \in Surjection(1..n, S)
  BY <1>1, <1>2, <1>4, FS_Injection
<1>6. \A f \in S : \E i \in 1..n : s[i] = f
  BY <1>5 DEF Surjection
<1>7. s \in Seq(S) /\ Len(s) = n
  BY <1>2, <1>3
<1>8. Once(s)
  BY <1>3, <1>7 DEF Once
<1>9. \A i \in 1..n : s[i] \in S
  BY <1>3
<1>10. \A f : Has(s, f) <=> f \in S
  BY <1>6, <1>7, <1>9 DEF Has
<1> QED
  BY <1>7, <1>8, <1>10 DEF Lists

LEMMA SetToSeqLists ==
    ASSUME NEW S, IsFiniteSet(S)
    PROVE  Lists(DI!SetToSeq(S), S)
<1>1. PICK n : n = Cardinality(S)
  OBVIOUS
<1>2. \E f : f \in Bijection(1..n, S)
  BY <1>1, FS_CardinalityType DEF ExistsBijection
<1>3. PICK f : f \in [1..n -> S] /\ \A i, j \in 1..n : f[i] = f[j] => i = j
  BY <1>2 DEF Bijection, Injection, IsInjective
<1>4. PICK s : s = DI!SetToSeq(S)
  OBVIOUS
<1>5. s = CHOOSE g \in [1..n -> S] : DI!IsInjective(g)
  BY <1>1, <1>4, WalkCardinality DEF DI!SetToSeq
<1>6. DI!IsInjective(f)
  BY <1>3 DEF DI!IsInjective
<1>7. s \in [1..n -> S] /\ DI!IsInjective(s)
  BY <1>3, <1>5, <1>6
<1>8. \A i, j \in 1..n : s[i] = s[j] => i = j
  BY <1>7 DEF DI!IsInjective
<1>9. s \in [1..Cardinality(S) -> S] /\ \A i, j \in 1..Cardinality(S) : s[i] = s[j] => i = j
  BY <1>1, <1>7, <1>8
<1>10. Lists(s, S)
  BY <1>9, InjectionLists
<1> QED
  BY <1>4, <1>10

-----------------------------------------------------------------------------
LEMMA TreeFacts ==
    /\ DI!Entries = 1..Len(ParentOf) /\ Len(ParentOf) \in Nat
    /\ DI!Entries \subseteq Nat /\ IsFiniteSet(DI!Entries)
    /\ DI!Plain \subseteq DI!Entries /\ Dirs \subseteq DI!Entries /\ Starts \subseteq DI!Entries
    /\ \A e \in DI!Entries : ParentOf[e] \in {0} \cup Dirs /\ ParentOf[e] < e /\ ParentOf[e] \in Nat
    /\ \A e \in DI!Entries : e \in Dirs \/ e \in DI!Plain
    /\ 0 \notin DI!Entries
    /\ ScanBudget \in Nat /\ FileLimit \in Nat /\ MaxPaths \in Nat
<1>1. DI!IsTree
  BY DiscoveryTree
<1>2. ParentOf \in Seq(Nat) /\ Dirs \subseteq DI!Entries /\ Starts \subseteq DI!Entries
      /\ ScanBudget \in Nat /\ FileLimit \in Nat /\ MaxPaths \in Nat
  BY <1>1 DEF DI!IsTree
<1>3. DI!Entries = 1..Len(ParentOf) /\ Len(ParentOf) \in Nat
  BY <1>2 DEF DI!Entries
<1>4. IsFiniteSet(1..Len(ParentOf))
  BY <1>3, FS_Interval
<1>5. \A e \in DI!Entries : ParentOf[e] \in {0} \cup Dirs /\ ParentOf[e] < e
  BY <1>1 DEF DI!IsTree
<1>6. \A e \in DI!Entries : ParentOf[e] \in Nat
  BY <1>2, <1>3
<1> QED
  BY <1>2, <1>3, <1>4, <1>5, <1>6 DEF DI!Plain

LEMMA ChildrenListed ==
    ASSUME NEW d PROVE Lists(DI!Listed(d), DI!Children(d))
<1>1. PICK C : C = DI!Children(d)
  OBVIOUS
<1>2. C \in SUBSET DI!Entries
  BY <1>1 DEF DI!Children
<1>3. IsFiniteSet(C) /\ C \in SUBSET Nat
  BY <1>2, TreeFacts, FS_Subset
<1>4. PICK n : n = Cardinality(C)
  OBVIOUS
<1>5. n \in Nat
  BY <1>3, <1>4, FS_CardinalityType
<1>6. PICK s : s = DI!Listed(d)
  OBVIOUS
<1>7. s = CHOOSE t \in [1..n -> C] : DI!Sorted(t)
  BY <1>1, <1>4, <1>6, WalkCardinality DEF DI!Listed
<1>8. \E t \in [1..n -> C] : \A i, j \in 1..n : i < j => t[i] < t[j]
  BY <1>3, <1>4, SortedExists
<1>9. \E t \in [1..n -> C] : DI!Sorted(t)
  BY <1>8 DEF DI!Sorted
<1>10. s \in [1..n -> C] /\ DI!Sorted(s)
  BY <1>7, <1>9
<1>11. \A i, j \in 1..n : i < j => s[i] < s[j]
  BY <1>10 DEF DI!Sorted
<1>12. ASSUME NEW i \in 1..n, NEW j \in 1..n, s[i] = s[j] PROVE i = j
  <2>1. s[i] \in Nat /\ s[j] \in Nat /\ i \in Int /\ j \in Int
    <3>1. s[i] \in C /\ s[j] \in C
      BY <1>10
    <3>2. s[i] \in Nat /\ s[j] \in Nat
      BY <1>3, <3>1
    <3>3. i \in Int /\ j \in Int
      BY <1>5
    <3> QED
      BY <3>2, <3>3
  <2>2. ~ s[i] < s[j] /\ ~ s[j] < s[i]
    BY <1>12, <2>1
  <2>3. ~ i < j /\ ~ j < i
    BY <1>11, <2>2
  <2> QED
    BY <2>1, <2>3
<1>13. s \in [1..Cardinality(C) -> C] /\ \A i, j \in 1..Cardinality(C) : s[i] = s[j] => i = j
  BY <1>4, <1>10, <1>12
<1>14. Lists(s, C)
  BY <1>3, <1>13, InjectionLists
<1> QED
  BY <1>1, <1>6, <1>14

(* What lies below an entry. *)
LEMMA BelowLeast ==
    ASSUME NEW d, NEW A, NEW S \in SUBSET DI!Entries, d \in S, DI!Closed(S, A)
    PROVE  DI!Below(d, A) \subseteq S
  BY DEF DI!Below

LEMMA BelowFacts ==
    ASSUME NEW d \in DI!Entries, NEW A \in SUBSET DI!Entries
    PROVE  /\ DI!Below(d, A) \in SUBSET DI!Entries /\ d \in DI!Below(d, A)
           /\ \A e \in A : ParentOf[e] \in DI!Below(d, A) => e \in DI!Below(d, A)
           /\ \A e \in DI!Below(d, A) : e >= d
           /\ \A e \in DI!Below(d, A) : e # d => e \in A /\ ParentOf[e] \in DI!Below(d, A)
<1>1. PICK B : B = DI!Below(d, A)
  OBVIOUS
<1>2. B \in SUBSET DI!Entries /\ d \in B
  BY <1>1 DEF DI!Below
<1>3. \A e \in A : ParentOf[e] \in B => e \in B
  <2> TAKE e \in A
  <2> HAVE ParentOf[e] \in B
  <2>1. ASSUME NEW S \in SUBSET DI!Entries, d \in S, DI!Closed(S, A) PROVE e \in S
    <3>1. ParentOf[e] \in S
      BY <1>1, <2>1, BelowLeast
    <3> QED
      BY <2>1, <3>1 DEF DI!Closed
  <2>2. e \in DI!Below(d, A)
    BY <2>1 DEF DI!Below
  <2> QED
    BY <1>1, <2>2
<1>4. \A e \in B : e >= d
  <2>1. PICK S : S = {e \in DI!Entries : e >= d}
    OBVIOUS
  <2>2. S \in SUBSET DI!Entries /\ d \in S
    BY <2>1, TreeFacts
  <2>3. DI!Closed(S, A)
    <3> SUFFICES ASSUME NEW e \in A, ParentOf[e] \in S PROVE e \in S
      BY DEF DI!Closed
    <3>1. e \in DI!Entries /\ e \in Nat /\ ParentOf[e] \in Nat /\ ParentOf[e] < e /\ d \in Nat
      BY TreeFacts
    <3>2. ParentOf[e] >= d
      BY <2>1
    <3> QED
      BY <2>1, <3>1, <3>2
  <2>4. B \subseteq S
    BY <1>1, <2>2, <2>3, BelowLeast
  <2> QED
    BY <2>1, <2>4
<1>5. ASSUME NEW e \in B, e # d PROVE e \in A /\ ParentOf[e] \in B
  <2> SUFFICES ASSUME ~(e \in A /\ ParentOf[e] \in B) PROVE FALSE
    OBVIOUS
  <2>1. PICK S : S = B \ {e}
    OBVIOUS
  <2>2. S \in SUBSET DI!Entries /\ d \in S
    BY <1>2, <1>5, <2>1
  <2>3. DI!Closed(S, A)
    <3> SUFFICES ASSUME NEW c \in A, ParentOf[c] \in S PROVE c \in S
      BY DEF DI!Closed
    <3>1. c \in B /\ ParentOf[c] \in B
      BY <1>3, <2>1
    <3>2. c # e
      BY <3>1
    <3> QED
      BY <2>1, <3>1, <3>2
  <2>4. B \subseteq S
    BY <1>1, <2>2, <2>3, BelowLeast
  <2> QED
    BY <2>1, <2>4
<1> QED
  BY <1>1, <1>2, <1>3, <1>4, <1>5

LEMMA BelowMonotone ==
    ASSUME NEW d \in DI!Entries, NEW A \in SUBSET DI!Entries, NEW C \in SUBSET A,
           NEW e \in DI!Below(d, A)
    PROVE  DI!Below(e, C) \subseteq DI!Below(d, A)
<1>1. PICK S : S = DI!Below(d, A)
  OBVIOUS
<1>2. S \in SUBSET DI!Entries /\ e \in S /\ \A c \in A : ParentOf[c] \in S => c \in S
  BY <1>1, BelowFacts
<1>3. DI!Closed(S, C)
  BY <1>2 DEF DI!Closed
<1> QED
  BY <1>1, <1>2, <1>3, BelowLeast

(* A file has nothing below it. *)
LEMMA BelowFile ==
    ASSUME NEW d \in DI!Plain, NEW A \in SUBSET DI!Entries PROVE DI!Below(d, A) = {d}
<1>1. d \in DI!Entries /\ d \notin Dirs /\ d # 0
  BY TreeFacts DEF DI!Plain
<1>2. {d} \in SUBSET DI!Entries /\ DI!Closed({d}, A)
  <2>1. \A e \in A : ParentOf[e] # d
    BY <1>1, TreeFacts
  <2> QED
    BY <1>1, <2>1 DEF DI!Closed
<1>3. DI!Below(d, A) \subseteq {d} /\ d \in DI!Below(d, A)
  BY <1>1, <1>2, BelowLeast, BelowFacts
<1> QED
  BY <1>3

(* A directory has below it itself, and what its children have.              *)
LEMMA BelowSplits ==
    ASSUME NEW d \in DI!Entries, NEW A \in SUBSET DI!Entries,
           NEW e, e \in DI!Below(d, A), e # d
    PROVE  \E c \in DI!Children(d) \cap A : e \in DI!Below(c, A)
<1>1. PICK S : S = {x \in DI!Entries : x = d \/ \E c \in DI!Children(d) \cap A : x \in DI!Below(c, A)}
  OBVIOUS
<1>2. S \in SUBSET DI!Entries /\ d \in S
  BY <1>1
<1>3. DI!Closed(S, A)
  <2> SUFFICES ASSUME NEW x \in A, ParentOf[x] \in S PROVE x \in S
    BY DEF DI!Closed
  <2>1. CASE ParentOf[x] = d
    <3>1. x \in DI!Children(d) \cap A /\ x \in DI!Entries
      BY <2>1 DEF DI!Children
    <3>2. x \in DI!Below(x, A)
      BY <3>1, BelowFacts
    <3> QED
      BY <1>1, <3>1, <3>2
  <2>2. CASE ParentOf[x] # d
    <3>1. PICK c \in DI!Children(d) \cap A : ParentOf[x] \in DI!Below(c, A)
      BY <1>1, <2>2
    <3>2. c \in DI!Entries /\ x \in DI!Entries
      BY DEF DI!Children
    <3>3. x \in DI!Below(c, A)
      BY <3>1, <3>2, BelowFacts
    <3> QED
      BY <1>1, <3>1, <3>2, <3>3
  <2> QED
    BY <2>1, <2>2
<1>4. e \in S
  BY <1>2, <1>3, BelowLeast
<1> QED
  BY <1>1, <1>4
-----------------------------------------------------------------------------
(* What is noted of what is found.                                           *)
LEMMA HasConcat ==
    ASSUME NEW D, NEW s \in Seq(D), NEW t \in Seq(D), NEW f
    PROVE  Has(s \o t, f) <=> Has(s, f) \/ Has(t, f)
<1>1. PICK u : u = s \o t
  OBVIOUS
<1>2. /\ u \in Seq(D) /\ Len(u) = Len(s) + Len(t) /\ Len(s) \in Nat /\ Len(t) \in Nat
      /\ \A n \in 1..Len(s) : u[n] = s[n]
      /\ \A n \in 1..Len(t) : u[Len(s) + n] = t[n]
  BY <1>1, ConcatFacts
<1>3. ASSUME NEW i \in 1..Len(u), u[i] = f PROVE Has(s, f) \/ Has(t, f)
  <2>1. CASE i <= Len(s)
    <3>1. i \in 1..Len(s)
      BY <1>2, <2>1
    <3> QED
      BY <1>2, <1>3, <3>1 DEF Has
  <2>2. CASE i > Len(s)
    <3>1. PICK n \in 1..Len(t) : i = Len(s) + n
      <4>1. i - Len(s) \in 1..Len(t) /\ i = Len(s) + (i - Len(s))
        BY <1>2, <2>2
      <4> QED
        BY <4>1
    <3>2. t[n] = f
      BY <1>2, <1>3, <3>1
    <3> QED
      BY <3>2 DEF Has
  <2> QED
    BY <1>2, <2>1, <2>2
<1>4. ASSUME NEW i \in 1..Len(s), s[i] = f PROVE Has(u, f)
  <2>1. i \in 1..Len(u) /\ u[i] = f
    BY <1>2, <1>4
  <2> QED
    BY <2>1 DEF Has
<1>5. ASSUME NEW i \in 1..Len(t), t[i] = f PROVE Has(u, f)
  <2>1. Len(s) + i \in 1..Len(u) /\ u[Len(s) + i] = f
    BY <1>2, <1>5
  <2> QED
    BY <2>1 DEF Has
<1>6. Has(u, f) => Has(s, f) \/ Has(t, f)
  BY <1>3 DEF Has
<1>7. Has(s, f) \/ Has(t, f) => Has(u, f)
  BY <1>4, <1>5 DEF Has
<1> QED
  BY <1>1, <1>6, <1>7

LEMMA OnceAppend ==
    ASSUME NEW D, NEW s \in Seq(D), NEW e \in D, Once(s), ~Has(s, e)
    PROVE  Once(s \o <<e>>)
<1>1. PICK u : u = s \o <<e>>
  OBVIOUS
<1>2. /\ Len(u) = Len(s) + 1 /\ Len(s) \in Nat /\ u[Len(s) + 1] = e
      /\ \A n \in 1..Len(s) : u[n] = s[n]
  <2>1. <<e>> \in Seq(D) /\ Len(<<e>>) = 1 /\ 1 \in 1..1 /\ <<e>>[1] = e
    OBVIOUS
  <2> QED
    BY <1>1, <2>1, ConcatFacts
<1>3. ASSUME NEW i \in 1..Len(u), NEW j \in 1..Len(u), u[i] = u[j] PROVE i = j
  <2>1. i \in 1..Len(s) \/ i = Len(s) + 1
    BY <1>2
  <2>2. j \in 1..Len(s) \/ j = Len(s) + 1
    BY <1>2
  <2>3. CASE i \in 1..Len(s) /\ j \in 1..Len(s)
    BY <1>2, <1>3, <2>3 DEF Once
  <2>4. CASE i \in 1..Len(s) /\ j = Len(s) + 1
    BY <1>2, <1>3, <2>4 DEF Has
  <2>5. CASE i = Len(s) + 1 /\ j \in 1..Len(s)
    BY <1>2, <1>3, <2>5 DEF Has
  <2> QED
    BY <2>1, <2>2, <2>3, <2>4, <2>5
<1> QED
  BY <1>1, <1>3 DEF Once

LEMMA OneHas == ASSUME NEW e, NEW f PROVE (Has(<<e>>, f) <=> f = e) /\ ~Has(<<>>, f)
<1>1. Len(<<e>>) = 1 /\ <<e>>[1] = e /\ Len(<<>>) = 0 /\ 1..0 = {} /\ 1..1 = {1}
  OBVIOUS
<1> QED
  BY <1>1 DEF Has

(* The first files of those found have been added to the list.               *)
AddedUpTo(list, found, n, u) ==
    /\ u \in Seq(DI!Plain) /\ Once(u)
    /\ \A f : Has(u, f) <=> Has(list, f) \/ (f \in wanted /\ \E i \in 1..n : found[i] = f)

LEMMA AddedOnce ==
    ASSUME NEW list \in Seq(DI!Plain), Once(list), NEW found \in Seq(DI!Plain)
    PROVE  /\ DI!Added(list, found) \in Seq(DI!Plain) /\ Once(DI!Added(list, found))
           /\ \A f : Has(DI!Added(list, found), f) <=>
                         Has(list, f) \/ (f \in wanted /\ Has(found, f))
<1> DEFINE s == [i \in 1..Len(found) |-> DI!New(list, found, i)]
<1>1. Len(found) \in Nat /\ \A i \in 1..Len(found) : found[i] \in DI!Plain
  OBVIOUS
<1>2. \A i \in 1..Len(found) : DI!New(list, found, i) \in Seq(DI!Plain)
  <2> TAKE i \in 1..Len(found)
  <2>1. PICK e \in DI!Plain : e = found[i]
    BY <1>1
  <2>2. <<e>> \in Seq(DI!Plain) /\ <<>> \in Seq(DI!Plain)
    OBVIOUS
  <2> QED
    BY <2>1, <2>2 DEF DI!New
<1>3. /\ s \in Seq(Seq(DI!Plain)) /\ Len(s) = Len(found)
      /\ \A i \in 1..Len(found) : s[i] = DI!New(list, found, i)
  BY <1>1, <1>2
<1>4. DI!Added(list, found) = list \o FlattenSeq(s)
  BY DEF DI!Added, DI!FlattenSeq, FlattenSeq
<1> HIDE DEF s
<1>5. PICK f : IsFlat(DI!Plain, s, f)
  BY <1>3, FlatExists
<1>6. /\ f[0] = <<>> /\ \A n \in 0..Len(found) : f[n] \in Seq(DI!Plain)
      /\ \A n \in 0..Len(found) - 1 : s[n + 1] \in Seq(DI!Plain) /\ f[n + 1] = f[n] \o s[n + 1]
  <2>1. s \in Seq(Seq(DI!Plain)) /\ Len(s) = Len(found)
    BY <1>3
  <2>2. /\ f[0] = <<>> /\ \A n \in 0..Len(s) : f[n] \in Seq(DI!Plain)
        /\ \A n \in 0..Len(s) - 1 : s[n + 1] \in Seq(DI!Plain) /\ f[n + 1] = f[n] \o s[n + 1]
    BY <1>5, <2>1, FlatSteps
  <2> QED
    BY <2>1, <2>2
<1> DEFINE S == {n \in 0..Len(found) : AddedUpTo(list, found, n, list \o f[n])}
<1>7. 0 \in S
  <2>1. list \o f[0] = list /\ 1..0 = {} /\ 0 \in 0..Len(found)
    BY <1>1, <1>6, ConcatEmptySeq
  <2>2. AddedUpTo(list, found, 0, list)
    BY <2>1 DEF AddedUpTo
  <2> QED
    BY <2>1, <2>2
<1>8. ASSUME NEW n \in 0..Len(found) - 1, n \in S PROVE n + 1 \in S
  <2>1. PICK u : u = list \o f[n]
    OBVIOUS
  <2>2. AddedUpTo(list, found, n, u)
    BY <1>8, <2>1
  <2>3. PICK e \in DI!Plain : e = found[n + 1]
    <3>1. n + 1 \in 1..Len(found)
      BY <1>1
    <3> QED
      BY <1>1, <3>1
  <2>4. n \in 0..Len(found) /\ n + 1 \in 0..Len(found) /\ n + 1 \in 1..Len(found)
        /\ n \in 0..n /\ 0 \in 0..Len(found) /\ n \in 0..Len(found) /\ (n + 1) - 1 = n
        /\ 1..n + 1 = 1..n \cup {n + 1}
    BY <1>1
  <2>5. list \o f[n + 1] = u \o s[n + 1]
    <3>1. f[n + 1] = f[n] \o s[n + 1] /\ f[n] \in Seq(DI!Plain) /\ s[n + 1] \in Seq(DI!Plain)
      BY <1>6, <2>4
    <3>2. PICK g \in Seq(DI!Plain), h \in Seq(DI!Plain) : g = f[n] /\ h = s[n + 1]
      BY <3>1
    <3>3. list \o (g \o h) = (list \o g) \o h
      BY ConcatAssociative, SMTT(20)
    <3> QED
      BY <2>1, <3>1, <3>2, <3>3
  <2>6. DI!Unseen(e, list \o SubSeq(found, 1, n)) <=> ~Has(list, e) /\ \A i \in 1..n : found[i] # e
    <3>1. PICK p : p = SubSeq(found, 0 + 1, n)
      OBVIOUS
    <3>2. p \in Seq(DI!Plain) /\ Len(p) = n - 0 /\ \A i \in 1..n - 0 : p[i] = found[0 + i]
      BY <2>4, <3>1, SubSeqFacts
    <3>3. n - 0 = n /\ \A i \in 1..n : 0 + i = i
      BY <2>4
    <3>4. Has(p, e) <=> \E i \in 1..n : found[i] = e
      BY <3>2, <3>3 DEF Has
    <3>5. Has(list \o p, e) <=> Has(list, e) \/ Has(p, e)
      BY <3>2, HasConcat
    <3>6. list \o p \in Seq(DI!Plain)
      BY <3>2, ConcatFacts
    <3>7. e \in DI!Range(list \o p) <=> Has(list \o p, e)
      BY <3>6, RangeHas
    <3>8. p = SubSeq(found, 1, n)
      BY <3>1
    <3> QED
      BY <3>4, <3>5, <3>7, <3>8 DEF DI!Unseen
  <2>7. Has(u, e) <=> Has(list, e) \/ (e \in wanted /\ \E i \in 1..n : found[i] = e)
    BY <2>2 DEF AddedUpTo
  <2>8. s[n + 1] = IF e \in wanted /\ ~Has(u, e) THEN <<e>> ELSE <<>>
    <3>1. s[n + 1] = DI!New(list, found, n + 1)
      BY <1>3, <2>4
    <3>2. DI!New(list, found, n + 1) =
              IF e \in wanted /\ DI!Unseen(e, list \o SubSeq(found, 1, n)) THEN <<e>> ELSE <<>>
      BY <2>3, <2>4 DEF DI!New
    <3> QED
      BY <2>6, <2>7, <3>1, <3>2
  <2>9. u \in Seq(DI!Plain) /\ Once(u)
    BY <2>2 DEF AddedUpTo
  <2>10. \A x : (\E i \in 1..n + 1 : found[i] = x) <=> x = e \/ \E i \in 1..n : found[i] = x
    BY <2>3, <2>4
  <2>11. CASE e \in wanted /\ ~Has(u, e)
    <3>1. PICK v : v = u \o <<e>>
      OBVIOUS
    <3>2. v \in Seq(DI!Plain) /\ Once(v)
      <4>1. <<e>> \in Seq(DI!Plain)
        OBVIOUS
      <4> QED
        BY <2>9, <2>11, <3>1, <4>1, OnceAppend, ConcatFacts
    <3>3. ASSUME NEW x PROVE Has(v, x) <=> Has(u, x) \/ x = e
      <4>1. <<e>> \in Seq(DI!Plain) /\ (Has(<<e>>, x) <=> x = e)
        BY OneHas
      <4> QED
        BY <2>9, <3>1, <4>1, HasConcat
    <3>4. AddedUpTo(list, found, n + 1, v)
      BY <2>2, <2>10, <2>11, <3>2, <3>3 DEF AddedUpTo
    <3> QED
      BY <2>4, <2>5, <2>8, <2>11, <3>1, <3>4
  <2>12. CASE ~(e \in wanted /\ ~Has(u, e))
    <3>1. list \o f[n + 1] = u
      BY <2>5, <2>8, <2>9, <2>12, ConcatEmptySeq
    <3>2. AddedUpTo(list, found, n + 1, u)
      BY <2>2, <2>10, <2>12 DEF AddedUpTo
    <3> QED
      BY <2>4, <3>1, <3>2
  <2> QED
    BY <2>11, <2>12
<1>9. 0..Len(found) \subseteq S
  <2> HIDE DEF S
  <2> QED
    BY <1>1, <1>7, <1>8, Induction
<1>10. AddedUpTo(list, found, Len(found), list \o f[Len(found)])
  BY <1>1, <1>9
<1>11. FlattenSeq(s) = f[Len(found)]
  BY <1>3, <1>5, FlatOf
<1>12. AddedUpTo(list, found, Len(found), DI!Added(list, found))
  BY <1>4, <1>10, <1>11
<1> QED
  BY <1>12 DEF AddedUpTo, Has
-----------------------------------------------------------------------------
(* What is in the tree under an entry, and what stays out of it; and what    *)
(* the walk reaches if it does not descend into ig.                          *)
Tree(e)        == DI!Below(e, DI!Entries)
Alone(s)       == \A i, j \in 1..Len(s) : i # j => s[j] \notin Tree(s[i])
Aside(s, t)    == \A i \in 1..Len(s), j \in 1..Len(t) : s[i] \notin Tree(t[j])
ReachIn(ig, d) == DI!Below(d, DI!Entries \ ig)

(* The files are few enough for the bounds of the walk. *)
Wanted == {f \in DI!Plain : DI!Sought(f)}
Few    == Cardinality(wanted) < ScanBudget /\ Cardinality(Wanted) <= FileLimit

(* What is in the trees that the walk still holds, and what it will reach.   *)
Held(st, en) == {f \in DI!Entries : \/ \E i \in 1..Len(st) : f \in Tree(st[i])
                                    \/ \E i \in 1..Len(en) : f \in Tree(en[i])}
Ahead(ig, st, en, f) == \/ \E i \in 1..Len(st) : f \in ReachIn(ig, st[i])
                        \/ \E i \in 1..Len(en) : en[i] \notin ig /\ f \in ReachIn(ig, en[i])

SearchInv ==
    /\ wanted \in SUBSET DI!Plain /\ matching \in SUBSET DI!Plain /\ ignored \in SUBSET Dirs
    /\ everything \in BOOLEAN /\ walking \in BOOLEAN
    /\ given \in Seq(Starts) /\ paths \in Seq(Starts) /\ Len(paths) <= Len(given)
    /\ \A i \in 1..Len(paths) : paths[i] = given[Len(given) - Len(paths) + i]
    /\ files \in Seq(DI!Plain) /\ Once(files)
    /\ \A f : Has(files, f) => f \in wanted /\ (DI!Sought(f) \/ Has(given, f))

(* No directory is walked through twice, since of the entries the walk holds *)
(* none lies in another; so it counts no file twice, and while there are few *)
(* files it reaches, or has found, all it should find.                       *)
HoldsApart ==
    /\ stack \in Seq(Dirs) /\ entries \in Seq(DI!Entries) /\ hits \in Seq(DI!Plain)
    /\ Alone(stack) /\ Alone(entries) /\ Aside(stack, entries) /\ Aside(entries, stack)
    /\ Aside(hits, stack) /\ Aside(hits, entries)
Counts ==
    /\ Once(hits) /\ \A f : Has(hits, f) => DI!Sought(f)
    /\ budget \in Int /\ ScanBudget - budget <= Cardinality(wanted \ Held(stack, entries))
WillFind ==
    Few => \A f \in ReachIn(ignored, paths[1]) :
               DI!Sought(f) => Has(hits, f) \/ Ahead(ignored, stack, entries, f)

WalkInv ==
    walking => paths # <<>> /\ paths[1] \in Dirs /\ HoldsApart /\ Counts /\ WillFind

DoneInv ==
    Few => \A k \in 1..Len(given) - Len(paths) : \A f \in ReachIn(ignored, given[k]) :
               DI!Sought(f) /\ f \notin HiddenFrom => Has(files, f)

DiscoveryInv == SearchInv /\ WalkInv /\ DoneInv

(* What is in a part of a sequence is as far apart as what is in it.         *)
IsPart(t, s, o) == /\ Len(t) \in Nat /\ Len(s) \in Nat /\ o \in Nat /\ Len(t) + o <= Len(s)
                   /\ \A i \in 1..Len(t) : t[i] = s[i + o]

KeepsApart(t, s) ==
    /\ Alone(s) => Alone(t)
    /\ \A u : (Aside(s, u) => Aside(t, u)) /\ (Aside(u, s) => Aside(u, t))

LEMMA PartKeepsApart ==
    ASSUME NEW t, NEW s, NEW o, IsPart(t, s, o) PROVE KeepsApart(t, s)
<1>1. \A i \in 1..Len(t) : i + o \in 1..Len(s) /\ t[i] = s[i + o]
  BY DEF IsPart
<1>2. \A i, j \in 1..Len(t) : i # j => i + o # j + o
  BY DEF IsPart
<1>3. Alone(s) => Alone(t)
  BY <1>1, <1>2 DEF Alone
<1>4. ASSUME NEW u PROVE (Aside(s, u) => Aside(t, u)) /\ (Aside(u, s) => Aside(u, t))
  BY <1>1 DEF Aside
<1> QED
  BY <1>3, <1>4 DEF KeepsApart

LEMMA TailPart ==
    ASSUME NEW D, NEW s \in Seq(D), s # <<>>
    PROVE  /\ Tail(s) \in Seq(D) /\ IsPart(Tail(s), s, 1) /\ Len(s) \in Nat \ {0}
           /\ Len(Tail(s)) = Len(s) - 1 /\ \A i \in 1..Len(s) - 1 : Tail(s)[i] = s[i + 1]
           /\ Head(s) = s[1] /\ s[1] \in D /\ 1 \in 1..Len(s)
<1>1. PICK t : t = Tail(s)
  OBVIOUS
<1>2. t \in Seq(D) /\ Len(t) = Len(s) - 1 /\ Len(s) \in Nat \ {0} /\ Len(t) \in Nat
  BY <1>1
<1>3. \A i \in 1..Len(s) - 1 : t[i] = s[i + 1]
  BY <1>1, <1>2
<1>4. IsPart(t, s, 1)
  BY <1>2, <1>3 DEF IsPart
<1>5. 1 \in 1..Len(s)
  BY <1>2
<1>6. s[1] \in D /\ Head(s) = s[1]
  BY <1>5
<1> QED
  BY <1>1, <1>2, <1>3, <1>4, <1>5, <1>6

LEMMA FrontPart ==
    ASSUME NEW D, NEW s \in Seq(D), s # <<>>
    PROVE  /\ DI!Front(s) \in Seq(D) /\ IsPart(DI!Front(s), s, 0) /\ Len(s) \in Nat \ {0}
           /\ Len(DI!Front(s)) = Len(s) - 1 /\ \A i \in 1..Len(s) - 1 : DI!Front(s)[i] = s[i]
           /\ DI!Last(s) = s[Len(s)] /\ s[Len(s)] \in D
<1>1. PICK t : t = SubSeq(s, 0 + 1, Len(s) - 1)
  OBVIOUS
<1>2. Len(s) \in Nat \ {0} /\ 0 \in 0..Len(s) /\ Len(s) - 1 \in 0..Len(s)
  OBVIOUS
<1>3. /\ t \in Seq(D) /\ Len(t) = (Len(s) - 1) - 0
      /\ \A i \in 1..(Len(s) - 1) - 0 : t[i] = s[0 + i]
  BY <1>1, <1>2, SubSeqFacts, ZenonT(30)
<1>4. (Len(s) - 1) - 0 = Len(s) - 1 /\ \A i \in 1..Len(s) - 1 : 0 + i = i /\ i + 0 = i
  BY <1>2
<1>5. Len(t) = Len(s) - 1 /\ \A i \in 1..Len(s) - 1 : t[i] = s[i]
  BY <1>3, <1>4
<1>6. IsPart(t, s, 0)
  BY <1>2, <1>4, <1>5 DEF IsPart
<1>7. DI!Front(s) = t /\ DI!Last(s) = s[Len(s)]
  BY <1>1 DEF DI!Front, DI!Last
<1>8. Len(s) \in 1..Len(s)
  BY <1>2
<1> QED
  BY <1>2, <1>3, <1>5, <1>6, <1>7, <1>8

(* The wanted files outside of what is held: more, the less is held.         *)
LEMMA CountLeft ==
    ASSUME wanted \in SUBSET DI!Plain, NEW H, NEW G \in SUBSET H
    PROVE  /\ Cardinality(wanted \ H) \in Nat /\ Cardinality(wanted \ G) \in Nat
           /\ Cardinality(wanted \ H) <= Cardinality(wanted \ G)
           /\ Cardinality(wanted \ G) <= Cardinality(wanted) /\ Cardinality(wanted) \in Nat
           /\ \A f \in wanted \cap H : f \notin G =>
                  Cardinality(wanted \ H) + 1 <= Cardinality(wanted \ G)
<1>1. PICK W, A, B : W = wanted /\ A = wanted \ H /\ B = wanted \ G
  OBVIOUS
<1>2. IsFiniteSet(W)
  <2>1. W \in SUBSET DI!Entries /\ IsFiniteSet(DI!Entries)
    BY <1>1, TreeFacts
  <2> QED
    BY <2>1, FS_Subset
<1>3. B \in SUBSET W /\ A \in SUBSET B
  BY <1>1
<1>4. IsFiniteSet(B) /\ Cardinality(B) <= Cardinality(W)
  BY <1>2, <1>3, FS_Subset
<1>5. IsFiniteSet(A) /\ Cardinality(A) <= Cardinality(B) /\ (Cardinality(A) = Cardinality(B) => A = B)
  BY <1>3, <1>4, FS_Subset
<1>6. Cardinality(W) \in Nat /\ Cardinality(A) \in Nat /\ Cardinality(B) \in Nat
  BY <1>2, <1>4, <1>5, FS_CardinalityType
<1>7. ASSUME NEW f \in wanted \cap H, f \notin G PROVE Cardinality(A) + 1 <= Cardinality(B)
  <2>1. f \in B /\ f \notin A
    BY <1>1, <1>7
  <2>2. A # B
    BY <2>1
  <2> QED
    BY <1>5, <1>6, <2>2
<1> QED
  BY <1>1, <1>4, <1>5, <1>6, <1>7

(* If there are few files, hits up to the limit are all of them.             *)
LEMMA LimitFull ==
    ASSUME Few, NEW h \in Seq(DI!Plain), Once(h), \A x : Has(h, x) => DI!Sought(x),
           Len(h) >= FileLimit, NEW f \in DI!Plain, DI!Sought(f)
    PROVE  Has(h, f)
<1>1. PICK n : n = Len(h)
  OBVIOUS
<1>2. PICK T : T = {x \in DI!Plain : Has(h, x)}
  OBVIOUS
<1>3. n \in Nat /\ IsFiniteSet(1..n) /\ Cardinality(1..n) = n /\ \A i \in 1..n : h[i] \in DI!Plain
  <2>1. n \in Nat /\ \A i \in 1..n : h[i] \in DI!Plain
    BY <1>1
  <2> QED
    BY <2>1, FS_Interval
<1>4. h \in Surjection(1..n, T)
  <2>1. \A i \in 1..n : Has(h, h[i])
    BY <1>1 DEF Has
  <2>2. h \in [1..n -> T]
    <3>1. h \in [1..n -> DI!Plain]
      BY <1>1
    <3>2. \A i \in 1..n : h[i] \in T
      BY <1>2, <1>3, <2>1
    <3> QED
      BY <3>1, <3>2
  <2>3. \A x \in T : \E i \in 1..n : h[i] = x
    BY <1>1, <1>2 DEF Has
  <2> QED
    BY <2>2, <2>3 DEF Surjection
<1>5. h \in Injection(1..n, T)
  <2>1. \A i, j \in 1..n : h[i] = h[j] => i = j
    BY <1>1 DEF Once
  <2>2. h \in [1..n -> T]
    BY <1>4 DEF Surjection
  <2> QED
    BY <2>1, <2>2 DEF Injection, IsInjective
<1>6. IsFiniteSet(T) /\ Cardinality(T) = n
  BY <1>3, <1>4, <1>5, FS_Surjection
<1>7. IsFiniteSet(Wanted) /\ T \in SUBSET Wanted
  <2>1. Wanted \in SUBSET DI!Entries /\ IsFiniteSet(DI!Entries)
    BY TreeFacts DEF Wanted
  <2>2. T \in SUBSET Wanted
    BY <1>2 DEF Wanted
  <2> QED
    BY <2>1, <2>2, FS_Subset
<1>8. Cardinality(T) <= Cardinality(Wanted) /\ (Cardinality(Wanted) = Cardinality(T) => Wanted = T)
  BY <1>7, FS_Subset
<1>9. Cardinality(Wanted) \in Nat /\ Cardinality(T) \in Nat
  BY <1>6, <1>7, FS_CardinalityType
<1>10. Cardinality(Wanted) <= n
  <2>1. Cardinality(Wanted) <= FileLimit /\ FileLimit \in Nat
    BY TreeFacts DEF Few
  <2> QED
    BY <1>1, <1>3, <1>9, <2>1
<1>11. Wanted = T
  BY <1>3, <1>6, <1>8, <1>9, <1>10
<1> QED
  BY <1>2, <1>11 DEF Wanted

(* No step changes what is wanted, or where it lies. *)
Frozen == wanted' = wanted /\ matching' = matching /\ ignored' = ignored
          /\ everything' = everything /\ given' = given

LEMMA FrozenFacts ==
    ASSUME Frozen PROVE (\A f : DI!Sought(f)' <=> DI!Sought(f)) /\ (Few' <=> Few)
<1>1. \A f : DI!Sought(f)' <=> DI!Sought(f)
  BY DEF Frozen, DI!Sought
<1>2. Wanted' = Wanted
  BY <1>1 DEF Wanted
<1>3. wanted' = wanted
  BY DEF Frozen
<1>4. Cardinality(wanted)' = Cardinality(wanted) /\ Cardinality(Wanted)' = Cardinality(Wanted)
  BY <1>2, <1>3
<1> QED
  BY <1>1, <1>4 DEF Few

(* A step within a walk. *)
LEMMA WalkFrame ==
    ASSUME DiscoveryInv, Frozen, paths' = paths, files' = files, walking' \in BOOLEAN
    PROVE  SearchInv' /\ DoneInv'
<1>1. SearchInv /\ DoneInv
  BY DEF DiscoveryInv
<1>2. SearchInv'
  BY <1>1, FrozenFacts DEF Frozen, SearchInv
<1>3. DoneInv'
  BY <1>1, FrozenFacts DEF Frozen, DoneInv
<1> QED
  BY <1>2, <1>3
-----------------------------------------------------------------------------
(* The steps of the walk.                                                    *)
LEMMA HeldFacts ==
    ASSUME DiscoveryInv, walking
    PROVE  /\ SearchInv /\ paths # <<>> /\ paths[1] \in Dirs /\ HoldsApart /\ Counts /\ WillFind
           /\ \A A \in SUBSET DI!Entries : A \ ignored \in SUBSET DI!Entries
           /\ \A f : DI!Sought(f) => f \in wanted /\ f \in DI!Plain /\ f \in DI!Entries
           /\ ignored \in SUBSET Dirs /\ wanted \in SUBSET DI!Plain
<1>1. SearchInv /\ paths # <<>> /\ paths[1] \in Dirs /\ HoldsApart /\ Counts /\ WillFind
  BY DEF DiscoveryInv, WalkInv
<1>2. ignored \in SUBSET Dirs /\ wanted \in SUBSET DI!Plain
  BY <1>1 DEF SearchInv
<1>3. \A f : DI!Sought(f) => f \in wanted /\ f \in DI!Plain /\ f \in DI!Entries
  BY <1>2, TreeFacts DEF DI!Sought
<1> QED
  BY <1>1, <1>2, <1>3

LEMMA ReachInTree ==
    ASSUME NEW e \in DI!Entries, NEW ig
    PROVE  ReachIn(ig, e) \subseteq Tree(e) /\ e \in Tree(e) /\ Tree(e) \in SUBSET DI!Entries
<1>1. DI!Entries \ ig \in SUBSET DI!Entries /\ DI!Entries \in SUBSET DI!Entries
  OBVIOUS
<1>2. e \in DI!Below(e, DI!Entries) /\ DI!Below(e, DI!Entries) \in SUBSET DI!Entries
  BY <1>1, BelowFacts
<1>3. DI!Below(e, DI!Entries \ ig) \subseteq DI!Below(e, DI!Entries)
  BY <1>1, <1>2, BelowMonotone
<1> QED
  BY <1>2, <1>3 DEF ReachIn, Tree

LEMMA PopDirKeeps ==
    ASSUME DiscoveryInv, DI!PopDir PROVE DiscoveryInv'
<1>1. /\ walking /\ entries = <<>> /\ stack # <<>>
      /\ entries' = DI!Listed(DI!Last(stack)) /\ stack' = DI!Front(stack)
      /\ Frozen /\ paths' = paths /\ walking' = walking /\ budget' = budget /\ hits' = hits
      /\ files' = files
  BY DEF DI!PopDir, Frozen
<1>2. SearchInv' /\ DoneInv'
  BY <1>1, WalkFrame DEF DiscoveryInv, SearchInv
<1>3. /\ SearchInv /\ paths # <<>> /\ paths[1] \in Dirs /\ HoldsApart /\ Counts /\ WillFind
      /\ \A f : DI!Sought(f) => f \in DI!Plain
  BY <1>1, HeldFacts
<1>4. PICK st, en, st2, en2, h :
          st = stack /\ en = entries /\ st2 = stack' /\ en2 = entries' /\ h = hits
  OBVIOUS
<1>5. /\ st \in Seq(Dirs) /\ en = <<>> /\ st # <<>> /\ Len(en) = 0
      /\ Alone(st) /\ Aside(h, st) /\ h \in Seq(DI!Plain)
  BY <1>1, <1>3, <1>4 DEF HoldsApart
<1>6. /\ st2 \in Seq(Dirs) /\ IsPart(st2, st, 0) /\ Len(st) \in Nat \ {0}
      /\ Len(st2) = Len(st) - 1 /\ \A i \in 1..Len(st) - 1 : st2[i] = st[i]
      /\ st[Len(st)] \in Dirs /\ DI!Last(st) = st[Len(st)]
  BY <1>1, <1>4, <1>5, FrontPart
<1>7. PICK d \in Dirs : d = st[Len(st)]
  BY <1>6
<1>8. Lists(en2, DI!Children(d))
  BY <1>1, <1>4, <1>6, <1>7, ChildrenListed
<1>9. d \in DI!Entries /\ \A i \in 1..Len(st) : st[i] \in DI!Entries
  <2>1. \A i \in 1..Len(st) : st[i] \in Dirs
    BY <1>5
  <2> QED
    BY <2>1, TreeFacts
<1>10. /\ en2 \in Seq(DI!Entries) /\ Once(en2) /\ Len(en2) \in Nat
       /\ \A i \in 1..Len(en2) : en2[i] \in DI!Children(d) /\ en2[i] \in DI!Entries /\ ParentOf[en2[i]] = d
       /\ \A c \in DI!Children(d) : \E i \in 1..Len(en2) : en2[i] = c
  <2>1. en2 \in Seq(DI!Children(d)) /\ Once(en2) /\ \A f : Has(en2, f) <=> f \in DI!Children(d)
    BY <1>8 DEF Lists
  <2>2. Len(en2) \in Nat /\ \A i \in 1..Len(en2) : en2[i] \in DI!Children(d)
    BY <2>1
  <2>3. \A c \in DI!Children(d) : c \in DI!Entries /\ ParentOf[c] = d
    BY DEF DI!Children
  <2>4. en2 \in Seq(DI!Entries)
    BY <2>1, <2>3
  <2>5. \A c \in DI!Children(d) : \E i \in 1..Len(en2) : en2[i] = c
    BY <2>1 DEF Has
  <2> QED
    BY <2>1, <2>2, <2>3, <2>4, <2>5
<1>11. ASSUME NEW c \in DI!Entries, ParentOf[c] = d
       PROVE  Tree(c) \subseteq Tree(d) /\ d \notin Tree(c)
  <2>1. DI!Entries \in SUBSET DI!Entries
    OBVIOUS
  <2>2. c \in DI!Below(d, DI!Entries)
    BY <1>9, <1>11, <2>1, BelowFacts
  <2>3. Tree(c) \subseteq Tree(d)
    BY <1>9, <2>1, <2>2, BelowMonotone DEF Tree
  <2>4. \A e \in DI!Below(c, DI!Entries) : e >= c
    BY <2>1, BelowFacts
  <2>5. d < c /\ d \in Nat /\ c \in Nat
    BY <1>11, TreeFacts
  <2>6. d \notin DI!Below(c, DI!Entries)
    BY <2>4, <2>5
  <2> QED
    BY <2>3, <2>6 DEF Tree
<1>12. ASSUME NEW e \in DI!Entries, NEW c \in DI!Entries, ParentOf[c] = d, c \in Tree(e), c # e
       PROVE  d \in Tree(e)
  <2>1. DI!Entries \in SUBSET DI!Entries
    OBVIOUS
  <2> QED
    BY <1>12, <2>1, BelowFacts DEF Tree
<1>13. \A i \in 1..Len(st) - 1 : st[i] \notin Tree(d) /\ d \notin Tree(st[i])
  <2> TAKE i \in 1..Len(st) - 1
  <2>1. i \in 1..Len(st) /\ Len(st) \in 1..Len(st) /\ i # Len(st)
    BY <1>6
  <2> QED
    BY <1>5, <1>7, <2>1 DEF Alone
<1>14. Alone(st2) /\ Aside(h, st2)
  <2>1. KeepsApart(st2, st)
    BY <1>6, PartKeepsApart
  <2> QED
    BY <1>5, <2>1 DEF KeepsApart
<1>15. Alone(en2)
  <2> SUFFICES ASSUME NEW i \in 1..Len(en2), NEW j \in 1..Len(en2), i # j, en2[j] \in Tree(en2[i])
               PROVE  FALSE
    BY DEF Alone
  <2>1. en2[i] # en2[j]
    BY <1>10 DEF Once
  <2>2. d \in Tree(en2[i])
    BY <1>10, <1>12, <2>1
  <2> QED
    BY <1>10, <1>11, <2>2
<1>16. Aside(st2, en2)
  <2> SUFFICES ASSUME NEW i \in 1..Len(st2), NEW j \in 1..Len(en2), st2[i] \in Tree(en2[j])
               PROVE  FALSE
    BY DEF Aside
  <2>1. i \in 1..Len(st) - 1 /\ st2[i] = st[i]
    BY <1>6
  <2>2. st[i] \in Tree(d)
    BY <1>10, <1>11, <2>1
  <2> QED
    BY <1>13, <2>1, <2>2
<1>17. Aside(en2, st2)
  <2> SUFFICES ASSUME NEW i \in 1..Len(st2), NEW j \in 1..Len(en2), en2[j] \in Tree(st2[i])
               PROVE  FALSE
    BY DEF Aside
  <2>1. i \in 1..Len(st) - 1 /\ st2[i] = st[i] /\ i \in 1..Len(st)
    BY <1>6
  <2>2. en2[j] # st[i]
    <3>1. en2[j] \in Tree(d)
      BY <1>10, <1>11, ReachInTree
    <3> QED
      BY <1>13, <2>1, <3>1
  <2>3. d \in Tree(st[i])
    BY <1>9, <1>10, <1>12, <2>1, <2>2
  <2> QED
    BY <1>13, <2>1, <2>3
<1>18. Aside(h, en2)
  <2> SUFFICES ASSUME NEW i \in 1..Len(h), NEW j \in 1..Len(en2), h[i] \in Tree(en2[j])
               PROVE  FALSE
    BY DEF Aside
  <2>1. h[i] \in Tree(d)
    BY <1>10, <1>11
  <2>2. Len(st) \in 1..Len(st)
    BY <1>6
  <2> QED
    BY <1>5, <1>7, <2>1, <2>2 DEF Aside
<1>19. HoldsApart'
  BY <1>1, <1>4, <1>5, <1>6, <1>10, <1>14, <1>15, <1>16, <1>17, <1>18 DEF HoldsApart
<1>20. Held(st2, en2) \subseteq Held(st, en)
  <2> SUFFICES ASSUME NEW f \in DI!Entries, f \in Held(st2, en2)
               PROVE  \E i \in 1..Len(st) : f \in Tree(st[i])
    BY DEF Held
  <2>1. Len(st) \in 1..Len(st) /\ \A i \in 1..Len(st2) : i \in 1..Len(st) /\ st2[i] = st[i]
    BY <1>6
  <2>2. CASE \E i \in 1..Len(st2) : f \in Tree(st2[i])
    BY <2>1, <2>2
  <2>3. CASE \E i \in 1..Len(en2) : f \in Tree(en2[i])
    <3>1. f \in Tree(d)
      BY <1>10, <1>11, <2>3
    <3> QED
      BY <1>7, <2>1, <3>1
  <2> QED
    BY <2>2, <2>3 DEF Held
<1>21. Counts'
  <2>1. Once(hits) /\ (\A f : Has(hits, f) => DI!Sought(f)) /\ budget \in Int
        /\ ScanBudget - budget <= Cardinality(wanted \ Held(st, en))
    BY <1>3, <1>4 DEF Counts
  <2>2. /\ Cardinality(wanted \ Held(st, en)) <= Cardinality(wanted \ Held(st2, en2))
        /\ Cardinality(wanted \ Held(st, en)) \in Nat /\ Cardinality(wanted \ Held(st2, en2)) \in Nat
    <3>1. PICK H, G : H = Held(st, en) /\ G = Held(st2, en2)
      OBVIOUS
    <3>2. wanted \in SUBSET DI!Plain /\ G \in SUBSET H
      BY <1>3, <1>20, <3>1 DEF SearchInv
    <3> QED
      BY <3>1, <3>2, CountLeft
  <2>3. ScanBudget - budget <= Cardinality(wanted \ Held(st2, en2))
    BY <2>1, <2>2, TreeFacts
  <2>4. wanted' = wanted /\ \A f : DI!Sought(f)' <=> DI!Sought(f)
    BY <1>1, FrozenFacts DEF Frozen
  <2> QED
    BY <1>1, <1>4, <2>1, <2>3, <2>4 DEF Counts
<1>22. ASSUME NEW f, DI!Sought(f), Ahead(ignored, st, en, f)
       PROVE  Ahead(ignored, st2, en2, f)
  <2>1. PICK i \in 1..Len(st) : f \in ReachIn(ignored, st[i])
    <3>1. 1..Len(en) = {}
      BY <1>5
    <3> QED
      BY <1>22, <3>1 DEF Ahead
  <2>2. CASE i # Len(st)
    <3>1. i \in 1..Len(st2) /\ st2[i] = st[i]
      BY <1>6, <2>2
    <3> QED
      BY <2>1, <3>1 DEF Ahead
  <2>3. CASE i = Len(st)
    <3>1. PICK A : A = DI!Entries \ ignored
      OBVIOUS
    <3>2. f \in DI!Below(d, A) /\ A \in SUBSET DI!Entries
      BY <1>7, <2>1, <2>3, <3>1 DEF ReachIn
    <3>3. f # d
      BY <1>3, <1>22 DEF DI!Plain
    <3>4. PICK c \in DI!Children(d) \cap A : f \in DI!Below(c, A)
      BY <1>9, <3>2, <3>3, BelowSplits
    <3>5. PICK j \in 1..Len(en2) : en2[j] = c
      BY <1>10
    <3>6. en2[j] \notin ignored /\ f \in ReachIn(ignored, en2[j])
      BY <3>1, <3>4, <3>5 DEF ReachIn
    <3> QED
      BY <3>6 DEF Ahead
  <2> QED
    BY <2>2, <2>3
<1>23. WillFind'
  <2> SUFFICES ASSUME Few', NEW f, f \in ReachIn(ignored', paths'[1]), DI!Sought(f)'
               PROVE  Has(hits', f) \/ Ahead(ignored', stack', entries', f)
    BY DEF WillFind
  <2>1. Few /\ f \in ReachIn(ignored, paths[1]) /\ DI!Sought(f) /\ ignored' = ignored
    BY <1>1, FrozenFacts DEF Frozen
  <2>2. Has(hits, f) \/ Ahead(ignored, stack, entries, f)
    BY <1>3, <2>1 DEF WillFind
  <2> QED
    BY <1>1, <1>4, <1>22, <2>1, <2>2
<1> QED
  BY <1>1, <1>2, <1>3, <1>19, <1>21, <1>23 DEF DiscoveryInv, WalkInv
-----------------------------------------------------------------------------
LEMMA DirsAreEntries ==
    ASSUME NEW s \in Seq(Dirs) PROVE s \in Seq(DI!Entries) /\ Len(s) \in Nat
<1>1. Dirs \subseteq DI!Entries
  BY TreeFacts
<1>2. Len(s) \in Nat /\ \A i \in 1..Len(s) : s[i] \in DI!Entries
  BY <1>1
<1>3. s \in [1..Len(s) -> DI!Entries]
  BY <1>2
<1> QED
  BY <1>2, <1>3

(* What changes where the first of the entries is done with.                 *)
HeadOff(st, en, ig, t) ==
    /\ t \in Seq(DI!Entries) /\ Len(t) = Len(en) - 1 /\ Len(en) \in Nat \ {0} /\ KeepsApart(t, en)
    /\ \A i \in 1..Len(t) : t[i] = en[i + 1] /\ i + 1 \in 1..Len(en) /\ i + 1 # 1
    /\ 1 \in 1..Len(en) /\ en[1] \in DI!Entries /\ Head(en) = en[1]
    /\ Held(st, t) \subseteq Held(st, en)
    /\ \A f : Ahead(ig, st, en, f) =>
           Ahead(ig, st, t, f) \/ (en[1] \notin ig /\ f \in ReachIn(ig, en[1]))

LEMMA HeadDone ==
    ASSUME NEW st \in Seq(DI!Entries), NEW en \in Seq(DI!Entries), en # <<>>, NEW ig,
           NEW t, t = Tail(en)
    PROVE  HeadOff(st, en, ig, t)
<1>1. /\ t \in Seq(DI!Entries) /\ IsPart(t, en, 1) /\ Len(en) \in Nat \ {0} /\ Len(t) = Len(en) - 1
      /\ \A i \in 1..Len(en) - 1 : t[i] = en[i + 1]
      /\ Head(en) = en[1] /\ en[1] \in DI!Entries /\ 1 \in 1..Len(en)
  BY TailPart
<1>2. KeepsApart(t, en)
  BY <1>1, PartKeepsApart
<1>3. \A i \in 1..Len(t) : t[i] = en[i + 1] /\ i + 1 \in 1..Len(en) /\ i + 1 # 1
  BY <1>1
<1>4. Held(st, t) \subseteq Held(st, en)
  BY <1>3 DEF Held
<1>5. \A i \in 1..Len(en) : i = 1 \/ (i - 1 \in 1..Len(t) /\ t[i - 1] = en[i])
  BY <1>1
<1>6. ASSUME NEW f, Ahead(ig, st, en, f)
      PROVE  Ahead(ig, st, t, f) \/ (en[1] \notin ig /\ f \in ReachIn(ig, en[1]))
  <2>1. CASE \E i \in 1..Len(st) : f \in ReachIn(ig, st[i])
    BY <2>1 DEF Ahead
  <2>2. CASE \E i \in 1..Len(en) : en[i] \notin ig /\ f \in ReachIn(ig, en[i])
    <3>1. PICK i \in 1..Len(en) : en[i] \notin ig /\ f \in ReachIn(ig, en[i])
      BY <2>2
    <3> QED
      BY <1>5, <3>1 DEF Ahead
  <2> QED
    BY <1>6, <2>1, <2>2 DEF Ahead
<1> QED
  BY <1>1, <1>2, <1>3, <1>4, <1>6 DEF HeadOff

LEMMA PushDirKeeps ==
    ASSUME DiscoveryInv, DI!PushDir PROVE DiscoveryInv'
<1>1. /\ walking /\ entries # <<>> /\ Head(entries) \in Dirs
      /\ stack' = IF Head(entries) \in ignored THEN stack ELSE Append(stack, Head(entries))
      /\ entries' = Tail(entries)
      /\ Frozen /\ paths' = paths /\ walking' = walking /\ budget' = budget /\ hits' = hits
      /\ files' = files
  BY DEF DI!PushDir, Frozen
<1>2. SearchInv' /\ DoneInv'
  BY <1>1, WalkFrame DEF DiscoveryInv, SearchInv
<1>3. /\ SearchInv /\ paths # <<>> /\ paths[1] \in Dirs /\ HoldsApart /\ Counts /\ WillFind
      /\ \A f : DI!Sought(f) => f \in DI!Plain
  BY <1>1, HeldFacts
<1>4. PICK st, en, st2, en2, h, ig :
          st = stack /\ en = entries /\ st2 = stack' /\ en2 = entries' /\ h = hits /\ ig = ignored
  OBVIOUS
<1>5. /\ st \in Seq(Dirs) /\ en \in Seq(DI!Entries) /\ en # <<>> /\ h \in Seq(DI!Plain)
      /\ Alone(st) /\ Alone(en) /\ Aside(st, en) /\ Aside(en, st) /\ Aside(h, st) /\ Aside(h, en)
  BY <1>1, <1>3, <1>4 DEF HoldsApart
<1>6. st \in Seq(DI!Entries) /\ Len(st) \in Nat
  BY <1>5, DirsAreEntries
<1>7. /\ en2 \in Seq(DI!Entries) /\ Len(en2) = Len(en) - 1 /\ Len(en) \in Nat \ {0} /\ KeepsApart(en2, en)
      /\ \A i \in 1..Len(en2) : en2[i] = en[i + 1] /\ i + 1 \in 1..Len(en) /\ i + 1 # 1
      /\ 1 \in 1..Len(en) /\ en[1] \in DI!Entries /\ Head(en) = en[1]
      /\ Held(st, en2) \subseteq Held(st, en)
      /\ \A f : Ahead(ig, st, en, f) =>
             Ahead(ig, st, en2, f) \/ (en[1] \notin ig /\ f \in ReachIn(ig, en[1]))
  <2>1. en2 = Tail(en)
    BY <1>1, <1>4
  <2>2. HeadOff(st, en, ig, en2)
    BY <1>5, <1>6, <2>1, HeadDone
  <2> QED
    BY <2>2 DEF HeadOff
<1>8. PICK d \in Dirs : d = en[1]
  BY <1>1, <1>4, <1>7
<1>9. /\ st2 \in Seq(Dirs) /\ Len(st2) \in Nat /\ Len(st) <= Len(st2)
      /\ \A i \in 1..Len(st) : st2[i] = st[i]
      /\ \A i \in 1..Len(st2) : (i \in 1..Len(st) /\ st2[i] = st[i]) \/ (i = Len(st) + 1 /\ st2[i] = d)
      /\ d \notin ig => Len(st) + 1 \in 1..Len(st2) /\ st2[Len(st) + 1] = d
  <2>1. CASE d \in ig
    <3>1. st2 = st
      BY <1>1, <1>4, <1>7, <1>8, <2>1
    <3> QED
      BY <1>5, <1>6, <2>1, <3>1
  <2>2. CASE d \notin ig
    <3>1. st2 = Append(st, d)
      BY <1>1, <1>4, <1>7, <1>8, <2>2
    <3>2. /\ st2 \in Seq(Dirs) /\ Len(st2) = Len(st) + 1 /\ \A i \in 1..Len(st) : st2[i] = st[i]
          /\ st2[Len(st) + 1] = d
      BY <1>5, <1>6, <3>1
    <3> QED
      BY <1>6, <3>2
  <2> QED
    BY <2>1, <2>2
<1>10. Alone(en2) /\ Aside(h, en2) /\ Aside(st, en2) /\ Aside(en2, st)
  BY <1>5, <1>7 DEF KeepsApart
<1>11. \A i \in 1..Len(st) : st[i] \notin Tree(d) /\ d \notin Tree(st[i])
  BY <1>5, <1>7, <1>8 DEF Aside
<1>12. \A i \in 1..Len(en2) : en2[i] \notin Tree(d) /\ d \notin Tree(en2[i])
  BY <1>5, <1>7, <1>8 DEF Alone
<1>13. \A i \in 1..Len(h) : h[i] \notin Tree(d)
  BY <1>5, <1>7, <1>8 DEF Aside
<1>14. Alone(st2)
  <2> SUFFICES ASSUME NEW i \in 1..Len(st2), NEW j \in 1..Len(st2), i # j, st2[j] \in Tree(st2[i])
               PROVE  FALSE
    BY DEF Alone
  <2>1. CASE i \in 1..Len(st) /\ j \in 1..Len(st)
    BY <1>5, <1>9, <2>1 DEF Alone
  <2>2. CASE i = Len(st) + 1 /\ st2[i] = d /\ j \in 1..Len(st)
    BY <1>9, <1>11, <2>2
  <2>3. CASE j = Len(st) + 1 /\ st2[j] = d /\ i \in 1..Len(st)
    BY <1>9, <1>11, <2>3
  <2> QED
    BY <1>9, <2>1, <2>2, <2>3
<1>15. Aside(st2, en2)
  BY <1>9, <1>10, <1>12 DEF Aside
<1>16. Aside(en2, st2)
  BY <1>9, <1>10, <1>12 DEF Aside
<1>17. Aside(h, st2)
  BY <1>5, <1>9, <1>13 DEF Aside
<1>18. HoldsApart'
  BY <1>1, <1>4, <1>5, <1>7, <1>9, <1>10, <1>14, <1>15, <1>16, <1>17 DEF HoldsApart
<1>19. Held(st2, en2) \subseteq Held(st, en)
  <2> SUFFICES ASSUME NEW f \in DI!Entries, f \in Held(st2, en2) PROVE f \in Held(st, en)
    BY DEF Held
  <2>1. CASE \E i \in 1..Len(st2) : f \in Tree(st2[i])
    <3>1. PICK i \in 1..Len(st2) : f \in Tree(st2[i])
      BY <2>1
    <3>2. CASE i \in 1..Len(st) /\ st2[i] = st[i]
      BY <3>1, <3>2 DEF Held
    <3>3. CASE st2[i] = d
      BY <1>7, <1>8, <3>1, <3>3 DEF Held
    <3> QED
      BY <1>9, <3>2, <3>3
  <2>2. CASE \E i \in 1..Len(en2) : f \in Tree(en2[i])
    BY <1>7, <2>2 DEF Held
  <2> QED
    BY <2>1, <2>2 DEF Held
<1>20. Counts'
  <2>1. Once(hits) /\ (\A f : Has(hits, f) => DI!Sought(f)) /\ budget \in Int
        /\ ScanBudget - budget <= Cardinality(wanted \ Held(st, en))
    BY <1>3, <1>4 DEF Counts
  <2>2. /\ Cardinality(wanted \ Held(st, en)) <= Cardinality(wanted \ Held(st2, en2))
        /\ Cardinality(wanted \ Held(st, en)) \in Nat /\ Cardinality(wanted \ Held(st2, en2)) \in Nat
    <3>1. PICK H, G : H = Held(st, en) /\ G = Held(st2, en2)
      OBVIOUS
    <3>2. wanted \in SUBSET DI!Plain /\ G \in SUBSET H
      BY <1>3, <1>19, <3>1 DEF SearchInv
    <3> QED
      BY <3>1, <3>2, CountLeft
  <2>3. ScanBudget - budget <= Cardinality(wanted \ Held(st2, en2))
    BY <2>1, <2>2, TreeFacts
  <2>4. wanted' = wanted /\ \A f : DI!Sought(f)' <=> DI!Sought(f)
    BY <1>1, FrozenFacts DEF Frozen
  <2> QED
    BY <1>1, <1>4, <2>1, <2>3, <2>4 DEF Counts
<1>21. ASSUME NEW f, Ahead(ig, st, en, f) PROVE Ahead(ig, st2, en2, f)
  <2>1. CASE Ahead(ig, st, en2, f)
    BY <1>9, <1>6, <2>1 DEF Ahead
  <2>2. CASE d \notin ig /\ f \in ReachIn(ig, d)
    BY <1>9, <2>2 DEF Ahead
  <2> QED
    BY <1>7, <1>8, <1>21, <2>1, <2>2
<1>22. WillFind'
  <2> SUFFICES ASSUME Few', NEW f, f \in ReachIn(ignored', paths'[1]), DI!Sought(f)'
               PROVE  Has(hits', f) \/ Ahead(ignored', stack', entries', f)
    BY DEF WillFind
  <2>1. Few /\ f \in ReachIn(ignored, paths[1]) /\ DI!Sought(f) /\ ignored' = ignored
    BY <1>1, FrozenFacts DEF Frozen
  <2>2. Has(hits, f) \/ Ahead(ignored, stack, entries, f)
    BY <1>3, <2>1 DEF WillFind
  <2> QED
    BY <1>1, <1>4, <1>21, <2>1, <2>2
<1> QED
  BY <1>1, <1>2, <1>3, <1>18, <1>20, <1>22 DEF DiscoveryInv, WalkInv

LEMMA PassFileKeeps ==
    ASSUME DiscoveryInv, DI!PassFile PROVE DiscoveryInv'
<1>1. /\ walking /\ entries # <<>> /\ Head(entries) \in DI!Plain \ wanted
      /\ entries' = Tail(entries) /\ stack' = stack
      /\ Frozen /\ paths' = paths /\ walking' = walking /\ budget' = budget /\ hits' = hits
      /\ files' = files
  BY DEF DI!PassFile, Frozen
<1>2. SearchInv' /\ DoneInv'
  BY <1>1, WalkFrame DEF DiscoveryInv, SearchInv
<1>3. /\ SearchInv /\ paths # <<>> /\ paths[1] \in Dirs /\ HoldsApart /\ Counts /\ WillFind
      /\ \A f : DI!Sought(f) => f \in DI!Plain /\ f \in wanted
  BY <1>1, HeldFacts
<1>4. PICK st, en, en2, h, ig :
          st = stack /\ en = entries /\ en2 = entries' /\ h = hits /\ ig = ignored
  OBVIOUS
<1>5. /\ st \in Seq(Dirs) /\ en \in Seq(DI!Entries) /\ en # <<>> /\ h \in Seq(DI!Plain)
      /\ Alone(st) /\ Alone(en) /\ Aside(st, en) /\ Aside(en, st) /\ Aside(h, st) /\ Aside(h, en)
  BY <1>1, <1>3, <1>4 DEF HoldsApart
<1>6. st \in Seq(DI!Entries)
  BY <1>5, DirsAreEntries
<1>7. /\ en2 \in Seq(DI!Entries) /\ KeepsApart(en2, en) /\ Head(en) = en[1]
      /\ Held(st, en2) \subseteq Held(st, en)
      /\ \A f : Ahead(ig, st, en, f) =>
             Ahead(ig, st, en2, f) \/ (en[1] \notin ig /\ f \in ReachIn(ig, en[1]))
  <2>1. en2 = Tail(en)
    BY <1>1, <1>4
  <2>2. HeadOff(st, en, ig, en2)
    BY <1>5, <1>6, <2>1, HeadDone
  <2> QED
    BY <2>2 DEF HeadOff
<1>8. Alone(en2) /\ Aside(h, en2) /\ Aside(st, en2) /\ Aside(en2, st)
  BY <1>5, <1>7 DEF KeepsApart
<1>9. HoldsApart'
  BY <1>1, <1>4, <1>5, <1>7, <1>8 DEF HoldsApart
<1>10. Counts'
  <2>1. Once(hits) /\ (\A f : Has(hits, f) => DI!Sought(f)) /\ budget \in Int
        /\ ScanBudget - budget <= Cardinality(wanted \ Held(st, en))
    BY <1>3, <1>4 DEF Counts
  <2>2. /\ Cardinality(wanted \ Held(st, en)) <= Cardinality(wanted \ Held(st, en2))
        /\ Cardinality(wanted \ Held(st, en)) \in Nat /\ Cardinality(wanted \ Held(st, en2)) \in Nat
    <3>1. PICK H, G : H = Held(st, en) /\ G = Held(st, en2)
      OBVIOUS
    <3>2. wanted \in SUBSET DI!Plain /\ G \in SUBSET H
      BY <1>3, <1>7, <3>1 DEF SearchInv
    <3> QED
      BY <3>1, <3>2, CountLeft
  <2>3. ScanBudget - budget <= Cardinality(wanted \ Held(st, en2))
    BY <2>1, <2>2, TreeFacts
  <2>4. wanted' = wanted /\ \A f : DI!Sought(f)' <=> DI!Sought(f)
    BY <1>1, FrozenFacts DEF Frozen
  <2> QED
    BY <1>1, <1>4, <2>1, <2>3, <2>4 DEF Counts
<1>11. ASSUME NEW f, DI!Sought(f), Ahead(ig, st, en, f) PROVE Ahead(ig, st, en2, f)
  <2>1. en[1] \in DI!Plain \ wanted /\ f \in wanted
    BY <1>1, <1>3, <1>4, <1>7, <1>11
  <2>2. ReachIn(ig, en[1]) = {en[1]}
    <3>1. DI!Entries \ ig \in SUBSET DI!Entries
      OBVIOUS
    <3> QED
      BY <2>1, <3>1, BelowFile DEF ReachIn
  <2> QED
    BY <1>7, <1>11, <2>1, <2>2
<1>12. WillFind'
  <2> SUFFICES ASSUME Few', NEW f, f \in ReachIn(ignored', paths'[1]), DI!Sought(f)'
               PROVE  Has(hits', f) \/ Ahead(ignored', stack', entries', f)
    BY DEF WillFind
  <2>1. Few /\ f \in ReachIn(ignored, paths[1]) /\ DI!Sought(f) /\ ignored' = ignored
    BY <1>1, FrozenFacts DEF Frozen
  <2>2. Has(hits, f) \/ Ahead(ignored, stack, entries, f)
    BY <1>3, <2>1 DEF WillFind
  <2> QED
    BY <1>1, <1>4, <1>11, <2>1, <2>2
<1> QED
  BY <1>1, <1>2, <1>3, <1>9, <1>10, <1>12 DEF DiscoveryInv, WalkInv

LEMMA ReadFileKeeps ==
    ASSUME DiscoveryInv, DI!ReadFile PROVE DiscoveryInv'
<1>1. /\ walking /\ entries # <<>> /\ Head(entries) \in wanted
      /\ budget' = budget - 1
      /\ hits' = IF budget' > 0 /\ (everything \/ Head(entries) \in matching)
                 THEN Append(hits, Head(entries)) ELSE hits
      /\ entries' = IF budget' <= 0 \/ Len(hits') >= FileLimit THEN <<>> ELSE Tail(entries)
      /\ Frozen /\ paths' = paths /\ walking' = walking /\ stack' = stack /\ files' = files
  BY DEF DI!ReadFile, Frozen
<1>2. SearchInv' /\ DoneInv'
  BY <1>1, WalkFrame DEF DiscoveryInv, SearchInv
<1>3. /\ SearchInv /\ paths # <<>> /\ paths[1] \in Dirs /\ HoldsApart /\ Counts /\ WillFind
      /\ wanted \in SUBSET DI!Plain /\ ignored \in SUBSET Dirs
      /\ \A f : DI!Sought(f) => f \in DI!Plain
  BY <1>1, HeldFacts
<1>4. PICK st, en, en2, h, h2, ig, b :
          /\ st = stack /\ en = entries /\ en2 = entries' /\ h = hits /\ h2 = hits' /\ ig = ignored
          /\ b = budget'
  OBVIOUS
<1>5. /\ st \in Seq(Dirs) /\ en \in Seq(DI!Entries) /\ en # <<>> /\ h \in Seq(DI!Plain)
      /\ Alone(st) /\ Alone(en) /\ Aside(st, en) /\ Aside(en, st) /\ Aside(h, st) /\ Aside(h, en)
  BY <1>1, <1>3, <1>4 DEF HoldsApart
<1>6. st \in Seq(DI!Entries)
  BY <1>5, DirsAreEntries
<1>7. PICK t : t = Tail(en)
  OBVIOUS
<1>8. /\ t \in Seq(DI!Entries) /\ KeepsApart(t, en) /\ Head(en) = en[1] /\ 1 \in 1..Len(en)
      /\ \A i \in 1..Len(t) : t[i] = en[i + 1] /\ i + 1 \in 1..Len(en) /\ i + 1 # 1
      /\ Held(st, t) \subseteq Held(st, en)
      /\ \A f : Ahead(ig, st, en, f) =>
             Ahead(ig, st, t, f) \/ (en[1] \notin ig /\ f \in ReachIn(ig, en[1]))
  <2>1. HeadOff(st, en, ig, t)
    BY <1>5, <1>6, <1>7, HeadDone
  <2> QED
    BY <2>1 DEF HeadOff
<1>9. PICK e \in DI!Plain : e = en[1] /\ e \in wanted
  BY <1>1, <1>3, <1>4, <1>8
<1>10. /\ h2 = IF b > 0 /\ DI!Sought(e) THEN Append(h, e) ELSE h
       /\ en2 = IF b <= 0 \/ Len(h2) >= FileLimit THEN <<>> ELSE t
  <2>1. Head(entries) = e
    BY <1>4, <1>8, <1>9
  <2>2. DI!Sought(e) <=> (everything \/ e \in matching)
    BY <1>9 DEF DI!Sought
  <2>3. h2 = IF b > 0 /\ (everything \/ e \in matching) THEN Append(h, e) ELSE h
    BY <1>1, <1>4, <2>1
  <2>4. en2 = IF b <= 0 \/ Len(h2) >= FileLimit THEN <<>> ELSE t
    BY <1>1, <1>4, <1>7
  <2> QED
    BY <2>2, <2>3, <2>4
<1>11. e \in Tree(e) /\ e \in DI!Entries
  BY ReachInTree, TreeFacts
<1>12. /\ \A i \in 1..Len(t) : e \notin Tree(t[i])
       /\ \A i \in 1..Len(st) : e \notin Tree(st[i])
       /\ \A i \in 1..Len(h) : h[i] # e
  <2>1. \A i \in 1..Len(t) : e \notin Tree(t[i])
    BY <1>5, <1>8, <1>9 DEF Alone
  <2>2. \A i \in 1..Len(st) : e \notin Tree(st[i])
    BY <1>5, <1>8, <1>9 DEF Aside
  <2>3. \A i \in 1..Len(h) : h[i] # e
    BY <1>5, <1>8, <1>9, <1>11 DEF Aside
  <2> QED
    BY <2>1, <2>2, <2>3
<1>13. /\ h2 \in Seq(DI!Plain) /\ Once(h2)
       /\ \A x : Has(h2, x) <=> Has(h, x) \/ (h2 # h /\ x = e)
       /\ \A x : Has(h2, x) => DI!Sought(x)
       /\ \A i \in 1..Len(h2) : h2[i] = e \/ \E j \in 1..Len(h) : h2[i] = h[j]
  <2>1. Once(h) /\ \A x : Has(h, x) => DI!Sought(x)
    BY <1>3, <1>4 DEF Counts
  <2>2. CASE h2 = h
    BY <1>5, <2>1, <2>2
  <2>3. CASE h2 # h
    <3>1. DI!Sought(e) /\ h2 = Append(h, e)
      BY <1>10, <2>3
    <3>2. h2 = h \o <<e>> /\ <<e>> \in Seq(DI!Plain)
      BY <1>5, <3>1
    <3>3. ~Has(h, e)
      BY <1>12 DEF Has
    <3>4. h2 \in Seq(DI!Plain) /\ Once(h2)
      BY <1>5, <2>1, <3>2, <3>3, OnceAppend, ConcatFacts
    <3>5. \A x : Has(h2, x) <=> Has(h, x) \/ x = e
      <4> TAKE x
      <4>1. Has(<<e>>, x) <=> x = e
        BY OneHas
      <4> QED
        BY <1>5, <3>2, <4>1, HasConcat
    <3>6. \A i \in 1..Len(h2) : h2[i] = e \/ \E j \in 1..Len(h) : h2[i] = h[j]
      <4> TAKE i \in 1..Len(h2)
      <4>1. Has(h2, h2[i])
        BY DEF Has
      <4>2. Has(h, h2[i]) \/ h2[i] = e
        BY <3>5, <4>1
      <4> QED
        BY <4>2 DEF Has
    <3> QED
      BY <2>1, <2>3, <3>1, <3>4, <3>5, <3>6
  <2> QED
    BY <2>2, <2>3
<1>14. /\ en2 \in Seq(DI!Entries) /\ Alone(en2) /\ Aside(st, en2) /\ Aside(en2, st) /\ Aside(h, en2)
       /\ \A i \in 1..Len(en2) : e \notin Tree(en2[i])
       /\ Held(st, en2) \subseteq Held(st, t)
  <2>1. CASE en2 = t
    <3>1. Alone(t) /\ Aside(h, t) /\ Aside(st, t) /\ Aside(t, st)
      BY <1>5, <1>8 DEF KeepsApart
    <3> QED
      BY <1>8, <1>12, <2>1, <3>1
  <2>2. CASE en2 = <<>>
    <3>1. Len(en2) = 0 /\ 1..Len(en2) = {} /\ en2 \in Seq(DI!Entries)
      BY <2>2
    <3> QED
      BY <3>1 DEF Alone, Aside, Held
  <2> QED
    BY <1>10, <2>1, <2>2
<1>15. Aside(h2, st) /\ Aside(h2, en2)
  <2>1. Aside(h2, st)
    BY <1>5, <1>12, <1>13 DEF Aside
  <2>2. Aside(h2, en2)
    BY <1>13, <1>14 DEF Aside
  <2> QED
    BY <2>1, <2>2
<1>16. HoldsApart'
  BY <1>1, <1>4, <1>5, <1>13, <1>14, <1>15 DEF HoldsApart
<1>17. b \in Int /\ ScanBudget - b <= Cardinality(wanted \ Held(st, en2))
       /\ Cardinality(wanted \ Held(st, en2)) <= Cardinality(wanted)
       /\ Cardinality(wanted \ Held(st, en2)) \in Nat /\ Cardinality(wanted) \in Nat
  <2>1. PICK H, G : H = Held(st, en) /\ G = Held(st, en2)
    OBVIOUS
  <2>2. wanted \in SUBSET DI!Plain /\ G \in SUBSET H
    BY <1>3, <1>8, <1>14, <2>1
  <2>3. e \in wanted \cap H
    BY <1>8, <1>9, <1>11, <2>1 DEF Held
  <2>4. e \notin G
    BY <1>12, <1>14, <2>1 DEF Held
  <2>5. /\ Cardinality(wanted \ H) \in Nat /\ Cardinality(wanted \ G) \in Nat
        /\ Cardinality(wanted \ G) <= Cardinality(wanted) /\ Cardinality(wanted) \in Nat
        /\ Cardinality(wanted \ H) + 1 <= Cardinality(wanted \ G)
    BY <2>2, <2>3, <2>4, CountLeft
  <2>6. budget \in Int /\ ScanBudget - budget <= Cardinality(wanted \ H)
    BY <1>3, <1>4, <2>1 DEF Counts
  <2>7. b \in Int /\ ScanBudget - b <= Cardinality(wanted \ G)
    BY <1>1, <1>4, <2>5, <2>6, TreeFacts
  <2> QED
    BY <2>1, <2>5, <2>7
<1>18. Counts'
  <2>1. wanted' = wanted /\ \A f : DI!Sought(f)' <=> DI!Sought(f)
    BY <1>1, FrozenFacts DEF Frozen
  <2> QED
    BY <1>1, <1>4, <1>13, <1>17, <2>1 DEF Counts
<1>19. ASSUME Few, NEW f, DI!Sought(f), Has(h, f) \/ Ahead(ig, st, en, f)
       PROVE  Has(h2, f) \/ Ahead(ig, st, en2, f)
  <2>1. b > 0
    <3>1. Cardinality(wanted) < ScanBudget /\ ScanBudget \in Int
      BY <1>19, TreeFacts DEF Few
    <3> QED
      BY <1>17, <3>1
  <2>2. CASE Len(h2) >= FileLimit
    BY <1>3, <1>13, <1>19, <2>2, LimitFull
  <2>3. CASE ~(Len(h2) >= FileLimit)
    <3>1. ~(b <= 0)
      BY <1>17, <2>1
    <3>2. en2 = t
      BY <1>10, <2>3, <3>1
    <3>3. CASE Has(h, f)
      BY <1>13, <3>3
    <3>4. CASE Ahead(ig, st, t, f)
      BY <3>2, <3>4
    <3>5. CASE f \in ReachIn(ig, e)
      <4>1. DI!Entries \ ig \in SUBSET DI!Entries
        OBVIOUS
      <4>2. f = e
        BY <3>5, <4>1, BelowFile DEF ReachIn
      <4>3. h2 = Append(h, e)
        BY <1>10, <1>19, <2>1, <4>2
      <4>4. Has(h2, e)
        <5>1. Len(h2) = Len(h) + 1 /\ h2[Len(h) + 1] = e /\ Len(h) + 1 \in 1..Len(h2)
          BY <1>5, <4>3
        <5> QED
          BY <5>1 DEF Has
      <4> QED
        BY <4>2, <4>4
    <3> QED
      BY <1>8, <1>9, <1>19, <3>3, <3>4, <3>5
  <2> QED
    BY <2>2, <2>3
<1>20. WillFind'
  <2> SUFFICES ASSUME Few', NEW f, f \in ReachIn(ignored', paths'[1]), DI!Sought(f)'
               PROVE  Has(hits', f) \/ Ahead(ignored', stack', entries', f)
    BY DEF WillFind
  <2>1. Few /\ f \in ReachIn(ignored, paths[1]) /\ DI!Sought(f) /\ ignored' = ignored
    BY <1>1, FrozenFacts DEF Frozen
  <2>2. Has(hits, f) \/ Ahead(ignored, stack, entries, f)
    BY <1>3, <2>1 DEF WillFind
  <2> QED
    BY <1>1, <1>4, <1>19, <2>1, <2>2
<1> QED
  BY <1>1, <1>2, <1>3, <1>16, <1>18, <1>20 DEF DiscoveryInv, WalkInv

LEMMA BeginWalkKeeps ==
    ASSUME DiscoveryInv, DI!BeginWalk PROVE DiscoveryInv'
<1>1. /\ paths # <<>> /\ Head(paths) \in Dirs /\ walking' = TRUE
      /\ stack' = <<Head(paths)>> /\ entries' = <<>> /\ budget' = ScanBudget /\ hits' = <<>>
      /\ Frozen /\ paths' = paths /\ files' = files
  BY DEF DI!BeginWalk, Frozen
<1>2. SearchInv /\ SearchInv' /\ DoneInv'
  BY <1>1, WalkFrame DEF DiscoveryInv
<1>3. PICK d \in Dirs : d = Head(paths)
  BY <1>1
<1>4. d = paths[1] /\ d \in DI!Entries
  BY <1>1, <1>2, <1>3, TailPart, TreeFacts DEF SearchInv
<1>5. PICK st, no : st = <<d>> /\ no = <<>>
  OBVIOUS
<1>6. /\ st \in Seq(Dirs) /\ Len(st) = 1 /\ st[1] = d /\ 1..Len(st) = {1}
      /\ no \in Seq(DI!Entries) /\ no \in Seq(DI!Plain) /\ Len(no) = 0 /\ 1..Len(no) = {}
  BY <1>5
<1>7. HoldsApart'
  <2>1. Alone(st) /\ Alone(no) /\ Aside(st, no) /\ Aside(no, st) /\ Aside(no, no)
    BY <1>6 DEF Alone, Aside
  <2> QED
    BY <1>1, <1>3, <1>5, <1>6, <2>1 DEF HoldsApart
<1>8. Counts'
  <2>1. Once(no) /\ \A f : ~Has(no, f)
    BY <1>6 DEF Once, Has
  <2>2. PICK H : H = Held(st, no)
    OBVIOUS
  <2>3. Cardinality(wanted \ H) \in Nat
    <3>1. H \in SUBSET H /\ wanted \in SUBSET DI!Plain
      BY <1>2 DEF SearchInv
    <3> QED
      BY <3>1, CountLeft
  <2>4. ScanBudget \in Int /\ ScanBudget - ScanBudget <= Cardinality(wanted \ H)
    BY <2>3, TreeFacts
  <2>5. wanted' = wanted
    BY <1>1 DEF Frozen
  <2> QED
    BY <1>1, <1>3, <1>5, <2>1, <2>2, <2>4, <2>5 DEF Counts
<1>9. WillFind'
  <2> SUFFICES ASSUME NEW f, f \in ReachIn(ignored', paths'[1])
               PROVE  Ahead(ignored', stack', entries', f)
    BY DEF WillFind
  <2>1. f \in ReachIn(ignored', st[1]) /\ 1 \in 1..Len(st)
    BY <1>1, <1>4, <1>6
  <2>2. Ahead(ignored', st, no, f)
    BY <2>1 DEF Ahead
  <2> QED
    BY <1>1, <1>3, <1>5, <2>2
<1> QED
  BY <1>1, <1>2, <1>3, <1>4, <1>7, <1>8, <1>9 DEF DiscoveryInv, WalkInv
-----------------------------------------------------------------------------
(* A path is done with: what it was good for is noted.                       *)
LEMMA PathDone ==
    ASSUME DiscoveryInv, Frozen, paths # <<>>, paths' = Tail(paths), walking' = FALSE,
           NEW found \in Seq(DI!Plain), files' = DI!Added(files, found),
           \A f : Has(found, f) /\ f \in wanted => DI!Sought(f) \/ Has(given, f),
           Few => \A f \in ReachIn(ignored, paths[1]) :
                      DI!Sought(f) /\ f \notin HiddenFrom => Has(found, f)
    PROVE  DiscoveryInv'
<1>1. PICK ps, ps2, gs, fs, fs2, ig :
          /\ ps = paths /\ ps2 = paths' /\ gs = given /\ fs = files /\ fs2 = files' /\ ig = ignored
  OBVIOUS
<1>2. SearchInv /\ DoneInv
  BY DEF DiscoveryInv
<1>3. /\ gs \in Seq(Starts) /\ ps \in Seq(Starts) /\ Len(ps) <= Len(gs) /\ ps # <<>>
      /\ \A i \in 1..Len(ps) : ps[i] = gs[Len(gs) - Len(ps) + i]
      /\ fs \in Seq(DI!Plain) /\ Once(fs)
      /\ \A f : Has(fs, f) => f \in wanted /\ (DI!Sought(f) \/ Has(gs, f))
  BY <1>1, <1>2 DEF SearchInv
<1>4. /\ ps2 \in Seq(Starts) /\ Len(ps2) = Len(ps) - 1 /\ Len(ps) \in Nat \ {0}
      /\ \A i \in 1..Len(ps) - 1 : ps2[i] = ps[i + 1]
  <2>1. ps2 = Tail(ps)
    BY <1>1
  <2> QED
    BY <1>3, <2>1, TailPart
<1>5. Len(gs) \in Nat
  BY <1>3
<1>6. \A i \in 1..Len(ps2) : ps2[i] = gs[Len(gs) - Len(ps2) + i]
  <2> TAKE i \in 1..Len(ps2)
  <2>1. i \in 1..Len(ps) - 1 /\ i + 1 \in 1..Len(ps)
        /\ Len(gs) - Len(ps) + (i + 1) = Len(gs) - Len(ps2) + i
    BY <1>4, <1>5
  <2>2. ps[i + 1] = gs[Len(gs) - Len(ps) + (i + 1)]
    BY <1>3, <2>1
  <2> QED
    BY <1>4, <2>1, <2>2
<1>7. /\ fs2 \in Seq(DI!Plain) /\ Once(fs2)
      /\ \A f : Has(fs2, f) <=> Has(fs, f) \/ (f \in wanted /\ Has(found, f))
  <2>1. fs2 = DI!Added(fs, found)
    BY <1>1
  <2> QED
    BY <1>3, <2>1, AddedOnce
<1>8. \A f : Has(fs2, f) => f \in wanted /\ (DI!Sought(f) \/ Has(gs, f))
  BY <1>1, <1>3, <1>7
<1>9. /\ wanted' = wanted /\ matching' = matching /\ ignored' = ignored /\ given' = given
      /\ everything' = everything /\ \A f : DI!Sought(f)' <=> DI!Sought(f)
  BY FrozenFacts DEF Frozen
<1>10. SearchInv'
  <2>1. Len(ps2) <= Len(gs)
    BY <1>3, <1>4, <1>5
  <2> QED
    BY <1>1, <1>2, <1>3, <1>4, <1>6, <1>7, <1>8, <1>9, <2>1 DEF SearchInv
<1>11. ASSUME Few, NEW k \in 1..Len(gs) - Len(ps2), NEW f, f \in ReachIn(ig, gs[k]),
              DI!Sought(f), f \notin HiddenFrom
       PROVE  Has(fs2, f)
  <2>1. CASE k \in 1..Len(gs) - Len(ps)
    <3>1. Has(fs, f)
      BY <1>1, <1>2, <1>11, <2>1 DEF DoneInv
    <3> QED
      BY <1>7, <3>1
  <2>2. CASE k = Len(gs) - Len(ps) + 1
    <3>1. 1 \in 1..Len(ps)
      BY <1>4
    <3>2. gs[k] = ps[1]
      BY <1>3, <2>2, <3>1
    <3>3. Has(found, f)
      BY <1>1, <1>11, <3>2
    <3>4. f \in wanted
      BY <1>11 DEF DI!Sought
    <3> QED
      BY <1>7, <3>3, <3>4
  <2>3. k \in 1..Len(gs) - Len(ps) \/ k = Len(gs) - Len(ps) + 1
    <3>1. PICK a, b, c : a = Len(gs) /\ b = Len(ps) /\ c = Len(ps2)
      OBVIOUS
    <3>2. a \in Nat /\ b \in Nat /\ c = b - 1 /\ k \in 1..a - c
      BY <1>4, <1>5, <1>11, <3>1
    <3>3. k \in 1..a - b \/ k = a - b + 1
      BY <3>2
    <3> QED
      BY <3>1, <3>3
  <2> QED
    BY <2>1, <2>2, <2>3
<1>12. DoneInv'
  <2> SUFFICES ASSUME Few', NEW k \in 1..Len(given') - Len(paths'),
                      NEW f, f \in ReachIn(ignored', given'[k]), DI!Sought(f)', f \notin HiddenFrom
               PROVE  Has(files', f)
    BY DEF DoneInv
  <2>1. Few
    BY FrozenFacts
  <2>2. DI!Sought(f) /\ k \in 1..Len(gs) - Len(ps2) /\ f \in ReachIn(ig, gs[k])
    BY <1>1, <1>9
  <2> QED
    BY <1>1, <1>11, <2>1, <2>2
<1> QED
  BY <1>10, <1>12 DEF DiscoveryInv, WalkInv

(* The path that is gone through is one of those given.                      *)
LEMMA FirstPath ==
    ASSUME DiscoveryInv, paths # <<>>
    PROVE  /\ Head(paths) = paths[1] /\ paths[1] \in Starts /\ paths[1] \in DI!Entries
           /\ Has(given, paths[1]) /\ files \in Seq(DI!Plain)
<1>1. SearchInv
  BY DEF DiscoveryInv
<1>2. paths \in Seq(Starts) /\ given \in Seq(Starts) /\ Len(paths) <= Len(given)
  BY <1>1 DEF SearchInv
<1>3. Head(paths) = paths[1] /\ paths[1] \in Starts /\ 1 \in 1..Len(paths) /\ Len(paths) \in Nat \ {0}
  BY <1>2, TailPart
<1>4. paths[1] = given[Len(given) - Len(paths) + 1]
  BY <1>1, <1>3 DEF SearchInv
<1>5. Len(given) - Len(paths) + 1 \in 1..Len(given)
  BY <1>2, <1>3
<1>6. Has(given, paths[1])
  BY <1>4, <1>5 DEF Has
<1> QED
  BY <1>1, <1>3, <1>6, TreeFacts DEF SearchInv

LEMMA FilePathKeeps ==
    ASSUME DiscoveryInv, DI!FilePath PROVE DiscoveryInv'
<1>1. /\ ~walking /\ paths # <<>> /\ Head(paths) \notin Dirs /\ paths' = Tail(paths)
      /\ files' = DI!Added(files, <<Head(paths)>>) /\ Frozen /\ walking' = walking
  BY DEF DI!FilePath, Frozen
<1>2. PICK e : e = paths[1]
  OBVIOUS
<1>3. e \in DI!Plain /\ Has(given, e) /\ Head(paths) = e
  <2>1. Head(paths) = e /\ e \in DI!Entries /\ Has(given, e)
    BY <1>1, <1>2, FirstPath
  <2> QED
    BY <1>1, <2>1, TreeFacts
<1>4. PICK found : found = <<e>>
  OBVIOUS
<1>5. found \in Seq(DI!Plain) /\ \A f : Has(found, f) <=> f = e
  BY <1>3, <1>4, OneHas
<1>6. ReachIn(ignored, paths[1]) = {e}
  <2>1. DI!Entries \ ignored \in SUBSET DI!Entries
    OBVIOUS
  <2> QED
    BY <1>2, <1>3, <2>1, BelowFile DEF ReachIn
<1>7. walking' = FALSE
  BY <1>1 DEF DiscoveryInv, SearchInv
<1>8. files' = DI!Added(files, found)
  BY <1>1, <1>3, <1>4
<1>9. \A f : Has(found, f) => Has(given, f)
  BY <1>3, <1>5
<1>10. \A f \in ReachIn(ignored, paths[1]) : Has(found, f)
  BY <1>5, <1>6
<1> QED
  BY <1>1, <1>5, <1>7, <1>8, <1>9, <1>10, PathDone

LEMMA RipgrepKeeps ==
    ASSUME DiscoveryInv, DI!Ripgrep PROVE DiscoveryInv'
<1>1. PICK shown : shown = (DI!Under(Head(paths)) \cap matching) \ HiddenFrom
  OBVIOUS
<1>2. /\ ~walking /\ paths # <<>> /\ ~everything /\ paths' = Tail(paths)
      /\ files' = DI!Added(files, DI!SetToSeq(shown)) /\ Frozen /\ walking' = walking
  BY <1>1 DEF DI!Ripgrep, Frozen
<1>3. Head(paths) = paths[1] /\ paths[1] \in DI!Entries
  BY <1>2, FirstPath
<1>4. shown \in SUBSET DI!Plain /\ IsFiniteSet(shown)
  <2>1. shown \in SUBSET DI!Plain /\ DI!Plain \in SUBSET DI!Entries
    BY <1>1 DEF DI!Under, DI!Plain
  <2>2. shown \in SUBSET DI!Entries
    BY <2>1
  <2> QED
    BY <2>1, <2>2, TreeFacts, FS_Subset
<1>5. PICK found : found = DI!SetToSeq(shown)
  OBVIOUS
<1>6. found \in Seq(DI!Plain) /\ \A f : Has(found, f) <=> f \in shown
  <2>1. Lists(found, shown)
    BY <1>4, <1>5, SetToSeqLists
  <2>2. found \in Seq(shown) /\ \A f : Has(found, f) <=> f \in shown
    BY <2>1 DEF Lists
  <2> QED
    BY <1>4, <2>2
<1>7. walking' = FALSE
  BY <1>2 DEF DiscoveryInv, SearchInv
<1>8. files' = DI!Added(files, found)
  BY <1>2, <1>5
<1>9. \A f : Has(found, f) /\ f \in wanted => DI!Sought(f)
  BY <1>1, <1>6 DEF DI!Sought
<1>10. ASSUME NEW f, f \in ReachIn(ignored, paths[1]), DI!Sought(f), f \notin HiddenFrom
       PROVE  Has(found, f)
  <2>1. f \in Tree(paths[1])
    BY <1>3, <1>10, ReachInTree
  <2>2. f \in DI!Plain /\ f \in matching
    BY <1>2, <1>10 DEF DI!Sought, DiscoveryInv, SearchInv
  <2>3. f \in shown
    BY <1>1, <1>3, <1>10, <2>1, <2>2 DEF DI!Under, Tree
  <2> QED
    BY <1>6, <2>3
<1>11. \A f \in ReachIn(ignored, paths[1]) : DI!Sought(f) /\ f \notin HiddenFrom => Has(found, f)
  BY <1>10
<1> QED
  BY <1>2, <1>6, <1>7, <1>8, <1>9, <1>11, PathDone

LEMMA EndWalkKeeps ==
    ASSUME DiscoveryInv, DI!EndWalk PROVE DiscoveryInv'
<1>1. /\ walking /\ entries = <<>> /\ (stack = <<>> \/ DI!Stops)
      /\ walking' = FALSE /\ paths' = Tail(paths) /\ files' = DI!Added(files, hits) /\ Frozen
  BY DEF DI!EndWalk, Frozen
<1>2. paths # <<>> /\ HoldsApart /\ Counts /\ WillFind /\ SearchInv
  BY <1>1, HeldFacts
<1>3. hits \in Seq(DI!Plain) /\ Once(hits) /\ \A f : Has(hits, f) => DI!Sought(f)
  BY <1>2 DEF HoldsApart, Counts
<1>4. ASSUME Few, NEW f, f \in ReachIn(ignored, paths[1]), DI!Sought(f)
      PROVE  Has(hits, f)
  <2>1. f \in DI!Plain
    BY <1>1, <1>4, HeldFacts
  <2>2. Has(hits, f) \/ Ahead(ignored, stack, entries, f)
    BY <1>2, <1>4 DEF WillFind
  <2>3. CASE stack = <<>>
    <3>1. 1..Len(stack) = {} /\ 1..Len(entries) = {}
      BY <1>1, <2>3
    <3> QED
      BY <2>2, <3>1 DEF Ahead
  <2>4. CASE DI!Stops
    <3>1. PICK H : H = Held(stack, entries)
      OBVIOUS
    <3>2. Cardinality(wanted \ H) <= Cardinality(wanted) /\ Cardinality(wanted \ H) \in Nat
          /\ Cardinality(wanted) \in Nat
      <4>1. H \in SUBSET H /\ wanted \in SUBSET DI!Plain
        BY <1>2 DEF SearchInv
      <4> QED
        BY <4>1, CountLeft
    <3>3. budget \in Int /\ ScanBudget - budget <= Cardinality(wanted \ H)
      BY <1>2, <3>1 DEF Counts
    <3>4. Cardinality(wanted) < ScanBudget /\ ScanBudget \in Nat
      BY <1>4, TreeFacts DEF Few
    <3>5. ~(budget <= 0)
      BY <3>2, <3>3, <3>4
    <3>6. Len(hits) >= FileLimit
      BY <2>4, <3>5 DEF DI!Stops
    <3> QED
      BY <1>3, <1>4, <2>1, <3>6, LimitFull
  <2> QED
    BY <1>1, <2>3, <2>4
<1>5. Few => \A f \in ReachIn(ignored, paths[1]) :
                 DI!Sought(f) /\ f \notin HiddenFrom => Has(hits, f)
  BY <1>4
<1>6. PICK found : found = hits
  OBVIOUS
<1>7. /\ found \in Seq(DI!Plain) /\ files' = DI!Added(files, found)
      /\ \A f : Has(found, f) /\ f \in wanted => DI!Sought(f) \/ Has(given, f)
      /\ Few => \A f \in ReachIn(ignored, paths[1]) :
                    DI!Sought(f) /\ f \notin HiddenFrom => Has(found, f)
  BY <1>1, <1>3, <1>5, <1>6
<1> QED
  BY <1>1, <1>2, <1>7, PathDone

LEMMA DiscoveryInit == DI!Init => DiscoveryInv
<1> SUFFICES ASSUME DI!Init PROVE DiscoveryInv
  OBVIOUS
<1>1. /\ wanted \in SUBSET DI!Plain /\ matching \in SUBSET DI!Plain
      /\ ignored \in SUBSET {d \in Dirs : ParentOf[d] # 0} /\ everything \in BOOLEAN
      /\ paths \in DI!SeqOf(Starts, MaxPaths) /\ given = paths
      /\ walking = FALSE /\ files = <<>>
  BY DEF DI!Init
<1>2. paths \in Seq(Starts) /\ Len(paths) \in Nat
  <2>1. PICK n \in 0..MaxPaths : paths \in [1..n -> Starts]
    BY <1>1 DEF DI!SeqOf
  <2>2. n \in Nat
    BY <2>1, TreeFacts
  <2> QED
    BY <2>1, <2>2
<1>3. files \in Seq(DI!Plain) /\ Once(files) /\ \A f : ~Has(files, f)
  <2>1. files \in Seq(DI!Plain) /\ 1..Len(files) = {}
    BY <1>1
  <2> QED
    BY <2>1 DEF Once, Has
<1>4. ignored \in SUBSET Dirs
  BY <1>1
<1>5. \A i \in 1..Len(paths) : paths[i] = given[Len(given) - Len(paths) + i]
  <2>1. \A i \in 1..Len(paths) : Len(paths) - Len(paths) + i = i
    BY <1>2
  <2> QED
    BY <1>1, <2>1
<1>6. SearchInv
  <2>1. given \in Seq(Starts) /\ Len(paths) <= Len(given) /\ walking \in BOOLEAN
    <3>1. given = paths /\ walking = FALSE
      BY <1>1
    <3>2. walking \in BOOLEAN
      BY <3>1
    <3>3. given \in Seq(Starts)
      BY <1>2, <3>1
    <3>4. Len(paths) = Len(given) /\ Len(paths) <= Len(paths)
      BY <1>2, <3>1
    <3> QED
      BY <3>2, <3>3, <3>4
  <2>2. \A f : Has(files, f) => f \in wanted /\ (DI!Sought(f) \/ Has(given, f))
    BY <1>3
  <2> QED
    BY <1>1, <1>2, <1>3, <1>4, <1>5, <2>1, <2>2 DEF SearchInv
<1>7. DoneInv
  <2>1. Len(given) - Len(paths) = 0 /\ 1..0 = {}
    BY <1>1, <1>2
  <2> QED
    BY <2>1 DEF DoneInv
<1> QED
  BY <1>1, <1>6, <1>7 DEF DiscoveryInv, WalkInv

LEMMA DiscoveryKeeps == DiscoveryInv /\ [DI!Next]_DI!discoveryVars => DiscoveryInv'
<1> SUFFICES ASSUME DiscoveryInv, [DI!Next]_DI!discoveryVars PROVE DiscoveryInv'
  OBVIOUS
<1>1. CASE UNCHANGED DI!discoveryVars
  <2>1. Frozen /\ paths' = paths /\ files' = files /\ walking' = walking /\ stack' = stack
        /\ entries' = entries /\ budget' = budget /\ hits' = hits
    BY <1>1 DEF DI!discoveryVars, Frozen
  <2>2. SearchInv' /\ DoneInv'
    BY <2>1, WalkFrame DEF DiscoveryInv, SearchInv
  <2>3. WalkInv'
    <3>1. WalkInv /\ (\A f : DI!Sought(f)' <=> DI!Sought(f)) /\ (Few' <=> Few)
          /\ wanted' = wanted /\ ignored' = ignored
      BY <2>1, FrozenFacts DEF DiscoveryInv, Frozen
    <3>2. HoldsApart' <=> HoldsApart
      BY <2>1 DEF HoldsApart
    <3>3. Counts' <=> Counts
      BY <2>1, <3>1 DEF Counts
    <3>4. WillFind' <=> WillFind
      BY <2>1, <3>1 DEF WillFind
    <3> QED
      BY <2>1, <3>1, <3>2, <3>3, <3>4 DEF WalkInv
  <2> QED
    BY <2>2, <2>3 DEF DiscoveryInv
<1> QED
  BY <1>1, FilePathKeeps, RipgrepKeeps, BeginWalkKeeps, PopDirKeeps, PushDirKeeps,
     PassFileKeeps, ReadFileKeeps, EndWalkKeeps DEF DI!Next

LEMMA DiscoveryDone == DiscoveryInv => SearchedOnce
<1> SUFFICES ASSUME DiscoveryInv, paths = <<>>, ~walking
             PROVE  /\ \A i, j \in 1..Len(files) : files[i] = files[j] => i = j
                    /\ \A f \in DI!Range(files) : DI!Sought(f) \/ (f \in wanted /\ f \in DI!Range(given))
                    /\ DI!Cardinality(wanted) < ScanBudget
                       /\ DI!Cardinality({f \in DI!Plain : DI!Sought(f)}) <= FileLimit
                          => \A f \in DI!Plain \ HiddenFrom, k \in 1..Len(given) :
                                DI!Sought(f) /\ f \in DI!Reach(given[k]) => f \in DI!Range(files)
  BY DEF SearchedOnce, DI!SearchedOnce
<1>1. SearchInv /\ DoneInv
  BY DEF DiscoveryInv
<1>2. files \in Seq(DI!Plain) /\ given \in Seq(Starts) /\ Once(files)
      /\ \A f : Has(files, f) => f \in wanted /\ (DI!Sought(f) \/ Has(given, f))
  BY <1>1 DEF SearchInv
<1>3. \A f : (f \in DI!Range(files) <=> Has(files, f)) /\ (f \in DI!Range(given) <=> Has(given, f))
  BY <1>2, RangeHas
<1>4. ASSUME DI!Cardinality(wanted) < ScanBudget,
             DI!Cardinality({f \in DI!Plain : DI!Sought(f)}) <= FileLimit,
             NEW f \in DI!Plain \ HiddenFrom, NEW k \in 1..Len(given),
             DI!Sought(f), f \in DI!Reach(given[k])
      PROVE  Has(files, f)
  <2>1. Few
    BY <1>4, WalkCardinality DEF Few, Wanted
  <2>2. k \in 1..Len(given) - Len(paths)
    <3>1. Len(given) \in Nat /\ Len(paths) = 0 /\ Len(given) - 0 = Len(given)
      BY <1>2
    <3> QED
      BY <3>1
  <2>3. f \in ReachIn(ignored, given[k])
    BY <1>4 DEF DI!Reach, ReachIn
  <2> QED
    BY <1>1, <1>4, <2>1, <2>2, <2>3 DEF DoneInv
<1> QED
  BY <1>2, <1>3, <1>4 DEF Once

(* A file is searched once, however the paths of a command overlap, by       *)
(* ripgrep or by the walk; no other is searched than those asked for; and    *)
(* while the walk's bounds are not reached, none is left out.                *)
THEOREM FilesSearchedOnce == DI!Spec => []SearchedOnce
<1>1. DI!Spec => []DiscoveryInv
  BY DiscoveryInit, DiscoveryKeeps, PTL DEF DI!Spec
<1> QED
  BY <1>1, DiscoveryDone, PTL

-----------------------------------------------------------------------------
(* Find.                                                                     *)

(* The first column, of the first k matches found in f, of one in line n.    *)
FirstOf(f, n, k, c) ==
    \/ c = 0 /\ \A j \in 1..k : sites[f][j].line # n
    \/ /\ c # 0 /\ \E j \in 1..k : sites[f][j].line = n /\ sites[f][j].col = c
       /\ \A j \in 1..k : sites[f][j].line = n => c <= sites[f][j].col

NoteInv ==
    /\ sources \in [FI!Files -> [lines : Nat \ {0}, newline : BOOLEAN]]
    /\ \A f \in FI!Files : sources[f].lines <= MaxLines[f] /\ sites[f] \in Seq(FI!Site(f))
    /\ context \in Int /\ invert \in BOOLEAN
    /\ file \in 0..Len(MaxLines) + 1 /\ merged \in Nat
    /\ noted \in [FI!Files -> Nat] /\ \A f \in FI!Files : noted[f] <= Len(sites[f])
    /\ file # 0 => \A f \in FI!Files : noted[f] = Len(sites[f])
    /\ DOMAIN matched = FI!Files
    /\ \A f \in FI!Files : matched[f] \in [1..MaxLines[f] -> Nat]
    /\ \A f \in FI!Files : \A n \in 1..sources[f].lines : FirstOf(f, n, noted[f], matched[f][n])

(* The windows of a file are apart from each other, and from what is printed *)
(* of it; with what is printed they are the context of the merged lines.     *)
InWindow(n)     == \E i \in 1..Len(windows) : n \in windows[i].lo..windows[i].hi
DueBy(f, n, m)  == \E k \in 1..Len(sites[f]) :
                       sites[f][k].line <= m /\ sites[f][k].line \in (n - context)..(n + context)
WindowInv ==
    /\ windows \in Seq([lo : Nat, hi : Nat])
    /\ invert \/ file \notin FI!Files => windows = <<>>
    /\ \A i \in 1..Len(windows) : /\ windows[i].lo \in 1..windows[i].hi
                                  /\ windows[i].hi <= sources[file].lines
    /\ \A i, j \in 1..Len(windows) : i < j => windows[i].hi + 1 < windows[j].lo
    /\ windows # <<>> => LET w == windows[Len(windows)]
                         IN  w.hi <= merged + context /\ (w.lo = 1 \/ w.lo <= merged - context)
    /\ \A k \in 1..Len(printed), i \in 1..Len(windows) :
           printed[k].file = file => printed[k].line + 1 < windows[i].lo
    /\ ~invert /\ FI!Unmerged # {} => \A k \in 1..Len(printed) : printed[k].file # file

ShownInv ==
    /\ \A f \in FI!Files : f < file =>
           \A n \in 1..sources[f].lines : FI!Shown(f, n) <=> FI!Due(f, n)
    /\ file \in FI!Files => \A n \in 1..sources[file].lines :
           IF invert THEN FI!Shown(file, n) <=> n <= merged /\ FI!Due(file, n)
           ELSE FI!Shown(file, n) \/ InWindow(n) <=> DueBy(file, n, merged)

PrintedInv ==
    /\ file = 0 => printed = <<>> /\ merged = 0
    /\ printed \in Seq([file : Nat, line : Nat, col : Nat])
    /\ \A k \in 1..Len(printed) : FI!Line(printed[k]) =>
           /\ printed[k].file \in FI!Files /\ printed[k].file <= file
           /\ printed[k].line \in 1..sources[printed[k].file].lines
           /\ printed[k].col = matched[printed[k].file][printed[k].line]
           /\ invert /\ printed[k].file = file => printed[k].line <= merged
    /\ \A j, k \in 1..Len(printed) :
           j < k /\ FI!Line(printed[j]) /\ FI!Line(printed[k]) => FI!Before(printed[j], printed[k])
    /\ \A k \in 1..Len(printed) :
           IF FI!Line(printed[k]) THEN FI!GroupRight(k) ELSE FI!SeparatorRight(k)

FindInv == NoteInv /\ (context >= 0 => WindowInv /\ ShownInv /\ PrintedInv)

LEMMA LeastIs ==
    ASSUME NEW S \in SUBSET Int, NEW m \in S, \A x \in S : m <= x PROVE FI!Min(S) = m
<1> DEFINE P(x) == \A y \in S : x <= y
<1>1. \A x \in S : P(x) => x = m
  OBVIOUS
<1>2. P(m)
  OBVIOUS
<1>3. (CHOOSE x \in S : P(x)) = m
  <2> HIDE DEF P
  <2> QED
    BY <1>1, <1>2
<1> QED
  BY <1>3 DEF FI!Min

LEMMA LesserAndGreater ==
    ASSUME NEW a \in Int, NEW c \in Int
    PROVE  /\ FI!Min({a, c}) = IF a <= c THEN a ELSE c
           /\ FI!Max({a, c}) = IF a >= c THEN a ELSE c
<1>1. {a, c} \in SUBSET Int
  OBVIOUS
<1>2. a <= c => FI!Min({a, c}) = a
  <2> HAVE a <= c
  <2>1. a \in {a, c} /\ \A x \in {a, c} : a <= x
    OBVIOUS
  <2> QED
    BY <1>1, <2>1, LeastIs
<1>3. ~(a <= c) => FI!Min({a, c}) = c
  <2> HAVE ~(a <= c)
  <2>1. c \in {a, c} /\ \A x \in {a, c} : c <= x
    OBVIOUS
  <2> QED
    BY <1>1, <2>1, LeastIs
<1>4. FI!Max({a, c}) = CHOOSE x \in {a, c} : \A y \in {a, c} : x >= y
  BY DEF FI!Max
<1>5. \A x \in {a, c} : (\A y \in {a, c} : x >= y) <=> x >= a /\ x >= c
  OBVIOUS
<1>6. \E x \in {a, c} : \A y \in {a, c} : x >= y
  OBVIOUS
<1>7. FI!Max({a, c}) \in {a, c} /\ FI!Max({a, c}) >= a /\ FI!Max({a, c}) >= c
  BY <1>4, <1>5, <1>6
<1>8. FI!Max({a, c}) = IF a >= c THEN a ELSE c
  BY <1>7
<1> QED
  BY <1>2, <1>3, <1>8

LEMMA FilesFacts ==
    /\ FI!Files = 1..Len(MaxLines) /\ Len(MaxLines) \in Nat /\ 0 \notin FI!Files
    /\ \A f \in FI!Files : MaxLines[f] \in Nat \ {0} /\ MaxSites[f] \in Nat /\ f \in Nat
    /\ MaxCol \in Nat /\ Contexts \subseteq Int
<1>1. FI!Bounds
  BY FindBounds
<1>2. /\ MaxLines \in Seq(Nat \ {0}) /\ MaxSites \in [FI!Files -> Nat]
      /\ MaxCol \in Nat /\ Contexts \subseteq Int
  BY <1>1 DEF FI!Bounds
<1>3. FI!Files = 1..Len(MaxLines) /\ Len(MaxLines) \in Nat
  BY <1>2 DEF FI!Files
<1> QED
  BY <1>2, <1>3

LEMMA FirstColFacts ==
    ASSUME NEW old \in Nat, NEW col \in Nat \ {0}
    PROVE  /\ FI!FirstCol(old, col) \in Nat \ {0}
           /\ FI!FirstCol(old, col) = IF old = 0 \/ col <= old THEN col ELSE old
<1>1. old \in Int /\ col \in Int
  OBVIOUS
<1>2. FI!Min({old, col}) = IF old <= col THEN old ELSE col
  BY <1>1, LesserAndGreater
<1> QED
  BY <1>2 DEF FI!FirstCol

LEMMA SiteFacts ==
    ASSUME NoteInv, NEW f \in FI!Files, NEW k \in 1..Len(sites[f])
    PROVE  /\ sites[f][k].line \in 1..sources[f].lines /\ sites[f][k].col \in 1..MaxCol
           /\ sources[f].lines \in Nat \ {0} /\ sites[f][k].line \in Nat \ {0}
           /\ sites[f][k].col \in Nat \ {0} /\ Len(sites[f]) \in Nat
<1>1. sites[f] \in Seq(FI!Site(f)) /\ sources[f] \in [lines : Nat \ {0}, newline : BOOLEAN]
  BY DEF NoteInv
<1>2. sites[f][k] \in FI!Site(f) /\ Len(sites[f]) \in Nat
  BY <1>1
<1>3. sites[f][k] \in [line : 1..sources[f].lines, col : 1..MaxCol]
  BY <1>2 DEF FI!Site
<1>4. sites[f][k].line \in 1..sources[f].lines /\ sites[f][k].col \in 1..MaxCol
  BY <1>3
<1>5. sources[f].lines \in Nat \ {0}
  BY <1>1
<1> QED
  BY <1>2, <1>4, <1>5, FilesFacts

LEMMA NoteSiteKeeps ==
    ASSUME NoteInv, NEW f \in FI!Files, FI!NoteSite(f) PROVE NoteInv'
<1>1. PICK s : s = sites[f][noted[f] + 1]
  OBVIOUS
<1>2. /\ file = 0 /\ noted[f] < Len(sites[f]) /\ noted' = [noted EXCEPT ![f] = @ + 1]
      /\ matched' = [matched EXCEPT ![f][s.line] = FI!FirstCol(@, s.col)]
      /\ sources' = sources /\ sites' = sites /\ context' = context /\ invert' = invert
      /\ file' = file /\ merged' = merged
  BY <1>1 DEF FI!NoteSite
<1>3. PICK n : n = noted[f]
  OBVIOUS
<1>4. n \in Nat /\ Len(sites[f]) \in Nat /\ n + 1 \in 1..Len(sites[f])
  <2>1. noted \in [FI!Files -> Nat] /\ sites[f] \in Seq(FI!Site(f))
    BY DEF NoteInv
  <2>2. n \in Nat /\ Len(sites[f]) \in Nat
    BY <1>3, <2>1
  <2> QED
    BY <1>2, <1>3, <2>2
<1>5. s.line \in 1..sources[f].lines /\ s.col \in Nat \ {0} /\ sources[f].lines \in Nat
  BY <1>1, <1>3, <1>4, SiteFacts
<1>6. PICK row : row = matched[f]
  OBVIOUS
<1>7. row \in [1..MaxLines[f] -> Nat] /\ s.line \in 1..MaxLines[f]
  <2>1. row \in [1..MaxLines[f] -> Nat] /\ sources[f].lines <= MaxLines[f]
    BY <1>6 DEF NoteInv
  <2> QED
    BY <1>5, <2>1, FilesFacts
<1>8. PICK c : c = FI!FirstCol(row[s.line], s.col)
  OBVIOUS
<1>9. c \in Nat \ {0} /\ c = IF row[s.line] = 0 \/ s.col <= row[s.line] THEN s.col ELSE row[s.line]
  <2>1. row[s.line] \in Nat
    BY <1>7
  <2> QED
    BY <1>5, <1>8, <2>1, FirstColFacts
<1>10. PICK row2 : row2 = [row EXCEPT ![s.line] = c]
  OBVIOUS
<1>11. /\ row2 \in [1..MaxLines[f] -> Nat] /\ row2[s.line] = c
       /\ \A m \in 1..MaxLines[f] : m # s.line => row2[m] = row[m]
  BY <1>7, <1>9, <1>10
<1>12. DOMAIN matched = FI!Files /\ matched' = [matched EXCEPT ![f] = row2]
  BY <1>2, <1>6, <1>8, <1>10 DEF NoteInv
<1>13. DOMAIN matched' = FI!Files /\ matched'[f] = row2
       /\ \A g \in FI!Files : g # f => matched'[g] = matched[g]
  BY <1>12
<1>14. noted' \in [FI!Files -> Nat] /\ noted'[f] = n + 1 /\ \A g \in FI!Files : g # f => noted'[g] = noted[g]
  <2>1. noted \in [FI!Files -> Nat]
    BY DEF NoteInv
  <2> QED
    BY <1>2, <1>3, <1>4, <2>1
<1>15. ASSUME NEW m \in 1..sources[f].lines PROVE FirstOf(f, m, n + 1, row2[m])
  <2>1. FirstOf(f, m, n, row[m])
    BY <1>3, <1>6 DEF NoteInv
  <2>2. m \in 1..MaxLines[f] /\ row[m] \in Nat
    <3>1. sources[f].lines <= MaxLines[f]
      BY DEF NoteInv
    <3>2. m \in 1..MaxLines[f]
      BY <1>5, <3>1, FilesFacts
    <3> QED
      BY <1>7, <3>2
  <2>3. \A j \in 1..n + 1 : j \in 1..n \/ (j = n + 1 /\ sites[f][j] = s)
    BY <1>1, <1>3, <1>4
  <2>4. \A j \in 1..n : j \in 1..n + 1
    BY <1>4
  <2>5. n + 1 \in 1..n + 1 /\ sites[f][n + 1] = s
    BY <1>1, <1>3, <1>4
  <2>6. CASE m # s.line
    <3>1. row2[m] = row[m]
      BY <1>11, <2>2, <2>6
    <3> QED
      BY <2>1, <2>3, <2>4, <2>6, <3>1 DEF FirstOf
  <2>7. CASE m = s.line /\ row[m] = 0
    <3>1. row2[m] = s.col /\ s.col # 0
      BY <1>5, <1>9, <1>11, <2>7
    <3>2. \A j \in 1..n : sites[f][j].line # m
      BY <2>1, <2>7 DEF FirstOf
    <3>3. s.col <= s.col
      BY <1>5
    <3> QED
      BY <2>3, <2>5, <2>7, <3>1, <3>2, <3>3 DEF FirstOf
  <2>8. CASE m = s.line /\ row[m] # 0
    <3>1. /\ \E j \in 1..n : sites[f][j].line = m /\ sites[f][j].col = row[m]
          /\ \A j \in 1..n : sites[f][j].line = m => row[m] <= sites[f][j].col
      BY <2>1, <2>8 DEF FirstOf
    <3>2. row2[m] = c /\ c # 0
      BY <1>9, <1>11, <2>8
    <3>3. \A j \in 1..n : sites[f][j].col \in Nat
      <4> TAKE j \in 1..n
      <4>1. j \in 1..Len(sites[f])
        BY <1>4
      <4> QED
        BY <4>1, SiteFacts
    <3>4. CASE s.col <= row[m]
      <4>1. c = s.col
        BY <1>9, <2>8, <3>4
      <4>2. \A j \in 1..n : sites[f][j].line = m => c <= sites[f][j].col
        BY <1>5, <2>2, <3>1, <3>3, <3>4, <4>1
      <4>3. c <= s.col
        BY <1>5, <4>1
      <4> QED
        BY <2>3, <2>5, <2>8, <3>2, <4>1, <4>2, <4>3 DEF FirstOf
    <3>5. CASE ~(s.col <= row[m])
      <4>1. c = row[m]
        BY <1>9, <2>8, <3>5
      <4>2. c <= s.col
        BY <1>5, <2>2, <3>5, <4>1
      <4> QED
        BY <2>3, <2>4, <2>8, <3>1, <3>2, <4>1, <4>2 DEF FirstOf
    <3> QED
      BY <3>4, <3>5
  <2> QED
    BY <2>6, <2>7, <2>8
<1>16. ASSUME NEW g \in FI!Files PROVE matched'[g] \in [1..MaxLines[g] -> Nat] /\ noted'[g] <= Len(sites[g])
  <2>1. matched[g] \in [1..MaxLines[g] -> Nat] /\ noted[g] <= Len(sites[g])
    BY DEF NoteInv
  <2>2. n + 1 <= Len(sites[f])
    BY <1>4
  <2> QED
    BY <1>11, <1>13, <1>14, <2>1, <2>2
<1>17. ASSUME NEW g \in FI!Files, NEW m \in 1..sources[g].lines
       PROVE  FirstOf(g, m, noted'[g], matched'[g][m])
  <2>1. FirstOf(g, m, noted[g], matched[g][m])
    BY DEF NoteInv
  <2> QED
    BY <1>13, <1>14, <1>15, <2>1
<1>18. ASSUME NEW g, NEW m, NEW k, NEW d PROVE FirstOf(g, m, k, d)' <=> FirstOf(g, m, k, d)
  BY <1>2 DEF FirstOf
<1>19. \A g \in FI!Files : FI!Site(g)' = FI!Site(g)
  BY <1>2 DEF FI!Site
<1> QED
  BY <1>2, <1>13, <1>14, <1>16, <1>17, <1>18, <1>19 DEF NoteInv

(* Once the files are searched, no step changes what was found. *)
Settled == sources' = sources /\ sites' = sites /\ context' = context /\ invert' = invert
           /\ noted' = noted /\ matched' = matched

LEMMA SettledFacts ==
    ASSUME Settled
    PROVE  /\ \A f, n : FI!Due(f, n)' <=> FI!Due(f, n)
           /\ \A f, n, m : DueBy(f, n, m)' <=> DueBy(f, n, m)
<1>1. \A f, n : FI!Due(f, n)' <=> FI!Due(f, n)
  BY DEF Settled, FI!Due, FI!Limit
<1>2. \A f, n, m : DueBy(f, n, m)' <=> DueBy(f, n, m)
  BY DEF Settled, DueBy
<1> QED
  BY <1>1, <1>2

LEMMA NotedKeeps ==
    ASSUME NoteInv, Settled, file' \in 0..Len(MaxLines) + 1, merged' \in Nat,
           file' # 0 => \A f \in FI!Files : noted[f] = Len(sites[f])
    PROVE  NoteInv'
<1>1. \A f, n, k, c : FirstOf(f, n, k, c)' <=> FirstOf(f, n, k, c)
  BY DEF Settled, FirstOf
<1>2. \A f : FI!Site(f)' = FI!Site(f)
  BY DEF Settled, FI!Site
<1> QED
  BY <1>1, <1>2 DEF NoteInv, Settled

LEMMA FileFacts ==
    ASSUME NoteInv, NEW f \in FI!Files
    PROVE  /\ sources[f].lines \in Nat \ {0} /\ FI!Limit(f) \in Nat /\ FI!Limit(f) <= sources[f].lines
           /\ Len(sites[f]) \in Nat /\ context \in Int /\ merged \in Nat /\ f \in Nat /\ f # 0
           /\ file \in Nat
           /\ \A n \in 1..sources[f].lines : n \in Nat /\ n \in 1..MaxLines[f] /\ matched[f][n] \in Nat
<1>1. sources[f] \in [lines : Nat \ {0}, newline : BOOLEAN] /\ sites[f] \in Seq(FI!Site(f))
      /\ sources[f].lines <= MaxLines[f] /\ matched[f] \in [1..MaxLines[f] -> Nat]
      /\ context \in Int /\ merged \in Nat /\ file \in 0..Len(MaxLines) + 1
  BY DEF NoteInv
<1>2. sources[f].lines \in Nat \ {0} /\ Len(sites[f]) \in Nat /\ file \in Nat
  BY <1>1, FilesFacts
<1>3. FI!Limit(f) \in Nat /\ FI!Limit(f) <= sources[f].lines
  BY <1>2 DEF FI!Limit
<1>4. \A n \in 1..sources[f].lines : n \in Nat /\ n \in 1..MaxLines[f]
  BY <1>1, <1>2, FilesFacts
<1> QED
  BY <1>1, <1>2, <1>3, <1>4, FilesFacts

(* When a file is printed, a line counts as matched where a match is.        *)
LEMMA MatchedLines ==
    ASSUME NoteInv, file # 0, NEW f \in FI!Files, NEW n \in 1..sources[f].lines
    PROVE  matched[f][n] # 0 <=> \E k \in 1..Len(sites[f]) : sites[f][k].line = n
<1>1. FirstOf(f, n, Len(sites[f]), matched[f][n])
  BY DEF NoteInv
<1> QED
  BY <1>1 DEF FirstOf

LEMMA UnmergedFacts ==
    ASSUME NoteInv, file \in FI!Files
    PROVE  /\ FI!Unmerged \in SUBSET Nat
           /\ \A n : n \in FI!Unmerged <=>
                  n \in 1..sources[file].lines /\ n > merged
                  /\ \E k \in 1..Len(sites[file]) : sites[file][k].line = n
           /\ \A k \in 1..Len(sites[file]) :
                  sites[file][k].line <= merged \/ sites[file][k].line \in FI!Unmerged
<1>1. \A n : n \in FI!Unmerged <=> n \in 1..sources[file].lines /\ n > merged /\ matched[file][n] # 0
  BY DEF FI!Unmerged, FI!MatchLines
<1>2. file # 0
  BY FilesFacts
<1>3. \A n \in 1..sources[file].lines :
          matched[file][n] # 0 <=> \E k \in 1..Len(sites[file]) : sites[file][k].line = n
  BY <1>2, MatchedLines
<1>4. \A n : n \in FI!Unmerged <=>
          n \in 1..sources[file].lines /\ n > merged
          /\ \E k \in 1..Len(sites[file]) : sites[file][k].line = n
  BY <1>1, <1>3
<1>5. ASSUME NEW k \in 1..Len(sites[file])
      PROVE  sites[file][k].line <= merged \/ sites[file][k].line \in FI!Unmerged
  <2>1. sites[file][k].line \in 1..sources[file].lines /\ sites[file][k].line \in Nat
    BY SiteFacts
  <2>2. merged \in Nat
    BY DEF NoteInv
  <2>3. sites[file][k].line <= merged \/ sites[file][k].line > merged
    BY <2>1, <2>2
  <2> QED
    BY <1>4, <2>1, <2>3
<1>6. \A n \in FI!Unmerged : n \in Nat
  <2>1. sources[file].lines \in Nat
    BY FileFacts
  <2> QED
    BY <1>4, <2>1
<1>7. FI!Unmerged \in SUBSET Nat
  BY <1>6
<1> QED
  BY <1>4, <1>5, <1>7

LEMMA PrintedTypes ==
    ASSUME PrintedInv
    PROVE  /\ printed \in Seq([file : Nat, line : Nat, col : Nat]) /\ Len(printed) \in Nat
           /\ \A k \in 1..Len(printed) : printed[k] \in [file : Nat, line : Nat, col : Nat]
<1>1. printed \in Seq([file : Nat, line : Nat, col : Nat])
  BY DEF PrintedInv
<1>2. PICK R : R = [file : Nat, line : Nat, col : Nat]
  OBVIOUS
<1>3. printed \in Seq(R)
  BY <1>1, <1>2
<1>4. Len(printed) \in Nat /\ \A k \in 1..Len(printed) : printed[k] \in R
  BY <1>3
<1> QED
  BY <1>1, <1>2, <1>4

(* What is printed, and what it is in, stays. *)
LEMMA PrintedFrame ==
    ASSUME PrintedInv, Settled, printed' = printed, file' \in Nat, file' >= file, file \in Nat,
           file' # 0, invert => file' # file \/ merged' >= merged, merged \in Nat, merged' \in Nat
    PROVE  PrintedInv' /\ \A f, n : FI!Shown(f, n)' <=> FI!Shown(f, n)
<1>1. \A k : (FI!GroupRight(k)' <=> FI!GroupRight(k)) /\ (FI!SeparatorRight(k)' <=> FI!SeparatorRight(k))
  BY DEF Settled, FI!GroupRight, FI!SeparatorRight, FI!Grouped
<1>2. ASSUME NEW k \in 1..Len(printed), FI!Line(printed[k])
      PROVE  /\ printed[k].file \in FI!Files /\ printed[k].file <= file'
             /\ printed[k].line \in 1..sources[printed[k].file].lines
             /\ printed[k].col = matched[printed[k].file][printed[k].line]
             /\ invert /\ printed[k].file = file' => printed[k].line <= merged'
  <2>1. /\ printed[k].file \in FI!Files /\ printed[k].file <= file
        /\ printed[k].line \in 1..sources[printed[k].file].lines
        /\ printed[k].col = matched[printed[k].file][printed[k].line]
        /\ invert /\ printed[k].file = file => printed[k].line <= merged
    BY <1>2 DEF PrintedInv
  <2>2. printed[k] \in [file : Nat, line : Nat, col : Nat]
    BY PrintedTypes
  <2>3. printed[k].file \in Nat /\ printed[k].line \in Nat
    BY <2>2
  <2>4. printed[k].file <= file'
    BY <2>1, <2>3
  <2>5. ASSUME invert, printed[k].file = file' PROVE printed[k].line <= merged'
    <3>1. file' = file
      BY <2>1, <2>3, <2>5
    <3> QED
      BY <2>1, <2>3, <2>5, <3>1
  <2> QED
    BY <2>1, <2>4, <2>5
<1>3. PrintedInv'
  BY <1>1, <1>2 DEF PrintedInv, Settled, FI!Line, FI!Before
<1>4. \A f, n : FI!Shown(f, n)' <=> FI!Shown(f, n)
  BY DEF FI!Shown
<1> QED
  BY <1>3, <1>4

LEMMA NextFileKeeps ==
    ASSUME FindInv, FI!NextFile PROVE FindInv'
<1>1. /\ \A f \in FI!Files : noted[f] = Len(sites[f])
      /\ (file = 0 \/ (file \in FI!Files /\ FI!FileDone)) /\ file' = file + 1 /\ merged' = 0
      /\ Settled /\ windows' = windows /\ printed' = printed
  BY DEF FI!NextFile, Settled
<1>2. NoteInv
  BY DEF FindInv
<1>3. file \in Nat /\ file <= Len(MaxLines) /\ file' \in 0..Len(MaxLines) + 1
      /\ file' # 0 /\ file' > file /\ file' # file /\ file' >= file /\ file' \in Nat
  BY <1>1, FilesFacts
<1>4. merged' = 0 /\ 0 \in Nat /\ merged \in Nat
  BY <1>1, <1>2 DEF NoteInv
<1>5. NoteInv'
  BY <1>1, <1>2, <1>3, <1>4, NotedKeeps
<1> SUFFICES ASSUME context >= 0 PROVE WindowInv' /\ ShownInv' /\ PrintedInv'
  <2>1. context' = context
    BY <1>1 DEF Settled
  <2> QED
    BY <1>5, <2>1 DEF FindInv
<1>6. WindowInv /\ ShownInv /\ PrintedInv
  BY DEF FindInv
<1>7. PrintedInv' /\ \A f, n : FI!Shown(f, n)' <=> FI!Shown(f, n)
  BY <1>1, <1>3, <1>4, <1>6, PrintedFrame
<1>8. \A k \in 1..Len(printed) : printed[k].file # file'
  <2> TAKE k \in 1..Len(printed)
  <2>1. FI!Line(printed[k]) => printed[k].file <= file
    BY <1>6 DEF PrintedInv
  <2>2. printed[k].file \in Nat
    <3>1. printed[k] \in [file : Nat, line : Nat, col : Nat]
      BY <1>6, PrintedTypes
    <3> QED
      BY <3>1
  <2> QED
    BY <1>3, <2>1, <2>2 DEF FI!Line
<1>9. windows = <<>>
  <2>1. file = 0 => file \notin FI!Files
    BY FilesFacts
  <2> QED
    BY <1>1, <1>6, <2>1 DEF WindowInv, FI!FileDone
<1>10. Len(windows) = 0 /\ 1..Len(windows) = {} /\ windows \in Seq([lo : Nat, hi : Nat])
  BY <1>9
<1>11. WindowInv'
  BY <1>1, <1>8, <1>9, <1>10 DEF WindowInv
<1>12. ASSUME NEW f \in FI!Files, f < file', NEW n \in 1..sources[f].lines
       PROVE  FI!Shown(f, n) <=> FI!Due(f, n)
  <2>1. CASE f < file
    BY <1>6, <2>1 DEF ShownInv
  <2>2. CASE f = file /\ invert
    <3>1. FI!Shown(f, n) <=> n <= merged /\ FI!Due(f, n)
      BY <1>6, <2>2 DEF ShownInv
    <3>2. merged >= FI!Limit(f)
      <4>1. file # 0
        BY <2>2, FilesFacts
      <4> QED
        BY <1>1, <2>2, <4>1 DEF FI!FileDone
    <3>3. FI!Due(f, n) => n <= FI!Limit(f)
      BY <2>2 DEF FI!Due
    <3>4. n \in Nat /\ FI!Limit(f) \in Nat
      BY <1>2, FileFacts
    <3> QED
      BY <1>4, <3>1, <3>2, <3>3, <3>4
  <2>3. CASE f = file /\ ~invert
    <3>1. FI!Unmerged = {}
      <4>1. file # 0
        BY <2>3, FilesFacts
      <4> QED
        BY <1>1, <2>3, <4>1 DEF FI!FileDone
    <3>2. ~InWindow(n)
      BY <1>10 DEF InWindow
    <3>3. FI!Shown(f, n) <=> DueBy(f, n, merged)
      BY <1>6, <2>3, <3>2 DEF ShownInv
    <3>4. \A k \in 1..Len(sites[f]) : sites[f][k].line <= merged
      BY <1>2, <2>3, <3>1, UnmergedFacts
    <3> QED
      BY <2>3, <3>3, <3>4 DEF DueBy, FI!Due
  <2>4. f \in Nat /\ f < file + 1
    BY <1>1, <1>12, FilesFacts
  <2>5. f < file \/ f = file
    BY <1>3, <2>4
  <2> QED
    BY <2>1, <2>2, <2>3, <2>5
<1>13. ASSUME file' \in FI!Files, NEW n \in 1..sources[file'].lines
       PROVE  ~FI!Shown(file', n) /\ ~(n <= 0) /\ ~DueBy(file', n, 0)
  <2>1. ~FI!Shown(file', n)
    BY <1>8 DEF FI!Shown
  <2>2. n \in Nat /\ n # 0
    BY <1>2, <1>13, FileFacts
  <2>3. \A k \in 1..Len(sites[file']) : ~(sites[file'][k].line <= 0)
    <3> TAKE k \in 1..Len(sites[file'])
    <3>1. sites[file'][k].line \in Nat \ {0}
      BY <1>2, <1>13, SiteFacts
    <3> QED
      BY <3>1
  <2> QED
    BY <2>1, <2>2, <2>3 DEF DueBy
<1>14. ShownInv'
  <2>1. sources' = sources /\ invert' = invert
    BY <1>1 DEF Settled
  <2>2. \A f \in FI!Files : f < file' =>
            \A n \in 1..sources[f].lines : FI!Shown(f, n)' <=> FI!Due(f, n)'
    BY <1>1, <1>7, <1>12, SettledFacts
  <2>3. \A n : ~InWindow(n)'
    BY <1>1, <1>10 DEF InWindow
  <2>4. PICK g : g = file'
    OBVIOUS
  <2>5. ASSUME g \in FI!Files, NEW n \in 1..sources[g].lines
        PROVE  IF invert THEN FI!Shown(g, n)' <=> n <= 0 /\ FI!Due(g, n)'
               ELSE FI!Shown(g, n)' \/ InWindow(n)' <=> DueBy(g, n, 0)'
    <3>1. ~FI!Shown(g, n) /\ ~(n <= 0) /\ ~DueBy(g, n, 0)
      BY <1>13, <2>4, <2>5
    <3>2. ~FI!Shown(g, n)' /\ ~DueBy(g, n, 0)'
      BY <1>1, <1>7, <3>1, SettledFacts
    <3> QED
      BY <2>3, <3>1, <3>2
  <2>6. (file \in FI!Files)' => \A n \in 1..(sources[file].lines)' :
            IF invert' THEN FI!Shown(file, n)' <=> (n <= merged)' /\ FI!Due(file, n)'
            ELSE FI!Shown(file, n)' \/ InWindow(n)' <=> DueBy(file, n, merged)'
    BY <1>4, <2>1, <2>4, <2>5
  <2> QED
    BY <2>1, <2>2, <2>6 DEF ShownInv
<1> QED
  BY <1>7, <1>11, <1>14

LEMMA WindowTypes ==
    ASSUME NEW ws \in Seq([lo : Nat, hi : Nat])
    PROVE  /\ Len(ws) \in Nat
           /\ \A i \in 1..Len(ws) : ws[i] \in [lo : Nat, hi : Nat] /\ ws[i].lo \in Nat /\ ws[i].hi \in Nat
<1>1. PICK R : R = [lo : Nat, hi : Nat]
  OBVIOUS
<1>2. ws \in Seq(R)
  BY <1>1
<1>3. Len(ws) \in Nat /\ \A i \in 1..Len(ws) : ws[i] \in R
  BY <1>2
<1>4. \A w \in R : w.lo \in Nat /\ w.hi \in Nat
  BY <1>1
<1> QED
  BY <1>1, <1>3, <1>4

LEMMA MergeLineKeeps ==
    ASSUME FindInv, FI!MergeLine PROVE FindInv'
<1>1. PICK m, lo, hi, len, ctx, ws, ws2, k :
          /\ m = FI!Min(FI!Unmerged) /\ len = sources[file].lines /\ ctx = context
          /\ lo = FI!Max({1, m - ctx}) /\ hi = FI!Min({len, m + ctx})
          /\ ws = windows /\ ws2 = windows' /\ k = Len(windows)
  OBVIOUS
<1>2. /\ ~invert /\ FI!Unmerged # {} /\ merged' = m
      /\ ws2 = IF k > 0 /\ FI!Adjoins(ws[k], lo)
               THEN [ws EXCEPT ![k].hi = FI!Max({@, hi})]
               ELSE Append(ws, [lo |-> lo, hi |-> hi])
      /\ Settled /\ file' = file /\ printed' = printed
  BY <1>1 DEF FI!MergeLine, Settled
<1>3. NoteInv /\ file \in FI!Files
  BY <1>2 DEF FindInv, FI!Unmerged
<1>4. len \in Nat \ {0} /\ ctx \in Int /\ merged \in Nat /\ file \in Nat /\ file # 0
  BY <1>1, <1>3, FileFacts
<1>5. m \in FI!Unmerged /\ \A x \in FI!Unmerged : m <= x
  <2>1. FI!Unmerged \in SUBSET Nat
    BY <1>3, UnmergedFacts
  <2>2. PICK x \in FI!Unmerged : \A y \in FI!Unmerged : x <= y
    BY <1>2, <2>1, LeastNumber
  <2>3. FI!Unmerged \in SUBSET Int
    BY <2>1
  <2> QED
    BY <1>1, <2>2, <2>3, LeastIs
<1>6. m \in 1..len /\ m > merged /\ m \in Nat
      /\ \E j \in 1..Len(sites[file]) : sites[file][j].line = m
  <2>1. m \in 1..len /\ m > merged /\ \E j \in 1..Len(sites[file]) : sites[file][j].line = m
    BY <1>1, <1>3, <1>5, UnmergedFacts
  <2> QED
    BY <1>4, <2>1
<1>7. NoteInv'
  <2>1. file' \in 0..Len(MaxLines) + 1 /\ \A f \in FI!Files : noted[f] = Len(sites[f])
    BY <1>2, <1>3, <1>4 DEF NoteInv
  <2> QED
    BY <1>2, <1>3, <1>6, <2>1, NotedKeeps
<1> SUFFICES ASSUME context >= 0 PROVE WindowInv' /\ ShownInv' /\ PrintedInv'
  <2>1. context' = context
    BY <1>2 DEF Settled
  <2> QED
    BY <1>7, <2>1 DEF FindInv
<1>8. WindowInv /\ ShownInv /\ PrintedInv
  BY DEF FindInv
<1>9. PrintedInv' /\ \A f, n : FI!Shown(f, n)' <=> FI!Shown(f, n)
  <2>1. file' \in Nat /\ file' >= file /\ file' # 0 /\ merged' \in Nat
    BY <1>2, <1>4, <1>6
  <2> QED
    BY <1>2, <1>4, <1>8, <2>1, PrintedFrame
<1>10. ctx \in Nat
  BY <1>1, <1>4
<1>11. lo = (IF m - ctx >= 1 THEN m - ctx ELSE 1) /\ hi = (IF len <= m + ctx THEN len ELSE m + ctx)
  <2>1. m - ctx \in Int /\ m + ctx \in Int /\ len \in Int
    BY <1>4, <1>6, <1>10
  <2>2. lo = IF 1 >= m - ctx THEN 1 ELSE m - ctx
    <3>1. PICK a : a = m - ctx
      OBVIOUS
    <3>2. a \in Int /\ 1 \in Int
      BY <2>1, <3>1
    <3>3. FI!Max({1, a}) = IF 1 >= a THEN 1 ELSE a
      BY <3>2, LesserAndGreater
    <3> QED
      BY <1>1, <3>1, <3>3
  <2>3. hi = IF len <= m + ctx THEN len ELSE m + ctx
    BY <1>1, <2>1, LesserAndGreater
  <2> QED
    BY <2>1, <2>2, <2>3
<1>12. lo \in Nat /\ hi \in Nat /\ 1 <= lo /\ lo <= m /\ m <= hi /\ hi <= len /\ hi <= m + ctx
  BY <1>4, <1>6, <1>10, <1>11
<1>13. /\ ws \in Seq([lo : Nat, hi : Nat]) /\ k \in Nat /\ k = Len(ws)
       /\ \A i \in 1..k : /\ ws[i] \in [lo : Nat, hi : Nat] /\ ws[i].lo \in Nat /\ ws[i].hi \in Nat
                          /\ 1 <= ws[i].lo /\ ws[i].lo <= ws[i].hi /\ ws[i].hi <= len
       /\ \A i, j \in 1..k : i < j => ws[i].hi + 1 < ws[j].lo
       /\ k > 0 => ws[k].hi <= merged + ctx /\ (ws[k].lo = 1 \/ ws[k].lo <= merged - ctx)
       /\ \A i \in 1..Len(printed) : printed[i].file # file
  <2>1. ws \in Seq([lo : Nat, hi : Nat]) /\ k = Len(ws)
    BY <1>1, <1>8 DEF WindowInv
  <2>2. k \in Nat /\ \A i \in 1..k : ws[i] \in [lo : Nat, hi : Nat] /\ ws[i].lo \in Nat /\ ws[i].hi \in Nat
    BY <2>1, WindowTypes
  <2>3. \A i \in 1..k : ws[i].lo \in 1..ws[i].hi /\ ws[i].hi <= len
    BY <1>1, <1>8 DEF WindowInv
  <2>4. \A i \in 1..k : 1 <= ws[i].lo /\ ws[i].lo <= ws[i].hi
    BY <2>2, <2>3
  <2>5. \A i, j \in 1..k : i < j => ws[i].hi + 1 < ws[j].lo
    BY <1>1, <1>8 DEF WindowInv
  <2>6. k > 0 => ws # <<>>
    BY <2>1
  <2>7. ws # <<>> => ws[k].hi <= merged + ctx /\ (ws[k].lo = 1 \/ ws[k].lo <= merged - ctx)
    BY <1>1, <1>8 DEF WindowInv
  <2>8. \A i \in 1..Len(printed) : printed[i].file # file
    BY <1>2, <1>8 DEF WindowInv
  <2> QED
    BY <2>1, <2>2, <2>3, <2>4, <2>5, <2>6, <2>7, <2>8
<1>14. PICK k2 : k2 = Len(ws2)
  OBVIOUS
<1>15. /\ ws2 \in Seq([lo : Nat, hi : Nat]) /\ k2 \in Nat \ {0}
       /\ \A i \in 1..k2 : ws2[i].lo \in 1..ws2[i].hi /\ ws2[i].hi <= len
       /\ \A i, j \in 1..k2 : i < j => ws2[i].hi + 1 < ws2[j].lo
       /\ ws2[k2].hi <= m + ctx /\ (ws2[k2].lo = 1 \/ ws2[k2].lo <= m - ctx)
       /\ \A n \in Nat : (\E i \in 1..k2 : n \in ws2[i].lo..ws2[i].hi) <=>
                             (\E i \in 1..k : n \in ws[i].lo..ws[i].hi) \/ n \in lo..hi
  <2>1. CASE k > 0 /\ FI!Adjoins(ws[k], lo)
    <3>1. k \in 1..k /\ lo <= ws[k].hi + 1
      BY <1>13, <2>1 DEF FI!Adjoins
    <3>2. PICK w : w = ws[k]
      OBVIOUS
    <3>3. /\ w \in [lo : Nat, hi : Nat] /\ w.lo \in Nat /\ w.hi \in Nat /\ 1 <= w.lo /\ w.lo <= w.hi
          /\ w.hi <= len /\ w.hi <= merged + ctx /\ (w.lo = 1 \/ w.lo <= merged - ctx)
          /\ lo <= w.hi + 1
      BY <1>13, <2>1, <3>1, <3>2
    <3>4. w.hi <= hi /\ w.lo <= lo /\ (w.lo = 1 \/ w.lo <= m - ctx)
      BY <1>4, <1>6, <1>10, <1>11, <1>12, <3>3
    <3>5. FI!Max({w.hi, hi}) = hi
      <4>1. w.hi \in Int /\ hi \in Int
        BY <1>12, <3>3
      <4>2. FI!Max({w.hi, hi}) = IF w.hi >= hi THEN w.hi ELSE hi
        BY <4>1, LesserAndGreater
      <4> QED
        BY <3>4, <4>1, <4>2
    <3>6. PICK v : v = [w EXCEPT !.hi = hi]
      OBVIOUS
    <3>7. v \in [lo : Nat, hi : Nat] /\ v.lo = w.lo /\ v.hi = hi
      BY <1>12, <3>3, <3>6
    <3>8. ws2 = [ws EXCEPT ![k] = v]
      BY <1>2, <2>1, <3>2, <3>5, <3>6
    <3>9. /\ ws2 \in Seq([lo : Nat, hi : Nat]) /\ k2 = k /\ ws2[k] = v
          /\ \A i \in 1..k : i # k => ws2[i] = ws[i]
      <4>1. PICK R : R = [lo : Nat, hi : Nat]
        OBVIOUS
      <4>2. ws \in Seq(R) /\ v \in R
        BY <1>13, <3>7, <4>1
      <4>3. ws2 \in Seq(R) /\ Len(ws2) = k /\ ws2[k] = v /\ \A i \in 1..k : i # k => ws2[i] = ws[i]
        BY <1>13, <3>1, <3>8, <4>2
      <4> QED
        BY <1>14, <4>1, <4>3
    <3>10. \A i \in 1..k2 : ws2[i].lo \in 1..ws2[i].hi /\ ws2[i].hi <= len
      <4> TAKE i \in 1..k2
      <4>1. CASE i = k
        <5>1. ws2[i].lo = w.lo /\ ws2[i].hi = hi
          BY <3>7, <3>9, <4>1
        <5>2. w.lo \in 1..hi
          BY <1>12, <3>3, <3>4
        <5> QED
          BY <1>12, <5>1, <5>2
      <4>2. CASE i # k
        <5>1. ws2[i] = ws[i] /\ i \in 1..k
          BY <3>9, <4>2
        <5> QED
          BY <1>13, <5>1
      <4> QED
        BY <4>1, <4>2
    <3>11. \A i, j \in 1..k2 : i < j => ws2[i].hi + 1 < ws2[j].lo
      <4> TAKE i, j \in 1..k2
      <4> HAVE i < j
      <4>1. i \in 1..k /\ j \in 1..k /\ i # k
        BY <1>13, <3>9
      <4>2. ws2[j].lo = ws[j].lo /\ ws2[i] = ws[i]
        BY <3>2, <3>7, <3>9, <4>1
      <4> QED
        BY <1>13, <4>1, <4>2
    <3>12. ASSUME NEW n \in Nat
           PROVE  (\E i \in 1..k2 : n \in ws2[i].lo..ws2[i].hi) <=>
                      (\E i \in 1..k : n \in ws[i].lo..ws[i].hi) \/ n \in lo..hi
      <4>1. n \in v.lo..v.hi <=> n \in w.lo..w.hi \/ n \in lo..hi
        BY <1>12, <3>3, <3>4, <3>7
      <4>2. \A i \in 1..k : i # k => (n \in ws2[i].lo..ws2[i].hi <=> n \in ws[i].lo..ws[i].hi)
        BY <3>9
      <4> QED
        BY <3>1, <3>2, <3>9, <4>1, <4>2
    <3>13. ws2[k2].hi <= m + ctx /\ (ws2[k2].lo = 1 \/ ws2[k2].lo <= m - ctx)
      BY <1>12, <3>4, <3>7, <3>9
    <3>14. k2 \in Nat \ {0}
      BY <1>13, <2>1, <3>9
    <3> QED
      BY <3>9, <3>10, <3>11, <3>12, <3>13, <3>14
  <2>2. CASE ~(k > 0 /\ FI!Adjoins(ws[k], lo))
    <3>1. PICK v : v = [lo |-> lo, hi |-> hi]
      OBVIOUS
    <3>2. v \in [lo : Nat, hi : Nat] /\ v.lo = lo /\ v.hi = hi
      BY <1>12, <3>1
    <3>3. ws2 = Append(ws, v)
      BY <1>2, <2>2, <3>1
    <3>4. /\ ws2 \in Seq([lo : Nat, hi : Nat]) /\ k2 = k + 1 /\ ws2[k + 1] = v
          /\ \A i \in 1..k : ws2[i] = ws[i]
      <4>1. PICK R : R = [lo : Nat, hi : Nat]
        OBVIOUS
      <4>2. ws \in Seq(R) /\ v \in R
        BY <1>13, <3>2, <4>1
      <4>3. ws2 \in Seq(R) /\ Len(ws2) = k + 1 /\ ws2[k + 1] = v /\ \A i \in 1..k : ws2[i] = ws[i]
        BY <1>13, <3>3, <4>2
      <4> QED
        BY <1>14, <4>1, <4>3
    <3>5. \A i \in 1..k2 : i \in 1..k \/ i = k + 1
      BY <1>13, <3>4
    <3>6. \A i \in 1..k2 : ws2[i].lo \in 1..ws2[i].hi /\ ws2[i].hi <= len
      <4> TAKE i \in 1..k2
      <4>1. CASE i = k + 1
        <5>1. ws2[i].lo = lo /\ ws2[i].hi = hi
          BY <3>2, <3>4, <4>1
        <5>2. lo \in 1..hi
          BY <1>6, <1>12
        <5> QED
          BY <1>12, <5>1, <5>2
      <4>2. CASE i \in 1..k
        BY <1>13, <3>4, <4>2
      <4> QED
        BY <3>5, <4>1, <4>2
    <3>7. \A i \in 1..k : ws[i].hi + 1 < lo
      <4> TAKE i \in 1..k
      <4>1. k > 0 /\ k \in 1..k
        BY <1>13
      <4>2. ws[k].hi + 1 < lo
        BY <1>12, <1>13, <2>2, <4>1 DEF FI!Adjoins
      <4>3. i = k \/ (i < k /\ ws[i].hi + 1 < ws[k].lo)
        BY <1>13, <4>1
      <4> QED
        BY <1>12, <1>13, <4>1, <4>2, <4>3
    <3>8. \A i, j \in 1..k2 : i < j => ws2[i].hi + 1 < ws2[j].lo
      <4> TAKE i, j \in 1..k2
      <4> HAVE i < j
      <4>1. i \in 1..k
        BY <1>13, <3>4
      <4>2. CASE j \in 1..k
        BY <1>13, <3>4, <4>1, <4>2
      <4>3. CASE j = k + 1
        BY <3>2, <3>4, <3>7, <4>1, <4>3
      <4> QED
        BY <3>5, <4>2, <4>3
    <3>9. ws2[k2].hi <= m + ctx /\ (ws2[k2].lo = 1 \/ ws2[k2].lo <= m - ctx)
      BY <1>6, <1>10, <1>11, <1>12, <3>2, <3>4
    <3>10. ASSUME NEW n \in Nat
           PROVE  (\E i \in 1..k2 : n \in ws2[i].lo..ws2[i].hi) <=>
                      (\E i \in 1..k : n \in ws[i].lo..ws[i].hi) \/ n \in lo..hi
      <4>1. k + 1 \in 1..k2 /\ \A i \in 1..k : i \in 1..k2
        BY <1>13, <3>4
      <4> QED
        BY <3>2, <3>4, <3>5, <4>1
    <3>11. k2 \in Nat \ {0}
      BY <1>13, <3>4
    <3> QED
      BY <3>4, <3>6, <3>8, <3>9, <3>10, <3>11
  <2> QED
    BY <2>1, <2>2
<1>16. WindowInv'
  <2>1. sources' = sources /\ context' = context /\ invert' = invert
    BY <1>2 DEF Settled
  <2> QED
    BY <1>1, <1>2, <1>3, <1>13, <1>14, <1>15, <2>1 DEF WindowInv
<1>17. ASSUME NEW n \in 1..len
       PROVE  FI!Shown(file, n) \/ InWindow(n)' <=> DueBy(file, n, m)
  <2>1. n \in Nat
    BY <1>4
  <2>2. ~FI!Shown(file, n)
    BY <1>13 DEF FI!Shown
  <2>3. InWindow(n)' <=> InWindow(n) \/ n \in lo..hi
    BY <1>1, <1>14, <1>15, <2>1 DEF InWindow
  <2>4. InWindow(n) <=> DueBy(file, n, merged)
    BY <1>1, <1>2, <1>3, <1>8, <2>2 DEF ShownInv
  <2>5. n \in lo..hi <=> m \in (n - ctx)..(n + ctx)
    BY <1>4, <1>6, <1>10, <1>11, <1>12, <2>1
  <2>6. \A j \in 1..Len(sites[file]) :
            sites[file][j].line \in Nat
            /\ (sites[file][j].line <= m <=> sites[file][j].line <= merged \/ sites[file][j].line = m)
    <3> TAKE j \in 1..Len(sites[file])
    <3>1. sites[file][j].line \in Nat
      BY <1>3, SiteFacts
    <3>2. sites[file][j].line <= merged \/ m <= sites[file][j].line
      BY <1>3, <1>5, UnmergedFacts
    <3> QED
      BY <1>4, <1>6, <3>1, <3>2
  <2>7. DueBy(file, n, m) <=> DueBy(file, n, merged) \/ m \in (n - ctx)..(n + ctx)
    BY <1>1, <1>6, <2>6 DEF DueBy
  <2> QED
    BY <2>2, <2>3, <2>4, <2>5, <2>7
<1>18. ShownInv'
  <2>1. sources' = sources /\ invert' = invert
    BY <1>2 DEF Settled
  <2>2. \A f \in FI!Files : f < file =>
            \A n \in 1..sources[f].lines : FI!Shown(f, n)' <=> FI!Due(f, n)'
    BY <1>2, <1>8, <1>9, SettledFacts DEF ShownInv
  <2>3. PICK g : g = file
    OBVIOUS
  <2>4. \A n \in 1..sources[g].lines : FI!Shown(g, n)' \/ InWindow(n)' <=> DueBy(g, n, m)'
    BY <1>1, <1>2, <1>9, <1>17, <2>3, SettledFacts
  <2> QED
    BY <1>2, <2>1, <2>2, <2>3, <2>4 DEF ShownInv
<1> QED
  BY <1>9, <1>16, <1>18

(* What is printed grows by the lines from lo on, c of them, of the file, s  *)
(* separators before them.                                                   *)
Grows(p2, s, lo, c) ==
    /\ p2 \in Seq([file : Nat, line : Nat, col : Nat]) /\ Len(p2) = Len(printed) + s + c
    /\ s \in {0, 1} /\ c \in Nat \ {0} /\ lo \in Nat \ {0}
    /\ \A k \in 1..Len(printed) : p2[k] = printed[k]
    /\ s = 1 => p2[Len(printed) + 1] = FI!Separator
    /\ \A k \in 1..c : p2[Len(printed) + s + k] = FI!LineOf(file, lo + k - 1)

LEMMA GrowsParts ==
    ASSUME PrintedInv, NEW p2, NEW s, NEW lo, NEW c, Grows(p2, s, lo, c)
    PROVE  /\ Len(printed) \in Nat /\ Len(p2) \in Nat
           /\ \A k \in 1..Len(p2) : \/ k \in 1..Len(printed) /\ p2[k] = printed[k]
                                    \/ s = 1 /\ k = Len(printed) + 1 /\ p2[k] = FI!Separator
                                    \/ \E j \in 1..c : k = Len(printed) + s + j
                                                       /\ p2[k] = FI!LineOf(file, lo + j - 1)
<1>1. PICK q : q = Len(printed)
  OBVIOUS
<1>2. q \in Nat
  BY <1>1, PrintedTypes
<1>3. /\ Len(p2) = q + s + c /\ s \in {0, 1} /\ c \in Nat
      /\ \A k \in 1..q : p2[k] = printed[k]
      /\ s = 1 => p2[q + 1] = FI!Separator
      /\ \A k \in 1..c : p2[q + s + k] = FI!LineOf(file, lo + k - 1)
  BY <1>1 DEF Grows
<1>4. ASSUME NEW k \in 1..q + s + c
      PROVE  \/ k \in 1..q
             \/ s = 1 /\ k = q + 1
             \/ \E j \in 1..c : k = q + s + j
  <2>1. k \in Int /\ k >= 1 /\ k <= q + s + c /\ s \in Int
    BY <1>2, <1>3
  <2>2. CASE k > q + s
    <3>1. k - (q + s) \in 1..c /\ k = q + s + (k - (q + s))
      BY <1>2, <1>3, <2>1, <2>2, SMTT(20)
    <3> QED
      BY <3>1
  <2>3. CASE k <= q + s
    BY <1>2, <1>3, <2>1, <2>3
  <2> QED
    BY <1>2, <1>3, <2>1, <2>2, <2>3
<1>5. \A k \in 1..Len(p2) : \/ k \in 1..q /\ p2[k] = printed[k]
                            \/ s = 1 /\ k = q + 1 /\ p2[k] = FI!Separator
                            \/ \E j \in 1..c : k = q + s + j /\ p2[k] = FI!LineOf(file, lo + j - 1)
  BY <1>3, <1>4
<1>6. Len(p2) \in Nat
  BY <1>2, <1>3
<1> QED
  BY <1>1, <1>2, <1>5, <1>6

LEMMA LineFacts ==
    ASSUME NEW f, NEW n
    PROVE  /\ FI!LineOf(f, n).file = f /\ FI!LineOf(f, n).line = n
           /\ FI!LineOf(f, n).col = matched[f][n]
           /\ FI!Separator.file = 0 /\ ~FI!Line(FI!Separator)
           /\ f # 0 => FI!Line(FI!LineOf(f, n))
  BY DEF FI!LineOf, FI!Separator, FI!Line

LEMMA PrintedGrows ==
    ASSUME NoteInv, PrintedInv, Settled, file \in FI!Files, file' = file,
           NEW s, NEW lo, NEW c, Grows(printed', s, lo, c),
           lo + c - 1 <= sources[file].lines,
           invert => merged' >= merged /\ lo + c - 1 <= merged', merged' \in Nat,
           \A k \in 1..Len(printed) : printed[k].file = file => printed[k].line < lo,
           s = 0 => printed = <<>> \/ ~FI!Grouped,
           s = 1 => printed # <<>> /\ FI!Grouped
                    /\ \A k \in 1..Len(printed) : printed[k].file = file => printed[k].line + 1 < lo
    PROVE  /\ PrintedInv'
           /\ \A f \in FI!Files : \A n :
                  FI!Shown(f, n)' <=> FI!Shown(f, n) \/ (f = file /\ n \in lo..lo + c - 1)
<1>1. PICK p, p2, q, g : p = printed /\ p2 = printed' /\ q = Len(printed) /\ g = file
  OBVIOUS
<1>2. /\ q \in Nat /\ s \in {0, 1} /\ s \in Int /\ c \in Nat \ {0} /\ lo \in Nat \ {0} /\ Len(p2) = q + s + c
      /\ p2 \in Seq([file : Nat, line : Nat, col : Nat])
      /\ \A k \in 1..q : p2[k] = p[k]
      /\ s = 1 => p2[q + 1] = FI!Separator
      /\ \A k \in 1..c : p2[q + s + k] = FI!LineOf(g, lo + k - 1)
      /\ Len(p2) \in Nat
  BY <1>1, PrintedTypes DEF Grows
<1>12. /\ q \in Nat /\ s \in Nat /\ (s = 0 \/ s = 1) /\ c \in Nat /\ 1 <= c /\ Len(p2) = q + s + c
       /\ Len(p2) \in Nat /\ q < Len(p2) /\ q + s < Len(p2) /\ lo \in Nat /\ 1 <= lo
       /\ \A k \in 1..q : k \in Nat /\ k \in 1..Len(p2) /\ k < Len(p2) /\ 1 <= k /\ k <= q
       /\ \A k \in 1..c : q + s + k \in 1..Len(p2) /\ k \in Nat
  <2>1. PICK L : L = Len(p2)
    OBVIOUS
  <2>2. q \in Nat /\ (s = 0 \/ s = 1) /\ c \in Nat /\ c # 0 /\ lo \in Nat /\ lo # 0 /\ L = q + s + c
    BY <1>2, <2>1
  <2>3. L \in Nat /\ q < L /\ q + s < L /\ 1 <= c /\ 1 <= lo /\ s \in Nat
    BY <2>2
  <2>4. \A k \in 1..q : k \in Nat /\ k \in 1..L /\ k < L /\ 1 <= k /\ k <= q
    BY <2>2, <2>3
  <2>5. \A k \in 1..c : q + s + k \in 1..L /\ k \in Nat
    BY <2>2, <2>3
  <2> QED
    BY <2>1, <2>2, <2>3, <2>4, <2>5
<1>3. \A k \in 1..Len(p2) : \/ k \in 1..q /\ p2[k] = p[k]
                            \/ s = 1 /\ k = q + 1 /\ p2[k] = FI!Separator
                            \/ \E j \in 1..c : k = q + s + j /\ p2[k] = FI!LineOf(g, lo + j - 1)
  BY <1>1, GrowsParts
<1>4. g \in FI!Files /\ g \in Nat /\ g # 0 /\ sources[g].lines \in Nat /\ merged \in Nat
  BY <1>1, FileFacts
<1>5. /\ \A k \in 1..q : p[k].file \in Nat /\ p[k].line \in Nat
      /\ \A k \in 1..q : FI!Line(p[k]) =>
             /\ p[k].file \in FI!Files /\ p[k].file <= g
             /\ p[k].line \in 1..sources[p[k].file].lines
             /\ p[k].col = matched[p[k].file][p[k].line]
             /\ invert /\ p[k].file = g => p[k].line <= merged
      /\ \A j, k \in 1..q : j < k /\ FI!Line(p[j]) /\ FI!Line(p[k]) => FI!Before(p[j], p[k])
      /\ \A k \in 1..q : p[k].file = g => p[k].line < lo
  <2>1. \A k \in 1..q : p[k] \in [file : Nat, line : Nat, col : Nat]
    BY <1>1, PrintedTypes
  <2>2. \A k \in 1..q : p[k].file \in Nat /\ p[k].line \in Nat
    BY <2>1
  <2> QED
    BY <1>1, <2>2 DEF PrintedInv
<1>6. \A j \in 1..c : lo + j - 1 \in lo..lo + c - 1 /\ lo + j - 1 \in 1..sources[g].lines
                      /\ lo + j - 1 \in Nat /\ (invert => lo + j - 1 <= merged')
  <2> TAKE j \in 1..c
  <2>1. lo \in Nat /\ 1 <= lo /\ c \in Nat /\ 1 <= c
    BY <1>12
  <2>2. lo \in Int /\ c \in Int /\ j \in Int /\ 1 <= j /\ j <= c /\ 1 <= lo
    BY <2>1
  <2>3. lo + j - 1 \in lo..lo + c - 1 /\ lo + j - 1 \in Nat /\ lo + j - 1 >= 1 /\ lo + j - 1 <= lo + c - 1
        /\ lo + c - 1 \in Nat
    BY <2>2
  <2> QED
    BY <1>1, <1>4, <2>3
<1>7. ASSUME NEW k \in 1..Len(p2), FI!Line(p2[k])
      PROVE  /\ p2[k].file \in FI!Files /\ p2[k].file <= g
             /\ p2[k].line \in 1..sources[p2[k].file].lines
             /\ p2[k].col = matched[p2[k].file][p2[k].line]
             /\ invert /\ p2[k].file = g => p2[k].line <= merged'
  <2>1. CASE k \in 1..q /\ p2[k] = p[k]
    <3>1. /\ p[k].file \in FI!Files /\ p[k].file <= g
          /\ p[k].line \in 1..sources[p[k].file].lines
          /\ p[k].col = matched[p[k].file][p[k].line]
          /\ invert /\ p[k].file = g => p[k].line <= merged
      BY <1>5, <1>7, <2>1
    <3>2. invert /\ p[k].file = g => p[k].line <= merged'
      BY <1>4, <1>5, <2>1, <3>1
    <3> QED
      BY <2>1, <3>1, <3>2
  <2>2. CASE p2[k] = FI!Separator
    BY <1>7, <2>2, LineFacts
  <2>3. CASE \E j \in 1..c : k = q + s + j /\ p2[k] = FI!LineOf(g, lo + j - 1)
    <3>1. PICK j \in 1..c : p2[k] = FI!LineOf(g, lo + j - 1)
      BY <2>3
    <3>2. PICK n : n = lo + j - 1
      OBVIOUS
    <3>3. p2[k].file = g /\ p2[k].line = n /\ p2[k].col = matched[g][n]
      BY <3>1, <3>2, LineFacts
    <3>4. n \in 1..sources[g].lines /\ (invert => n <= merged') /\ g <= g
      BY <1>4, <1>6, <3>2
    <3> QED
      BY <1>4, <3>3, <3>4
  <2> QED
    BY <1>3, <2>1, <2>2, <2>3
<1>8. ASSUME NEW j \in 1..Len(p2), NEW k \in 1..Len(p2), j < k, FI!Line(p2[j]), FI!Line(p2[k])
      PROVE  FI!Before(p2[j], p2[k])
  <2>1. CASE j \in 1..q /\ k \in 1..q
    BY <1>2, <1>5, <1>8, <2>1
  <2>2. CASE j \in 1..q /\ k \notin 1..q
    <3>1. PICK i \in 1..c : p2[k] = FI!LineOf(g, lo + i - 1)
      BY <1>3, <1>8, <2>2, LineFacts
    <3>2. PICK n : n = lo + i - 1
      OBVIOUS
    <3>3. p2[k].file = g /\ p2[k].line = n /\ n >= lo /\ n \in Nat
      BY <1>2, <3>1, <3>2, LineFacts, SMTT(20)
    <3>4. p2[j] = p[j] /\ FI!Line(p[j])
      BY <1>2, <1>8, <2>2
    <3>5. p[j].file <= g /\ p[j].file \in Nat /\ p[j].line \in Nat /\ (p[j].file = g => p[j].line < lo)
      BY <1>5, <2>2, <3>4
    <3>6. p[j].file < g \/ (p[j].file = g /\ p[j].line < n)
      <4>1. PICK a, d : a = p[j].file /\ d = p[j].line
        OBVIOUS
      <4>2. a \in Nat /\ d \in Nat /\ a <= g /\ (a = g => d < lo) /\ g \in Nat /\ n \in Nat /\ n >= lo /\ lo \in Nat
        BY <1>4, <1>12, <3>3, <3>5, <4>1
      <4>3. a < g \/ (a = g /\ d < n)
        BY <4>2
      <4> QED
        BY <4>1, <4>3
    <3> QED
      BY <3>3, <3>4, <3>6 DEF FI!Before
  <2>3. CASE j \notin 1..q
    <3>1. PICK i \in 1..c : j = q + s + i /\ p2[j] = FI!LineOf(g, lo + i - 1)
      BY <1>3, <1>8, <2>3, LineFacts
    <3>2. k \notin 1..q
      BY <1>2, <1>8, <2>3
    <3>3. PICK d \in 1..c : k = q + s + d /\ p2[k] = FI!LineOf(g, lo + d - 1)
      BY <1>3, <1>8, <3>2, LineFacts
    <3>4. PICK n, m : n = lo + i - 1 /\ m = lo + d - 1
      OBVIOUS
    <3>5. p2[j].file = g /\ p2[j].line = n /\ p2[k].file = g /\ p2[k].line = m
      BY <3>1, <3>3, <3>4, LineFacts
    <3>6. n < m
      BY <1>2, <1>8, <3>1, <3>3, <3>4
    <3> QED
      BY <3>5, <3>6 DEF FI!Before
  <2> QED
    BY <2>1, <2>2, <2>3
<1>9. ASSUME NEW k \in 1..Len(p2)
      PROVE  IF FI!Line(p2[k])
             THEN FI!Grouped /\ k < Len(p2) /\ FI!Line(p2[k + 1]) => FI!SideBySide(p2[k], p2[k + 1])
             ELSE FI!Grouped /\ k > 1 /\ k < Len(p2) /\ ~FI!SideBySide(p2[k - 1], p2[k + 1])
  <2>1. CASE k \in 1..q /\ k < q
    <3>1. k + 1 \in 1..q /\ k \in Int
      BY <1>12, <2>1
    <3>2. p2[k] = p[k] /\ p2[k + 1] = p[k + 1]
      BY <1>2, <2>1, <3>1
    <3>3. IF FI!Line(p[k])
          THEN FI!Grouped /\ k < q /\ FI!Line(p[k + 1]) => FI!SideBySide(p[k], p[k + 1])
          ELSE FI!Grouped /\ k > 1 /\ k < q /\ ~FI!SideBySide(p[k - 1], p[k + 1])
      BY <1>1, <2>1 DEF PrintedInv, FI!GroupRight, FI!SeparatorRight
    <3>4. CASE FI!Line(p[k])
      BY <2>1, <3>2, <3>3, <3>4
    <3>5. CASE ~FI!Line(p[k])
      <4>1. FI!Grouped /\ k > 1 /\ ~FI!SideBySide(p[k - 1], p[k + 1])
        BY <3>3, <3>5
      <4>2. k - 1 \in 1..q
        BY <1>12, <2>1, <3>1, <4>1
      <4>3. k < Len(p2) /\ p2[k - 1] = p[k - 1]
        BY <1>2, <1>12, <2>1, <4>2
      <4> QED
        BY <3>2, <3>5, <4>1, <4>3
    <3> QED
      BY <3>4, <3>5
  <2>2. CASE k \in 1..q /\ k = q
    <3>1. p2[k] = p[k]
      BY <1>2, <2>2
    <3>2. FI!Line(p[k])
      <4>1. ~FI!Line(p[k]) => k < q
        BY <1>1, <2>2 DEF PrintedInv, FI!SeparatorRight
      <4> QED
        BY <1>2, <2>2, <4>1
    <3>3. CASE s = 1
      <4>1. p2[k + 1] = FI!Separator
        BY <1>2, <2>2, <3>3
      <4> QED
        BY <3>1, <3>2, <4>1, LineFacts
    <3>4. CASE s = 0
      <4>1. printed # <<>>
        <5>1. printed = <<>> => q = 0
          BY <1>1
        <5> QED
          BY <1>2, <2>2, <5>1
      <4>2. ~FI!Grouped
        BY <3>4, <4>1
      <4> QED
        BY <3>1, <3>2, <4>2
    <3> QED
      BY <1>2, <3>3, <3>4
  <2>3. CASE s = 1 /\ k = q + 1
    <3>1. FI!Grouped /\ printed # <<>> /\ \A i \in 1..q : p[i].file = g => p[i].line + 1 < lo
      BY <1>1, <2>3
    <3>2. q \in 1..q
      <4>1. q # 0
        <5>1. printed \in Seq([file : Nat, line : Nat, col : Nat])
          BY PrintedTypes
        <5> QED
          BY <1>1, <3>1, <5>1, EmptySeq
      <4> QED
        BY <1>2, <4>1
    <3>3. k > 1 /\ k < Len(p2) /\ k - 1 = q /\ k + 1 = q + s + 1 /\ 1 \in 1..c /\ lo + 1 - 1 = lo
      BY <1>2, <2>3, <3>2
    <3>4. p2[k - 1] = p[q] /\ p2[k + 1] = FI!LineOf(g, lo) /\ p2[k] = FI!Separator
      BY <1>2, <2>3, <3>2, <3>3
    <3>5. p2[k + 1].file = g /\ p2[k + 1].line = lo /\ ~FI!Line(p2[k])
      BY <3>4, LineFacts
    <3>6. ~FI!SideBySide(p[q], p2[k + 1])
      <4>1. p[q].line \in Nat /\ (p[q].file = g => p[q].line + 1 < lo)
        BY <1>5, <3>1, <3>2
      <4> QED
        BY <1>2, <3>5, <4>1, SMTT(20) DEF FI!SideBySide
    <3> QED
      BY <3>1, <3>3, <3>4, <3>5, <3>6
  <2>4. CASE \E j \in 1..c : k = q + s + j /\ p2[k] = FI!LineOf(g, lo + j - 1)
    <3>1. PICK j \in 1..c : k = q + s + j /\ p2[k] = FI!LineOf(g, lo + j - 1)
      BY <2>4
    <3>2. p2[k].file = g /\ p2[k].line = lo + j - 1 /\ FI!Line(p2[k])
      BY <1>4, <3>1, LineFacts
    <3>3. ASSUME k < Len(p2) PROVE FI!SideBySide(p2[k], p2[k + 1])
      <4>1. j + 1 \in 1..c /\ k + 1 = q + s + (j + 1) /\ lo + (j + 1) - 1 = (lo + j - 1) + 1
        BY <1>2, <3>1, <3>3
      <4>2. PICK n : n = lo + (j + 1) - 1
        OBVIOUS
      <4>3. p2[k + 1] = FI!LineOf(g, n)
        BY <1>2, <4>1, <4>2
      <4>4. p2[k + 1].file = g /\ p2[k + 1].line = n
        BY <4>3, LineFacts
      <4> QED
        BY <3>2, <4>1, <4>2, <4>4 DEF FI!SideBySide
    <3> QED
      BY <3>2, <3>3
  <2>5. k \in 1..q => k < q \/ k = q
    BY <1>12
  <2> QED
    BY <1>3, <2>1, <2>2, <2>3, <2>4, <2>5
<1>10. PrintedInv'
  <2>1. sources' = sources /\ matched' = matched /\ (FI!Grouped' <=> FI!Grouped) /\ invert' = invert
    BY DEF Settled, FI!Grouped
  <2>2. \A k \in 1..Len(p2) :
            IF FI!Line(p2[k]) THEN FI!GroupRight(k)' ELSE FI!SeparatorRight(k)'
    BY <1>1, <1>9, <2>1 DEF FI!GroupRight, FI!SeparatorRight, FI!Line, FI!SideBySide
  <2>3. file' = g /\ printed' = p2 /\ g # 0
    BY <1>1, <1>4
  <2> QED
    <3>1. \A k \in 1..Len(p2) : FI!Line(p2[k]) =>
              /\ p2[k].file \in FI!Files /\ p2[k].file <= g
              /\ p2[k].line \in 1..sources[p2[k].file].lines
              /\ p2[k].col = matched[p2[k].file][p2[k].line]
              /\ invert /\ p2[k].file = g => p2[k].line <= merged'
      BY <1>7
    <3>2. \A j, k \in 1..Len(p2) :
              j < k /\ FI!Line(p2[j]) /\ FI!Line(p2[k]) => FI!Before(p2[j], p2[k])
      BY <1>8
    <3>3. p2 \in Seq([file : Nat, line : Nat, col : Nat])
      BY <1>2
    <3> QED
      BY <2>1, <2>2, <2>3, <3>1, <3>2, <3>3 DEF PrintedInv
<1>11. ASSUME NEW f \in FI!Files, NEW n
       PROVE  FI!Shown(f, n)' <=> FI!Shown(f, n) \/ (f = file /\ n \in lo..lo + c - 1)
  <2>1. FI!Shown(f, n)' <=> \E k \in 1..Len(p2) : p2[k].file = f /\ p2[k].line = n
    BY <1>1 DEF FI!Shown
  <2>2. FI!Shown(f, n) <=> \E k \in 1..q : p[k].file = f /\ p[k].line = n
    BY <1>1 DEF FI!Shown
  <2>3. ASSUME NEW k \in 1..Len(p2), p2[k].file = f, p2[k].line = n
        PROVE  FI!Shown(f, n) \/ (f = g /\ n \in lo..lo + c - 1)
    <3>1. CASE k \in 1..q /\ p2[k] = p[k]
      BY <2>2, <2>3, <3>1
    <3>2. CASE p2[k] = FI!Separator
      BY <2>3, <3>2, LineFacts, FilesFacts
    <3>3. CASE \E j \in 1..c : k = q + s + j /\ p2[k] = FI!LineOf(g, lo + j - 1)
      <4>1. PICK j \in 1..c : p2[k] = FI!LineOf(g, lo + j - 1)
        BY <3>3
      <4>2. f = g /\ n = lo + j - 1
        BY <2>3, <4>1, LineFacts
      <4> QED
        BY <1>6, <4>2
    <3> QED
      BY <1>3, <3>1, <3>2, <3>3
  <2>4. \A k \in 1..q : k \in 1..Len(p2) /\ p2[k] = p[k]
    BY <1>2, <1>12
  <2>5. ASSUME f = g, n \in lo..lo + c - 1 PROVE \E k \in 1..Len(p2) : p2[k].file = f /\ p2[k].line = n
    <3>1. n - lo + 1 \in 1..c /\ lo + (n - lo + 1) - 1 = n
      BY <1>12, <2>5
    <3>2. PICK j \in 1..c : lo + j - 1 = n
      BY <3>1
    <3>3. q + s + j \in 1..Len(p2) /\ p2[q + s + j] = FI!LineOf(g, n)
      BY <1>2, <1>12, <3>2
    <3> QED
      BY <2>5, <3>3, LineFacts
  <2> QED
    BY <1>1, <2>1, <2>2, <2>3, <2>4, <2>5
<1> QED
  BY <1>10, <1>11

\* ConcatFacts with the operands' types as facts of their own, for a sequence
\* whose type is known only from an earlier step.
LEMMA JoinFacts ==
    ASSUME NEW D, NEW s, s \in Seq(D), NEW t, t \in Seq(D)
    PROVE  /\ s \o t \in Seq(D) /\ Len(s \o t) = Len(s) + Len(t)
           /\ \A j \in 1..Len(s) : (s \o t)[j] = s[j]
           /\ \A j \in 1..Len(t) : (s \o t)[Len(s) + j] = t[j]
  BY ConcatFacts

\* A window printed: its lines follow what was printed, after a separator when
\* they do not adjoin it.
LEMMA PrintWindowKeeps ==
    ASSUME FindInv, FI!PrintWindow PROVE FindInv'
<1>1. PICK ws, ws2, w, k, p, p2 :
          /\ ws = windows /\ ws2 = windows' /\ w = Head(windows) /\ k = Len(windows)
          /\ p = printed /\ p2 = printed'
  OBVIOUS
<1>2. /\ ws # <<>> /\ FI!Unmerged = {} /\ p2 = p \o FI!Between \o FI!LinesOf(w) /\ ws2 = Tail(ws)
      /\ Settled /\ file' = file /\ merged' = merged
  BY <1>1 DEF FI!PrintWindow, Settled
<1>3. NoteInv
  BY DEF FindInv
<1>4. NoteInv'
  <2>1. file' \in 0..Len(MaxLines) + 1 /\ merged' \in Nat
        /\ (file' # 0 => \A f \in FI!Files : noted[f] = Len(sites[f]))
    BY <1>2, <1>3 DEF NoteInv
  <2> QED
    BY <1>2, <1>3, <2>1, NotedKeeps
<1> SUFFICES ASSUME context >= 0 PROVE WindowInv' /\ ShownInv' /\ PrintedInv'
  <2>1. context' = context
    BY <1>2 DEF Settled
  <2> QED
    BY <1>4, <2>1 DEF FindInv
<1>5. WindowInv /\ ShownInv /\ PrintedInv
  BY DEF FindInv
<1>6. file \in FI!Files /\ ~invert
  BY <1>1, <1>2, <1>5 DEF WindowInv
<1>7. sources[file].lines \in Nat /\ context \in Nat /\ merged \in Nat /\ file \in Nat /\ file # 0
  BY <1>3, <1>6, FileFacts
<1>8. /\ ws2 \in Seq([lo : Nat, hi : Nat]) /\ k \in Nat \ {0} /\ Len(ws2) = k - 1 /\ w = ws[1]
      /\ \A i \in 1..k - 1 : ws2[i] = ws[i + 1]
      /\ w \in [lo : Nat, hi : Nat] /\ 1 \in 1..k /\ ws \in Seq([lo : Nat, hi : Nat]) /\ k = Len(ws)
  <2>1. ws \in Seq([lo : Nat, hi : Nat]) /\ ws # <<>> /\ k = Len(ws) /\ w = Head(ws) /\ ws2 = Tail(ws)
    BY <1>1, <1>2, <1>5 DEF WindowInv
  <2>2. PICK R : R = [lo : Nat, hi : Nat]
    OBVIOUS
  <2>3. ws \in Seq(R) /\ ws # <<>>
    BY <2>1, <2>2
  <2>4. /\ Tail(ws) \in Seq(R) /\ Len(ws) \in Nat \ {0} /\ Len(Tail(ws)) = Len(ws) - 1
        /\ \A i \in 1..Len(ws) - 1 : Tail(ws)[i] = ws[i + 1]
        /\ Head(ws) = ws[1] /\ ws[1] \in R /\ 1 \in 1..Len(ws)
    BY <2>3, TailPart
  <2> QED
    BY <2>1, <2>2, <2>4
<1>9. /\ \A i \in 1..k : /\ ws[i].lo \in Nat /\ ws[i].hi \in Nat /\ 1 <= ws[i].lo /\ ws[i].lo <= ws[i].hi
                         /\ ws[i].hi <= sources[file].lines /\ ws[i].lo \in 1..ws[i].hi
      /\ \A i, j \in 1..k : i < j => ws[i].hi + 1 < ws[j].lo
      /\ ws[k].hi <= merged + context /\ (ws[k].lo = 1 \/ ws[k].lo <= merged - context)
      /\ \A j \in 1..Len(p), i \in 1..k : p[j].file = file => p[j].line + 1 < ws[i].lo
  <2>1. \A i \in 1..k : ws[i].lo \in Nat /\ ws[i].hi \in Nat
    BY <1>8, WindowTypes
  <2>2. \A i \in 1..k : ws[i].lo \in 1..ws[i].hi /\ ws[i].hi <= sources[file].lines
    BY <1>1, <1>5 DEF WindowInv
  <2>3. \A i \in 1..k : 1 <= ws[i].lo /\ ws[i].lo <= ws[i].hi
    BY <2>1, <2>2
  <2>4. ws[k].hi <= merged + context /\ (ws[k].lo = 1 \/ ws[k].lo <= merged - context)
    BY <1>1, <1>2, <1>5 DEF WindowInv
  <2>5. /\ \A i, j \in 1..k : i < j => ws[i].hi + 1 < ws[j].lo
        /\ \A j \in 1..Len(p), i \in 1..k : p[j].file = file => p[j].line + 1 < ws[i].lo
    BY <1>1, <1>5 DEF WindowInv
  <2> QED
    BY <2>1, <2>2, <2>3, <2>4, <2>5
<1>10. PICK lo, hi, c : lo = w.lo /\ hi = w.hi /\ c = w.hi - w.lo + 1
  OBVIOUS
<1>11. /\ lo \in Nat \ {0} /\ hi \in Nat /\ c \in Nat \ {0} /\ lo + c - 1 = hi /\ hi <= sources[file].lines
       /\ \A j \in 1..Len(p) : p[j].file = file => p[j].line + 1 < lo
       /\ \A i \in 2..k : hi + 1 < ws[i].lo
  <2>1. lo \in Nat /\ hi \in Nat /\ 1 <= lo /\ lo <= hi /\ hi <= sources[file].lines /\ c = hi - lo + 1
        /\ \A j \in 1..Len(p) : p[j].file = file => p[j].line + 1 < lo
    BY <1>8, <1>9, <1>10
  <2>2. c \in Nat \ {0} /\ lo + c - 1 = hi /\ lo # 0
    BY <2>1
  <2>3. \A i \in 2..k : i \in 1..k /\ 1 < i
    BY <1>8
  <2>4. \A i \in 2..k : hi + 1 < ws[i].lo
    BY <1>8, <1>9, <1>10, <2>3
  <2> QED
    BY <2>1, <2>2, <2>4
<1>12. PICK s : s = IF context > 0 /\ p # <<>> THEN 1 ELSE 0
  OBVIOUS
<1>13. Grows(p2, s, lo, c)
  <2>1. PICK R : R = [file : Nat, line : Nat, col : Nat]
    OBVIOUS
  <2>2. PICK b, ls : b = FI!Between /\ ls = FI!LinesOf(w)
    OBVIOUS
  <2>3. FI!Separator \in R
    BY <2>1 DEF FI!Separator
  <2>4. b \in Seq(R) /\ Len(b) = s /\ (s = 1 => b[1] = FI!Separator) /\ s \in {0, 1}
    <3>1. b = IF s = 1 THEN <<FI!Separator>> ELSE <<>>
      BY <1>1, <1>12, <2>2 DEF FI!Between
    <3> QED
      BY <1>12, <2>3, <3>1
  <2>5. ls = [j \in 1..c |-> FI!LineOf(file, lo + j - 1)]
    <3>1. FI!Max({0, c}) = c
      <4>1. 0 \in Int /\ c \in Int /\ c >= 0
        BY <1>11
      <4>2. FI!Max({0, c}) = IF 0 >= c THEN 0 ELSE c
        BY <4>1, LesserAndGreater
      <4> QED
        BY <4>1, <4>2
    <3> QED
      BY <1>10, <2>2, <3>1 DEF FI!LinesOf
  <2>6. \A j \in 1..c : FI!LineOf(file, lo + j - 1) \in R
    <3> TAKE j \in 1..c
    <3>1. PICK n : n = lo + j - 1
      OBVIOUS
    <3>2. n \in 1..sources[file].lines /\ n \in Nat
      BY <1>7, <1>11, <3>1
    <3>3. matched[file][n] \in Nat
      BY <1>3, <1>6, <3>2, FileFacts
    <3>4. [file |-> file, line |-> n, col |-> matched[file][n]] \in [file : Nat, line : Nat, col : Nat]
      BY <1>7, <3>2, <3>3
    <3> QED
      BY <2>1, <3>1, <3>4 DEF FI!LineOf
  <2>7. ls \in Seq(R) /\ Len(ls) = c /\ \A j \in 1..c : ls[j] = FI!LineOf(file, lo + j - 1)
    BY <1>11, <2>5, <2>6
  <2>8. p \in Seq(R)
    BY <1>1, <1>5, <2>1, PrintedTypes
  <2>9. PICK q : q = p \o b
    OBVIOUS
  <2>10. /\ q \in Seq(R) /\ Len(q) = Len(p) + s /\ Len(p) \in Nat
         /\ \A j \in 1..Len(p) : q[j] = p[j]
         /\ \A j \in 1..s : q[Len(p) + j] = b[j]
    BY <2>4, <2>8, <2>9, ConcatFacts
  <2>11. p2 = q \o ls
    BY <1>2, <2>2, <2>9
  <2>12. /\ p2 \in Seq(R) /\ Len(p2) = Len(q) + c
         /\ \A j \in 1..Len(q) : p2[j] = q[j]
         /\ \A j \in 1..c : p2[Len(q) + j] = ls[j]
    <3>1. ls \in Seq(R) /\ Len(ls) = c
      BY <2>7
    <3>2. q \in Seq(R)
      BY <2>10
    <3>3. PICK u : u = q \o ls
      OBVIOUS
    <3>4. /\ u \in Seq(R) /\ Len(u) = Len(q) + Len(ls)
          /\ \A j \in 1..Len(q) : u[j] = q[j]
          /\ \A j \in 1..Len(ls) : u[Len(q) + j] = ls[j]
      BY <3>1, <3>2, <3>3, JoinFacts, SMTT(20)
    <3> QED
      BY <2>11, <3>1, <3>3, <3>4
  <2>13. \A j \in 1..Len(p) : j \in 1..Len(q) /\ p2[j] = p[j]
    BY <2>4, <2>10, <2>12
  <2>14. s = 1 => p2[Len(p) + 1] = FI!Separator
    <3> HAVE s = 1
    <3>1. Len(p) + 1 \in 1..Len(q) /\ 1 \in 1..s
      BY <2>10
    <3> QED
      BY <2>4, <2>10, <2>12, <3>1
  <2>15. \A j \in 1..c : p2[Len(p) + s + j] = FI!LineOf(file, lo + j - 1)
    BY <2>7, <2>10, <2>12
  <2> QED
    BY <1>1, <1>11, <2>1, <2>4, <2>10, <2>12, <2>13, <2>14, <2>15 DEF Grows
<1>14. /\ PrintedInv'
       /\ \A f \in FI!Files : \A n : FI!Shown(f, n)' <=> FI!Shown(f, n) \/ (f = file /\ n \in lo..hi)
  <2>1. Grows(printed', s, lo, c) /\ lo + c - 1 <= sources[file].lines
    BY <1>1, <1>11, <1>13
  <2>2. \A j \in 1..Len(printed) : printed[j].file = file => printed[j].line < lo
    <3> TAKE j \in 1..Len(printed)
    <3>1. printed[j].line \in Nat
      <4>1. printed[j] \in [file : Nat, line : Nat, col : Nat]
        BY <1>5, PrintedTypes
      <4> QED
        BY <4>1
    <3> QED
      BY <1>1, <1>11, <3>1
  <2>3. s = 0 => printed = <<>> \/ ~FI!Grouped
    BY <1>1, <1>12 DEF FI!Grouped
  <2>4. s = 1 => printed # <<>> /\ FI!Grouped
                 /\ \A j \in 1..Len(printed) : printed[j].file = file => printed[j].line + 1 < lo
    BY <1>1, <1>6, <1>11, <1>12 DEF FI!Grouped
  <2>5. merged' \in Nat
    BY <1>2, <1>7
  <2>6. /\ PrintedInv'
        /\ \A f \in FI!Files : \A n :
               FI!Shown(f, n)' <=> FI!Shown(f, n) \/ (f = file /\ n \in lo..lo + c - 1)
    BY <1>2, <1>3, <1>5, <1>6, <2>1, <2>2, <2>3, <2>4, <2>5, PrintedGrows
  <2> QED
    BY <1>11, <2>6
<1>15. \A i \in 1..k - 1 : i + 1 \in 1..k /\ i + 1 \in 2..k /\ ws2[i] = ws[i + 1]
  <2>1. k \in Nat
    BY <1>8
  <2>2. \A i \in 1..k - 1 : i + 1 \in 1..k /\ i + 1 \in 2..k
    BY <2>1
  <2> QED
    BY <1>8, <2>2
<1>16. \A i \in 1..k : i = 1 \/ (i - 1 \in 1..k - 1 /\ ws2[i - 1] = ws[i])
  BY <1>8
<1>17. ASSUME NEW j \in 1..Len(p2), NEW i \in 1..k - 1, p2[j].file = file
       PROVE  p2[j].line + 1 < ws2[i].lo
  <2>1. \/ j \in 1..Len(p) /\ p2[j] = p[j]
        \/ p2[j] = FI!Separator
        \/ \E d \in 1..c : p2[j] = FI!LineOf(file, lo + d - 1)
    BY <1>1, <1>5, <1>13, GrowsParts
  <2>2. CASE j \in 1..Len(p) /\ p2[j] = p[j]
    BY <1>9, <1>15, <1>17, <2>2
  <2>3. CASE p2[j] = FI!Separator
    BY <1>7, <1>17, <2>3, LineFacts
  <2>4. CASE \E d \in 1..c : p2[j] = FI!LineOf(file, lo + d - 1)
    <3>1. PICK d \in 1..c : p2[j] = FI!LineOf(file, lo + d - 1)
      BY <2>4
    <3>2. p2[j].line = lo + d - 1
      BY <3>1, LineFacts
    <3>3. lo + d - 1 <= hi /\ d \in Nat
      BY <1>11
    <3>4. hi + 1 < ws[i + 1].lo /\ ws[i + 1].lo \in Nat /\ ws2[i] = ws[i + 1]
      BY <1>9, <1>11, <1>15
    <3> QED
      BY <1>11, <3>2, <3>3, <3>4
  <2> QED
    BY <2>1, <2>2, <2>3, <2>4
<1>18. WindowInv'
  <2>1. sources' = sources /\ context' = context /\ invert' = invert
    BY <1>2 DEF Settled
  <2>2. FI!Unmerged' = {}
    BY <1>2 DEF Settled, FI!Unmerged, FI!MatchLines
  <2>3. \A i \in 1..k - 1 : ws2[i].lo \in 1..ws2[i].hi /\ ws2[i].hi <= sources[file].lines
    BY <1>9, <1>15
  <2>4. \A i, j \in 1..k - 1 : i < j => ws2[i].hi + 1 < ws2[j].lo
    <3> TAKE i, j \in 1..k - 1
    <3> HAVE i < j
    <3>1. i + 1 < j + 1
      BY <1>8
    <3> QED
      BY <1>9, <1>15, <3>1
  <2>5. ws2 # <<>> =>
            ws2[k - 1].hi <= merged + context /\ (ws2[k - 1].lo = 1 \/ ws2[k - 1].lo <= merged - context)
    <3> HAVE ws2 # <<>>
    <3>1. k - 1 # 0
      <4>1. PICK R : R = [lo : Nat, hi : Nat]
        OBVIOUS
      <4>2. ws2 \in Seq(R) /\ ws2 # <<>>
        BY <1>8, <4>1
      <4>3. Len(ws2) # 0
        BY <4>2, EmptySeq
      <4> QED
        BY <1>8, <4>3
    <3>2. k - 1 \in 1..k - 1 /\ (k - 1) + 1 = k
      BY <1>8, <3>1
    <3>3. ws2[k - 1] = ws[k]
      BY <1>15, <3>2
    <3> QED
      BY <1>9, <3>3
  <2> QED
    BY <1>1, <1>2, <1>6, <1>8, <1>17, <2>1, <2>2, <2>3, <2>4, <2>5 DEF WindowInv
<1>21. PICK g : g = file
  OBVIOUS
<1>19. ASSUME NEW n \in 1..sources[g].lines
       PROVE  FI!Shown(g, n)' \/ InWindow(n)' <=> DueBy(g, n, merged)
  <2>1. FI!Shown(g, n) \/ InWindow(n) <=> DueBy(g, n, merged)
    BY <1>5, <1>6, <1>21 DEF ShownInv
  <2>2. InWindow(n) <=> \E i \in 1..k : n \in ws[i].lo..ws[i].hi
    BY <1>1 DEF InWindow
  <2>3. InWindow(n)' <=> \E i \in 1..k - 1 : n \in ws2[i].lo..ws2[i].hi
    BY <1>1, <1>8 DEF InWindow
  <2>4. InWindow(n) <=> n \in lo..hi \/ InWindow(n)'
    BY <1>8, <1>10, <1>15, <1>16, <2>2, <2>3
  <2>5. FI!Shown(g, n)' <=> FI!Shown(g, n) \/ n \in lo..hi
    BY <1>6, <1>14, <1>21
  <2> QED
    BY <2>1, <2>4, <2>5
<1>20. ShownInv'
  <2>1. sources' = sources /\ invert' = invert
    BY <1>2 DEF Settled
  <2>2. ASSUME NEW f \in FI!Files, f < file, NEW n \in 1..sources[f].lines
        PROVE  FI!Shown(f, n)' <=> FI!Due(f, n)'
    <3>1. FI!Shown(f, n) <=> FI!Due(f, n)
      BY <1>5, <2>2 DEF ShownInv
    <3>2. f # file
      BY <1>7, <2>2, FilesFacts
    <3> QED
      BY <1>2, <1>14, <3>1, <3>2, SettledFacts
  <2>4. \A n \in 1..sources[g].lines : FI!Shown(g, n)' \/ InWindow(n)' <=> DueBy(g, n, merged)'
    <3>1. PICK m : m = merged
      OBVIOUS
    <3>2. \A n : DueBy(g, n, m)' <=> DueBy(g, n, m)
      BY <1>2, SettledFacts
    <3>3. merged' = m
      BY <1>2, <3>1
    <3>4. \A n \in 1..sources[g].lines : FI!Shown(g, n)' \/ InWindow(n)' <=> DueBy(g, n, m)
      BY <1>19, <3>1
    <3> QED
      BY <3>2, <3>3, <3>4
  <2> QED
    BY <1>2, <1>6, <1>21, <2>1, <2>2, <2>4 DEF ShownInv
<1> QED
  BY <1>14, <1>18, <1>20

LEMMA PassLineKeeps ==
    ASSUME FindInv, FI!PassLine PROVE FindInv'
<1>1. PICK g, m, n : g = file /\ m = merged /\ n = merged + 1
  OBVIOUS
<1>2. /\ invert /\ g \in FI!Files /\ m < FI!Limit(g) /\ merged' = n
      /\ printed' = IF matched[g][n] = 0 THEN Append(printed, FI!LineOf(g, n)) ELSE printed
      /\ Settled /\ file' = file /\ windows' = windows
  BY <1>1 DEF FI!PassLine, Settled
<1>3. NoteInv
  BY DEF FindInv
<1>4. /\ sources[g].lines \in Nat /\ FI!Limit(g) \in Nat /\ FI!Limit(g) <= sources[g].lines
      /\ g \in Nat /\ g # 0 /\ m \in Nat
  BY <1>1, <1>2, <1>3, FileFacts
<1>5. n \in Nat \ {0} /\ n \in 1..sources[g].lines /\ n <= FI!Limit(g) /\ n = m + 1
  BY <1>1, <1>2, <1>4
<1>6. matched[g][n] \in Nat
  BY <1>2, <1>3, <1>5, FileFacts
<1>7. NoteInv'
  <2>1. file' \in 0..Len(MaxLines) + 1 /\ merged' \in Nat
        /\ (file' # 0 => \A f \in FI!Files : noted[f] = Len(sites[f]))
    BY <1>2, <1>3, <1>5 DEF NoteInv
  <2> QED
    BY <1>2, <1>3, <2>1, NotedKeeps
<1> SUFFICES ASSUME context >= 0 PROVE WindowInv' /\ ShownInv' /\ PrintedInv'
  <2>1. context' = context
    BY <1>2 DEF Settled
  <2> QED
    BY <1>7, <2>1 DEF FindInv
<1>8. WindowInv /\ ShownInv /\ PrintedInv
  BY DEF FindInv
<1>9. FI!Due(g, n) <=> matched[g][n] = 0
  <2>1. matched[g][n] # 0 <=> \E k \in 1..Len(sites[g]) : sites[g][k].line = n
    BY <1>1, <1>2, <1>3, <1>4, <1>5, MatchedLines
  <2> QED
    BY <1>2, <1>5, <2>1 DEF FI!Due
<1>10. /\ PrintedInv'
       /\ \A f \in FI!Files : \A x :
              FI!Shown(f, x)' <=> FI!Shown(f, x) \/ (f = g /\ x = n /\ matched[g][n] = 0)
  <2>1. CASE matched[g][n] # 0
    <3>1. printed' = printed /\ file' \in Nat /\ file' >= file /\ file' # 0 /\ file \in Nat
          /\ merged' >= merged /\ merged' \in Nat /\ merged \in Nat
      BY <1>1, <1>2, <1>4, <1>5, <2>1
    <3>2. PrintedInv' /\ \A f, x : FI!Shown(f, x)' <=> FI!Shown(f, x)
      BY <1>2, <1>8, <3>1, PrintedFrame
    <3> QED
      BY <2>1, <3>2
  <2>2. CASE matched[g][n] = 0
    <3>1. PICK R : R = [file : Nat, line : Nat, col : Nat]
      OBVIOUS
    <3>2. PICK l : l = FI!LineOf(g, n)
      OBVIOUS
    <3>3. l \in R
      <4>1. [file |-> g, line |-> n, col |-> matched[g][n]] \in [file : Nat, line : Nat, col : Nat]
        BY <1>4, <1>5, <1>6
      <4> QED
        BY <3>1, <3>2, <4>1 DEF FI!LineOf
    <3>4. printed \in Seq(R) /\ Len(printed) \in Nat
      BY <1>8, <3>1, PrintedTypes
    <3>5. PICK p2 : p2 = printed'
      OBVIOUS
    <3>6. p2 = Append(printed, l)
      BY <1>2, <2>2, <3>2, <3>5
    <3>7. /\ p2 \in Seq(R) /\ Len(p2) = Len(printed) + 1 /\ p2[Len(printed) + 1] = l
          /\ \A k \in 1..Len(printed) : p2[k] = printed[k]
      BY <3>3, <3>4, <3>6
    <3>8. Grows(p2, 0, n, 1)
      <4>1. Len(p2) = Len(printed) + 0 + 1 /\ 0 \in {0, 1} /\ 1 \in Nat \ {0}
        BY <3>4, <3>7
      <4>2. \A k \in 1..1 : p2[Len(printed) + 0 + k] = FI!LineOf(file, n + k - 1)
        <5> TAKE k \in 1..1
        <5>1. Len(printed) + 0 + k = Len(printed) + 1 /\ n + k - 1 = n
          BY <1>5, <3>4
        <5> QED
          BY <1>1, <3>2, <3>7, <5>1
      <4> QED
        BY <1>5, <3>1, <3>7, <4>1, <4>2 DEF Grows
    <3>9. \A k \in 1..Len(printed) : printed[k].file = file => printed[k].line < n
      <4> TAKE k \in 1..Len(printed)
      <4> HAVE printed[k].file = file
      <4>1. printed[k] \in [file : Nat, line : Nat, col : Nat]
        BY <1>8, PrintedTypes
      <4>2. FI!Line(printed[k])
        BY <1>1, <1>4 DEF FI!Line
      <4>3. printed[k].line <= m
        BY <1>1, <1>2, <1>8, <4>2 DEF PrintedInv
      <4> QED
        BY <1>4, <1>5, <4>1, <4>3
    <3>10. n + 1 - 1 = n /\ n..n = {n} /\ n <= sources[file].lines /\ merged' >= merged /\ n <= merged'
           /\ merged' \in Nat
      BY <1>1, <1>2, <1>4, <1>5
    <3>11. n + 1 - 1 <= sources[file].lines /\ merged' >= merged /\ n + 1 - 1 <= merged' /\ merged' \in Nat
      BY <3>10
    <3>12. ~FI!Grouped /\ file \in FI!Files
      BY <1>1, <1>2 DEF FI!Grouped
    <3>13. Grows(printed', 0, n, 1)
      BY <3>5, <3>8
    <3>14. /\ PrintedInv'
           /\ \A f \in FI!Files : \A x :
                  FI!Shown(f, x)' <=> FI!Shown(f, x) \/ (f = file /\ x \in n..n + 1 - 1)
      BY <1>2, <1>3, <1>8, <3>9, <3>11, <3>12, <3>13, PrintedGrows
    <3> QED
      BY <1>1, <2>2, <3>10, <3>14
  <2> QED
    BY <2>1, <2>2
<1>11. WindowInv'
  <2>1. windows = <<>> /\ 1..Len(windows) = {}
    <3>1. windows = <<>>
      BY <1>2, <1>8 DEF WindowInv
    <3> QED
      BY <3>1
  <2>2. windows \in Seq([lo : Nat, hi : Nat])
    BY <1>8 DEF WindowInv
  <2>3. invert'
    BY <1>2 DEF Settled
  <2> QED
    BY <1>2, <2>1, <2>2, <2>3 DEF WindowInv
<1>12. ShownInv'
  <2>1. sources' = sources /\ invert' = invert
    BY <1>2 DEF Settled
  <2>2. ASSUME NEW f \in FI!Files, f < g, NEW x \in 1..sources[f].lines
        PROVE  FI!Shown(f, x)' <=> FI!Due(f, x)'
    <3>1. FI!Shown(f, x) <=> FI!Due(f, x)
      BY <1>1, <1>8, <2>2 DEF ShownInv
    <3>2. f # g
      BY <1>4, <2>2, FilesFacts
    <3> QED
      BY <1>2, <1>10, <3>1, <3>2, SettledFacts
  <2>3. ASSUME NEW x \in 1..sources[g].lines
        PROVE  FI!Shown(g, x)' <=> x <= n /\ FI!Due(g, x)'
    <3>1. FI!Shown(g, x) <=> x <= m /\ FI!Due(g, x)
      BY <1>1, <1>2, <1>8 DEF ShownInv
    <3>2. x <= n <=> x <= m \/ x = n
      BY <1>4, <1>5
    <3>3. FI!Due(g, x)' <=> FI!Due(g, x)
      BY <1>2, SettledFacts
    <3>4. FI!Shown(g, x)' <=> FI!Shown(g, x) \/ (x = n /\ matched[g][n] = 0)
      BY <1>2, <1>10
    <3> QED
      BY <1>9, <3>1, <3>2, <3>3, <3>4
  <2> QED
    BY <1>1, <1>2, <2>1, <2>2, <2>3 DEF ShownInv
<1> QED
  BY <1>10, <1>11, <1>12

LEMMA FindInit == FI!Init => FindInv
<1> SUFFICES ASSUME FI!Init PROVE FindInv
  OBVIOUS
<1>1. /\ sources \in [FI!Files -> [lines : UNION {1..MaxLines[f] : f \in FI!Files}, newline : BOOLEAN]]
      /\ \A f \in FI!Files : sources[f].lines <= MaxLines[f]
      /\ \A f \in FI!Files : sites[f] \in FI!SeqOf(FI!Site(f), MaxSites[f])
      /\ context \in Contexts /\ invert \in BOOLEAN
      /\ noted = [f \in FI!Files |-> 0]
      /\ matched = [f \in FI!Files |-> [n \in 1..MaxLines[f] |-> 0]]
      /\ file = 0 /\ merged = 0 /\ windows = <<>> /\ printed = <<>>
  BY DEF FI!Init
<1>2. sources \in [FI!Files -> [lines : Nat \ {0}, newline : BOOLEAN]]
  <2>1. \A n \in UNION {1..MaxLines[f] : f \in FI!Files} : n \in Nat \ {0}
    <3> SUFFICES ASSUME NEW f \in FI!Files, NEW n \in 1..MaxLines[f] PROVE n \in Nat \ {0}
      OBVIOUS
    <3>1. MaxLines[f] \in Nat
      BY FilesFacts
    <3> QED
      BY <3>1
  <2>2. PICK N : N = UNION {1..MaxLines[f] : f \in FI!Files}
    OBVIOUS
  <2>3. N \subseteq Nat \ {0} /\ sources \in [FI!Files -> [lines : N, newline : BOOLEAN]]
    BY <1>1, <2>1, <2>2
  <2> QED
    BY <2>3
<1>3. ASSUME NEW f \in FI!Files
      PROVE  sites[f] \in Seq(FI!Site(f)) /\ noted[f] = 0 /\ 0 <= Len(sites[f])
  <2>1. PICK n \in 0..MaxSites[f] : sites[f] \in [1..n -> FI!Site(f)]
    BY <1>1 DEF FI!SeqOf
  <2>2. n \in Nat
    BY <2>1, FilesFacts
  <2>3. sites[f] \in Seq(FI!Site(f)) /\ Len(sites[f]) = n
    BY <2>1, <2>2
  <2> QED
    BY <1>1, <2>2, <2>3
<1>4. ASSUME NEW f \in FI!Files, NEW n \in 1..sources[f].lines
      PROVE  FirstOf(f, n, 0, matched[f][n])
  <2>1. sources[f] \in [lines : Nat \ {0}, newline : BOOLEAN] /\ sources[f].lines <= MaxLines[f]
    BY <1>1, <1>2
  <2>2. sources[f].lines \in Nat
    BY <2>1
  <2>3. n \in 1..MaxLines[f]
    BY <2>1, <2>2, FilesFacts
  <2>4. matched[f][n] = 0 /\ 1..0 = {}
    BY <1>1, <2>3
  <2> QED
    BY <2>4 DEF FirstOf
<1>5. context \in Int /\ 0 \in 0..Len(MaxLines) + 1 /\ 0 \notin FI!Files
  BY <1>1, FilesFacts
<1>6. NoteInv
  <2>1. noted \in [FI!Files -> Nat] /\ DOMAIN matched = FI!Files
    BY <1>1
  <2>2. \A f \in FI!Files : matched[f] \in [1..MaxLines[f] -> Nat]
    BY <1>1
  <2> QED
    BY <1>1, <1>2, <1>3, <1>4, <1>5, <2>1, <2>2 DEF NoteInv
<1>7. /\ Len(printed) = 0 /\ Len(windows) = 0 /\ 1..0 = {}
      /\ printed \in Seq([file : Nat, line : Nat, col : Nat]) /\ windows \in Seq([lo : Nat, hi : Nat])
  BY <1>1
<1>8. WindowInv
  BY <1>1, <1>7 DEF WindowInv
<1>9. ShownInv
  <2>1. \A f \in FI!Files : ~(f < 0)
    BY FilesFacts
  <2> QED
    BY <1>1, <1>5, <2>1 DEF ShownInv
<1>10. PrintedInv
  BY <1>1, <1>7 DEF PrintedInv
<1> QED
  BY <1>6, <1>8, <1>9, <1>10 DEF FindInv

LEMMA FindKeeps == FindInv /\ [FI!Next]_FI!findVars => FindInv'
<1> SUFFICES ASSUME FindInv, [FI!Next]_FI!findVars PROVE FindInv'
  OBVIOUS
<1>1. ASSUME NEW f \in FI!Files, FI!NoteSite(f) PROVE FindInv'
  <2>1. NoteInv'
    BY <1>1, NoteSiteKeeps DEF FindInv
  <2>2. /\ file = 0 /\ sources' = sources /\ context' = context /\ invert' = invert /\ file' = file
        /\ merged' = merged /\ windows' = windows /\ printed' = printed
    BY <1>1 DEF FI!NoteSite
  <2> SUFFICES ASSUME context >= 0 PROVE WindowInv' /\ ShownInv' /\ PrintedInv'
    BY <2>1, <2>2 DEF FindInv
  <2>3. WindowInv /\ PrintedInv
    BY DEF FindInv
  <2>4. printed = <<>> /\ windows = <<>> /\ merged = 0 /\ 0 \notin FI!Files
    BY <2>2, <2>3, FilesFacts DEF WindowInv, PrintedInv
  <2>5. /\ Len(printed) = 0 /\ Len(windows) = 0 /\ 1..0 = {}
        /\ printed \in Seq([file : Nat, line : Nat, col : Nat]) /\ windows \in Seq([lo : Nat, hi : Nat])
    BY <2>4
  <2>6. WindowInv'
    BY <2>2, <2>4, <2>5 DEF WindowInv
  <2>7. ShownInv'
    <3>1. \A x \in FI!Files : ~(x < 0)
      BY FilesFacts
    <3> QED
      BY <2>2, <2>4, <3>1 DEF ShownInv
  <2>8. PrintedInv'
    BY <2>2, <2>4, <2>5 DEF PrintedInv
  <2> QED
    BY <2>6, <2>7, <2>8
<1>2. CASE UNCHANGED FI!findVars
  <2>1. /\ Settled /\ file' = file /\ merged' = merged /\ windows' = windows /\ printed' = printed
    BY <1>2 DEF FI!findVars, Settled
  <2>2. NoteInv' <=> NoteInv
    BY <2>1 DEF Settled, NoteInv, FirstOf, FI!Site
  <2>3. WindowInv' <=> WindowInv
    BY <2>1 DEF Settled, WindowInv, FI!Unmerged, FI!MatchLines
  <2>4. ShownInv' <=> ShownInv
    BY <2>1 DEF Settled, ShownInv, FI!Shown, FI!Due, FI!Limit, DueBy, InWindow
  <2>5. PrintedInv' <=> PrintedInv
    BY <2>1 DEF Settled, PrintedInv, FI!GroupRight, FI!SeparatorRight, FI!Grouped
  <2> QED
    BY <2>1, <2>2, <2>3, <2>4, <2>5 DEF FindInv, Settled
<1> QED
  BY <1>1, <1>2, NextFileKeeps, MergeLineKeeps, PrintWindowKeeps, PassLineKeeps DEF FI!Next

LEMMA FindDone == FindInv => PrintedAsAsked
<1> SUFFICES ASSUME FindInv, FI!Printed, context >= 0
             PROVE  /\ \A f \in FI!Files : \A n \in 1..sources[f].lines : FI!Shown(f, n) <=> FI!Due(f, n)
                    /\ \A j, k \in 1..Len(printed) :
                          j < k /\ FI!Line(printed[j]) /\ FI!Line(printed[k]) => FI!Before(printed[j], printed[k])
                    /\ \A k \in 1..Len(printed) :
                          IF FI!Line(printed[k]) THEN FI!LineRight(printed[k]) /\ FI!GroupRight(k)
                          ELSE FI!SeparatorRight(k)
  BY DEF PrintedAsAsked, FI!PrintedAsAsked
<1>1. NoteInv /\ ShownInv /\ PrintedInv
  BY DEF FindInv
<1>2. file # 0 /\ \A f \in FI!Files : f < file
  <2>1. file \in Nat /\ file > Len(MaxLines)
    BY <1>1, FilesFacts DEF FI!Printed, NoteInv
  <2> QED
    BY <2>1, FilesFacts
<1>3. \A f \in FI!Files : \A n \in 1..sources[f].lines : FI!Shown(f, n) <=> FI!Due(f, n)
  BY <1>1, <1>2 DEF ShownInv
<1>4. ASSUME NEW f \in FI!Files, NEW n \in 1..sources[f].lines
      PROVE  matched[f][n] = IF FI!FirstCols(f, n) = {} THEN 0 ELSE FI!Min(FI!FirstCols(f, n))
  <2>1. FirstOf(f, n, Len(sites[f]), matched[f][n])
    BY <1>1, <1>2 DEF NoteInv
  <2>2. \A c : c \in FI!FirstCols(f, n) <=>
                   \E j \in 1..Len(sites[f]) : sites[f][j].line = n /\ sites[f][j].col = c
    BY DEF FI!FirstCols
  <2>3. CASE matched[f][n] = 0 /\ \A j \in 1..Len(sites[f]) : sites[f][j].line # n
    <3>1. FI!FirstCols(f, n) = {}
      BY <2>2, <2>3
    <3> QED
      BY <2>3, <3>1
  <2>4. CASE ~(matched[f][n] = 0 /\ \A j \in 1..Len(sites[f]) : sites[f][j].line # n)
    <3>1. PICK c : c = matched[f][n]
      OBVIOUS
    <3>2. /\ \E j \in 1..Len(sites[f]) : sites[f][j].line = n /\ sites[f][j].col = c
          /\ \A j \in 1..Len(sites[f]) : sites[f][j].line = n => c <= sites[f][j].col
      BY <2>1, <2>4, <3>1 DEF FirstOf
    <3>3. PICK C : C = FI!FirstCols(f, n)
      OBVIOUS
    <3>4. c \in C /\ \A x \in C : c <= x
      BY <2>2, <3>2, <3>3
    <3>5. \A x \in C : x \in Int
      <4> TAKE x \in C
      <4>1. PICK j \in 1..Len(sites[f]) : sites[f][j].col = x
        BY <2>2, <3>3
      <4>2. sites[f][j].col \in Nat
        BY <1>1, SiteFacts
      <4> QED
        BY <4>1, <4>2
    <3>6. C \in SUBSET Int
      BY <3>5
    <3>7. FI!Min(C) = c
      BY <3>4, <3>6, LeastIs
    <3> QED
      BY <3>1, <3>3, <3>4, <3>7
  <2> QED
    BY <2>3, <2>4
<1>5. ASSUME NEW k \in 1..Len(printed), FI!Line(printed[k]) PROVE FI!LineRight(printed[k])
  <2>1. PICK l, f, n : l = printed[k] /\ f = printed[k].file /\ n = printed[k].line
    OBVIOUS
  <2>2. f \in FI!Files /\ n \in 1..sources[f].lines /\ l.col = matched[f][n]
    BY <1>1, <1>5, <2>1 DEF PrintedInv
  <2>3. matched[f][n] = IF FI!FirstCols(f, n) = {} THEN 0 ELSE FI!Min(FI!FirstCols(f, n))
    BY <1>4, <2>2
  <2> QED
    BY <2>1, <2>2, <2>3 DEF FI!LineRight
<1>6. /\ \A j, k \in 1..Len(printed) :
             j < k /\ FI!Line(printed[j]) /\ FI!Line(printed[k]) => FI!Before(printed[j], printed[k])
      /\ \A k \in 1..Len(printed) :
             IF FI!Line(printed[k]) THEN FI!GroupRight(k) ELSE FI!SeparatorRight(k)
  BY <1>1 DEF PrintedInv
<1> QED
  BY <1>3, <1>5, <1>6

(* What find prints is what was asked for: each line within the context of a *)
(* match, or with -v each other line, once and in order, with its column,    *)
(* and a separator exactly where lines are left out.                         *)
THEOREM PrintsWhatIsAsked == FI!Spec => []PrintedAsAsked
<1>1. FI!Spec => []FindInv
  BY FindInit, FindKeeps, PTL DEF FI!Spec
<1> QED
  BY <1>1, FindDone, PTL

=============================================================================
