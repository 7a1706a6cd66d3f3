---------------------------- MODULE StreamsProofs ----------------------------
(***************************************************************************)
(* Theorems about what elftools decodes from bytes: the streams that       *)
(* constructs read and, below them, the call frame information, for every  *)
(* stream and every section.                                               *)
(***************************************************************************)
EXTENDS ConstructStreams, CallFrame,
        FiniteSetTheorems, WellFoundedInduction, SequenceTheorems, TLAPS

\* Induction, for a set of numbers.
LEMMA AllNumbers ==
  ASSUME NEW S, 0 \in S, \A n \in Nat : n \in S => n + 1 \in S PROVE Nat \subseteq S
<1> SUFFICES ASSUME Nat \ S # {} PROVE FALSE
  OBVIOUS
<1> DEFINE R == OpToRel(<, Nat)
<1>1. IsWellFoundedOn(R, Nat)
  BY NatLessThanWellFounded
<1>2. \A i, j \in Nat : i < j => << i, j >> \in R
  BY DEF OpToRel
<1> HIDE DEF R
<1>3. PICK n \in Nat \ S : \A i \in Nat \ S : << i, n >> \notin R
  BY <1>1, WFMin
<1>4. n # 0 /\ n - 1 \in Nat /\ n - 1 < n
  BY <1>3
<1>5. n - 1 \in S
  BY <1>2, <1>3, <1>4
<1>6. QED
  BY <1>3, <1>4, <1>5

\* The least of a set of numbers is one of them, and below all of them.
LEMMA MinIsLeast == ASSUME NEW S, S \subseteq Nat, S # {} PROVE Min(S) \in S /\ \A y \in S : Min(S) <= y
<1> DEFINE R == OpToRel(<, Nat)
<1>1. IsWellFoundedOn(R, Nat)
  BY NatLessThanWellFounded
<1>2. \A i, j \in Nat : i < j => << i, j >> \in R
  BY DEF OpToRel
<1> HIDE DEF R
<1>3. PICK n \in S : \A i \in S : << i, n >> \notin R
  BY <1>1, WFMin
<1>4. ASSUME NEW i \in S PROVE n <= i
  <2>1. i \in Nat /\ n \in Nat /\ ~(i < n)
    BY <1>2, <1>3
  <2>2. QED
    BY <2>1
<1>5. QED
  BY <1>3, <1>4 DEF Min

\* A sequence of anything.
IsSequence(s) == Len(s) \in Nat /\ s = [n \in 1 .. Len(s) |-> s[n]]

\* A sequence goes on with one more.
Goes(s, e, r) ==
  /\ IsSequence(r) /\ Len(r) = Len(s) + 1 /\ DOMAIN r = 1 .. Len(s) + 1 /\ DOMAIN s = 1 .. Len(s)
  /\ r[Len(s) + 1] = e /\ \A n \in 1 .. Len(s) : r[n] = s[n]

\* It is what Append() makes of any sequence.
LEMMA AppendAny == ASSUME NEW s, IsSequence(s), NEW e, NEW r, r = Append(s, e) PROVE Goes(s, e, r)
<1>1. PICK X : X = {s[n] : n \in 1 .. Len(s)} \cup {e}
  OBVIOUS
<1>2. s \in Seq(X) /\ e \in X /\ Len(s) \in Nat
  <2>1. s \in [1 .. Len(s) -> X] /\ Len(s) \in Nat
    BY <1>1 DEF IsSequence
  <2>2. QED
    BY <1>1, <2>1, SeqDef
<1>3. /\ r \in Seq(X) /\ Len(r) = Len(s) + 1
      /\ r[Len(s) + 1] = e /\ \A n \in 1 .. Len(s) : r[n] = s[n]
  BY <1>2, AppendProperties
<1>4. DOMAIN r = 1 .. Len(r) /\ DOMAIN s = 1 .. Len(s) /\ Len(r) \in Nat /\ r = [n \in 1 .. Len(r) |-> r[n]]
  BY <1>2, <1>3, LenProperties
<1>5. QED
  BY <1>2, <1>3, <1>4 DEF IsSequence, Goes

\* One sequence behind the other.
Joined(x, h) == x \o h

-----------------------------------------------------------------------------
(***************************************************************************)
(* Sequences of sequences, joined: what FlattenSeq gives for one sequence  *)
(* more, at the back and at the front.                                     *)
(***************************************************************************)

\* The sequences of q, joined up to each of the first k.
JoinsTo(F, q, k) == F = [i \in 1 .. k |-> IF i = 1 THEN q[i] ELSE Joined(F[i - 1], q[i])]

\* The first n of q and of r are the same sequences.
AgreeTo(S, q, r, n) == \A i \in 1 .. n : q[i] = r[i] /\ q[i] \in Seq(S)

\* What is at a place.
LEMMA JoinsToAt ==
  ASSUME NEW F, NEW q, NEW k, JoinsTo(F, q, k), NEW i \in 1 .. k
  PROVE  F[i] = IF i = 1 THEN q[i] ELSE Joined(F[i - 1], q[i])
BY DEF JoinsTo

\* One element more.
LEMMA AppendedIs ==
  ASSUME NEW T, NEW q \in Seq(T), NEW x \in T
  PROVE  /\ Append(q, x) \in Seq(T) /\ Len(Append(q, x)) = Len(q) + 1 /\ Append(q, x) # << >>
         /\ Append(q, x)[Len(q) + 1] = x
         /\ \A i \in 1 .. Len(q) : q[i] = Append(q, x)[i] /\ q[i] \in T
OBVIOUS

\* The first element, and the others.
LEMMA FirstAndRest ==
  ASSUME NEW T, NEW q \in Seq(T), q # << >> PROVE Head(q) \in T /\ Tail(q) \in Seq(T)
OBVIOUS

\* Joining gives a sequence.
LEMMA JoinedIs ==
  ASSUME NEW S, NEW x \in Seq(S), NEW y \in Seq(S)
  PROVE  /\ Joined(x, y) \in Seq(S) /\ Len(Joined(x, y)) = Len(x) + Len(y)
         /\ Joined(<< >>, x) = x /\ Joined(x, << >>) = x
BY DEF Joined

\* Joining is associative.
LEMMA JoinedThree ==
  ASSUME NEW S, NEW x \in Seq(S), NEW y \in Seq(S), NEW z \in Seq(S)
  PROVE  Joined(Joined(x, y), z) = Joined(x, Joined(y, z))
BY ConcatAssociative DEF Joined

\* There is what FlattenSeq chooses.
LEMMA JoinsToExist ==
  ASSUME NEW q PROVE \A k \in Nat : \E F : JoinsTo(F, q, k)
<1> DEFINE G == {k \in Nat : \E F : JoinsTo(F, q, k)}
<1>1. 0 \in G
  <2>1. PICK F : F = [i \in 1 .. 0 |-> i]
    OBVIOUS
  <2>2. F = [i \in 1 .. 0 |-> IF i = 1 THEN q[i] ELSE Joined(F[i - 1], q[i])]
    BY <2>1
  <2>3. QED
    BY <2>2 DEF JoinsTo
<1>2. ASSUME NEW k \in Nat, k \in G PROVE k + 1 \in G
  <2>1. SUFFICES \E F : JoinsTo(F, q, k + 1)
    OBVIOUS
  <2>2. PICK F : JoinsTo(F, q, k)
    BY <1>2
  <2> DEFINE T == [i \in 1 .. k + 1 |-> IF i = 1 THEN q[i] ELSE Joined(F[i - 1], q[i])]
  <2>3. ASSUME NEW i \in 1 .. k PROVE T[i] = F[i]
    <3>1. F[i] = IF i = 1 THEN q[i] ELSE Joined(F[i - 1], q[i])
      BY <2>2, JoinsToAt
    <3>2. i \in 1 .. k + 1
      OBVIOUS
    <3>3. T[i] = IF i = 1 THEN q[i] ELSE Joined(F[i - 1], q[i])
      BY <3>2
    <3> HIDE DEF T
    <3>4. QED
      BY <3>1, <3>3
  <2>4. ASSUME NEW i \in 1 .. k + 1
        PROVE  T[i] = IF i = 1 THEN q[i] ELSE Joined(T[i - 1], q[i])
    <3>1. CASE i = 1
      BY <3>1
    <3>2. CASE i # 1
      <4>1. i - 1 \in 1 .. k
        BY <3>2
      <4>2. T[i - 1] = F[i - 1]
        BY <2>3, <4>1
      <4> HIDE DEF T
      <4>3. T[i] = Joined(F[i - 1], q[i])
        BY <3>2 DEF T
      <4>4. QED
        BY <3>2, <4>2, <4>3
    <3>3. QED
      BY <3>1, <3>2
  <2>5. T = [i \in 1 .. k + 1 |-> T[i]]
    OBVIOUS
  <2> HIDE DEF T
  <2>6. T = [i \in 1 .. k + 1 |-> IF i = 1 THEN q[i] ELSE Joined(T[i - 1], q[i])]
    BY <2>4, <2>5
  <2>7. QED
    BY <2>6 DEF JoinsTo
<1> HIDE DEF G
<1>3. Nat \subseteq G
  BY <1>1, <1>2, AllNumbers
<1>4. QED
  BY <1>3 DEF G

\* It depends on the sequences joined only.
LEMMA JoinsToAgree ==
  ASSUME NEW S, NEW q, NEW r, NEW n \in Nat, AgreeTo(S, q, r, n),
         NEW m \in Nat, n <= m, NEW F, JoinsTo(F, q, n), NEW H, JoinsTo(H, r, m)
  PROVE  AgreeTo(S, F, H, n)
<1> DEFINE G == {i \in Nat : i \in 1 .. n => F[i] = H[i] /\ F[i] \in Seq(S)}
<1>1. 0 \in G
  OBVIOUS
<1>2. ASSUME NEW i \in Nat, i \in G PROVE i + 1 \in G
  <2>1. SUFFICES ASSUME i + 1 \in 1 .. n PROVE F[i + 1] = H[i + 1] /\ F[i + 1] \in Seq(S)
    OBVIOUS
  <2>2. PICK j : j = i + 1 /\ j \in 1 .. n /\ j \in 1 .. m /\ j - 1 = i
    BY <2>1
  <2>3. /\ F[j] = IF j = 1 THEN q[j] ELSE Joined(F[i], q[j])
        /\ H[j] = IF j = 1 THEN r[j] ELSE Joined(H[i], r[j])
    <3>1. F[j] = IF j = 1 THEN q[j] ELSE Joined(F[j - 1], q[j])
      BY <2>2, JoinsToAt
    <3>2. H[j] = IF j = 1 THEN r[j] ELSE Joined(H[j - 1], r[j])
      BY <2>2, JoinsToAt
    <3>3. QED
      BY ONLY <2>2, <3>1, <3>2
  <2>4. q[j] = r[j] /\ q[j] \in Seq(S)
    BY <2>2 DEF AgreeTo
  <2>5. CASE j = 1
    BY <2>2, <2>3, <2>4, <2>5
  <2>6. CASE j # 1
    <3>1. i \in 1 .. n
      BY <2>2, <2>6
    <3>2. F[i] = H[i] /\ F[i] \in Seq(S)
      BY <1>2, <3>1
    <3>3. Joined(F[i], q[j]) \in Seq(S)
      BY <2>4, <3>2, JoinedIs
    <3>4. QED
      BY <2>2, <2>3, <2>4, <2>6, <3>2, <3>3
  <2>7. QED
    BY <2>5, <2>6
<1> HIDE DEF G
<1>3. Nat \subseteq G
  BY <1>1, <1>2, AllNumbers
<1>4. QED
  BY <1>3 DEF G, AgreeTo

\* That is what FlattenSeq gives.
LEMMA FlattenGives ==
  ASSUME NEW S, NEW q \in Seq(Seq(S))
  PROVE  /\ q = << >> => FlattenSeq(q) = << >>
         /\ q # << >> => \E F : JoinsTo(F, q, Len(q)) /\ FlattenSeq(q) = F[Len(q)]
         /\ FlattenSeq(q) \in Seq(S)
<1>1. Len(q) \in Nat /\ (q = << >> <=> Len(q) = 0) /\ \A i \in 1 .. Len(q) : q[i] \in Seq(S)
  OBVIOUS
<1>2. q = << >> => FlattenSeq(q) = << >>
  BY DEF FlattenSeq
<1>3. ASSUME q # << >>
      PROVE  \E F : JoinsTo(F, q, Len(q)) /\ FlattenSeq(q) = F[Len(q)]
  <2>1. PICK F : F = CHOOSE H : JoinsTo(H, q, Len(q))
    OBVIOUS
  <2>2. FlattenSeq(q) = F[Len(q)]
    BY <1>1, <1>3, <2>1 DEF FlattenSeq, JoinsTo, Joined
  <2>3. \E H : JoinsTo(H, q, Len(q))
    BY ONLY <1>1, JoinsToExist
  <2>4. JoinsTo(F, q, Len(q))
    BY <2>1, <2>3
  <2>5. QED
    BY <2>2, <2>4
<1>4. FlattenSeq(q) \in Seq(S)
  <2>1. CASE q = << >>
    <3>1. << >> \in Seq(S)
      OBVIOUS
    <3>2. QED
      BY ONLY <1>2, <2>1, <3>1
  <2>2. CASE q # << >>
    <3>1. PICK F : JoinsTo(F, q, Len(q)) /\ FlattenSeq(q) = F[Len(q)]
      BY <1>3, <2>2
    <3>2. PICK n \in Nat : n = Len(q) /\ n \in 1 .. n
      BY <1>1, <2>2
    <3>3. F[n] \in Seq(S)
      <4>1. AgreeTo(S, q, q, n)
        BY <1>1, <3>2 DEF AgreeTo
      <4>2. JoinsTo(F, q, n) /\ n <= n
        BY <3>1, <3>2
      <4>3. AgreeTo(S, F, F, n)
        BY ONLY <4>1, <4>2, n \in Nat, JoinsToAgree
      <4>4. QED
        BY <3>2, <4>3 DEF AgreeTo
    <3>4. QED
      BY <3>1, <3>2, <3>3
  <2>3. QED
    BY <2>1, <2>2
<1>5. QED
  BY <1>2, <1>3, <1>4

\* One sequence more at the back.
LEMMA FlattenBack ==
  ASSUME NEW S, NEW q \in Seq(Seq(S)), NEW x \in Seq(S)
  PROVE  FlattenSeq(Append(q, x)) = Joined(FlattenSeq(q), x)
<1>1. PICK n \in Nat : n = Len(q) /\ (q = << >> <=> n = 0)
  OBVIOUS
<1>2. PICK r : r = Append(q, x)
  OBVIOUS
<1>3. /\ r \in Seq(Seq(S)) /\ Len(r) = n + 1 /\ r # << >> /\ r[n + 1] = x
      /\ \A i \in 1 .. n : q[i] = r[i] /\ q[i] \in Seq(S)
  BY <1>1, <1>2, AppendedIs
<1>4. PICK H : JoinsTo(H, r, n + 1) /\ FlattenSeq(r) = H[n + 1]
  BY <1>3, FlattenGives
<1>5. CASE n = 0
  <2>1. H[n + 1] = x
    BY <1>3, <1>4, <1>5 DEF JoinsTo
  <2>2. FlattenSeq(q) = << >>
    BY <1>1, <1>5, FlattenGives
  <2>3. QED
    BY <1>2, <1>4, <2>1, <2>2, JoinedIs
<1>6. CASE n # 0
  <2>1. PICK F : JoinsTo(F, q, n) /\ FlattenSeq(q) = F[n]
    BY <1>1, <1>6, FlattenGives
  <2>2. H[n + 1] = Joined(H[n], x)
    <3>1. n + 1 \in 1 .. n + 1 /\ n + 1 # 1 /\ (n + 1) - 1 = n
      BY <1>6
    <3>2. QED
      BY <1>3, <1>4, <3>1 DEF JoinsTo
  <2>3. F[n] = H[n]
    <3>1. n \in 1 .. n /\ n <= n + 1 /\ n + 1 \in Nat
      BY <1>6
    <3>2. AgreeTo(S, F, H, n)
      <4>1. AgreeTo(S, q, r, n)
        BY <1>3 DEF AgreeTo
      <4>2. PICK m \in Nat : m = n + 1 /\ n <= n /\ n <= m
        OBVIOUS
      <4>3. JoinsTo(F, q, n) /\ JoinsTo(H, r, m)
        BY <1>4, <2>1, <4>2
      <4>4. QED
        BY ONLY <4>1, <4>2, <4>3, n \in Nat, m \in Nat, JoinsToAgree
    <3>3. QED
      BY <3>1, <3>2 DEF AgreeTo
  <2>4. QED
    BY <1>2, <1>4, <2>1, <2>2, <2>3
<1>7. QED
  BY <1>5, <1>6

\* The first sequence, and the others.
LEMMA FlattenFront ==
  ASSUME NEW S
  PROVE  \A q \in Seq(Seq(S)) : q # << >> => FlattenSeq(q) = Joined(Head(q), FlattenSeq(Tail(q)))
<1> DEFINE HeadFirst(q) == FlattenSeq(q) = Joined(Head(q), FlattenSeq(Tail(q)))
           G == {n \in Nat : \A q \in Seq(Seq(S)) : q # << >> /\ Len(q) = n => HeadFirst(q)}
<1>1. 0 \in G
  OBVIOUS
<1>2. ASSUME NEW n \in Nat, n \in G PROVE n + 1 \in G
  <2>1. SUFFICES ASSUME NEW q \in Seq(Seq(S)), Len(q) = n + 1 PROVE HeadFirst(q)
    OBVIOUS
  <2>2. PICK f, x : f = SubSeq(q, 1, n) /\ x = q[n + 1]
    OBVIOUS
  <2>3. f \in Seq(Seq(S)) /\ Len(f) = n /\ x \in Seq(S) /\ q = Append(f, x)
    BY <2>1, <2>2
  <2>4. FlattenSeq(q) = Joined(FlattenSeq(f), x)
    BY <2>3, FlattenBack
  <2>5. CASE n = 0
    <3>1. f = << >> /\ Head(q) = x /\ Tail(q) = << >>
      BY <2>3, <2>5
    <3>2. FlattenSeq(f) = << >>
      BY <2>3, <3>1, FlattenGives
    <3>3. QED
      BY <2>3, <2>4, <3>1, <3>2, JoinedIs
  <2>6. CASE n # 0
    <3>1. f # << >>
      BY <2>3, <2>6
    <3>2. PICK h, t : h = Head(f) /\ t = Tail(f)
      OBVIOUS
    <3>3. h \in Seq(S) /\ t \in Seq(Seq(S)) /\ Head(q) = h /\ Tail(q) = Append(t, x)
      BY <2>3, <3>1, <3>2
    <3>4. FlattenSeq(f) = Joined(h, FlattenSeq(t))
      BY <1>2, <2>3, <3>1, <3>2
    <3>5. FlattenSeq(t) \in Seq(S)
      BY <3>3, FlattenGives
    <3>6. FlattenSeq(Tail(q)) = Joined(FlattenSeq(t), x)
      BY <2>3, <3>3, FlattenBack
    <3>7. Joined(Joined(h, FlattenSeq(t)), x) = Joined(h, Joined(FlattenSeq(t), x))
      BY <2>3, <3>3, <3>5, JoinedThree
    <3>8. QED
      BY <2>4, <3>3, <3>4, <3>6, <3>7
  <2>7. QED
    BY <2>5, <2>6
<1> HIDE DEF G
<1>3. Nat \subseteq G
  BY <1>1, <1>2, AllNumbers
<1>4. QED
  BY <1>3 DEF G

-----------------------------------------------------------------------------
(***************************************************************************)
(* Parts of a sequence, named by the places they lie between.              *)
(***************************************************************************)

\* The elements of s behind the first a, up to the b-th.
Cut(s, a, b) == SubSeq(s, a + 1, b)

\* x holds these elements.
IsCut(S, x, s, a, b) == x \in Seq(S) /\ Len(x) = b - a /\ \A j \in 1 .. b - a : x[j] = s[a + j]

\* A part is a sequence of the elements between its places.
LEMMA CutIs ==
  ASSUME NEW S, NEW s \in Seq(S), NEW a \in Nat, NEW b \in Nat, a <= b, b <= Len(s)
  PROVE  IsCut(S, Cut(s, a, b), s, a, b)
<1>1. a + 1 \in 1 .. Len(s) + 1 /\ b \in a + 1 - 1 .. Len(s)
  OBVIOUS
<1>2. /\ Cut(s, a, b) \in Seq(S)
      /\ Len(Cut(s, a, b)) = IF a + 1 <= b THEN b - (a + 1) + 1 ELSE 0
      /\ \A j \in 1 .. b - (a + 1) + 1 : Cut(s, a, b)[j] = s[a + 1 + j - 1]
  BY <1>1, SubSeqProperties DEF Cut
<1>3. Len(Cut(s, a, b)) = b - a
  BY <1>2
<1>4. b - (a + 1) + 1 = b - a /\ \A j \in Int : a + 1 + j - 1 = a + j
  OBVIOUS
<1>5. \A j \in 1 .. b - a : Cut(s, a, b)[j] = s[a + j]
  BY <1>2, <1>4
<1>6. QED
  BY <1>2, <1>3, <1>5 DEF IsCut

\* Two sequences with the same elements are one.
LEMMA SameSeq ==
  ASSUME NEW S, NEW x \in Seq(S), NEW y \in Seq(S), Len(x) = Len(y), \A j \in 1 .. Len(x) : x[j] = y[j]
  PROVE  x = y
BY SeqEqual

\* A sequence of no elements.
LEMMA NoneIn == ASSUME NEW S, NEW x \in Seq(S) PROVE Len(x) = 0 <=> x = << >>
OBVIOUS

\* Nothing lies between a place and itself, everything between the ends.
LEMMA CutEnds ==
  ASSUME NEW S, NEW s \in Seq(S)
  PROVE  /\ \A a \in Nat : a <= Len(s) => Cut(s, a, a) = << >>
         /\ Cut(s, 0, Len(s)) = s
<1>1. ASSUME NEW a \in Nat, a <= Len(s) PROVE Cut(s, a, a) = << >>
  <2>1. Cut(s, a, a) \in Seq(S) /\ Len(Cut(s, a, a)) = 0
    BY <1>1, CutIs DEF IsCut
  <2>2. QED
    BY <2>1, NoneIn
<1>2. Cut(s, 0, Len(s)) = s
  <2>1. PICK n \in Nat : n = Len(s) /\ 0 <= n
    OBVIOUS
  <2>2. Cut(s, 0, n) \in Seq(S) /\ Len(Cut(s, 0, n)) = n - 0 /\ \A j \in 1 .. n - 0 : Cut(s, 0, n)[j] = s[0 + j]
    <3>1. IsCut(S, Cut(s, 0, n), s, 0, n)
      BY <2>1, CutIs
    <3>2. IsCut(S, Cut(s, 0, n), s, 0, n)
      BY <2>1, <3>1
    <3>3. QED
      BY <3>2 DEF IsCut
  <2>3. Len(Cut(s, 0, n)) = Len(s) /\ \A j \in 1 .. Len(Cut(s, 0, n)) : Cut(s, 0, n)[j] = s[j]
    BY <2>1, <2>2
  <2>4. Cut(s, 0, n) = s
    BY <2>2, <2>3, SameSeq
  <2>5. QED
    BY <2>1, <2>4
<1>3. QED
  BY <1>1, <1>2

\* A part of a part is a part.
LEMMA CutOfCut ==
  ASSUME NEW S, NEW s \in Seq(S), NEW a \in Nat, NEW b \in Nat, a <= b, b <= Len(s),
         NEW c \in Nat, NEW d \in Nat, c <= d, d <= b - a
  PROVE  Cut(Cut(s, a, b), c, d) = Cut(s, a + c, a + d)
<1>1. PICK x : x = Cut(s, a, b)
  OBVIOUS
<1>2. x \in Seq(S) /\ Len(x) = b - a /\ \A j \in 1 .. b - a : x[j] = s[a + j]
  <2>1. IsCut(S, Cut(s, a, b), s, a, b)
    BY <1>1, CutIs
  <2>2. IsCut(S, x, s, a, b)
    BY <1>1, <2>1
  <2>3. QED
    BY <2>2 DEF IsCut
<1>3. PICK y : y = Cut(x, c, d)
  OBVIOUS
<1>4. d <= Len(x)
  BY <1>2
<1>5. y \in Seq(S) /\ Len(y) = d - c /\ \A j \in 1 .. d - c : y[j] = x[c + j]
  <2>1. IsCut(S, Cut(x, c, d), x, c, d)
    BY <1>2, <1>3, <1>4, CutIs
  <2>2. IsCut(S, y, x, c, d)
    BY <1>2, <1>3, <1>4, <2>1
  <2>3. QED
    BY <2>2 DEF IsCut
<1>6. PICK m \in Nat, n \in Nat : m = a + c /\ n = a + d /\ m <= n /\ n <= Len(s)
  OBVIOUS
<1>7. PICK z : z = Cut(s, m, n)
  OBVIOUS
<1>8. z \in Seq(S) /\ Len(z) = n - m /\ \A j \in 1 .. n - m : z[j] = s[m + j]
  <2>1. IsCut(S, Cut(s, m, n), s, m, n)
    BY <1>6, <1>7, CutIs
  <2>2. IsCut(S, z, s, m, n)
    BY <1>6, <1>7, <2>1
  <2>3. QED
    BY <2>2 DEF IsCut
<1>9. Len(y) = Len(z)
  <2>1. Len(y) = d - c /\ Len(z) = n - m
    BY <1>5, <1>8
  <2>2. n - m = d - c
    BY <1>6
  <2>3. QED
    BY <2>1, <2>2
<1>10. ASSUME NEW j \in 1 .. Len(y) PROVE y[j] = z[j]
  <2>1. j \in 1 .. d - c
    BY <1>5
  <2>2. j \in Nat /\ j >= 1 /\ j <= d - c
    BY ONLY <2>1, c \in Nat, d \in Nat
  <2>3. j \in 1 .. n - m /\ c + j \in 1 .. b - a /\ a + (c + j) = m + j
    BY ONLY <2>2, <1>6, a \in Nat, b \in Nat, c \in Nat, d \in Nat, d <= b - a
  <2>4. y[j] = x[c + j] /\ x[c + j] = s[a + (c + j)] /\ z[j] = s[m + j]
    BY <1>2, <1>5, <1>8, <2>1, <2>3
  <2>5. QED
    BY <2>3, <2>4
<1>11. y = z
  BY <1>5, <1>8, <1>9, <1>10, SameSeq
<1>12. QED
  BY <1>1, <1>3, <1>6, <1>7, <1>11

\* Two parts that meet are one.
LEMMA CutJoined ==
  ASSUME NEW S, NEW s \in Seq(S), NEW a \in Nat, NEW b \in Nat, NEW c \in Nat, a <= b, b <= c, c <= Len(s)
  PROVE  Joined(Cut(s, a, b), Cut(s, b, c)) = Cut(s, a, c)
<1>1. PICK x, y, z : x = Cut(s, a, b) /\ y = Cut(s, b, c) /\ z = Cut(s, a, c)
  OBVIOUS
<1>2. x \in Seq(S) /\ Len(x) = b - a /\ \A j \in 1 .. b - a : x[j] = s[a + j]
  <2>1. IsCut(S, Cut(s, a, b), s, a, b)
    BY <1>1, CutIs
  <2>2. IsCut(S, x, s, a, b)
    BY <1>1, <2>1
  <2>3. QED
    BY <2>2 DEF IsCut
<1>3. y \in Seq(S) /\ Len(y) = c - b /\ \A j \in 1 .. c - b : y[j] = s[b + j]
  <2>1. IsCut(S, Cut(s, b, c), s, b, c)
    BY <1>1, CutIs
  <2>2. IsCut(S, y, s, b, c)
    BY <1>1, <2>1
  <2>3. QED
    BY <2>2 DEF IsCut
<1>4. z \in Seq(S) /\ Len(z) = c - a /\ \A j \in 1 .. c - a : z[j] = s[a + j]
  <2>1. IsCut(S, Cut(s, a, c), s, a, c)
    BY <1>1, CutIs
  <2>2. IsCut(S, z, s, a, c)
    BY <1>1, <2>1
  <2>3. QED
    BY <2>2 DEF IsCut
<1>5. Joined(x, y) \in Seq(S) /\ Len(Joined(x, y)) = Len(x) + Len(y)
  BY <1>2, <1>3, JoinedIs
<1>6. ASSUME NEW j \in 1 .. Len(Joined(x, y)) PROVE Joined(x, y)[j] = z[j]
  <2>1. j \in 1 .. c - a
    BY <1>2, <1>3, <1>5
  <2>2. Joined(x, y)[j] = IF j <= Len(x) THEN x[j] ELSE y[j - Len(x)]
    BY <1>2, <1>3, <1>5, ConcatProperties DEF Joined
  <2>3. CASE j <= b - a
    <3>1. j \in 1 .. b - a /\ j <= Len(x)
      BY <1>2, <2>3
    <3>2. QED
      BY <1>2, <1>4, <2>1, <2>2, <3>1
  <2>4. CASE ~(j <= b - a)
    <3>1. PICK i : i = j - (b - a)
      OBVIOUS
    <3>2. i \in 1 .. c - b /\ ~(j <= Len(x)) /\ i = j - Len(x) /\ b + i = a + j
      BY <1>2, <2>1, <2>4, <3>1
    <3>3. Joined(x, y)[j] = y[i]
      BY <2>2, <3>2
    <3>4. y[i] = s[b + i] /\ z[j] = s[a + j]
      BY <1>3, <1>4, <2>1, <3>2
    <3>5. QED
      BY <3>2, <3>3, <3>4
  <2>5. QED
    BY <2>3, <2>4
<1>7. Len(Joined(x, y)) = Len(z)
  BY <1>2, <1>3, <1>4, <1>5
<1>8. Joined(x, y) = z
  BY <1>4, <1>5, <1>6, <1>7, SameSeq
<1>9. QED
  BY <1>1, <1>8

-----------------------------------------------------------------------------
(***************************************************************************)
(* ConstructStreams: bits that are read from a stream of bytes, and that   *)
(* are written again.                                                      *)
(***************************************************************************)
Bits == {0, 1}

\* The place of a byte, in bits.
BitPlace(p) == p * UnitBits

\* What has been given out lies between the origin and here.
GivenTo == BitPlace(origin) + totalSize

\* The stream below holds at least what was taken from it.
StreamOK ==
  /\ bitFile \in Seq(Bits) /\ subTell \in Nat /\ origin \in Nat /\ totalSize \in Nat
  /\ pieces \in Seq(Seq(Bits)) /\ BitPlace(subTell) <= Len(bitFile)

\* While it is read: what was taken from the stream and not given out is in the buffer.
ReadInv ==
  /\ GivenTo <= BitPlace(subTell) /\ BitPlace(subTell) - GivenTo < UnitBits
  /\ bitBuf = Cut(bitFile, GivenTo, BitPlace(subTell))
  /\ FlattenSeq(pieces) = Cut(bitFile, BitPlace(origin), GivenTo)
  /\ writeBuf = << >> /\ flushed = << >>

\* Closed: all that was taken was given out, and is written or still to be written.
WriteInv ==
  /\ bitBuf = << >> /\ GivenTo = BitPlace(subTell) /\ flushed = << >>
  /\ writeBuf \in Seq(Bits)
  /\ Joined(writeBuf, FlattenSeq(pieces)) = Cut(bitFile, BitPlace(origin), GivenTo)

\* Written: below the writer is what was read.
CopiedInv ==
  /\ bitBuf = << >> /\ GivenTo = BitPlace(subTell)
  /\ flushed = Cut(bitFile, BitPlace(origin), GivenTo)

\* Strong enough to be kept: how much was read says what is in the buffer, so
\* that the next read goes on where the last one stopped.  A read that failed
\* promises nothing.
BitInv ==
  /\ bitPc \in {"read", "write", "done", "failed"}
  /\ bitPc # "failed" => StreamOK
  /\ bitPc = "read" => ReadInv
  /\ bitPc = "write" => WriteInv
  /\ bitPc = "done" => CopiedInv

\* Places grow with the bytes, and a byte is UnitBits of them.
LEMMA PlacesGrow ==
  /\ UnitBits \in Nat \ {0} /\ BitPlace(0) = 0
  /\ \A p, q \in Nat : /\ BitPlace(p) \in Nat /\ BitPlace(p + q) = BitPlace(p) + BitPlace(q)
                       /\ p <= q => BitPlace(p) <= BitPlace(q)
                       /\ p < q => BitPlace(p) + UnitBits <= BitPlace(q)
<1>1. UnitBits \in Nat /\ UnitBits >= 1 /\ BitPlace(0) = 0
  BY BitStreamAssumption DEF BitPlace
<1>2. ASSUME NEW p \in Nat, NEW q \in Nat PROVE BitPlace(p) \in Nat /\ BitPlace(p + q) = BitPlace(p) + BitPlace(q)
  BY <1>1 DEF BitPlace
<1>3. ASSUME NEW p \in Nat, NEW q \in Nat, p <= q PROVE BitPlace(p) <= BitPlace(q)
  <2>1. PICK d \in Nat : q = p + d
    <3>1. q - p \in Nat /\ q = p + (q - p)
      BY <1>3
    <3>2. QED
      BY <3>1
  <2>2. BitPlace(p + d) = BitPlace(p) + BitPlace(d) /\ BitPlace(p) \in Nat /\ BitPlace(d) \in Nat
    BY <1>2
  <2>3. QED
    BY <2>1, <2>2
<1>4. ASSUME NEW p \in Nat, NEW q \in Nat, p < q PROVE BitPlace(p) + UnitBits <= BitPlace(q)
  <2>1. BitPlace(1) = UnitBits
    BY <1>1 DEF BitPlace
  <2>2. BitPlace(p + 1) = BitPlace(p) + BitPlace(1)
    BY <1>2
  <2>3. BitPlace(p + 1) <= BitPlace(q)
    BY <1>3, <1>4
  <2>4. QED
    BY <2>1, <2>2, <2>3
<1>5. QED
  BY <1>1, <1>2, <1>3, <1>4

\* A place is a number.
LEMMA BitPlaceIs == \A p \in Nat : BitPlace(p) \in Nat
BY BitStreamAssumption DEF BitPlace

\* The stream below has its bytes, and perhaps bits that are no whole byte.
LEMMA BytesBelow ==
  ASSUME bitFile \in Seq(Bits) PROVE SubBytes \in Nat /\ \A p \in Nat : p <= SubBytes => BitPlace(p) <= Len(bitFile)
<1>1. PICK n \in Nat, b \in Nat : n = Len(bitFile) /\ b = SubBytes
  <2>1. Len(bitFile) \in Nat
    OBVIOUS
  <2>2. SubBytes \in Nat
    BY <2>1, BitStreamAssumption DEF SubBytes
  <2>3. QED
    BY <2>1, <2>2
<1>2. b = n \div UnitBits
  BY <1>1 DEF SubBytes
<1>3. b * UnitBits <= n
  BY <1>2, BitStreamAssumption
<1>4. QED
  BY <1>1, <1>3, PlacesGrow DEF BitPlace

\* BytesFor() takes enough bytes, and not one too many.
LEMMA BytesForEnough ==
  ASSUME NEW m \in Nat, m > 0
  PROVE  BytesFor(m) \in Nat /\ m <= BitPlace(BytesFor(m)) /\ BitPlace(BytesFor(m)) - m < UnitBits
<1>1. PICK u \in Nat : u = UnitBits /\ u >= 1
  BY BitStreamAssumption
<1>2. PICK d \in Nat, r \in Nat : d = m \div u /\ r = m % u /\ m = d * u + r /\ r < u
  <2>1. m \div u \in Nat /\ m % u \in Nat /\ m = (m \div u) * u + (m % u) /\ m % u < u
    BY <1>1
  <2>2. QED
    BY <2>1
<1>3. CASE r = 0
  <2>1. BytesFor(m) = d
    BY <1>1, <1>2, <1>3 DEF BytesFor
  <2>2. QED
    BY <1>1, <1>2, <1>3, <2>1 DEF BitPlace
<1>4. CASE r # 0
  <2>1. BytesFor(m) = d + 1
    BY <1>1, <1>2, <1>4 DEF BytesFor
  <2>2. BitPlace(d + 1) = d * u + u
    BY <1>1 DEF BitPlace
  <2>3. QED
    BY <1>1, <1>2, <1>4, <2>1, <2>2
<1>5. QED
  BY <1>3, <1>4

\* A whole number of bytes: a remainder below one is none.
LEMMA WholeIsNone ==
  ASSUME NEW o \in Nat, NEW t \in Nat, NEW s \in Nat, WholeBytes(t),
         BitPlace(o) + t <= BitPlace(s), BitPlace(s) - (BitPlace(o) + t) < UnitBits
  PROVE  BitPlace(o) + t = BitPlace(s)
<1>1. PICK k \in Nat : t = BitPlace(k)
  <2>1. PICK u \in Nat : u = UnitBits /\ u >= 1
    BY BitStreamAssumption
  <2>2. t % u = 0
    BY <2>1 DEF WholeBytes
  <2>3. t \div u \in Nat /\ t = (t \div u) * u + (t % u)
    BY <2>1
  <2>4. t = (t \div u) * u
    BY <2>2, <2>3
  <2>5. t = BitPlace(t \div u)
    BY <2>1, <2>4 DEF BitPlace
  <2>6. QED
    BY <2>3, <2>5
<1>2. PICK a \in Nat : a = o + k
  OBVIOUS
<1>3. BitPlace(a) = BitPlace(o) + t /\ BitPlace(a) \in Nat /\ BitPlace(s) \in Nat
  BY <1>1, <1>2, PlacesGrow
<1>4. ~(a < s)
  <2>1. SUFFICES ASSUME a < s PROVE FALSE
    OBVIOUS
  <2>2. BitPlace(a) + UnitBits <= BitPlace(s)
    BY <2>1, PlacesGrow
  <2>3. QED
    BY <1>3, <2>2, BitStreamAssumption
<1>5. BitPlace(s) <= BitPlace(a)
  BY <1>4, PlacesGrow
<1>6. QED
  BY <1>3, <1>5

\* The lesser of two.
LEMMA MinOfTwo == ASSUME NEW a \in Nat, NEW b \in Nat PROVE Min({a, b}) = IF a <= b THEN a ELSE b
<1>1. {a, b} \subseteq Nat /\ {a, b} # {}
  OBVIOUS
<1>2. PICK m : m = Min({a, b})
  OBVIOUS
<1>3. m \in {a, b} /\ \A y \in {a, b} : m <= y
  BY <1>1, <1>2, MinIsLeast
<1>4. QED
  BY <1>2, <1>3

\* A prefix is a part from the beginning.
LEMMA PrefixIsCut ==
  ASSUME NEW S, NEW s \in Seq(S), NEW n \in Nat
  PROVE  Prefix(s, n) = Cut(s, 0, IF n <= Len(s) THEN n ELSE Len(s))
<1>1. Len(s) \in Nat
  OBVIOUS
<1>2. Min({n, Len(s)}) = IF n <= Len(s) THEN n ELSE Len(s)
  BY <1>1, MinOfTwo
<1>3. Prefix(s, n) = SubSeq(s, 0 + 1, Min({n, Len(s)}))
  BY DEF Prefix
<1>4. QED
  BY <1>2, <1>3 DEF Cut

\* What a read that got its bits leaves: the next part of the stream is given out.
LEMMA GivenMore ==
  ASSUME BitInv, bitPc = "read", NEW n \in Nat, NEW bytes \in Nat,
         GivenTo + n <= BitPlace(subTell + bytes), BitPlace(subTell + bytes) <= Len(bitFile),
         BitPlace(subTell + bytes) - (GivenTo + n) < UnitBits,
         subTell' = subTell + bytes, totalSize' = totalSize + n,
         pieces' = Append(pieces, Cut(bitFile, GivenTo, GivenTo + n)),
         bitBuf' = Cut(bitFile, GivenTo + n, BitPlace(subTell + bytes)),
         UNCHANGED << bitFile, origin, seeks, writeBuf, flushed, bitPc >>
  PROVE  BitInv'
<1>1. StreamOK /\ ReadInv
  BY DEF BitInv
<1>2. PICK o \in Nat, g \in Nat, h \in Nat :
        /\ o = BitPlace(origin) /\ g = GivenTo /\ h = g + n /\ o <= g /\ g <= h /\ h <= Len(bitFile)
        /\ g = o + totalSize
  <2>1. BitPlace(origin) \in Nat /\ BitPlace(subTell + bytes) \in Nat
    <3>1. subTell + bytes \in Nat /\ origin \in Nat
      BY <1>1 DEF StreamOK
    <3>2. QED
      BY <3>1, BitPlaceIs
  <2>2. GivenTo \in Nat
    BY <1>1, <2>1 DEF StreamOK, GivenTo
  <2>3. GivenTo + n \in Nat /\ BitPlace(origin) <= GivenTo /\ GivenTo + n <= Len(bitFile)
    <3>1. totalSize \in Nat /\ Len(bitFile) \in Nat
      BY <1>1 DEF StreamOK
    <3>2. PICK o, g, e, k, t : /\ o = BitPlace(origin) /\ g = GivenTo /\ e = BitPlace(subTell + bytes)
                               /\ k = Len(bitFile) /\ t = totalSize
      OBVIOUS
    <3>3. o \in Nat /\ g \in Nat /\ e \in Nat /\ k \in Nat /\ t \in Nat /\ g = o + t /\ g + n <= e /\ e <= k
      BY <2>1, <2>2, <3>1, <3>2 DEF GivenTo
    <3>4. g + n \in Nat /\ o <= g /\ g + n <= k
      BY ONLY <3>3, n \in Nat
    <3>5. QED
      BY ONLY <3>2, <3>4
  <2>4. GivenTo = BitPlace(origin) + totalSize
    BY DEF GivenTo
  <2>5. QED
    BY <2>1, <2>2, <2>3, <2>4
<1>3. GivenTo' = h
  <2>1. GivenTo' = BitPlace(origin) + (totalSize + n)
    BY DEF GivenTo, BitPlace
  <2>2. totalSize \in Nat /\ BitPlace(origin) = o /\ g = o + totalSize
    BY <1>1, <1>2 DEF StreamOK
  <2>3. o + (totalSize + n) = h
    BY ONLY <2>2, <1>2, n \in Nat, o \in Nat, g \in Nat, h \in Nat, h = g + n
  <2>4. QED
    BY ONLY <2>1, <2>2, <2>3
<1>4. BitPlace(subTell)' = BitPlace(subTell + bytes) /\ BitPlace(origin)' = o
  BY <1>2 DEF BitPlace
<1>5. PICK d : d = Cut(bitFile, g, h)
  OBVIOUS
<1>6. bitFile \in Seq(Bits) /\ pieces \in Seq(Seq(Bits))
  BY <1>1 DEF StreamOK
<1>7. d \in Seq(Bits)
  <2>1. IsCut(Bits, Cut(bitFile, g, h), bitFile, g, h)
    BY <1>2, <1>6, CutIs
  <2>2. QED
    BY <1>5, <2>1 DEF IsCut
<1>8. pieces' = Append(pieces, d)
  BY <1>2, <1>5
<1>9. pieces' \in Seq(Seq(Bits))
  BY <1>6, <1>7, <1>8, AppendedIs
<1>10. StreamOK'
  <2>1. subTell' \in Nat /\ origin' \in Nat /\ totalSize' \in Nat
    BY <1>1 DEF StreamOK
  <2>2. QED
    BY <1>4, <1>6, <1>9, <2>1 DEF StreamOK
<1>11. FlattenSeq(pieces') = Cut(bitFile, o, h)
  <2>1. FlattenSeq(pieces') = Joined(FlattenSeq(pieces), d)
    BY <1>6, <1>7, <1>8, FlattenBack
  <2>2. FlattenSeq(pieces) = Cut(bitFile, o, g)
    BY <1>1, <1>2 DEF ReadInv
  <2>3. Joined(Cut(bitFile, o, g), Cut(bitFile, g, h)) = Cut(bitFile, o, h)
    BY <1>2, <1>6, CutJoined
  <2>4. QED
    BY <1>5, <2>1, <2>2, <2>3
<1>12. ReadInv'
  <2>1. writeBuf' = << >> /\ flushed' = << >>
    BY <1>1 DEF ReadInv
  <2>2. FlattenSeq(pieces)' = Cut(bitFile', BitPlace(origin)', GivenTo')
    BY <1>3, <1>4, <1>11
  <2>3. bitBuf' = Cut(bitFile', GivenTo', BitPlace(subTell)')
    BY <1>2, <1>3, <1>4
  <2>4. GivenTo' <= BitPlace(subTell)' /\ BitPlace(subTell)' - GivenTo' < UnitBits
    BY <1>2, <1>3, <1>4
  <2>5. QED
    BY <2>1, <2>2, <2>3, <2>4 DEF ReadInv
<1>13. QED
  BY <1>10, <1>12 DEF BitInv

\* A read takes the bytes it needs, gives their bits and keeps the rest.
LEMMA ReadBitsKeeps == ASSUME BitInv, NEW n \in FieldWidths, ReadBits(n) PROVE BitInv'
<1>1. n \in Nat /\ bitPc = "read" /\ StreamOK /\ ReadInv
  BY BitStreamAssumption DEF ReadBits, BitInv
<1>2. PICK more, need, bytes, buf, data :
        /\ more = n - Len(bitBuf)
        /\ need = IF more > 0 THEN BytesFor(more) ELSE 0
        /\ bytes = Min({need, SubBytes - subTell})
        /\ buf = SubSeq(bitFile, subTell * UnitBits + 1, (subTell + bytes) * UnitBits)
        /\ data = IF more > 0 THEN OldFirst(bitBuf, Prefix(buf, more)) ELSE Prefix(bitBuf, n)
        /\ subTell' = subTell + bytes
        /\ bitBuf' = IF more > 0 THEN Suffix(buf, more) ELSE Suffix(bitBuf, n)
        /\ totalSize' = totalSize + Len(data)
        /\ IF Len(data) = n THEN pieces' = Append(pieces, data) /\ UNCHANGED bitPc
           ELSE bitPc' = "failed" /\ UNCHANGED pieces
        /\ UNCHANGED << bitFile, origin, seeks, writeBuf, flushed >>
  BY DEF ReadBits
<1>3. CASE Len(data) # n
  BY <1>2, <1>3 DEF BitInv
<1>4. CASE Len(data) = n
  <2>1. PICK g \in Nat, p \in Nat :
          /\ g = GivenTo /\ p = BitPlace(subTell) /\ g <= p /\ p - g < UnitBits /\ p <= Len(bitFile)
          /\ bitBuf = Cut(bitFile, g, p)
    <3>1. BitPlace(subTell) \in Nat /\ BitPlace(origin) \in Nat
      BY <1>1, PlacesGrow DEF StreamOK
    <3>2. GivenTo \in Nat
      BY <1>1, <3>1 DEF StreamOK, GivenTo
    <3>3. QED
      BY <1>1, <3>1, <3>2 DEF StreamOK, ReadInv
  <2>2. bitFile \in Seq(Bits) /\ subTell \in Nat
    BY <1>1 DEF StreamOK
  <2>3. bitBuf \in Seq(Bits) /\ Len(bitBuf) = p - g
    <3>1. IsCut(Bits, Cut(bitFile, g, p), bitFile, g, p)
      BY <2>1, <2>2, CutIs
    <3>2. QED
      BY <2>1, <3>1 DEF IsCut
  <2>4. more \in Int /\ more = n - (p - g)
    BY <1>1, <1>2, <2>1, <2>3
  <2>5. need \in Nat
    BY <1>2, <2>4, BytesForEnough
  <2>6. PICK left \in Nat : left = SubBytes - subTell
    <3>1. SubBytes \in Nat
      BY <2>2, BytesBelow
    <3>2. subTell <= SubBytes
      <4>1. PICK b \in Nat : b = SubBytes
        BY <3>1
      <4>2. SUFFICES ASSUME b < subTell PROVE FALSE
        BY <2>2, <4>1
      <4>3. BitPlace(b) + UnitBits <= p
        BY <2>1, <2>2, <4>2, PlacesGrow
      <4>4. Len(bitFile) < BitPlace(b) + UnitBits
        <5>1. PICK l \in Nat, u \in Nat : l = Len(bitFile) /\ u = UnitBits /\ u >= 1
          BY <2>2, BitStreamAssumption
        <5>2. b = l \div u
          BY <4>1, <5>1 DEF SubBytes
        <5>3. l = (l \div u) * u + (l % u) /\ l % u < u
          BY <5>1
        <5>4. QED
          BY <5>1, <5>2, <5>3 DEF BitPlace
      <4>5. PICK c \in Nat : c = BitPlace(b) + UnitBits
        BY <4>1, BitStreamAssumption, BitPlaceIs
      <4>6. QED
        BY <2>1, <2>2, <4>3, <4>4, <4>5
    <3>3. QED
      BY <2>2, <3>1, <3>2
  <2>7. bytes \in Nat /\ bytes <= need /\ bytes <= left
    BY <1>2, <2>5, <2>6, MinOfTwo
  <2>8. PICK r \in Nat : r = BitPlace(subTell + bytes) /\ p <= r /\ r <= Len(bitFile) /\ r = p + BitPlace(bytes)
    <3>1. subTell + bytes \in Nat /\ subTell + bytes <= SubBytes
      BY <2>2, <2>6, <2>7, BytesBelow
    <3>2. BitPlace(subTell + bytes) <= Len(bitFile)
      BY <2>2, <3>1, BytesBelow
    <3>3. BitPlace(subTell + bytes) = p + BitPlace(bytes) /\ BitPlace(bytes) \in Nat
      BY <2>1, <2>2, <2>7, PlacesGrow
    <3>4. QED
      BY <3>2, <3>3
  <2>9. buf = Cut(bitFile, p, r)
    BY <1>2, <2>1, <2>8 DEF Cut, BitPlace
  <2>10. buf \in Seq(Bits) /\ Len(buf) = r - p
    <3>1. IsCut(Bits, Cut(bitFile, p, r), bitFile, p, r)
      BY <2>2, <2>8, CutIs
    <3>2. QED
      BY <2>9, <3>1 DEF IsCut
  <2>11. PICK h \in Nat : h = g + n
    BY <1>1
  <2>12. /\ h <= r /\ r - h < UnitBits /\ data = Cut(bitFile, g, h) /\ bitBuf' = Cut(bitFile, h, r)
    <3>1. CASE more > 0
      <4>1. more \in Nat /\ h = p + more
        <5>1. more \in Nat
          BY <2>4, <3>1
        <5>2. g + n = p + (n - (p - g))
          BY <1>1
        <5>3. QED
          BY <2>4, <2>11, <5>1, <5>2
      <4>2. PICK k \in Nat : k = (IF more <= Len(buf) THEN more ELSE Len(buf)) /\ k <= r - p /\ k <= more
        BY <2>8, <2>10, <4>1
      <4>3. Prefix(buf, more) = Cut(buf, 0, k)
        BY <2>10, <4>1, <4>2, PrefixIsCut
      <4>4. Cut(Cut(bitFile, p, r), 0, k) = Cut(bitFile, p + 0, p + k)
        BY <2>2, <2>8, <4>2, CutOfCut
      <4>5. p + 0 = p
        OBVIOUS
      <4>6. data = Joined(Cut(bitFile, g, p), Cut(bitFile, p, p + k))
        BY <1>2, <2>1, <2>9, <3>1, <4>3, <4>4, <4>5 DEF OldFirst, Joined
      <4>7. data = Cut(bitFile, g, p + k)
        <5>1. PICK e \in Nat : e = p + k /\ p <= e /\ e <= Len(bitFile)
          BY <2>8, <2>2, <4>2
        <5>2. Joined(Cut(bitFile, g, p), Cut(bitFile, p, e)) = Cut(bitFile, g, e)
          BY <2>1, <2>2, <5>1, CutJoined
        <5>3. QED
          BY <4>6, <5>1, <5>2
      <4>8. Len(data) = (p + k) - g
        <5>1. PICK e \in Nat : e = p + k /\ g <= e /\ e <= Len(bitFile)
          <6>1. PICK l \in Nat : l = Len(bitFile) /\ r <= l
            BY <2>2, <2>8
          <6>2. p + k \in Nat /\ g <= p + k /\ p + k <= l
            <7>1. g <= p /\ k <= r - p
              BY <2>1, <4>2
            <7>2. g <= p + k
              BY <7>1
            <7>3. p + k <= r
              BY <7>1
            <7>4. QED
              BY <6>1, <7>2, <7>3
          <6>3. QED
            BY <6>1, <6>2
        <5>2. IsCut(Bits, Cut(bitFile, g, e), bitFile, g, e)
          BY <2>2, <5>1, CutIs
        <5>3. QED
          BY <4>7, <5>1, <5>2 DEF IsCut
      <4>9. k = more
        <5>1. n = (p + k) - g
          BY <1>4, <4>8
        <5>2. QED
          BY <1>1, <2>4, <5>1
      <4>10. more <= r - p
        BY <4>2, <4>9
      <4>11. bitBuf' = Cut(buf, more, r - p)
        BY <1>2, <2>10, <3>1 DEF Suffix, Cut
      <4>12. Cut(Cut(bitFile, p, r), more, r - p) = Cut(bitFile, p + more, p + (r - p))
        <5>1. r - p \in Nat /\ r - p <= r - p
          BY <2>8
        <5>2. QED
          BY <2>2, <2>8, <4>1, <4>10, <5>1, CutOfCut
      <4>13. p + (r - p) = r
        BY <2>8
      <4>14. r - h < UnitBits
        <5>1. BitPlace(bytes) <= BitPlace(need)
          BY <2>5, <2>7, PlacesGrow
        <5>2. BitPlace(need) - more < UnitBits
          BY <1>2, <3>1, <4>1, BytesForEnough
        <5>3. BitPlace(bytes) \in Nat /\ BitPlace(need) \in Nat /\ UnitBits \in Nat
          BY <2>5, <2>7, PlacesGrow
        <5>4. QED
          BY <2>8, <4>1, <5>1, <5>2, <5>3
      <4>15. h <= r
        BY <2>8, <4>1, <4>10
      <4>16. QED
        BY <2>9, <4>1, <4>7, <4>9, <4>11, <4>12, <4>13, <4>14, <4>15
    <3>2. CASE ~(more > 0)
      <4>1. bytes = 0 /\ r = p
        BY <1>2, <2>7, <2>8, <3>2, PlacesGrow
      <4>2. n <= p - g
        BY <1>1, <2>4, <3>2
      <4>3. data = Cut(bitBuf, 0, n)
        BY <1>1, <1>2, <2>3, <3>2, <4>2, PrefixIsCut
      <4>4. Cut(Cut(bitFile, g, p), 0, n) = Cut(bitFile, g + 0, g + n)
        BY <1>1, <2>1, <2>2, <4>2, CutOfCut
      <4>5. bitBuf' = Cut(bitBuf, n, p - g)
        BY <1>2, <2>3, <3>2 DEF Suffix, Cut
      <4>6. Cut(Cut(bitFile, g, p), n, p - g) = Cut(bitFile, g + n, g + (p - g))
        <5>1. p - g \in Nat /\ p - g <= p - g
          BY <2>1
        <5>2. QED
          BY <1>1, <2>1, <2>2, <4>2, <5>1, CutOfCut
      <4>7. g + 0 = g /\ g + (p - g) = p
        BY <2>1
      <4>8. h <= r /\ r - h < UnitBits
        BY <1>1, <2>1, <2>11, <4>1, <4>2, BitStreamAssumption
      <4>9. QED
        BY <2>1, <2>11, <4>1, <4>3, <4>4, <4>5, <4>6, <4>7, <4>8
    <3>3. QED
      BY <3>1, <3>2
  <2>13. pieces' = Append(pieces, Cut(bitFile, GivenTo, GivenTo + n)) /\ bitPc' = bitPc
    BY <1>2, <1>4, <2>1, <2>11, <2>12
  <2>14. /\ subTell' = subTell + bytes /\ totalSize' = totalSize + n
         /\ UNCHANGED << bitFile, origin, seeks, writeBuf, flushed, bitPc >>
    BY <1>2, <1>4, <2>13
  <2>15. /\ GivenTo + n <= BitPlace(subTell + bytes) /\ BitPlace(subTell + bytes) <= Len(bitFile)
         /\ BitPlace(subTell + bytes) - (GivenTo + n) < UnitBits
         /\ bitBuf' = Cut(bitFile, GivenTo + n, BitPlace(subTell + bytes))
    BY <2>1, <2>8, <2>11, <2>12
  <2>16. QED
    BY <1>1, <2>7, <2>13, <2>14, <2>15, GivenMore
<1>5. QED
  BY <1>3, <1>4

\* Nothing is given out, nothing is kept.
LEMMA BitInitOK == BitInit => BitInv
<1>1. SUFFICES ASSUME BitInit PROVE BitInv
  OBVIOUS
<1>2. bitFile \in Seq(Bits)
  BY <1>1, BitStreamAssumption DEF BitInit, Bits
<1>3. SubBytes \in Nat
  BY <1>2, BytesBelow
<1>4. subTell \in Nat /\ subTell <= SubBytes /\ origin = subTell /\ totalSize = 0
  BY <1>1, <1>3 DEF BitInit
<1>5. PICK p \in Nat : p = BitPlace(subTell) /\ p <= Len(bitFile)
  BY <1>2, <1>3, <1>4, BytesBelow, BitPlaceIs
<1>6. GivenTo = p
  BY <1>4, <1>5 DEF GivenTo
<1>7. Cut(bitFile, p, p) = << >>
  BY <1>2, <1>5, CutEnds
<1>8. pieces = << >> /\ bitBuf = << >> /\ writeBuf = << >> /\ flushed = << >> /\ bitPc = "read"
  BY <1>1 DEF BitInit
<1>9. pieces \in Seq(Seq(Bits)) /\ FlattenSeq(pieces) = << >>
  <2>1. << >> \in Seq(Seq(Bits))
    OBVIOUS
  <2>2. FlattenSeq(<< >>) = << >>
    BY <2>1, FlattenGives
  <2>3. QED
    BY <1>8, <2>1, <2>2
<1>10. StreamOK
  BY <1>2, <1>4, <1>5, <1>9 DEF StreamOK
<1>11. p <= p /\ p - p < UnitBits
  BY BitStreamAssumption
<1>12. ReadInv
  BY <1>4, <1>5, <1>6, <1>7, <1>8, <1>9, <1>11 DEF ReadInv
<1>13. QED
  BY <1>8, <1>10, <1>12 DEF BitInv

\* A seek begins anew from a byte.
LEMMA SeekReaderKeeps == ASSUME BitInv, NEW b \in 0 .. SubBytes, SeekReader(b) PROVE BitInv'
<1>1. bitPc = "read" /\ StreamOK /\ ReadInv
  BY DEF SeekReader, BitInv
<1>2. bitFile \in Seq(Bits)
  BY <1>1 DEF StreamOK
<1>3. SubBytes \in Nat
  BY <1>2, BytesBelow
<1>4. b \in Nat /\ b <= SubBytes
  BY <1>3
<1>5. PICK p \in Nat : p = BitPlace(b) /\ p <= Len(bitFile)
  BY <1>2, <1>4, BytesBelow, BitPlaceIs
<1>6. subTell' = b /\ origin' = b /\ totalSize' = 0 /\ bitFile' = bitFile
  BY DEF SeekReader
<1>7. BitPlace(subTell)' = p /\ BitPlace(origin)' = p
  BY <1>5, <1>6 DEF BitPlace
<1>8. GivenTo' = p
  <2>1. GivenTo' = BitPlace(origin)' + totalSize'
    BY DEF GivenTo
  <2>2. QED
    BY <1>6, <1>7, <2>1
<1>9. Cut(bitFile, p, p) = << >>
  BY <1>2, <1>5, CutEnds
<1>10. pieces' = << >> /\ bitBuf' = << >> /\ writeBuf' = << >> /\ flushed' = << >> /\ bitPc' = "read"
  BY <1>1 DEF SeekReader, ReadInv
<1>11. pieces' \in Seq(Seq(Bits)) /\ FlattenSeq(pieces)' = << >>
  <2>1. << >> \in Seq(Seq(Bits))
    OBVIOUS
  <2>2. FlattenSeq(<< >>) = << >>
    BY <2>1, FlattenGives
  <2>3. QED
    BY <1>10, <2>1, <2>2
<1>12. StreamOK'
  <2>1. 0 \in Nat
    OBVIOUS
  <2>2. BitPlace(subTell)' <= Len(bitFile')
    BY <1>5, <1>6, <1>7
  <2>3. QED
    BY <1>2, <1>4, <1>6, <1>11, <2>1, <2>2 DEF StreamOK
<1>13. p <= p /\ p - p < UnitBits
  BY BitStreamAssumption
<1>14. ReadInv'
  BY <1>6, <1>7, <1>8, <1>9, <1>10, <1>11, <1>13 DEF ReadInv
<1>15. QED
  BY <1>10, <1>12, <1>14 DEF BitInv

\* A reader that is closed on whole bytes keeps nothing back.
LEMMA CloseReaderKeeps == ASSUME BitInv, CloseReader PROVE BitInv'
<1>1. bitPc = "read" /\ StreamOK /\ ReadInv
  BY DEF CloseReader, BitInv
<1>2. UNCHANGED << bitFile, subTell, bitBuf, totalSize, origin, pieces, seeks, writeBuf, flushed >>
  BY DEF CloseReader
<1>3. CASE ~WholeBytes(totalSize)
  BY <1>2, <1>3 DEF CloseReader, BitInv
<1>4. CASE WholeBytes(totalSize)
  <2>1. bitPc' = "write"
    BY <1>4 DEF CloseReader
  <2>2. StreamOK'
    BY <1>1, <1>2 DEF StreamOK, BitPlace
  <2>3. GivenTo = BitPlace(subTell)
    BY <1>1, <1>4, WholeIsNone DEF StreamOK, ReadInv, GivenTo
  <2>4. PICK p \in Nat : p = BitPlace(subTell) /\ p <= Len(bitFile)
    BY <1>1, BitPlaceIs DEF StreamOK
  <2>5. bitBuf = << >>
    <3>1. bitFile \in Seq(Bits)
      BY <1>1 DEF StreamOK
    <3>2. Cut(bitFile, p, p) = << >>
      BY <2>4, <3>1, CutEnds
    <3>3. QED
      BY <1>1, <2>3, <2>4, <3>2 DEF ReadInv
  <2>6. Joined(writeBuf, FlattenSeq(pieces)) = Cut(bitFile, BitPlace(origin), GivenTo)
    <3>1. pieces \in Seq(Seq(Bits))
      BY <1>1 DEF StreamOK
    <3>2. FlattenSeq(pieces) \in Seq(Bits)
      BY <3>1, FlattenGives
    <3>3. Joined(<< >>, FlattenSeq(pieces)) = FlattenSeq(pieces)
      BY <3>2, JoinedIs
    <3>4. QED
      BY <1>1, <3>3 DEF ReadInv
  <2>7. writeBuf = << >> /\ writeBuf \in Seq(Bits) /\ flushed = << >>
    BY <1>1 DEF ReadInv
  <2>8. WriteInv
    BY <2>3, <2>5, <2>6, <2>7 DEF WriteInv
  <2>9. WriteInv'
    BY <1>2, <2>8 DEF WriteInv, GivenTo, BitPlace
  <2>10. QED
    BY <2>1, <2>2, <2>9 DEF BitInv
<1>5. QED
  BY <1>3, <1>4

\* The writer collects the fields in their order.
LEMMA WriteBitsKeeps == ASSUME BitInv, WriteBits PROVE BitInv'
<1>1. bitPc = "write" /\ pieces # << >> /\ StreamOK /\ WriteInv /\ bitPc' = "write"
  BY DEF WriteBits, BitInv
<1>2. UNCHANGED << bitFile, subTell, bitBuf, totalSize, origin, seeks, flushed >>
  BY DEF WriteBits
<1>3. PICK h, t : h = Head(pieces) /\ t = Tail(pieces)
  OBVIOUS
<1>4. pieces \in Seq(Seq(Bits))
  BY <1>1 DEF StreamOK
<1>5. h \in Seq(Bits) /\ t \in Seq(Seq(Bits))
  BY <1>1, <1>3, <1>4, FirstAndRest
<1>6. writeBuf' = Joined(writeBuf, h) /\ pieces' = t
  BY <1>3 DEF WriteBits, Buffered, Joined
<1>7. writeBuf \in Seq(Bits) /\ FlattenSeq(t) \in Seq(Bits)
  BY <1>1, <1>5, FlattenGives DEF WriteInv
<1>8. Joined(writeBuf, h) \in Seq(Bits)
  BY <1>5, <1>7, JoinedIs
<1>9. FlattenSeq(pieces) = Joined(h, FlattenSeq(t))
  BY <1>1, <1>3, <1>4, FlattenFront
<1>10. Joined(Joined(writeBuf, h), FlattenSeq(t)) = Joined(writeBuf, Joined(h, FlattenSeq(t)))
  BY <1>5, <1>7, JoinedThree
<1>11. Joined(writeBuf', FlattenSeq(pieces')) = Cut(bitFile, BitPlace(origin), GivenTo)
  BY <1>1, <1>6, <1>9, <1>10 DEF WriteInv
<1>12. StreamOK'
  BY <1>1, <1>2, <1>5, <1>6 DEF StreamOK, BitPlace
<1>13. BitPlace(origin)' = BitPlace(origin) /\ GivenTo' = GivenTo /\ BitPlace(subTell)' = BitPlace(subTell)
  BY <1>2 DEF GivenTo, BitPlace
<1>14. FlattenSeq(pieces)' = FlattenSeq(pieces')
  OBVIOUS
<1>15. WriteInv'
  BY <1>1, <1>2, <1>6, <1>8, <1>11, <1>13, <1>14 DEF WriteInv
<1>16. QED
  BY <1>1, <1>12, <1>15 DEF BitInv

\* What was collected is written.
LEMMA CloseWriterKeeps == ASSUME BitInv, CloseWriter PROVE BitInv'
<1>1. bitPc = "write" /\ pieces = << >> /\ StreamOK /\ WriteInv
  BY DEF CloseWriter, BitInv
<1>2. UNCHANGED << bitFile, subTell, bitBuf, totalSize, origin, pieces, seeks >>
  BY DEF CloseWriter
<1>3. CASE ~WholeBytes(Len(writeBuf))
  BY <1>2, <1>3 DEF CloseWriter, BitInv
<1>4. CASE WholeBytes(Len(writeBuf))
  <2>1. flushed' = Joined(flushed, writeBuf) /\ bitPc' = "done"
    BY <1>4 DEF CloseWriter, Joined
  <2>2. writeBuf \in Seq(Bits) /\ flushed = << >>
    BY <1>1 DEF WriteInv
  <2>3. Joined(<< >>, writeBuf) = writeBuf /\ Joined(writeBuf, << >>) = writeBuf
    BY <2>2, JoinedIs
  <2>4. FlattenSeq(pieces) = << >>
    BY <1>1, FlattenGives DEF StreamOK
  <2>5. flushed' = Cut(bitFile, BitPlace(origin), GivenTo)
    BY <1>1, <2>1, <2>2, <2>3, <2>4 DEF WriteInv
  <2>6. BitPlace(origin)' = BitPlace(origin) /\ GivenTo' = GivenTo /\ BitPlace(subTell)' = BitPlace(subTell)
    BY <1>2 DEF GivenTo, BitPlace
  <2>7. CopiedInv'
    BY <1>1, <1>2, <2>5, <2>6 DEF CopiedInv, WriteInv
  <2>8. StreamOK'
    BY <1>1, <1>2, <2>6 DEF StreamOK
  <2>9. QED
    BY <2>1, <2>7, <2>8 DEF BitInv
<1>5. QED
  BY <1>3, <1>4

\* Every step of the bit streams keeps the invariant.
LEMMA BitStepKeeps == BitInv /\ [BitNext]_bitVars => BitInv'
<1>1. SUFFICES ASSUME BitInv, [BitNext]_bitVars PROVE BitInv'
  OBVIOUS
<1>2. CASE UNCHANGED bitVars
  <2>1. UNCHANGED << bitFile, subTell, bitBuf, totalSize, origin, pieces, writeBuf, flushed, bitPc >>
    BY <1>2 DEF bitVars
  <2>2. QED
    BY <1>1, <2>1 DEF BitInv, StreamOK, ReadInv, WriteInv, CopiedInv, GivenTo, BitPlace
<1>3. CASE BitNext
  <2>1. CASE \E n \in FieldWidths : ReadBits(n)
    BY <1>1, <2>1, ReadBitsKeeps
  <2>2. CASE \E p \in 0 .. SubBytes : SeekReader(p)
    BY <1>1, <2>2, SeekReaderKeeps
  <2>3. CASE CloseReader
    BY <1>1, <2>3, CloseReaderKeeps
  <2>4. CASE WriteBits
    BY <1>1, <2>4, WriteBitsKeeps
  <2>5. CASE CloseWriter
    BY <1>1, <2>5, CloseWriterKeeps
  <2>6. QED
    BY <1>3, <2>1, <2>2, <2>3, <2>4, <2>5 DEF BitNext
<1>4. QED
  BY <1>1, <1>2, <1>3

\* The invariant has the three properties of the bit streams.
LEMMA BitInvGives == BitInv => BitsInOrder /\ ClosedOnByte /\ CopyIsExact
<1>1. SUFFICES ASSUME BitInv PROVE BitsInOrder /\ ClosedOnByte /\ CopyIsExact
  OBVIOUS
<1>2. ASSUME bitPc # "failed"
      PROVE  \E o, g, p \in Nat : /\ o = BitPlace(origin) /\ g = GivenTo /\ p = BitPlace(subTell)
                                   /\ g = o + totalSize /\ totalSize \in Nat /\ p <= Len(bitFile)
                                   /\ bitFile \in Seq(Bits) /\ origin \in Nat /\ subTell \in Nat
  <2>1. StreamOK
    BY <1>1, <1>2 DEF BitInv
  <2>2. BitPlace(origin) \in Nat /\ BitPlace(subTell) \in Nat
    BY <2>1, BitPlaceIs DEF StreamOK
  <2>3. GivenTo \in Nat /\ GivenTo = BitPlace(origin) + totalSize
    BY <2>1, <2>2 DEF GivenTo, StreamOK
  <2>4. QED
    BY <2>1, <2>2, <2>3 DEF StreamOK
<1>3. BitsFrom(origin, totalSize) = Cut(bitFile, BitPlace(origin), GivenTo)
  BY DEF BitsFrom, Cut, BitPlace, GivenTo
<1>4. ASSUME bitPc # "failed" PROVE (subTell - origin) * UnitBits = BitPlace(subTell) - BitPlace(origin)
  <2>1. subTell \in Nat /\ origin \in Nat /\ UnitBits \in Nat
    BY <1>2, <1>4, BitStreamAssumption
  <2>2. QED
    BY <2>1 DEF BitPlace
<1>5. BitsInOrder
  <2>1. SUFFICES ASSUME bitPc = "read"
                 PROVE  /\ FlattenSeq(pieces) = BitsFrom(origin, totalSize)
                        /\ BitsFrom(origin, totalSize) \o bitBuf = BitsFrom(origin, (subTell - origin) * UnitBits)
                        /\ Len(bitBuf) < UnitBits
    BY DEF BitsInOrder
  <2>2. PICK o \in Nat, g \in Nat, p \in Nat :
          /\ o = BitPlace(origin) /\ g = GivenTo /\ p = BitPlace(subTell)
          /\ g = o + totalSize /\ totalSize \in Nat /\ p <= Len(bitFile)
          /\ bitFile \in Seq(Bits) /\ origin \in Nat /\ subTell \in Nat
    BY <1>2, <2>1
  <2>3. /\ g <= p /\ p - g < UnitBits /\ bitBuf = Cut(bitFile, g, p)
        /\ FlattenSeq(pieces) = Cut(bitFile, o, g)
    BY <1>1, <2>1, <2>2 DEF BitInv, ReadInv
  <2>4. o <= g
    BY <2>2
  <2>5. Joined(Cut(bitFile, o, g), Cut(bitFile, g, p)) = Cut(bitFile, o, p)
    BY <2>2, <2>3, <2>4, CutJoined
  <2>6. BitsFrom(origin, (subTell - origin) * UnitBits) = Cut(bitFile, o, p)
    <3>1. (subTell - origin) * UnitBits = p - o
      BY <1>4, <2>1, <2>2
    <3>2. BitsFrom(origin, p - o) = SubSeq(bitFile, o + 1, o + (p - o))
      BY <2>2 DEF BitsFrom, BitPlace
    <3>3. o + (p - o) = p
      OBVIOUS
    <3>4. QED
      BY <3>1, <3>2, <3>3 DEF Cut
  <2>7. Len(bitBuf) = p - g
    <3>1. IsCut(Bits, Cut(bitFile, g, p), bitFile, g, p)
      BY <2>2, <2>3, CutIs
    <3>2. QED
      BY <2>3, <3>1 DEF IsCut
  <2>8. BitsFrom(origin, totalSize) \o bitBuf = Joined(Cut(bitFile, o, g), Cut(bitFile, g, p))
    BY <1>3, <2>2, <2>3 DEF Joined
  <2>9. QED
    BY <1>3, <2>2, <2>3, <2>5, <2>6, <2>7, <2>8
<1>6. ClosedOnByte
  <2>1. SUFFICES ASSUME bitPc \in {"write", "done"} PROVE bitBuf = << >> /\ UnitBits * (subTell - origin) = totalSize
    BY DEF ClosedOnByte
  <2>2. bitBuf = << >> /\ GivenTo = BitPlace(subTell)
    BY <1>1, <2>1 DEF BitInv, WriteInv, CopiedInv
  <2>3. PICK o \in Nat, g \in Nat, p \in Nat :
          /\ o = BitPlace(origin) /\ g = GivenTo /\ p = BitPlace(subTell)
          /\ g = o + totalSize /\ totalSize \in Nat /\ origin \in Nat /\ subTell \in Nat
    BY <1>2, <2>1
  <2>4. (subTell - origin) * UnitBits = totalSize
    BY <1>4, <2>1, <2>2, <2>3
  <2>5. UnitBits * (subTell - origin) = (subTell - origin) * UnitBits
    BY <2>3, BitStreamAssumption
  <2>6. QED
    BY <2>2, <2>4, <2>5
<1>7. CopyIsExact
  BY <1>1, <1>3 DEF CopyIsExact, BitInv, CopiedInv
<1>8. QED
  BY <1>5, <1>6, <1>7

-----------------------------------------------------------------------------
(***************************************************************************)
(* ConstructStreams: fields that are read when they are asked for.         *)
(***************************************************************************)
Container == [at : Nat, value : Seq(Int), gone : BOOLEAN]

\* Where field m of the run x lies if each field has b bytes, and its bytes.
PlaceWith(x, m, b) == IF x.offs # << >> THEN x.offs[m] ELSE (m - 1) * b
BytesWith(x, m, b) == Cut(x.data, PlaceWith(x, m, b), PlaceWith(x, m, b) + b)
FitsWith(x, m, b) == b # 0 /\ PlaceWith(x, m, b) + b <= Len(x.data)

\* A container with a value has the bytes of its field, and never answered
\* anything else; one without never answered bytes, and if it was asked it
\* was disposed of or cannot be read.
RightWith(x, c, a, m, b) ==
  /\ c.value # Unread => FitsWith(x, m, b) /\ c.value = BytesWith(x, m, b) /\ a \subseteq {c.value}
  /\ c.value = Unread => a \subseteq {NoBytes} /\ (a # {} => c.gone \/ (b # 0 /\ ~FitsWith(x, m, b)))

\* The run, the size that is bound and the shared position.
RunOK == lazyRun \in LazyRuns /\ binding \in Widths /\ bound \in Widths \cup {0} /\ tell \in Nat

\* The containers so far; what is not parsed yet was not asked for.
ContainersOK ==
  /\ lazies \in Seq(Container) /\ Len(lazies) <= LazyFields
  /\ answers \in [1 .. LazyFields -> SUBSET Seq(Int)]
  /\ \A m \in 1 .. LazyFields : m > Len(lazies) => answers[m] = {}

\* Fields in the stream follow each other, as soon as their size is bound.
PlacesKnown == ~Pointers => \A m \in DOMAIN lazies : bound # 0 /\ lazies[m].at = (m - 1) * bound

\* Every container is right, with the size that is bound now.
AllRight == \A m \in DOMAIN lazies : RightWith(lazyRun, lazies[m], answers[m], m, bound)

\* What holds whatever is being done.
LazyCore == RunOK /\ ContainersOK /\ PlacesKnown /\ AllRight

\* How far the array is parsed.
StageOK ==
  /\ lazyPc \in {"parse", "use", "build", "done", "failed"}
  /\ lazyPc # "parse" => Len(lazies) = LazyFields
  /\ lazyPc = "parse" /\ ~Pointers => tell = Len(lazies) * bound

\* A field that was built: its bytes are where they were.
BuiltWith(x, c, out, m, b) ==
  /\ x.force => c.value # Unread
  /\ c.value # Unread => /\ PlaceWith(x, m, b) + b <= Len(out)
                         /\ \A j \in 1 .. b : out[PlaceWith(x, m, b) + j] = x.data[PlaceWith(x, m, b) + j]

\* The fields before the next one are built, each that has a value at its place.
BuildOK ==
  /\ lazyPc \in {"parse", "use"} => buildAt = << 1, 0 >> /\ rebuilt = << >>
  /\ lazyPc # "failed" =>
       /\ rebuilt \in Seq(Int) /\ buildAt \in (1 .. LazyFields + 1) \X Nat
       /\ ~Pointers => buildAt[2] = (buildAt[1] - 1) * bound
       /\ \A m \in DOMAIN lazies : m < buildAt[1] => BuiltWith(lazyRun, lazies[m], rebuilt, m, bound)
  /\ lazyPc = "done" => buildAt[1] = LazyFields + 1

\* Strong enough to be kept: a value, or that there is none, goes with the
\* size that was bound first, and the position of the build with the fields.
LazyInv == LazyCore /\ StageOK /\ BuildOK

\* What is known of a run.
LEMMA RunFacts ==
  ASSUME NEW x \in LazyRuns
  PROVE  /\ x.data \in Seq(Int) /\ Len(x.data) \in Nat /\ \A j \in 1 .. Len(x.data) : x.data[j] \in Nat
         /\ x.force \in BOOLEAN
         /\ x.offs # << >> => \A m \in 1 .. LazyFields : x.offs[m] \in Nat
<1>1. x.data \in Seq(Nat) /\ x.force \in BOOLEAN /\ (x.offs = << >> \/ x.offs \in [1 .. LazyFields -> Nat])
  BY LazyAssumption
<1>2. x.data \in Seq(Int) /\ Len(x.data) \in Nat /\ \A j \in 1 .. Len(x.data) : x.data[j] \in Nat
  <2>1. PICK d : d = x.data
    OBVIOUS
  <2>2. d \in Seq(Nat)
    BY <1>1, <2>1
  <2>3. d \in Seq(Int) /\ Len(d) \in Nat /\ \A j \in 1 .. Len(d) : d[j] \in Nat
    BY <2>2
  <2>4. QED
    BY <2>1, <2>3
<1>3. x.offs # << >> => \A m \in 1 .. LazyFields : x.offs[m] \in Nat
  BY <1>1
<1>4. QED
  BY <1>1, <1>2, <1>3

\* What is bound is the size of a field.
LEMMA BoundIs == RunOK => Bound \in Nat \ {0} /\ Bound \in Widths /\ bound \in Nat /\ (bound # 0 => Bound = bound)
BY LazyAssumption DEF RunOK, Bound

\* A field's place is a number.
LEMMA PlaceWithIs ==
  ASSUME NEW x \in LazyRuns, NEW m \in 1 .. LazyFields, NEW b \in Nat PROVE PlaceWith(x, m, b) \in Nat
<1>1. CASE x.offs # << >>
  BY <1>1, RunFacts DEF PlaceWith
<1>2. CASE ~(x.offs # << >>)
  <2>1. m - 1 \in Nat
    BY LazyAssumption
  <2>2. QED
    BY <1>2, <2>1 DEF PlaceWith
<1>3. QED
  BY <1>1, <1>2

\* The bytes of a field that fits are so many, numbers, and no answer that says that there are none.
LEMMA BytesWithIs ==
  ASSUME NEW x \in LazyRuns, NEW m \in 1 .. LazyFields, NEW b \in Nat, FitsWith(x, m, b)
  PROVE  /\ BytesWith(x, m, b) \in Seq(Int) /\ Len(BytesWith(x, m, b)) = b
         /\ BytesWith(x, m, b) # NoBytes /\ BytesWith(x, m, b) # Unread
         /\ \A j \in 1 .. b : BytesWith(x, m, b)[j] = x.data[PlaceWith(x, m, b) + j]
<1>1. PICK p \in Nat, q \in Nat : p = PlaceWith(x, m, b) /\ q = p + b /\ p <= q /\ q <= Len(x.data)
  <2>1. PlaceWith(x, m, b) \in Nat
    BY PlaceWithIs
  <2>2. QED
    BY <2>1 DEF FitsWith
<1>2. PICK v : v = BytesWith(x, m, b)
  OBVIOUS
<1>3. IsCut(Int, Cut(x.data, p, q), x.data, p, q)
  BY <1>1, RunFacts, CutIs
<1>4. v \in Seq(Int) /\ Len(v) = b /\ \A j \in 1 .. b : v[j] = x.data[p + j]
  <2>1. v = Cut(x.data, p, q)
    BY <1>1, <1>2 DEF BytesWith
  <2>2. q - p = b
    BY <1>1
  <2>3. QED
    BY <1>3, <2>1, <2>2 DEF IsCut
<1>5. b >= 1
  BY DEF FitsWith
<1>6. v # Unread
  BY <1>4, <1>5 DEF Unread
<1>7. v # NoBytes
  <2>1. SUFFICES ASSUME v = NoBytes PROVE FALSE
    OBVIOUS
  <2>2. v[1] = -1
    BY <2>1 DEF NoBytes
  <2>3. v[1] = x.data[p + 1]
    BY <1>4, <1>5
  <2>4. p + 1 \in 1 .. Len(x.data)
    BY <1>1, <1>5
  <2>5. x.data[p + 1] \in Nat
    BY <2>4, RunFacts
  <2>6. QED
    BY <2>2, <2>3, <2>5
<1>8. QED
  BY <1>1, <1>2, <1>4, <1>6, <1>7

\* A container is as right when the size is bound that was not yet.
LEMMA RightStays ==
  ASSUME NEW x, NEW c, NEW a, NEW m, NEW b, NEW e, RightWith(x, c, a, m, b), b # 0 => e = b
  PROVE  RightWith(x, c, a, m, e)
<1>1. CASE b # 0
  BY <1>1
<1>2. CASE b = 0
  <2>1. c.value = Unread /\ a \subseteq {NoBytes} /\ (a # {} => c.gone)
    BY <1>2 DEF RightWith, FitsWith
  <2>2. QED
    BY <2>1 DEF RightWith
<1>3. QED
  BY <1>1, <1>2

\* One element of a sequence is put in place of another.
LEMMA ReplacedIs ==
  ASSUME NEW T, NEW q \in Seq(T), NEW i \in DOMAIN q, NEW c \in T
  PROVE  /\ [q EXCEPT ![i] = c] \in Seq(T) /\ Len([q EXCEPT ![i] = c]) = Len(q)
         /\ DOMAIN [q EXCEPT ![i] = c] = DOMAIN q /\ [q EXCEPT ![i] = c][i] = c
         /\ \A m \in DOMAIN q : m # i => [q EXCEPT ![i] = c][m] = q[m]
OBVIOUS

\* A step that touches one container, and leaves it right.
LEMMA OneTouched ==
  ASSUME LazyCore, NEW i \in DOMAIN lazies, lazyRun' = lazyRun, binding' \in Widths,
         bound' \in Widths \cup {0}, bound # 0 => bound' = bound, tell' \in Nat,
         NEW c \in Container, c.at = lazies[i].at, lazies' = [lazies EXCEPT ![i] = c],
         NEW a \in SUBSET Seq(Int), answers' = [answers EXCEPT ![i] = a],
         RightWith(lazyRun, c, a, i, bound')
  PROVE  /\ LazyCore' /\ Len(lazies') = Len(lazies) /\ DOMAIN lazies' = DOMAIN lazies /\ lazies'[i] = c
         /\ \A m \in DOMAIN lazies : m # i => lazies'[m] = lazies[m]
<1>1. RunOK'
  BY DEF LazyCore, RunOK
<1>2. lazies \in Seq(Container) /\ Len(lazies) \in Nat /\ DOMAIN lazies = 1 .. Len(lazies)
  BY DEF LazyCore, ContainersOK
<1>3. /\ lazies' \in Seq(Container) /\ Len(lazies') = Len(lazies) /\ DOMAIN lazies' = DOMAIN lazies /\ lazies'[i] = c
      /\ \A m \in DOMAIN lazies : m # i => lazies'[m] = lazies[m]
  BY <1>2, ReplacedIs
<1>4. i \in 1 .. Len(lazies) /\ i \in 1 .. LazyFields
  BY <1>2, LazyAssumption DEF LazyCore, ContainersOK
<1>5. answers \in [1 .. LazyFields -> SUBSET Seq(Int)]
  BY DEF LazyCore, ContainersOK
<1>6. answers' \in [1 .. LazyFields -> SUBSET Seq(Int)] /\ answers'[i] = a /\ \A m \in 1 .. LazyFields : m # i => answers'[m] = answers[m]
  BY <1>4, <1>5
<1>7. ContainersOK'
  <2>1. Len(lazies') <= LazyFields
    BY <1>3 DEF LazyCore, ContainersOK
  <2>2. ASSUME NEW m \in 1 .. LazyFields, m > Len(lazies') PROVE answers'[m] = {}
    <3>1. m > Len(lazies) /\ m # i
      BY <1>2, <1>3, <1>4, <2>2
    <3>2. QED
      BY <1>6, <3>1 DEF LazyCore, ContainersOK
  <2>3. QED
    BY <1>3, <1>6, <2>1, <2>2 DEF ContainersOK
<1>8. PlacesKnown'
  <2>1. SUFFICES ASSUME ~Pointers, NEW m \in DOMAIN lazies PROVE bound' # 0 /\ lazies'[m].at = (m - 1) * bound'
    BY <1>3 DEF PlacesKnown, Pointers
  <2>2. bound # 0 /\ lazies[m].at = (m - 1) * bound
    BY <2>1 DEF LazyCore, PlacesKnown
  <2>3. bound' = bound
    BY <2>2
  <2>4. lazies'[m].at = lazies[m].at
    BY <1>3
  <2>5. QED
    BY <2>2, <2>3, <2>4
<1>9. AllRight'
  <2>1. SUFFICES ASSUME NEW m \in DOMAIN lazies PROVE RightWith(lazyRun, lazies'[m], answers'[m], m, bound')
    BY <1>3 DEF AllRight
  <2>2. CASE m = i
    BY <1>3, <1>6, <2>2
  <2>3. CASE m # i
    <3>1. m \in 1 .. LazyFields
      BY <1>2, LazyAssumption DEF LazyCore, ContainersOK
    <3>2. RightWith(lazyRun, lazies[m], answers[m], m, bound)
      BY DEF LazyCore, AllRight
    <3>3. RightWith(lazyRun, lazies[m], answers[m], m, bound')
      BY <3>2, RightStays
    <3>4. lazies'[m] = lazies[m] /\ answers'[m] = answers[m]
      BY <1>3, <1>6, <2>3, <3>1
    <3>5. QED
      BY <3>3, <3>4
  <2>4. QED
    BY <2>2, <2>3
<1>10. QED
  BY <1>1, <1>3, <1>7, <1>8, <1>9 DEF LazyCore

\* The greater of two.
LEMMA MaxOfTwo == ASSUME NEW a \in Nat, NEW b \in Nat PROVE Max({a, b}) = IF a >= b THEN a ELSE b
<1>1. PICK m : m = IF a >= b THEN a ELSE b
  OBVIOUS
<1>2. m \in {a, b} /\ \A y \in {a, b} : m >= y
  BY <1>1
<1>3. PICK z : z = Max({a, b})
  OBVIOUS
<1>4. z \in {a, b} /\ \A y \in {a, b} : z >= y
  BY <1>2, <1>3 DEF Max
<1>5. z = m
  BY <1>2, <1>4
<1>6. QED
  BY <1>1, <1>3, <1>5

\* A container is read at its field's place.
LEMMA PlaceIsField ==
  ASSUME LazyCore, NEW i \in DOMAIN lazies
  PROVE  i \in 1 .. LazyFields /\ PlaceOf(i) = PlaceWith(lazyRun, i, Bound)
<1>1. i \in 1 .. LazyFields
  BY LazyAssumption DEF LazyCore, ContainersOK
<1>2. CASE Pointers
  BY <1>1, <1>2 DEF PlaceOf, PlaceWith, Pointers
<1>3. CASE ~Pointers
  <2>1. bound # 0 /\ lazies[i].at = (i - 1) * bound
    BY <1>3 DEF LazyCore, PlacesKnown
  <2>2. Bound = bound
    BY <2>1 DEF Bound
  <2>3. QED
    BY <1>1, <1>3, <2>1, <2>2 DEF PlaceOf, PlaceWith, Pointers
<1>4. QED
  BY <1>1, <1>2, <1>3

\* A demand is answered with the bytes of the field, or as one before it.
LEMMA DemandGives ==
  ASSUME LazyCore, NEW i \in DOMAIN lazies, Demanded(i), UNCHANGED << lazyRun, binding >>
  PROVE  /\ LazyCore' /\ Len(lazies') = Len(lazies) /\ DOMAIN lazies' = DOMAIN lazies
         /\ bound # 0 => bound' = bound
         /\ GetValue(i).got # NoBytes => lazies'[i].value = GetValue(i).got /\ GetValue(i).got # Unread
         /\ \A m \in DOMAIN lazies : m # i => lazies'[m] = lazies[m]
<1>1. PICK v, t, w : v = GetValue(i).got /\ t = GetValue(i).tell /\ w = Bound
  OBVIOUS
<1>2. /\ tell' = t /\ lazies' = (IF v = NoBytes THEN lazies ELSE [lazies EXCEPT ![i].value = v])
      /\ bound' = (IF HasValue(i) \/ lazies[i].gone THEN bound ELSE w)
      /\ answers' = [answers EXCEPT ![i] = answers[i] \cup {v}]
  BY <1>1 DEF Demanded
<1>3. RunOK /\ i \in 1 .. LazyFields /\ lazies \in Seq(Container) /\ DOMAIN lazies = 1 .. Len(lazies)
  BY PlaceIsField DEF LazyCore, ContainersOK
<1>4. w \in Nat \ {0} /\ w \in Widths /\ bound \in Nat /\ (bound # 0 => w = bound)
  BY <1>1, <1>3, BoundIs
<1>5. PICK c0, a0 : c0 = lazies[i] /\ a0 = answers[i]
  OBVIOUS
<1>6. c0 \in Container /\ a0 \in SUBSET Seq(Int) /\ RightWith(lazyRun, c0, a0, i, bound)
  BY <1>3, <1>5 DEF LazyCore, ContainersOK, AllRight
<1>7. PICK c : c = IF v = NoBytes THEN c0 ELSE [c0 EXCEPT !.value = v]
  OBVIOUS
<1>8. lazies' = [lazies EXCEPT ![i] = c]
  <2>1. CASE v = NoBytes
    BY <1>2, <1>3, <1>5, <1>7, <2>1
  <2>2. CASE v # NoBytes
    BY <1>2, <1>3, <1>5, <1>7, <2>2
  <2>3. QED
    BY <2>1, <2>2
<1>9. /\ v \in Seq(Int) /\ t \in Nat /\ v # Unread
      /\ c \in Container /\ c.at = c0.at /\ (v # NoBytes => c.value = v)
      /\ RightWith(lazyRun, c, a0 \cup {v}, i, bound')
  <2>1. CASE HasValue(i)
    <3>1. c0.value # Unread /\ v = c0.value /\ t = tell /\ bound' = bound
      BY <1>1, <1>2, <1>5, <2>1 DEF HasValue, GetValue
    <3>2. v \in Seq(Int) /\ t \in Nat /\ v # Unread
      BY <1>3, <1>6, <3>1 DEF Container, RunOK
    <3>3. c = c0
      BY <1>6, <1>7, <3>1 DEF Container
    <3>4. RightWith(lazyRun, c0, a0 \cup {v}, i, bound')
      <4>1. FitsWith(lazyRun, i, bound) /\ c0.value = BytesWith(lazyRun, i, bound) /\ a0 \subseteq {c0.value}
        BY <1>6, <3>1 DEF RightWith
      <4>2. a0 \cup {v} \subseteq {c0.value}
        BY <3>1, <4>1
      <4>3. QED
        BY <3>1, <4>1, <4>2 DEF RightWith
    <3>5. QED
      BY <1>6, <3>1, <3>2, <3>3, <3>4
  <2>2. CASE ~HasValue(i) /\ c0.gone
    <3>1. c0.value = Unread /\ v = NoBytes /\ t = tell /\ bound' = bound
      BY <1>1, <1>2, <1>5, <2>2 DEF HasValue, GetValue
    <3>2. v \in Seq(Int) /\ t \in Nat /\ v # Unread
      BY <1>3, <3>1 DEF NoBytes, Unread, RunOK
    <3>3. c = c0
      BY <1>7, <3>1
    <3>4. RightWith(lazyRun, c0, a0 \cup {v}, i, bound')
      <4>1. a0 \subseteq {NoBytes}
        BY <1>6, <3>1 DEF RightWith
      <4>2. a0 \cup {v} \subseteq {NoBytes}
        BY <3>1, <4>1
      <4>3. QED
        BY <2>2, <3>1, <4>2 DEF RightWith
    <3>5. QED
      BY <1>6, <3>1, <3>2, <3>3, <3>4
  <2>3. CASE ~HasValue(i) /\ ~c0.gone
    <3>1. c0.value = Unread /\ v = ReadLazy(i).got /\ t = ReadLazy(i).tell /\ bound' = w
      BY <1>1, <1>2, <1>5, <2>3 DEF HasValue, GetValue
    <3>2. PICK p \in Nat, n \in Nat : p = PlaceWith(lazyRun, i, w) /\ n = Len(lazyRun.data) /\ p = PlaceOf(i)
      BY <1>1, <1>3, <1>4, PlaceIsField, PlaceWithIs, RunFacts DEF RunOK
    <3>3. a0 \subseteq {NoBytes}
      BY <1>6, <3>1 DEF RightWith
    <3>4. CASE p + w > n
      <4>1. v = NoBytes /\ t = Max({p, n})
        BY <1>1, <3>1, <3>2, <3>4 DEF ReadLazy
      <4>2. v \in Seq(Int) /\ t \in Nat /\ v # Unread
        <5>1. t \in Nat
          BY <4>1, MaxOfTwo
        <5>2. QED
          BY <4>1, <5>1 DEF NoBytes, Unread
      <4>3. c = c0
        BY <1>7, <4>1
      <4>4. w # 0 /\ ~FitsWith(lazyRun, i, w)
        BY <1>4, <3>2, <3>4 DEF FitsWith
      <4>5. a0 \cup {v} \subseteq {NoBytes}
        BY <3>3, <4>1
      <4>6. RightWith(lazyRun, c0, a0 \cup {v}, i, w)
        BY <3>1, <4>4, <4>5 DEF RightWith
      <4>7. QED
        BY <1>6, <3>1, <4>1, <4>2, <4>3, <4>6
    <3>5. CASE ~(p + w > n)
      <4>1. v = BytesWith(lazyRun, i, w) /\ t = (IF Pointers THEN c0.at ELSE p + w)
        BY <1>1, <1>5, <3>1, <3>2, <3>5 DEF ReadLazy, BytesWith, Cut
      <4>2. FitsWith(lazyRun, i, w)
        BY <1>4, <3>2, <3>5 DEF FitsWith
      <4>3. v \in Seq(Int) /\ v # NoBytes /\ v # Unread
        BY <1>3, <1>4, <4>1, <4>2, BytesWithIs DEF RunOK
      <4>4. t \in Nat
        BY <1>4, <1>6, <4>1 DEF Container
      <4>5. c \in Container /\ c.at = c0.at /\ c.value = v
        BY <1>6, <1>7, <4>3 DEF Container
      <4>6. a0 = {}
        <5>1. ~(w # 0 /\ ~FitsWith(lazyRun, i, w))
          BY <4>2
        <5>2. a0 # {} => c0.gone \/ (bound # 0 /\ ~FitsWith(lazyRun, i, bound))
          BY <1>6, <3>1 DEF RightWith
        <5>3. QED
          BY <1>4, <2>3, <4>2, <5>2
      <4>7. a0 \cup {v} \subseteq {c.value}
        BY <4>5, <4>6
      <4>8. RightWith(lazyRun, c, a0 \cup {v}, i, w)
        BY <4>1, <4>2, <4>3, <4>5, <4>7 DEF RightWith
      <4>9. QED
        BY <3>1, <4>3, <4>4, <4>5, <4>8
    <3>6. QED
      BY <3>4, <3>5
  <2>4. QED
    BY <2>1, <2>2, <2>3
<1>10. bound' \in Widths \cup {0} /\ (bound # 0 => bound' = bound)
  BY <1>2, <1>3, <1>4 DEF RunOK
<1>11. PICK a : a = a0 \cup {v}
  OBVIOUS
<1>12. a \in SUBSET Seq(Int) /\ answers' = [answers EXCEPT ![i] = a]
  BY <1>2, <1>5, <1>6, <1>9, <1>11
<1>13. lazyRun' = lazyRun /\ binding' \in Widths /\ tell' \in Nat /\ c.at = lazies[i].at
  BY <1>2, <1>3, <1>5, <1>9 DEF RunOK
<1>14. RightWith(lazyRun, c, a, i, bound')
  BY <1>9, <1>11
<1>15. /\ LazyCore' /\ Len(lazies') = Len(lazies) /\ DOMAIN lazies' = DOMAIN lazies /\ lazies'[i] = c
       /\ \A m \in DOMAIN lazies : m # i => lazies'[m] = lazies[m]
  BY <1>8, <1>9, <1>10, <1>12, <1>13, <1>14, OneTouched
<1>16. QED
  BY <1>1, <1>9, <1>10, <1>15

\* r is out with s written at p, and is no shorter.
IsPut(r, out, p, s) ==
  /\ r \in Seq(Int) /\ Len(r) >= Len(out) /\ Len(r) >= p + Len(s)
  /\ \A j \in 1 .. Len(s) : r[p + j] = s[j]
  /\ \A j \in 1 .. Len(out) : ~(p < j /\ j <= p + Len(s)) => r[j] = out[j]

\* The stream is written where it is asked to be, and nowhere else.
LEMMA PutAtIs ==
  ASSUME NEW out \in Seq(Int), NEW p \in Nat, NEW s \in Seq(Int)
  PROVE  IsPut(PutAt(out, p, s), out, p, s)
<1>1. PICK n \in Nat, l \in Nat, k \in Nat : n = Len(out) /\ l = Len(s) /\ k = Max({n, p + l}) /\ k >= n /\ k >= p + l /\ (k = n \/ k = p + l)
  <2>1. Len(out) \in Nat /\ Len(s) \in Nat /\ p + Len(s) \in Nat
    OBVIOUS
  <2>2. PICK n \in Nat, l \in Nat, e \in Nat : n = Len(out) /\ l = Len(s) /\ e = p + l
    BY <2>1
  <2>3. Max({n, e}) = IF n >= e THEN n ELSE e
    BY MaxOfTwo
  <2>4. PICK k \in Nat : k = Max({n, e}) /\ k >= n /\ k >= e /\ (k = n \/ k = e)
    BY <2>3
  <2>5. QED
    BY <2>2, <2>4
<1> DEFINE R == [j \in 1 .. k |-> IF j \in p + 1 .. p + l THEN s[j - p] ELSE IF j <= n THEN out[j] ELSE 0]
<1>2. PutAt(out, p, s) = R
  BY <1>1 DEF PutAt
<1>3. ASSUME NEW j \in 1 .. k PROVE R[j] \in Int
  <2>1. CASE j \in p + 1 .. p + l
    <3>1. j - p \in 1 .. l
      BY <2>1
    <3>2. s[j - p] \in Int
      BY <1>1, <3>1
    <3>3. QED
      BY <2>1, <3>2
  <2>2. CASE j \notin p + 1 .. p + l
    BY <1>1, <2>2
  <2>3. QED
    BY <2>1, <2>2
<1>4. ASSUME NEW j \in 1 .. l PROVE R[p + j] = s[j]
  <2>1. p + j \in 1 .. k /\ p + j \in p + 1 .. p + l /\ (p + j) - p = j
    BY <1>1
  <2>2. QED
    BY <2>1
<1>5. ASSUME NEW j \in 1 .. n, ~(p < j /\ j <= p + l) PROVE R[j] = out[j]
  <2>1. j \in 1 .. k /\ j \notin p + 1 .. p + l /\ j <= n
    BY <1>1, <1>5
  <2>2. QED
    BY <2>1
<1>6. R = [j \in 1 .. k |-> R[j]]
  OBVIOUS
<1> HIDE DEF R
<1>7. R \in [1 .. k -> Int]
  BY <1>3, <1>6
<1>8. R \in Seq(Int) /\ Len(R) = k
  BY <1>7
<1>9. QED
  BY <1>1, <1>2, <1>4, <1>5, <1>8 DEF IsPut

\* A field stays built when others are written.
LEMMA BuiltStays ==
  ASSUME NEW x \in LazyRuns, NEW c, NEW a, NEW m \in 1 .. LazyFields, NEW b \in Nat, NEW e \in Nat, b # 0 => e = b,
         RightWith(x, c, a, m, b), NEW out \in Seq(Int), BuiltWith(x, c, out, m, b)
  PROVE  /\ BuiltWith(x, c, out, m, e)
         /\ \A i \in 1 .. LazyFields :
              FitsWith(x, i, e) => BuiltWith(x, c, PutAt(out, PlaceWith(x, i, e), BytesWith(x, i, e)), m, e)
<1>1. CASE c.value = Unread
  BY <1>1 DEF BuiltWith
<1>2. CASE c.value # Unread
  <2>1. b # 0 /\ e = b
    BY <1>2 DEF RightWith, FitsWith
  <2>2. PICK p \in Nat : p = PlaceWith(x, m, b)
    BY PlaceWithIs
  <2>3. p + b <= Len(out) /\ \A j \in 1 .. b : out[p + j] = x.data[p + j]
    BY <1>2, <2>2 DEF BuiltWith
  <2>4. ASSUME NEW i \in 1 .. LazyFields, FitsWith(x, i, b)
        PROVE  BuiltWith(x, c, PutAt(out, PlaceWith(x, i, b), BytesWith(x, i, b)), m, b)
    <3>1. PICK q \in Nat, s \in Seq(Int) :
            /\ q = PlaceWith(x, i, b) /\ s = BytesWith(x, i, b) /\ Len(s) = b
            /\ \A j \in 1 .. b : s[j] = x.data[q + j]
      <4>1. PlaceWith(x, i, b) \in Nat
        BY PlaceWithIs
      <4>2. /\ BytesWith(x, i, b) \in Seq(Int) /\ Len(BytesWith(x, i, b)) = b
            /\ \A j \in 1 .. b : BytesWith(x, i, b)[j] = x.data[PlaceWith(x, i, b) + j]
        BY <2>4, BytesWithIs
      <4>3. QED
        BY <4>1, <4>2
    <3>2. PICK r : r = PutAt(out, q, s)
      OBVIOUS
    <3> DEFINE n == Len(out)
    <3>3. /\ Len(r) \in Nat /\ Len(r) >= n
          /\ \A j \in 1 .. Len(s) : r[q + j] = s[j]
          /\ \A j \in 1 .. n : ~(q < j /\ j <= q + Len(s)) => r[j] = out[j]
      <4>1. IsPut(r, out, q, s)
        BY <3>2, PutAtIs
      <4>2. /\ r \in Seq(Int) /\ Len(r) >= Len(out)
            /\ \A j \in 1 .. Len(s) : r[q + j] = s[j]
            /\ \A j \in 1 .. Len(out) : ~(q < j /\ j <= q + Len(s)) => r[j] = out[j]
        BY ONLY <4>1 DEF IsPut
      <4>3. Len(r) \in Nat
        BY ONLY <4>2
      <4>4. QED
        BY ONLY <4>2, <4>3
    <3>4. ASSUME NEW j \in 1 .. b PROVE r[p + j] = x.data[p + j]
      <4>1. PICK k \in Nat : k = p + j /\ k \in 1 .. n
        <5>1. p + j \in Nat /\ p + j >= 1 /\ p + j <= n
          BY <2>3, <3>2
        <5>2. QED
          BY <5>1
      <4>2. CASE q < k /\ k <= q + b
        <5>1. PICK i1 : i1 = k - q
          OBVIOUS
        <5>2. i1 \in 1 .. b /\ q + i1 = k
          BY <4>2, <5>1
        <5>3. r[q + i1] = s[i1] /\ s[i1] = x.data[q + i1]
          BY <3>1, <3>3, <5>2
        <5>4. QED
          BY <4>1, <5>2, <5>3
      <4>3. CASE ~(q < k /\ k <= q + b)
        <5>1. r[k] = out[k]
          BY <3>1, <3>3, <4>1, <4>3
        <5>2. QED
          BY <2>3, <4>1, <5>1
      <4>4. QED
        BY <4>2, <4>3
    <3>5. p + b <= Len(r)
      BY <2>3, <3>2, <3>3
    <3>6. x.force => c.value # Unread
      BY <1>2
    <3>7. QED
      BY <2>2, <3>1, <3>2, <3>4, <3>5, <3>6 DEF BuiltWith
  <2>5. QED
    BY <2>1, <2>4
<1>3. QED
  BY <1>1, <1>2

\* The field that is written now is built.
LEMMA WrittenIsBuilt ==
  ASSUME NEW x \in LazyRuns, NEW c, NEW m \in 1 .. LazyFields, NEW b \in Nat, FitsWith(x, m, b), c.value # Unread,
         NEW out \in Seq(Int)
  PROVE  BuiltWith(x, c, PutAt(out, PlaceWith(x, m, b), BytesWith(x, m, b)), m, b)
<1>1. PICK q \in Nat, s \in Seq(Int) :
        /\ q = PlaceWith(x, m, b) /\ s = BytesWith(x, m, b) /\ Len(s) = b
        /\ \A j \in 1 .. b : s[j] = x.data[q + j]
  <2>1. PlaceWith(x, m, b) \in Nat
    BY PlaceWithIs
  <2>2. /\ BytesWith(x, m, b) \in Seq(Int) /\ Len(BytesWith(x, m, b)) = b
        /\ \A j \in 1 .. b : BytesWith(x, m, b)[j] = x.data[PlaceWith(x, m, b) + j]
    BY BytesWithIs
  <2>3. QED
    BY <2>1, <2>2
<1>2. PICK r : r = PutAt(out, q, s)
  OBVIOUS
<1>3. IsPut(r, out, q, s)
  BY <1>2, PutAtIs
<1>4. r \in Seq(Int)
  BY <1>3 DEF IsPut
<1>5. q + b <= Len(r)
  <2>1. Len(r) \in Nat
    BY <1>4
  <2>2. QED
    BY <1>1, <1>3, <2>1 DEF IsPut
<1>6. \A j \in 1 .. b : r[q + j] = x.data[q + j]
  BY <1>1, <1>3 DEF IsPut
<1>7. QED
  BY <1>1, <1>2, <1>5, <1>6 DEF BuiltWith

\* A step of the build that has the field's value writes it.
LEMMA BuildWrites ==
  ASSUME LazyInv, lazyPc = "build", NEW i \in DOMAIN lazies, i = buildAt[1], Demanded(i), UNCHANGED << lazyRun, binding >>,
         NEW v, v = GetValue(i).got, v # NoBytes, lazyPc' = lazyPc,
         rebuilt' = PutAt(rebuilt, IF Pointers THEN PlaceOf(i) ELSE buildAt[2], v),
         buildAt' = << i + 1, IF Pointers THEN buildAt[2] ELSE buildAt[2] + Len(v) >>
  PROVE  LazyInv'
<1>1. LazyCore /\ StageOK /\ BuildOK /\ Len(lazies) = LazyFields /\ DOMAIN lazies = 1 .. LazyFields
  BY DEF LazyInv, LazyCore, ContainersOK, StageOK
<1>2. /\ LazyCore' /\ Len(lazies') = Len(lazies) /\ DOMAIN lazies' = DOMAIN lazies /\ (bound # 0 => bound' = bound)
      /\ lazies'[i].value = v /\ v # Unread /\ \A m \in DOMAIN lazies : m # i => lazies'[m] = lazies[m]
  BY <1>1, DemandGives
<1> DEFINE c == lazies'[i]
<1>3. PICK x \in LazyRuns, b \in Nat, e \in Nat : x = lazyRun /\ b = bound /\ e = bound' /\ (b # 0 => e = b)
  <2>1. RunOK /\ RunOK'
    BY <1>1, <1>2 DEF LazyCore
  <2>2. lazyRun \in LazyRuns /\ bound \in Nat /\ bound' \in Nat
    BY <2>1, LazyAssumption DEF RunOK
  <2>3. QED
    BY <1>2, <2>2
<1>4. FitsWith(x, i, e) /\ v = BytesWith(x, i, e) /\ c.value # Unread
  <2>1. RightWith(lazyRun', lazies'[i], answers'[i], i, bound')
    BY <1>2 DEF LazyCore, AllRight
  <2>2. lazyRun' = x /\ c.value = v
    BY <1>2, <1>3
  <2>3. QED
    BY <1>2, <1>3, <2>1, <2>2 DEF RightWith
<1>5. v \in Seq(Int) /\ Len(v) = e
  BY <1>1, <1>4, BytesWithIs
<1>6. PICK p \in Nat, k \in 1 .. LazyFields : p = buildAt[2] /\ k = i /\ k = buildAt[1] /\ rebuilt \in Seq(Int)
  BY <1>1 DEF BuildOK
<1>7. PlaceWith(x, i, e) = IF Pointers THEN PlaceOf(i) ELSE p
  <2>1. CASE Pointers
    BY <1>1, <1>3, <2>1 DEF PlaceWith, PlaceOf, Pointers
  <2>2. CASE ~Pointers
    <3>1. bound # 0
      BY <1>1, <2>2 DEF LazyCore, PlacesKnown
    <3>2. p = (i - 1) * bound
      BY <1>1, <1>6, <2>2 DEF BuildOK
    <3>3. PlaceWith(x, i, e) = (i - 1) * e
      BY <1>3, <2>2 DEF PlaceWith, Pointers
    <3>4. QED
      BY <1>3, <2>2, <3>1, <3>2, <3>3
  <2>3. QED
    BY <2>1, <2>2
<1>8. rebuilt' = PutAt(rebuilt, PlaceWith(x, i, e), v)
  BY <1>6, <1>7
<1>9. rebuilt' \in Seq(Int)
  <2>1. PlaceWith(x, i, e) \in Nat
    BY <1>1, PlaceWithIs
  <2>2. IsPut(PutAt(rebuilt, PlaceWith(x, i, e), v), rebuilt, PlaceWith(x, i, e), v)
    BY <1>5, <1>6, <2>1, PutAtIs
  <2>3. QED
    BY <1>8, <2>2 DEF IsPut
<1>10. buildAt' \in (1 .. LazyFields + 1) \X Nat
  <2>1. i + 1 \in 1 .. LazyFields + 1
    BY <1>1, LazyAssumption
  <2>2. p + Len(v) \in Nat
    BY <1>5
  <2>3. QED
    BY <1>6, <2>1, <2>2
<1>11. ~Pointers => buildAt'[2] = (buildAt'[1] - 1) * bound'
  <2>1. SUFFICES ASSUME ~Pointers PROVE buildAt'[2] = (buildAt'[1] - 1) * bound'
    OBVIOUS
  <2>2. bound # 0
    BY <1>1, <2>1 DEF LazyCore, PlacesKnown
  <2>3. p = (k - 1) * b
    BY <1>1, <1>3, <1>6, <2>1 DEF BuildOK
  <2>4. buildAt' = << k + 1, p + b >>
    BY <1>3, <1>5, <1>6, <2>1, <2>2
  <2>5. (k - 1) * b + b = ((k + 1) - 1) * b
    BY <1>3
  <2>6. buildAt'[1] = k + 1 /\ buildAt'[2] = p + b /\ bound' = b
    BY <1>2, <1>3, <2>2, <2>4
  <2>7. QED
    BY <2>3, <2>5, <2>6
<1>12. ASSUME NEW m \in DOMAIN lazies', m < buildAt'[1] PROVE BuiltWith(lazyRun', lazies'[m], rebuilt', m, bound')
  <2>1. m \in 1 .. LazyFields /\ buildAt'[1] = k + 1 /\ (m # k => m < k)
    BY <1>1, <1>2, <1>6, <1>12
  <2>2. CASE m = k
    <3>1. BuiltWith(x, c, rebuilt', k, e)
      BY <1>4, <1>6, <1>8, WrittenIsBuilt
    <3>2. QED
      BY <1>3, <1>6, <2>2, <3>1
  <2>3. CASE m # k
    <3>1. BuiltWith(x, lazies[m], rebuilt, m, b)
      BY <1>1, <1>2, <1>3, <1>6, <2>1, <2>3 DEF BuildOK
    <3>2. RightWith(x, lazies[m], answers[m], m, b)
      BY <1>1, <1>2, <1>3 DEF LazyCore, AllRight
    <3>3. BuiltWith(x, lazies[m], PutAt(rebuilt, PlaceWith(x, k, e), BytesWith(x, k, e)), m, e)
      BY <1>3, <1>4, <1>6, <2>1, <3>1, <3>2, BuiltStays
    <3>4. BuiltWith(x, lazies[m], rebuilt', m, e)
      BY <1>4, <1>6, <1>8, <3>3
    <3>5. lazies'[m] = lazies[m]
      BY <1>1, <1>2, <1>6, <2>1, <2>3
    <3>6. QED
      BY <1>3, <3>4, <3>5
  <2>4. QED
    BY <2>2, <2>3
<1>13. BuildOK'
  <2>1. Pointers' = Pointers
    BY DEF Pointers
  <2>2. QED
    BY <1>9, <1>10, <1>11, <1>12, <2>1 DEF BuildOK
<1>14. StageOK'
  BY <1>1, <1>2 DEF StageOK
<1>15. QED
  BY <1>2, <1>13, <1>14 DEF LazyInv

\* None of them is nothing.
LEMMA NoneOfThem == ASSUME NEW b \in Nat PROVE (1 - 1) * b = 0 /\ 0 * b = 0
OBVIOUS

\* Before the build nothing is built.
LEMMA NothingBuilt ==
  ASSUME BuildOK, lazyPc \in {"parse", "use"}, LazyCore', UNCHANGED << rebuilt, buildAt >>,
         lazyPc' \in {"parse", "use", "build"}
  PROVE  BuildOK'
<1>1. buildAt' = << 1, 0 >> /\ rebuilt' = << >>
  BY DEF BuildOK
<1>2. bound' \in Nat /\ lazies' \in Seq(Container)
  BY LazyAssumption DEF LazyCore, RunOK, ContainersOK
<1>3. buildAt'[2] = (buildAt'[1] - 1) * bound' /\ buildAt' \in (1 .. LazyFields + 1) \X Nat
  <2>1. 0 = (1 - 1) * bound' /\ << 1, 0 >> \in (1 .. LazyFields + 1) \X Nat
    <3>1. (1 - 1) * bound' = 0
      BY <1>2, NoneOfThem
    <3>2. 1 \in 1 .. LazyFields + 1
      BY LazyAssumption
    <3>3. QED
      BY <3>1, <3>2
  <2>2. QED
    BY <1>1, <2>1
<1>4. \A m \in DOMAIN lazies' : ~(m < buildAt'[1])
  BY <1>1, <1>2
<1>5. rebuilt' \in Seq(Int)
  BY <1>1
<1>6. QED
  BY <1>1, <1>3, <1>4, <1>5 DEF BuildOK

\* The size of a field is bound, and not bound otherwise later.
LEMMA BoundOnce ==
  ASSUME LazyCore, bound' = bound \/ bound' = Bound, UNCHANGED << lazyRun, tell, lazies, answers, binding >>
  PROVE  LazyCore' /\ (bound # 0 => bound' = bound) /\ bound' \in Nat
<1>1. bound' \in Widths \cup {0} /\ (bound # 0 => bound' = bound) /\ bound' \in Nat /\ RunOK
  BY BoundIs DEF LazyCore, RunOK
<1>2. RunOK'
  BY <1>1 DEF RunOK
<1>3. ContainersOK'
  BY DEF LazyCore, ContainersOK
<1>4. PlacesKnown'
  <2>1. SUFFICES ASSUME ~Pointers, NEW m \in DOMAIN lazies PROVE bound' # 0 /\ lazies[m].at = (m - 1) * bound'
    BY DEF PlacesKnown, Pointers
  <2>2. QED
    BY <1>1, <2>1 DEF LazyCore, PlacesKnown
<1>5. AllRight'
  <2>1. SUFFICES ASSUME NEW m \in DOMAIN lazies PROVE RightWith(lazyRun, lazies[m], answers[m], m, bound')
    BY DEF AllRight
  <2>2. RightWith(lazyRun, lazies[m], answers[m], m, bound)
    BY DEF LazyCore, AllRight
  <2>3. QED
    BY <1>1, <2>2, RightStays
<1>6. QED
  BY <1>1, <1>2, <1>3, <1>4, <1>5 DEF LazyCore

\* A step of the build that leaves a field out.
LEMMA BuildSkips ==
  ASSUME LazyInv, lazyPc = "build", NEW i \in DOMAIN lazies, i = buildAt[1], ~lazyRun.force, ~HasValue(i),
         buildAt' = << i + 1, RoomLeft(buildAt[2]) >>, bound' = IF Pointers THEN bound ELSE Bound,
         UNCHANGED << lazyRun, binding, tell, lazies, answers, rebuilt, lazyPc >>
  PROVE  LazyInv'
<1>1. LazyCore /\ StageOK /\ BuildOK /\ Len(lazies) = LazyFields /\ DOMAIN lazies = 1 .. LazyFields
  BY DEF LazyInv, LazyCore, ContainersOK, StageOK
<1>2. LazyCore' /\ (bound # 0 => bound' = bound) /\ bound' \in Nat
  BY <1>1, BoundOnce
<1>3. PICK p \in Nat, k \in 1 .. LazyFields : p = buildAt[2] /\ k = i /\ k = buildAt[1] /\ rebuilt \in Seq(Int)
  BY <1>1 DEF BuildOK
<1>4. PICK x \in LazyRuns, b \in Nat, e \in Nat : x = lazyRun /\ b = bound /\ e = bound' /\ (b # 0 => e = b)
  <2>1. lazyRun \in LazyRuns /\ bound \in Nat
    BY <1>1, BoundIs DEF LazyCore, RunOK
  <2>2. QED
    BY <1>2, <2>1
<1>5. StageOK'
  BY <1>1 DEF StageOK
<1>6. Bound \in Nat
  BY <1>1, BoundIs DEF LazyCore
<1>7. buildAt' \in (1 .. LazyFields + 1) \X Nat
  <2>1. i + 1 \in 1 .. LazyFields + 1
    BY <1>1, LazyAssumption
  <2>2. RoomLeft(p) \in Nat
    BY <1>6 DEF RoomLeft
  <2>3. QED
    BY <1>3, <2>1, <2>2
<1>8. ~Pointers => buildAt'[2] = (buildAt'[1] - 1) * bound'
  <2>1. SUFFICES ASSUME ~Pointers PROVE buildAt'[2] = (buildAt'[1] - 1) * bound'
    OBVIOUS
  <2>2. bound # 0
    BY <1>1, <2>1 DEF LazyCore, PlacesKnown
  <2>3. p = (k - 1) * b
    BY <1>1, <1>3, <1>4, <2>1 DEF BuildOK
  <2>4. RoomLeft(p) = p + b
    BY <1>4, <2>1, <2>2 DEF RoomLeft, Bound
  <2>5. (k - 1) * b + b = ((k + 1) - 1) * b
    BY <1>4
  <2>6. buildAt'[1] = k + 1 /\ buildAt'[2] = p + b /\ bound' = b
    BY <1>2, <1>3, <1>4, <2>2, <2>4
  <2>7. QED
    BY <2>3, <2>5, <2>6
<1>9. ASSUME NEW m \in DOMAIN lazies, m < buildAt'[1] PROVE BuiltWith(lazyRun, lazies[m], rebuilt, m, bound')
  <2>1. m \in 1 .. LazyFields /\ buildAt'[1] = k + 1 /\ (m # k => m < k)
    BY <1>1, <1>3, <1>9
  <2>2. CASE m = k
    BY <1>3, <2>2 DEF BuiltWith, HasValue
  <2>3. CASE m # k
    <3>1. BuiltWith(x, lazies[m], rebuilt, m, b)
      BY <1>1, <1>3, <1>4, <2>1, <2>3 DEF BuildOK
    <3>2. RightWith(x, lazies[m], answers[m], m, b)
      BY <1>1, <1>4 DEF LazyCore, AllRight
    <3>3. BuiltWith(x, lazies[m], rebuilt, m, e)
      BY <1>3, <1>4, <2>1, <3>1, <3>2, BuiltStays
    <3>4. QED
      BY <1>4, <3>3
  <2>4. QED
    BY <2>2, <2>3
<1>10. BuildOK'
  <2>1. Pointers' = Pointers
    BY DEF Pointers
  <2>2. QED
    BY <1>3, <1>7, <1>8, <1>9, <2>1 DEF BuildOK
<1>11. QED
  BY <1>2, <1>5, <1>10 DEF LazyInv

\* The build goes on, field after field.
LEMMA BuildLazyKeeps == ASSUME LazyInv, BuildLazy PROVE LazyInv'
<1>1. LazyCore /\ StageOK /\ BuildOK /\ lazyPc = "build" /\ buildAt[1] <= LazyFields
  BY DEF LazyInv, BuildLazy
<1>2. PICK i \in DOMAIN lazies : i = buildAt[1]
  <2>1. buildAt[1] \in 1 .. LazyFields + 1 /\ Len(lazies) = LazyFields
    BY <1>1 DEF BuildOK, StageOK
  <2>2. buildAt[1] \in 1 .. Len(lazies)
    BY <1>1, <2>1, LazyAssumption
  <2>3. QED
    BY <1>1, <2>2 DEF LazyCore, ContainersOK
<1>3. PICK v : v = GetValue(i).got
  OBVIOUS
<1>4. UNCHANGED << lazyRun, binding >>
  BY DEF BuildLazy
<1>5. CASE lazyRun.force \/ HasValue(i)
  <2>1. /\ Demanded(i)
        /\ IF v = NoBytes THEN lazyPc' = "failed" /\ UNCHANGED << rebuilt, buildAt >>
           ELSE /\ rebuilt' = PutAt(rebuilt, IF Pointers THEN PlaceOf(i) ELSE buildAt[2], v)
                /\ buildAt' = << i + 1, IF Pointers THEN buildAt[2] ELSE buildAt[2] + Len(v) >>
                /\ UNCHANGED lazyPc
    BY <1>2, <1>3, <1>5 DEF BuildLazy
  <2>2. CASE v = NoBytes
    <3>1. LazyCore' /\ Len(lazies') = Len(lazies)
      BY <1>1, <1>4, <2>1, DemandGives
    <3>2. lazyPc' = "failed"
      BY <2>1, <2>2
    <3>3. StageOK' /\ BuildOK'
      BY <1>1, <3>1, <3>2 DEF StageOK, BuildOK
    <3>4. QED
      BY <3>1, <3>3 DEF LazyInv
  <2>3. CASE v # NoBytes
    <3>1. /\ rebuilt' = PutAt(rebuilt, IF Pointers THEN PlaceOf(i) ELSE buildAt[2], v)
          /\ buildAt' = << i + 1, IF Pointers THEN buildAt[2] ELSE buildAt[2] + Len(v) >>
          /\ lazyPc' = lazyPc
      BY <2>1, <2>3
    <3>2. QED
      BY <1>1, <1>2, <1>3, <1>4, <2>1, <2>3, <3>1, BuildWrites
  <2>4. QED
    BY <2>2, <2>3
<1>6. CASE ~(lazyRun.force \/ HasValue(i))
  <2>1. /\ buildAt' = << i + 1, RoomLeft(buildAt[2]) >> /\ bound' = (IF Pointers THEN bound ELSE Bound)
        /\ UNCHANGED << tell, lazies, answers, rebuilt, lazyPc >>
    BY <1>2, <1>6 DEF BuildLazy
  <2>2. QED
    BY <1>1, <1>2, <1>4, <1>6, <2>1, BuildSkips
<1>7. QED
  BY <1>5, <1>6

\* Another container, at the place of its field.
LEMMA ParseLazyKeeps == ASSUME LazyInv, ParseLazy PROVE LazyInv'
<1>1. LazyCore /\ StageOK /\ BuildOK /\ lazyPc = "parse" /\ Len(lazies) < LazyFields
  BY DEF LazyInv, ParseLazy
<1>2. UNCHANGED << lazyRun, binding, answers, rebuilt, buildAt, lazyPc >>
  BY DEF ParseLazy
<1>3. PICK c : c = [at |-> tell, value |-> Unread, gone |-> FALSE]
  OBVIOUS
<1>4. lazies' = Append(lazies, c)
  BY <1>3 DEF ParseLazy
<1>5. c \in Container /\ c.at = tell /\ c.value = Unread
  BY <1>1, <1>3 DEF LazyCore, RunOK, Container, Unread
<1>6. PICK n \in Nat : n = Len(lazies) /\ n < LazyFields /\ DOMAIN lazies = 1 .. n /\ lazies \in Seq(Container)
  BY <1>1 DEF LazyCore, ContainersOK
<1>7. /\ lazies' \in Seq(Container) /\ Len(lazies') = n + 1 /\ DOMAIN lazies' = 1 .. n + 1 /\ lazies'[n + 1] = c
      /\ \A m \in 1 .. n : lazies'[m] = lazies[m]
  BY <1>4, <1>5, <1>6, AppendedIs
<1>8. RunOK /\ Bound \in Nat \ {0} /\ Bound \in Widths /\ bound \in Nat /\ (bound # 0 => Bound = bound)
  BY <1>1, BoundIs DEF LazyCore
<1>9. IF Pointers THEN tell' = tell /\ bound' = bound ELSE bound' = Bound /\ tell' = tell + Bound
  BY DEF ParseLazy
<1>10. bound' \in Widths \cup {0} /\ bound' \in Nat /\ (bound # 0 => bound' = bound) /\ tell' \in Nat
  <2>1. tell \in Nat /\ bound \in Widths \cup {0}
    BY <1>8 DEF RunOK
  <2>2. QED
    BY <1>8, <1>9, <2>1
<1>11. RunOK'
  BY <1>2, <1>8, <1>10 DEF RunOK
<1>12. ContainersOK'
  <2>1. Len(lazies') <= LazyFields
    BY <1>6, <1>7, LazyAssumption
  <2>2. ASSUME NEW m \in 1 .. LazyFields, m > Len(lazies') PROVE answers[m] = {}
    <3>1. m > Len(lazies)
      BY <1>6, <1>7, <2>2
    <3>2. QED
      BY <1>1, <3>1 DEF LazyCore, ContainersOK
  <2>3. QED
    BY <1>1, <1>2, <1>7, <2>1, <2>2 DEF LazyCore, ContainersOK
<1>13. ~Pointers => tell = n * bound'
  <2>1. SUFFICES ASSUME ~Pointers PROVE tell = n * bound'
    OBVIOUS
  <2>2. tell = n * bound
    BY <1>1, <1>6, <2>1 DEF StageOK
  <2>3. CASE n = 0
    <3>1. n * bound = 0 /\ n * bound' = 0
      BY <1>8, <1>10, <2>3, NoneOfThem
    <3>2. QED
      BY <2>2, <3>1
  <2>4. CASE n # 0
    <3>1. n \in DOMAIN lazies
      BY <1>6, <2>4
    <3>2. bound # 0
      BY <1>1, <2>1, <3>1 DEF LazyCore, PlacesKnown
    <3>3. QED
      BY <1>10, <2>2, <3>2
  <2>5. QED
    BY <2>3, <2>4
<1>14. PlacesKnown'
  <2>1. SUFFICES ASSUME ~Pointers, NEW m \in 1 .. n + 1 PROVE bound' # 0 /\ lazies'[m].at = (m - 1) * bound'
    BY <1>2, <1>7 DEF PlacesKnown, Pointers
  <2>2. bound' # 0
    BY <1>8, <1>9, <2>1
  <2>3. CASE m = n + 1
    <3>1. lazies'[m].at = tell /\ m - 1 = n
      BY <1>5, <1>7, <2>3
    <3>2. QED
      BY <1>13, <2>1, <2>2, <3>1
  <2>4. CASE m # n + 1
    <3>1. m \in 1 .. n
      BY <2>4
    <3>2. bound # 0 /\ lazies[m].at = (m - 1) * bound
      BY <1>1, <1>6, <2>1, <3>1 DEF LazyCore, PlacesKnown
    <3>3. lazies'[m] = lazies[m] /\ bound' = bound
      BY <1>7, <1>10, <3>1, <3>2
    <3>4. QED
      BY <3>2, <3>3
  <2>5. QED
    BY <2>3, <2>4
<1>15. AllRight'
  <2>1. SUFFICES ASSUME NEW m \in 1 .. n + 1 PROVE RightWith(lazyRun, lazies'[m], answers[m], m, bound')
    BY <1>2, <1>7 DEF AllRight
  <2>2. CASE m = n + 1
    <3>1. m \in 1 .. LazyFields /\ m > Len(lazies)
      BY <1>6, <2>2, LazyAssumption
    <3>2. answers[m] = {}
      BY <1>1, <3>1 DEF LazyCore, ContainersOK
    <3>3. lazies'[m].value = Unread
      BY <1>5, <1>7, <2>2
    <3>4. QED
      BY <3>2, <3>3 DEF RightWith
  <2>3. CASE m # n + 1
    <3>1. m \in 1 .. n
      BY <2>3
    <3>2. RightWith(lazyRun, lazies[m], answers[m], m, bound)
      BY <1>1, <1>6, <3>1 DEF LazyCore, AllRight
    <3>3. RightWith(lazyRun, lazies[m], answers[m], m, bound')
      BY <1>10, <3>2, RightStays
    <3>4. QED
      BY <1>7, <3>1, <3>3
  <2>4. QED
    BY <2>2, <2>3
<1>16. StageOK'
  <2>1. ~Pointers => tell' = (n + 1) * bound'
    <3>1. SUFFICES ASSUME ~Pointers PROVE tell' = (n + 1) * bound'
      OBVIOUS
    <3>2. tell' = tell + bound'
      BY <1>9, <3>1
    <3>3. n * bound' + bound' = (n + 1) * bound'
      BY <1>10
    <3>4. QED
      BY <1>13, <3>1, <3>2, <3>3
  <2>2. QED
    BY <1>1, <1>2, <1>7, <2>1 DEF StageOK, Pointers
<1>17. BuildOK'
  <2>1. buildAt = << 1, 0 >> /\ rebuilt = << >>
    BY <1>1 DEF BuildOK
  <2>2. 0 = (1 - 1) * bound' /\ << 1, 0 >> \in (1 .. LazyFields + 1) \X Nat
    <3>1. (1 - 1) * bound' = 0
      BY <1>10, NoneOfThem
    <3>2. 1 \in 1 .. LazyFields + 1
      BY LazyAssumption
    <3>3. QED
      BY <3>1, <3>2
  <2>3. rebuilt \in Seq(Int)
    BY <2>1
  <2>4. \A m \in 1 .. n + 1 : ~(m < buildAt[1])
    BY <2>1
  <2>5. buildAt[2] = (buildAt[1] - 1) * bound'
    BY <2>1, <2>2
  <2>6. QED
    BY <1>1, <1>2, <1>7, <2>1, <2>2, <2>3, <2>4, <2>5 DEF BuildOK, Pointers
<1>18. QED
  BY <1>11, <1>12, <1>14, <1>15, <1>16, <1>17 DEF LazyInv, LazyCore

\* A container forgets its stream.
LEMMA DisposeKeeps == ASSUME LazyInv, NEW i \in DOMAIN lazies, Dispose(i) PROVE LazyInv'
<1>1. LazyCore /\ StageOK /\ BuildOK /\ lazyPc = "use"
  BY DEF LazyInv, Dispose
<1>2. UNCHANGED << lazyRun, tell, binding, bound, answers, rebuilt, buildAt, lazyPc >>
  BY DEF Dispose
<1>3. PICK c : c = [lazies[i] EXCEPT !.gone = TRUE]
  OBVIOUS
<1>4. lazies[i] \in Container /\ lazies' = [lazies EXCEPT ![i] = c] /\ i \in 1 .. LazyFields
  BY <1>1, <1>3, PlaceIsField DEF Dispose, LazyCore, ContainersOK
<1>5. c \in Container /\ c.at = lazies[i].at /\ c.value = lazies[i].value /\ c.gone = TRUE
  BY <1>3, <1>4 DEF Container
<1>6. RightWith(lazyRun, lazies[i], answers[i], i, bound)
  BY <1>1 DEF LazyCore, AllRight
<1>7. RightWith(lazyRun, c, answers[i], i, bound')
  BY <1>2, <1>5, <1>6 DEF RightWith
<1>8. PICK a : a = answers[i]
  OBVIOUS
<1>9. a \in SUBSET Seq(Int) /\ answers' = [answers EXCEPT ![i] = a]
  BY <1>1, <1>2, <1>4, <1>8 DEF LazyCore, ContainersOK
<1>10. binding' \in Widths /\ bound' \in Widths \cup {0} /\ tell' \in Nat
  BY <1>1, <1>2 DEF LazyCore, RunOK
<1>11. LazyCore' /\ Len(lazies') = Len(lazies) /\ DOMAIN lazies' = DOMAIN lazies
  BY <1>1, <1>2, <1>4, <1>5, <1>7, <1>8, <1>9, <1>10, OneTouched
<1>12. StageOK'
  BY <1>1, <1>2, <1>11 DEF StageOK
<1>13. BuildOK'
  BY <1>1, <1>2, <1>11, NothingBuilt
<1>14. QED
  BY <1>11, <1>12, <1>13 DEF LazyInv

\* A demand while the containers are used.
LEMMA DemandKeeps == ASSUME LazyInv, NEW i \in DOMAIN lazies, Demand(i) PROVE LazyInv'
<1>1. LazyCore /\ StageOK /\ BuildOK /\ lazyPc = "use" /\ Demanded(i)
  BY DEF LazyInv, Demand
<1>2. UNCHANGED << lazyRun, binding, rebuilt, buildAt, lazyPc >>
  BY DEF Demand
<1>3. LazyCore' /\ Len(lazies') = Len(lazies) /\ DOMAIN lazies' = DOMAIN lazies
  BY <1>1, <1>2, DemandGives
<1>4. StageOK'
  BY <1>1, <1>2, <1>3 DEF StageOK
<1>5. BuildOK'
  BY <1>1, <1>2, <1>3, NothingBuilt
<1>6. QED
  BY <1>3, <1>4, <1>5 DEF LazyInv

\* Nothing is parsed, nothing was asked.
LEMMA LazyInitOK == LazyInit => LazyInv
<1>1. SUFFICES ASSUME LazyInit PROVE LazyInv
  OBVIOUS
<1>2. /\ lazyRun \in LazyRuns /\ binding \in Widths /\ tell = 0 /\ lazies = << >> /\ bound = 0
      /\ answers = [i \in 1 .. LazyFields |-> {}] /\ rebuilt = << >> /\ buildAt = << 1, 0 >> /\ lazyPc = "parse"
  BY <1>1 DEF LazyInit
<1>3. lazies \in Seq(Container) /\ Len(lazies) = 0 /\ \A m \in DOMAIN lazies : FALSE
  BY <1>2
<1>4. RunOK
  BY <1>2 DEF RunOK
<1>5. ContainersOK
  <2>1. 0 <= LazyFields
    BY LazyAssumption
  <2>2. QED
    BY <1>2, <1>3, <2>1 DEF ContainersOK
<1>6. PlacesKnown /\ AllRight
  BY <1>3 DEF PlacesKnown, AllRight
<1>7. StageOK
  BY <1>2, <1>3, NoneOfThem DEF StageOK
<1>8. BuildOK
  <2>1. << 1, 0 >> \in (1 .. LazyFields + 1) \X Nat
    BY LazyAssumption
  <2>2. buildAt[2] = (buildAt[1] - 1) * bound
    BY <1>2, NoneOfThem
  <2>3. rebuilt \in Seq(Int)
    BY <1>2
  <2>4. QED
    BY <1>2, <1>3, <2>1, <2>2, <2>3 DEF BuildOK
<1>9. QED
  BY <1>4, <1>5, <1>6, <1>7, <1>8 DEF LazyInv, LazyCore

\* The steps that only say how far it is: parsed, to be built, built.
LEMMA StageKeeps == ASSUME LazyInv, ArrayParsed \/ StartBuild \/ BuiltAll PROVE LazyInv'
<1>1. LazyCore /\ StageOK /\ BuildOK
  BY DEF LazyInv
<1>2. UNCHANGED << lazyRun, tell, lazies, binding, bound, answers, rebuilt, buildAt >>
  BY DEF ArrayParsed, StartBuild, BuiltAll
<1>3. LazyCore'
  BY <1>1, <1>2, BoundOnce
<1>4. CASE ArrayParsed
  <2>1. lazyPc = "parse" /\ lazyPc' = "use" /\ Len(lazies) = LazyFields
    BY <1>4 DEF ArrayParsed
  <2>2. StageOK' /\ BuildOK'
    BY <1>1, <1>2, <1>3, <2>1, NothingBuilt DEF StageOK
  <2>3. QED
    BY <1>3, <2>2 DEF LazyInv
<1>5. CASE StartBuild
  <2>1. lazyPc = "use" /\ lazyPc' = "build"
    BY <1>5 DEF StartBuild
  <2>2. StageOK' /\ BuildOK'
    BY <1>1, <1>2, <1>3, <2>1, NothingBuilt DEF StageOK
  <2>3. QED
    BY <1>3, <2>2 DEF LazyInv
<1>6. CASE BuiltAll
  <2>1. lazyPc = "build" /\ lazyPc' = "done" /\ buildAt[1] > LazyFields
    BY <1>6 DEF BuiltAll
  <2>2. buildAt[1] = LazyFields + 1
    <3>1. buildAt[1] \in 1 .. LazyFields + 1 /\ LazyFields \in Nat
      BY <1>1, <2>1, LazyAssumption DEF BuildOK
    <3>2. QED
      BY <2>1, <3>1
  <2>3. StageOK'
    BY <1>1, <1>2, <2>1 DEF StageOK
  <2>4. BuildOK'
    BY <1>1, <1>2, <2>1, <2>2 DEF BuildOK, Pointers
  <2>5. QED
    BY <1>3, <2>3, <2>4 DEF LazyInv
<1>7. QED
  BY <1>4, <1>5, <1>6

\* The stream is moved by others, or the size would be bound otherwise.
LEMMA OthersKeep ==
  ASSUME LazyInv, (\E p \in 0 .. Len(lazyRun.data) : SeekElsewhere(p)) \/ (\E w \in Widths : Rebind(w))
  PROVE  LazyInv'
<1>1. LazyCore /\ StageOK /\ BuildOK
  BY DEF LazyInv
<1>2. /\ lazyPc = "use" /\ tell' \in Nat /\ binding' \in Widths
      /\ UNCHANGED << lazyRun, lazies, bound, answers, rebuilt, buildAt, lazyPc >>
  <2>1. tell \in Nat /\ binding \in Widths
    BY <1>1 DEF LazyCore, RunOK
  <2>2. CASE \E p \in 0 .. Len(lazyRun.data) : SeekElsewhere(p)
    <3>1. Len(lazyRun.data) \in Nat
      BY <1>1, RunFacts DEF LazyCore, RunOK
    <3>2. PICK p \in 0 .. Len(lazyRun.data) : SeekElsewhere(p)
      BY <2>2
    <3>3. p \in Nat
      BY <3>1
    <3>4. QED
      BY <2>1, <3>2, <3>3 DEF SeekElsewhere
  <2>3. CASE \E w \in Widths : Rebind(w)
    BY <2>1, <2>3 DEF Rebind
  <2>4. QED
    BY <2>2, <2>3
<1>3. LazyCore'
  BY <1>1, <1>2 DEF LazyCore, RunOK, ContainersOK, PlacesKnown, AllRight, Pointers
<1>4. StageOK'
  BY <1>1, <1>2 DEF StageOK
<1>5. BuildOK'
  BY <1>1, <1>2, <1>3, NothingBuilt
<1>6. QED
  BY <1>3, <1>4, <1>5 DEF LazyInv

\* Every step of the lazy containers keeps the invariant.
LEMMA LazyStepKeeps == LazyInv /\ [LazyNext]_lazyVars => LazyInv'
<1>1. SUFFICES ASSUME LazyInv, [LazyNext]_lazyVars PROVE LazyInv'
  OBVIOUS
<1>2. CASE UNCHANGED lazyVars
  <2>1. UNCHANGED << lazyRun, tell, lazies, binding, bound, answers, rebuilt, buildAt, lazyPc >>
    BY <1>2 DEF lazyVars
  <2>2. LazyCore'
    BY <1>1, <2>1, BoundOnce DEF LazyInv
  <2>3. StageOK' /\ BuildOK'
    BY <1>1, <2>1 DEF LazyInv, StageOK, BuildOK, Pointers
  <2>4. QED
    BY <2>2, <2>3 DEF LazyInv
<1>3. CASE LazyNext
  <2>1. CASE ParseLazy
    BY <1>1, <2>1, ParseLazyKeeps
  <2>2. CASE ArrayParsed \/ StartBuild \/ BuiltAll
    BY <1>1, <2>2, StageKeeps
  <2>3. CASE BuildLazy
    BY <1>1, <2>3, BuildLazyKeeps
  <2>4. CASE \E i \in DOMAIN lazies : Demand(i)
    BY <1>1, <2>4, DemandKeeps
  <2>5. CASE \E i \in DOMAIN lazies : Dispose(i)
    BY <1>1, <2>5, DisposeKeeps
  <2>6. CASE (\E p \in 0 .. Len(lazyRun.data) : SeekElsewhere(p)) \/ (\E w \in Widths : Rebind(w))
    BY <1>1, <2>6, OthersKeep
  <2>7. QED
    BY <1>3, <2>1, <2>2, <2>3, <2>4, <2>5, <2>6 DEF LazyNext
<1>4. QED
  BY <1>1, <1>2, <1>3

\* The invariant has the three properties of the lazy containers.
LEMMA LazyInvGives == LazyInv => LazyIsEager /\ AnswersAgree /\ BuiltInPlace
<1>1. SUFFICES ASSUME LazyInv PROVE LazyIsEager /\ AnswersAgree /\ BuiltInPlace
  OBVIOUS
<1>2. LazyCore /\ StageOK /\ BuildOK /\ DOMAIN lazies = 1 .. Len(lazies) /\ Len(lazies) \in Nat
  BY <1>1 DEF LazyInv, LazyCore, ContainersOK
<1>3. bound \in Nat /\ lazyRun \in LazyRuns
  BY <1>2, BoundIs DEF LazyCore, RunOK
<1>4. ASSUME NEW i \in DOMAIN lazies, HasValue(i)
      PROVE  /\ i \in 1 .. LazyFields /\ FitsWith(lazyRun, i, bound) /\ FieldAt(i) = PlaceWith(lazyRun, i, bound)
             /\ lazies[i].value = FieldBytes(i) /\ FieldBytes(i) = BytesWith(lazyRun, i, bound)
  <2>1. i \in 1 .. LazyFields
    BY <1>2, PlaceIsField
  <2>2. FitsWith(lazyRun, i, bound) /\ lazies[i].value = BytesWith(lazyRun, i, bound)
    BY <1>2, <1>4 DEF LazyCore, AllRight, RightWith, HasValue
  <2>3. FieldAt(i) = PlaceWith(lazyRun, i, bound)
    BY DEF FieldAt, PlaceWith, Pointers
  <2>4. FieldBytes(i) = BytesWith(lazyRun, i, bound)
    BY <2>3 DEF FieldBytes, BytesWith, Cut
  <2>5. QED
    BY <2>1, <2>2, <2>3, <2>4
<1>5. LazyIsEager
  BY <1>4 DEF LazyIsEager
<1>6. AnswersAgree
  <2>1. SUFFICES ASSUME NEW i \in 1 .. LazyFields PROVE Cardinality(answers[i]) <= 1
    BY <1>2 DEF AnswersAgree, LazyCore, ContainersOK
  <2>2. \E y : answers[i] \subseteq {y}
    <3>1. CASE i \in DOMAIN lazies
      BY <1>2, <3>1 DEF LazyCore, AllRight, RightWith
    <3>2. CASE i \notin DOMAIN lazies
      <4>1. i > Len(lazies)
        BY <1>2, <3>2
      <4>2. answers[i] = {}
        BY <1>2, <4>1 DEF LazyCore, ContainersOK
      <4>3. QED
        BY <4>2
    <3>3. QED
      BY <3>1, <3>2
  <2>3. PICK y : answers[i] \subseteq {y}
    BY <2>2
  <2>4. CASE answers[i] = {}
    <3>1. Cardinality({}) = 0
      BY FS_EmptySet
    <3>2. QED
      BY <2>4, <3>1
  <2>5. CASE answers[i] # {}
    <3>1. answers[i] = {y}
      BY <2>3, <2>5
    <3>2. Cardinality({y}) = 1
      BY FS_Singleton
    <3>3. QED
      BY <3>1, <3>2
  <2>6. QED
    BY <2>4, <2>5
<1>7. BuiltInPlace
  <2>1. SUFFICES ASSUME lazyPc = "done", NEW i \in DOMAIN lazies
                 PROVE  /\ lazyRun.force => HasValue(i)
                        /\ HasValue(i) => /\ Len(rebuilt) >= FieldAt(i) + bound
                                           /\ SubSeq(rebuilt, FieldAt(i) + 1, FieldAt(i) + bound) = FieldBytes(i)
    BY DEF BuiltInPlace
  <2>2. i \in 1 .. LazyFields /\ buildAt[1] = LazyFields + 1 /\ rebuilt \in Seq(Int)
    BY <1>2, <2>1, PlaceIsField DEF BuildOK
  <2>3. i < buildAt[1]
    BY <2>2, LazyAssumption
  <2>4. BuiltWith(lazyRun, lazies[i], rebuilt, i, bound)
    BY <1>2, <2>1, <2>3 DEF BuildOK
  <2>5. lazyRun.force => HasValue(i)
    BY <2>4 DEF BuiltWith, HasValue
  <2>6. ASSUME HasValue(i)
        PROVE  /\ Len(rebuilt) >= FieldAt(i) + bound
               /\ SubSeq(rebuilt, FieldAt(i) + 1, FieldAt(i) + bound) = FieldBytes(i)
    <3>1. PICK p \in Nat : p = PlaceWith(lazyRun, i, bound) /\ p = FieldAt(i)
      BY <1>3, <1>4, <2>2, <2>6, PlaceWithIs
    <3>2. PICK q \in Nat : q = p + bound /\ p <= q /\ q - p = bound
      BY <1>3
    <3>3. q <= Len(rebuilt) /\ \A j \in 1 .. bound : rebuilt[p + j] = lazyRun.data[p + j]
      BY <2>4, <2>6, <3>1, <3>2 DEF BuiltWith, HasValue
    <3>4. IsCut(Int, Cut(rebuilt, p, q), rebuilt, p, q)
      BY <2>2, <3>2, <3>3, CutIs
    <3>5. PICK z : z = Cut(rebuilt, p, q)
      OBVIOUS
    <3>6. z \in Seq(Int) /\ Len(z) = bound /\ \A j \in 1 .. bound : z[j] = rebuilt[p + j]
      BY <3>2, <3>4, <3>5 DEF IsCut
    <3>7. PICK v : v = BytesWith(lazyRun, i, bound)
      OBVIOUS
    <3>8. v \in Seq(Int) /\ Len(v) = bound /\ \A j \in 1 .. bound : v[j] = lazyRun.data[p + j]
      BY <1>3, <1>4, <2>2, <2>6, <3>1, <3>7, BytesWithIs
    <3>9. z = v
      BY <3>3, <3>6, <3>8, SameSeq
    <3>10. SubSeq(rebuilt, FieldAt(i) + 1, FieldAt(i) + bound) = z
      BY <3>1, <3>2, <3>5 DEF Cut
    <3>11. FieldBytes(i) = v
      BY <1>4, <2>6, <3>7
    <3>12. Len(rebuilt) >= FieldAt(i) + bound
      BY <2>2, <3>1, <3>2, <3>3
    <3>13. QED
      BY <3>9, <3>10, <3>11, <3>12
  <2>7. QED
    BY <2>5, <2>6
<1>8. QED
  BY <1>5, <1>6, <1>7

\* Lazy containers and bit streams give what the stream below holds, in
\* whatever order and portions it is asked for, and write it back in place:
\* for every file, every widths of fields, and every order of demands, seeks
\* and disposals.
THEOREM StreamsStayFaithful == LazySpec /\ BitSpec => []StreamsFaithful
<1>1. LazySpec => []LazyInv
  BY LazyInitOK, LazyStepKeeps, PTL DEF LazySpec
<1>2. BitSpec => []BitInv
  BY BitInitOK, BitStepKeeps, PTL DEF BitSpec
<1>3. LazyInv /\ BitInv => StreamsFaithful
  BY LazyInvGives, BitInvGives DEF StreamsFaithful
<1>4. QED
  BY <1>1, <1>2, <1>3, PTL

-----------------------------------------------------------------------------
(***************************************************************************)
(* Call frame information: the entries that are read, and the tables of    *)
(* lines that they are decoded into.                                       *)
(***************************************************************************)

\* The assumption on the sections, of the one that is parsed.
LEMMA FramesAre == ASSUME frames \in Sections PROVE SectionIs(frames)
BY CallFrameAssumption

\* An FDE points at a CIE.
LEMMA CieOfFde ==
  ASSUME frames \in Sections, NEW n \in 1 .. Len(frames), frames[n].of # 0 PROVE frames[frames[n].of].of = 0
BY FramesAre DEF SectionIs

\* An entry that is known was read, or an entry that was read points at it.
Reached(m) == \E i \in 1 .. Len(got) : got[i] = m \/ frames[got[i]].of = m

\* What has been read has its CIE in the cache too.
CieKnown(m) == IsFDE(m) => frames[m].of \in known

FramesRead ==
  /\ frames \in Sections
  /\ cfiPc \in {"read", "decode", "raised"}
  /\ at \in 1 .. Len(frames) + 1 /\ framePos = at
  /\ got \in Seq(known) /\ known \subseteq 1 .. Len(frames)
  /\ \A m \in known : Readable(m) /\ Reached(m)
  /\ \A i \in 1 .. Len(got) : CieKnown(got[i])
  /\ EntriesInOrder

\* A sequence with one more element.
LEMMA OneBehind ==
  ASSUME NEW S, NEW q \in Seq(S), NEW T, S \subseteq T, NEW x \in T
  PROVE  /\ Append(q, x) \in Seq(T) /\ Len(Append(q, x)) = Len(q) + 1 /\ Len(q) \in Nat
         /\ Append(q, x)[Len(q) + 1] = x
         /\ \A i \in 1 .. Len(q) : Append(q, x)[i] = q[i]
<1>1. q \in Seq(T)
  OBVIOUS
<1>2. QED
  BY <1>1, AppendProperties

\* What no action on the entries changes.
LEMMA ReadStays ==
  ASSUME FramesRead, UNCHANGED << frames, framePos, at, known, got >>, cfiPc' \in {"read", "decode", "raised"}
  PROVE  FramesRead'
<1>1. \A m : ((Readable(m))' <=> Readable(m)) /\ ((CieKnown(m))' <=> CieKnown(m))
  BY DEF Readable, TakenForCIE, PointsAt, CieKnown, IsFDE
<1>2. \A m : (Reached(m))' <=> Reached(m)
  BY DEF Reached
<1>3. EntriesInOrder' <=> EntriesInOrder
  BY DEF Ahead, EntriesInOrder, IsNth
<1>4. QED
  BY <1>1, <1>2, <1>3 DEF FramesRead

\* Before anything was read.
LEMMA FramesReadInit == ASSUME CfiInit PROVE FramesRead
<1>1. /\ frames \in Sections /\ at = 1 /\ framePos = 1 /\ got = << >> /\ known = {} /\ cfiPc = "read"
  BY DEF CfiInit
<1>2. Len(frames) \in Nat /\ DOMAIN frames = 1 .. Len(frames)
  BY <1>1, FramesAre DEF SectionIs
<1>3. got \in Seq(known) /\ Len(got) = 0
  BY <1>1
<1>4. EntriesInOrder
  <2>1. \A m \in Ahead : 1 <= m
    BY <1>2 DEF Ahead
  <2>2. QED
    BY <1>1, <1>3, <2>1 DEF EntriesInOrder, IsNth
<1>5. QED
  BY <1>1, <1>2, <1>3, <1>4 DEF FramesRead

\* The entries that are ahead of an entry that points at them.
LEMMA AheadIs ==
  ASSUME frames \in Sections
  PROVE  /\ Ahead \subseteq 1 .. Len(frames) /\ Len(frames) \in Nat
         /\ \A n \in Ahead : \E k \in 1 .. n - 1 : k \in 1 .. Len(frames) /\ frames[k].of = n
         /\ \A n \in 1 .. Len(frames) : \A k \in 1 .. n - 1 : frames[k].of = n => n \in Ahead
<1>1. Len(frames) \in Nat /\ DOMAIN frames = 1 .. Len(frames)
  BY FramesAre DEF SectionIs
<1>2. QED
  BY <1>1 DEF Ahead

\* An entry of which the offset is known is read once more: only a CIE that an
\* earlier FDE points at, and that for ever.
LEMMA CachedRead == ASSUME FramesRead, ReadCached PROVE FramesRead'
<1>1. /\ at \in known /\ got' = Append(got, at) /\ at' = framePos /\ cfiPc' = cfiPc /\ at <= Len(frames)
      /\ frames' = frames /\ framePos' = framePos /\ known' = known
  BY DEF ReadCached
<1>2. /\ got \in Seq(known) /\ at \in 1 .. Len(frames) + 1 /\ framePos = at /\ known \subseteq 1 .. Len(frames)
      /\ frames \in Sections /\ cfiPc \in {"read", "decode", "raised"}
      /\ \A m \in known : Readable(m) /\ Reached(m)
      /\ \A i \in 1 .. Len(got) : CieKnown(got[i])
      /\ (\A i \in 1 .. Len(got) : IsNth(i, got[i])) /\ IsNth(Len(got) + 1, at)
  BY DEF FramesRead, EntriesInOrder
<1>3. /\ got' \in Seq(known) /\ Len(got') = Len(got) + 1 /\ Len(got) \in Nat
      /\ got'[Len(got) + 1] = at /\ \A i \in 1 .. Len(got) : got'[i] = got[i]
  BY <1>1, <1>2, OneBehind
<1>4. \A m : ((Readable(m))' <=> Readable(m)) /\ ((CieKnown(m))' <=> CieKnown(m))
  BY <1>1 DEF Readable, TakenForCIE, PointsAt, CieKnown, IsFDE
<1>5. ASSUME NEW m \in known PROVE Reached(m)'
  <2>1. PICK i \in 1 .. Len(got) : got[i] = m \/ frames[got[i]].of = m
    BY <1>2 DEF Reached
  <2>2. i \in 1 .. Len(got') /\ got'[i] = got[i]
    BY <1>3, <2>1
  <2>3. QED
    BY <1>1, <2>1, <2>2 DEF Reached
<1>6. \A i, n : IsNth(i, n)' <=> IsNth(i, n)
  BY <1>1 DEF Ahead, IsNth
<1>7. at \in 1 .. Len(frames) /\ Len(frames) \in Nat
  BY <1>1, <1>2, AheadIs
<1>8. at \in Ahead
  <2>1. CASE at < Len(got) + 1
    BY <1>2, <2>1 DEF IsNth
  <2>2. CASE at = Len(got) + 1
    <3>1. PICK i \in 1 .. Len(got) : got[i] = at \/ frames[got[i]].of = at
      BY <1>1, <1>2 DEF Reached
    <3>2. got[i] \in 1 .. i
      BY <1>2 DEF IsNth
    <3>3. got[i] \in 1 .. at - 1 /\ frames[got[i]].of = at
      BY <1>3, <2>2, <3>1, <3>2
    <3>4. QED
      BY <1>2, <1>7, <3>3, AheadIs
  <2>3. at <= Len(got) + 1
    BY <1>3, <1>2 DEF IsNth
  <2>4. QED
    BY <1>3, <1>7, <2>1, <2>2, <2>3
<1>9. IsNth(Len(got) + 2, at)
  BY <1>2, <1>3, <1>8 DEF IsNth
<1>10. CieKnown(at)
  <2>1. PICK i \in 1 .. Len(got) : got[i] = at \/ frames[got[i]].of = at
    BY <1>1, <1>2 DEF Reached
  <2>2. CASE got[i] = at
    BY <1>2, <2>1, <2>2
  <2>3. CASE frames[got[i]].of = at
    <3>1. got \in Seq(known) /\ known \subseteq 1 .. Len(frames) /\ i \in 1 .. Len(got) /\ frames \in Sections
      BY <1>2, <2>1
    <3>2. got[i] \in known
      BY ONLY <3>1, ElementOfSeq
    <3>3. got[i] \in 1 .. Len(frames)
      BY ONLY <3>1, <3>2
    <3>4. frames[got[i]].of # 0
      BY <1>7, <2>3
    <3>5. frames[frames[got[i]].of].of = 0
      BY <3>1, <3>4, <3>3, CieOfFde
    <3>6. frames[at].of = 0
      BY <2>3, <3>5
    <3>7. QED
      BY <3>6 DEF CieKnown, IsFDE
  <2>4. QED
    BY <2>1, <2>2, <2>3
<1>11. \A i \in 1 .. Len(got') : CieKnown(got'[i]) /\ IsNth(i, got'[i])
  <2>1. ASSUME NEW i \in 1 .. Len(got') PROVE CieKnown(got'[i]) /\ IsNth(i, got'[i])
    <3>1. CASE i = Len(got) + 1
      BY <1>2, <1>3, <1>10, <3>1
    <3>2. CASE i # Len(got) + 1
      <4>1. i \in 1 .. Len(got)
        BY <1>3, <3>2
      <4>2. QED
        BY <1>2, <1>3, <4>1
    <3>3. QED
      BY <3>1, <3>2
  <2>2. QED
    BY <2>1
<1>12. EntriesInOrder'
  BY <1>1, <1>2, <1>3, <1>6, <1>9, <1>11 DEF EntriesInOrder
<1>13. QED
  BY <1>1, <1>2, <1>3, <1>4, <1>5, <1>11, <1>12 DEF FramesRead

\* An entry is read for the first time: no earlier FDE points at it.
LEMMA NewRead == ASSUME FramesRead, ReadEntry PROVE FramesRead'
<1>1. /\ at <= Len(frames) /\ at \notin known /\ Readable(at)
      /\ known' = known \cup {at} \cup (IF TakenForCIE(at) THEN {} ELSE {PointsAt(at)})
      /\ got' = Append(got, at) /\ at' = at + 1 /\ framePos' = at + 1 /\ cfiPc' = cfiPc /\ frames' = frames
  BY DEF ReadEntry, KeepsPosition
<1>2. /\ got \in Seq(known) /\ at \in 1 .. Len(frames) + 1 /\ known \subseteq 1 .. Len(frames)
      /\ frames \in Sections /\ cfiPc \in {"read", "decode", "raised"}
      /\ \A m \in known : Readable(m) /\ Reached(m)
      /\ \A i \in 1 .. Len(got) : CieKnown(got[i])
      /\ (\A i \in 1 .. Len(got) : IsNth(i, got[i])) /\ IsNth(Len(got) + 1, at)
  BY DEF FramesRead, EntriesInOrder
<1>3. /\ Len(frames) \in Nat /\ DOMAIN frames = 1 .. Len(frames)
      /\ \A n \in 1 .. Len(frames) : frames[n].of \in 0 .. Len(frames)
  BY <1>2, FramesAre DEF SectionIs
<1>4. at \in 1 .. Len(frames)
  BY <1>1, <1>2, <1>3
<1>5. /\ got' \in Seq(known') /\ Len(got') = Len(got) + 1 /\ Len(got) \in Nat
      /\ got'[Len(got) + 1] = at /\ \A i \in 1 .. Len(got) : got'[i] = got[i]
  <2>1. known \subseteq known' /\ at \in known'
    BY <1>1
  <2>2. QED
    BY <1>1, <1>2, <2>1, OneBehind
<1>6. ~TakenForCIE(at) => PointsAt(at) \in 1 .. Len(frames) /\ TakenForCIE(PointsAt(at))
  BY <1>1, <1>3, <1>4 DEF Readable, PointsAt
<1>7. known' \subseteq 1 .. Len(frames)
  BY <1>1, <1>2, <1>4, <1>6
<1>8. \A m : (Readable(m))' <=> Readable(m)
  BY <1>1 DEF Readable, TakenForCIE, PointsAt
<1>9. ASSUME NEW m \in known' PROVE Readable(m)
  BY <1>1, <1>2, <1>6, <1>9 DEF Readable
<1>10. ASSUME NEW m \in known' PROVE Reached(m)'
  <2>1. CASE m \in known
    <3>1. PICK i \in 1 .. Len(got) : got[i] = m \/ frames[got[i]].of = m
      BY <1>2, <2>1 DEF Reached
    <3>2. i \in 1 .. Len(got') /\ got'[i] = got[i]
      BY <1>5, <3>1
    <3>3. QED
      BY <1>1, <3>1, <3>2 DEF Reached
  <2>2. CASE m \notin known
    <3>1. m = at \/ m = frames[at].of
      BY <1>1, <1>10, <2>2 DEF PointsAt
    <3>2. Len(got') \in 1 .. Len(got') /\ got'[Len(got')] = at
      BY <1>5
    <3>3. QED
      BY <1>1, <3>1, <3>2 DEF Reached
  <2>3. QED
    BY <2>1, <2>2
<1>11. \A i, n : IsNth(i, n)' <=> IsNth(i, n)
  BY <1>1 DEF Ahead, IsNth
<1>12. at \notin Ahead
  <2>1. SUFFICES ASSUME at \in Ahead PROVE FALSE
    OBVIOUS
  <2>2. PICK k \in 1 .. at - 1 : k \in 1 .. Len(frames) /\ frames[k].of = at
    BY <1>2, <2>1, AheadIs
  <2>3. k \in 1 .. Len(got) /\ \A m \in Ahead : at <= m
    BY <1>2, <1>4, <1>5 DEF IsNth
  <2>4. got[k] = k
    <3>1. got[k] \in 1 .. k /\ (got[k] < k => got[k] \in Ahead)
      BY <1>2, <2>3 DEF IsNth
    <3>2. ~(got[k] < k)
      BY <1>4, <2>3, <3>1
    <3>3. QED
      BY <3>1, <3>2
  <2>5. frames[k].of \in known
    <3>1. frames[k].of # 0
      BY <1>4, <2>2
    <3>2. QED
      BY <1>2, <2>3, <2>4, <3>1 DEF CieKnown, IsFDE
  <2>6. QED
    BY <1>1, <2>2, <2>5
<1>13. at = Len(got) + 1 /\ \A m \in Ahead : at + 1 <= m
  <2>1. at \in 1 .. Len(got) + 1 /\ (\A m \in Ahead : at <= m) /\ (at < Len(got) + 1 => at \in Ahead)
    BY <1>2 DEF IsNth
  <2>2. \A m \in Ahead : m \in 1 .. Len(frames) /\ m # at
    BY <1>2, <1>12, AheadIs
  <2>3. \A m \in Ahead : at + 1 <= m
    BY <1>3, <1>4, <2>1, <2>2
  <2>4. QED
    BY <1>5, <1>12, <2>1, <2>3
<1>14. ASSUME NEW i \in 1 .. Len(got') PROVE (CieKnown(got[i]))' /\ IsNth(i, got'[i])
  <2>1. CASE i = Len(got) + 1
    <3>1. IsNth(i, at)
      BY <1>2, <2>1
    <3>2. frames[at].of # 0 => frames[at].of \in known'
      BY <1>1, <1>6 DEF TakenForCIE, PointsAt
    <3>3. got'[i] = at /\ frames' = frames
      BY <1>1, <1>5, <2>1
    <3>4. QED
      BY <3>1, <3>2, <3>3 DEF CieKnown, IsFDE
  <2>2. CASE i # Len(got) + 1
    <3>1. i \in 1 .. Len(got) /\ got'[i] = got[i]
      BY <1>5, <2>2
    <3>2. CieKnown(got[i]) /\ IsNth(i, got[i])
      BY <1>2, <3>1
    <3>3. known \subseteq known' /\ frames' = frames
      BY <1>1
    <3>4. QED
      BY <3>1, <3>2, <3>3 DEF CieKnown, IsFDE
  <2>3. QED
    BY <2>1, <2>2
<1>15. EntriesInOrder'
  <2>1. IsNth(Len(got) + 2, at + 1)
    BY <1>5, <1>13 DEF IsNth
  <2>2. QED
    BY <1>1, <1>5, <1>11, <1>14, <2>1 DEF EntriesInOrder
<1>16. at' \in 1 .. Len(frames) + 1 /\ framePos' = at'
  BY <1>1, <1>3, <1>4
<1>17. QED
  BY <1>1, <1>2, <1>5, <1>7, <1>8, <1>9, <1>10, <1>14, <1>15, <1>16 DEF FramesRead

\* What the instructions of code mean, up to each of the first k.
EffectsTo(S, code, first, k) ==
  S = [i \in 0 .. k |-> IF i = 0 THEN [line |-> first, out |-> << >>]
                        ELSE CfiEffect(code[i], S[i - 1])]

NoEffect(first) == [line |-> first, out |-> << >>]

\* The states that the first k instructions lead through, one by one.
LEMMA EffectsAt ==
  ASSUME NEW S, NEW code, NEW first, NEW k, EffectsTo(S, code, first, k)
  PROVE  \A i \in 0 .. k : S[i] = IF i = 0 THEN NoEffect(first) ELSE CfiEffect(code[i], S[i - 1])
BY DEF EffectsTo, NoEffect

\* There is what CfiMeaning chooses.
LEMMA EffectsExist ==
  ASSUME NEW code, NEW first PROVE \A k \in Nat : \E S : EffectsTo(S, code, first, k)
<1> DEFINE G == {k \in Nat : \E S : EffectsTo(S, code, first, k)}
<1>1. 0 \in G
  <2>1. PICK S : S = [i \in 0 .. 0 |-> NoEffect(first)]
    OBVIOUS
  <2>2. S = [i \in 0 .. 0 |-> IF i = 0 THEN NoEffect(first) ELSE CfiEffect(code[i], S[i - 1])]
    BY <2>1
  <2>3. QED
    BY <2>2 DEF EffectsTo, NoEffect
<1>2. ASSUME NEW k \in Nat, k \in G PROVE k + 1 \in G
  <2>1. SUFFICES \E S : EffectsTo(S, code, first, k + 1)
    OBVIOUS
  <2>2. PICK S : EffectsTo(S, code, first, k)
    BY <1>2
  <2> DEFINE T == [i \in 0 .. k + 1 |-> IF i = 0 THEN NoEffect(first) ELSE CfiEffect(code[i], S[i - 1])]
  <2>3. ASSUME NEW i \in 0 .. k PROVE T[i] = S[i]
    <3>1. S[i] = IF i = 0 THEN NoEffect(first) ELSE CfiEffect(code[i], S[i - 1])
      BY <2>2, EffectsAt
    <3>2. i \in 0 .. k + 1
      OBVIOUS
    <3>3. T[i] = IF i = 0 THEN NoEffect(first) ELSE CfiEffect(code[i], S[i - 1])
      BY <3>2
    <3> HIDE DEF T
    <3>4. QED
      BY <3>1, <3>3
  <2>4. ASSUME NEW i \in 0 .. k + 1
        PROVE  T[i] = IF i = 0 THEN NoEffect(first) ELSE CfiEffect(code[i], T[i - 1])
    <3>1. CASE i = 0
      BY <3>1
    <3>2. CASE i # 0
      <4>1. i - 1 \in 0 .. k
        BY <3>2
      <4>2. T[i - 1] = S[i - 1]
        BY <2>3, <4>1
      <4>3. T[i] = CfiEffect(code[i], S[i - 1])
        BY <3>2
      <4> HIDE DEF T
      <4>4. QED
        BY <3>2, <4>2, <4>3
    <3>3. QED
      BY <3>1, <3>2
  <2>5. T = [i \in 0 .. k + 1 |-> T[i]]
    OBVIOUS
  <2> HIDE DEF T
  <2>6. T = [i \in 0 .. k + 1 |-> IF i = 0 THEN NoEffect(first) ELSE CfiEffect(code[i], T[i - 1])]
    BY <2>4, <2>5
  <2>7. QED
    BY <2>6 DEF EffectsTo, NoEffect
<1> HIDE DEF G
<1>3. Nat \subseteq G
  BY <1>1, <1>2, AllNumbers
<1>4. QED
  BY <1>3 DEF G

\* The state that i instructions of code lead to from a line.
StateAfter(code, first) == CHOOSE S : EffectsTo(S, code, first, Len(code))

\* What the instructions of code mean is what the last of these states holds.
LEMMA MeaningIs ==
  ASSUME NEW code, Len(code) \in Nat, NEW first
  PROVE  /\ CfiMeaning(code, first)
              = Append(StateAfter(code, first)[Len(code)].out, StateAfter(code, first)[Len(code)].line)
         /\ StateAfter(code, first)[0] = NoEffect(first)
         /\ \A i \in 1 .. Len(code) :
              StateAfter(code, first)[i] = CfiEffect(code[i], StateAfter(code, first)[i - 1])
<1>1. PICK S : S = StateAfter(code, first)
  OBVIOUS
<1>2. CfiMeaning(code, first) = Append(S[Len(code)].out, S[Len(code)].line)
  BY <1>1 DEF CfiMeaning, StateAfter, EffectsTo
<1>3. EffectsTo(S, code, first, Len(code))
  BY <1>1, EffectsExist DEF StateAfter
<1>4. \A i \in 0 .. Len(code) : S[i] = IF i = 0 THEN NoEffect(first) ELSE CfiEffect(code[i], S[i - 1])
  BY <1>3, EffectsAt
<1>5. \A i \in 1 .. Len(code) : i \in 0 .. Len(code) /\ i # 0
  OBVIOUS
<1>6. 0 \in 0 .. Len(code)
  OBVIOUS
<1>7. QED
  BY <1>1, <1>2, <1>4, <1>5, <1>6

\* What an instruction does to a state of known line and lines.
LEMMA AdvanceEffect ==
  ASSUME NEW c, c[1] = "advance", NEW line, NEW out
  PROVE  CfiEffect(c, [line |-> line, out |-> out])
           = [line |-> [line EXCEPT !["pc"] = @ + 1], out |-> Append(out, line)]
<1>1. PICK s : s = [line |-> line, out |-> out]
  OBVIOUS
<1>2. CfiEffect(c, s) = [s EXCEPT !.out = Append(@, s.line), !.line["pc"] = @ + 1]
  BY DEF CfiEffect
<1>3. QED
  BY <1>1, <1>2

\* A rule for a register is put into the line.
LEMMA RuleEffect ==
  ASSUME NEW c, c[1] = "rule", NEW line, NEW out
  PROVE  CfiEffect(c, [line |-> line, out |-> out]) = [line |-> Put(line, c[2], c[3]), out |-> out]
<1>1. PICK s : s = [line |-> line, out |-> out]
  OBVIOUS
<1>2. CfiEffect(c, s) = [s EXCEPT !.line = Put(s.line, c[2], c[3])]
  BY DEF CfiEffect
<1>3. QED
  BY <1>1, <1>2

\* DW_CFA_restore puts the rule there that there is.
LEMMA RestoreEffect ==
  ASSUME NEW c, c[1] = "restore", NEW line, NEW out
  PROVE  CfiEffect(c, [line |-> line, out |-> out]) = [line |-> Put(line, c[2], line[c[2]]), out |-> out]
<1>1. PICK s : s = [line |-> line, out |-> out]
  OBVIOUS
<1>2. CfiEffect(c, s) = [s EXCEPT !.line = Put(s.line, c[2], s.line[c[2]])]
  BY DEF CfiEffect
<1>3. QED
  BY <1>1, <1>2

\* DW_CFA_remember_state and DW_CFA_restore_state change nothing.
LEMMA StackEffect == ASSUME NEW c, c[1] \in {"remember", "recall"}, NEW s PROVE CfiEffect(c, s) = s
BY DEF CfiEffect

\* An instruction for the CFA changes its column only.
LEMMA CfaEffect ==
  ASSUME NEW c, c[1] \in CfaOps, NEW line, NEW out
  PROVE  CfiEffect(c, [line |-> line, out |-> out]) = [line |-> Put(line, "cfa", CfaOf(c, line["cfa"])), out |-> out]
<1>1. PICK s : s = [line |-> line, out |-> out]
  OBVIOUS
<1>2. CfiEffect(c, s) = [s EXCEPT !.line = Put(s.line, "cfa", CfaOf(c, s.line["cfa"]))]
  BY DEF CfiEffect, CfaOps
<1>3. QED
  BY <1>1, <1>2

\* The registers a line has rules for, and a line.
Regs(l) == DOMAIN l \ {"pc", "cfa"}
IsLine(l) == "pc" \in DOMAIN l /\ "cfa" \in DOMAIN l

\* o names the registers of a line, each once.
OrderOf(o, l) == IsSequence(o) /\ IsInjective(o) /\ ToSet(o) = Regs(l)

LinesAre == IsSequence(heap) /\ \A l \in 1 .. Len(heap) : IsLine(heap[l])

StackAndTable ==
  /\ IsSequence(saved) /\ \A i \in 1 .. Len(saved) : saved[i] \in 1 .. Len(heap)
  /\ IsSequence(table) /\ \A i \in 1 .. Len(table) : table[i] \in 1 .. Len(heap)

TableDone(n) ==
  /\ Readable(n) /\ Len(decoded[n]) # 0
  /\ \A i \in 1 .. Len(decoded[n]) :
       decoded[n][i] \in 1 .. Len(heap) /\ Regs(heap[decoded[n][i]]) \subseteq Regs(heap[Last(decoded[n])])
  /\ OrderOf(orders[n], heap[Last(decoded[n])])
  /\ LinesOf(n) = Means(n)

TablesDone ==
  /\ DOMAIN decoded = DOMAIN frames /\ DOMAIN orders = DOMAIN frames
  /\ \A n \in DOMAIN frames : IsSequence(decoded[n]) /\ (Decoded(n) => TableDone(n))

\* The entries being decoded.
Pending(n) == ~Decoded(n) /\ Readable(n)
Ready(n) == Pending(n) /\ (IsFDE(n) => Decoded(frames[n].of))

OneIs(b, n) == b = << n >> /\ Ready(n)
TwoAre(b, m, n) == b = << m, n >> /\ Ready(m) /\ Pending(n) /\ frames[n].of = m
BusyIs ==
  \/ busy = << >> /\ todo = NotBegun
  \/ cfiPc = "decode" /\ \E n \in DOMAIN frames : OneIs(busy, n)
  \/ cfiPc = "decode" /\ \E m, n \in DOMAIN frames : TwoAre(busy, m, n)

\* The first line of an entry, and what i of its instructions mean.
FirstLine(n) ==
  IF IsFDE(n) THEN Put(Last(CfiMeaning(frames[frames[n].of].code, FreshLine)), "pc", 10) ELSE FreshLine
Out == [j \in 1 .. Len(table) |-> heap[table[j]]]
Meant(n, i) == StateAfter(frames[n].code, FirstLine(n))[i] = [line |-> heap[cur], out |-> Out]

\* The instructions of code behind the first i.
Behind(code, i, rest) == i \in 0 .. Len(code) /\ rest = SubSeq(code, i + 1, Len(code))

LinesApart ==
  /\ cur \in 1 .. Len(heap) /\ base = cur
  /\ \A i \in 1 .. Len(saved) : saved[i] = cur
  /\ \A i \in 1 .. Len(table) : table[i] # cur /\ Regs(heap[table[i]]) \subseteq Regs(heap[cur])
  /\ \A n \in DOMAIN frames : \A i \in 1 .. Len(decoded[n]) : decoded[n][i] # cur
  /\ OrderOf(order, heap[cur])
Follows(n) == \E i \in Nat : Behind(frames[n].code, i, todo) /\ Meant(n, i)

Decoding == busy # << >> /\ todo # NotBegun
RunIs == Decoding => LinesApart /\ Follows(Head(busy))

\* The lines that were returned are not written.
LinesKept == \A n \in DOMAIN frames : Decoded(n) => LinesOf(n)' = LinesOf(n)

CfiInv == FramesRead /\ LinesAre /\ StackAndTable /\ TablesDone /\ BusyIs /\ RunIs

\* What the instructions of n mean, from its first line.
LEMMA MeansIs == ASSUME NEW n PROVE Means(n) = CfiMeaning(frames[n].code, FirstLine(n))
BY DEF Means, FirstLine

\* The CIE of an FDE that can be read.
LEMMA CieIs ==
  ASSUME FramesRead, NEW n \in DOMAIN frames, Readable(n), IsFDE(n)
  PROVE  frames[n].of \in DOMAIN frames /\ Readable(frames[n].of) /\ ~IsFDE(frames[n].of) /\ frames[n].of # n
<1>1. SectionIs(frames)
  BY FramesAre DEF FramesRead
<1>2. frames[n].of \in 0 .. Len(frames) /\ frames[n].of # 0
  BY <1>1 DEF SectionIs, IsFDE
<1>3. TakenForCIE(frames[n].of)
  BY <1>2 DEF Readable, TakenForCIE, PointsAt
<1>4. QED
  BY <1>1, <1>2, <1>3 DEF SectionIs, Readable, TakenForCIE, IsFDE

\* What depends on the section only does not change.
LEMMA SameSection ==
  ASSUME frames' = frames
  PROVE  /\ \A n : /\ Readable(n)' <=> Readable(n)
                   /\ IsFDE(n)' <=> IsFDE(n)
                   /\ Means(n)' = Means(n)
                   /\ FirstLine(n)' = FirstLine(n)
<1>1. ASSUME NEW n PROVE Readable(n)' <=> Readable(n)
  BY DEF Readable, TakenForCIE, PointsAt
<1>2. ASSUME NEW n PROVE IsFDE(n)' <=> IsFDE(n)
  BY DEF IsFDE
<1>5. ASSUME NEW n PROVE Means(n)' = Means(n)
  BY <1>2 DEF Means
<1>6. ASSUME NEW n PROVE FirstLine(n)' = FirstLine(n)
  BY <1>2 DEF FirstLine
<1>7. QED
  BY <1>1, <1>2, <1>5, <1>6

\* The tables of the entries stay, with the lines in them.
LEMMA TablesStay ==
  ASSUME TablesDone, frames' = frames, decoded' = decoded, orders' = orders,
         Len(heap) \in Nat, Len(heap') \in Nat, Len(heap) <= Len(heap'),
         \A n \in DOMAIN frames : \A i \in 1 .. Len(decoded[n]) : heap'[decoded[n][i]] = heap[decoded[n][i]]
  PROVE  /\ TablesDone'
         /\ \A n \in DOMAIN frames : LinesOf(n)' = LinesOf(n)
<1>1. \A n \in DOMAIN frames : IsSequence(decoded[n]) /\ (Decoded(n) => TableDone(n))
  BY DEF TablesDone
<1>2. ASSUME NEW n \in DOMAIN frames PROVE LinesOf(n)' = LinesOf(n)
  <2>1. DOMAIN decoded[n] = 1 .. Len(decoded[n])
    BY <1>1 DEF IsSequence
  <2>2. QED
    BY <2>1 DEF LinesOf
<1>3. ASSUME NEW n \in DOMAIN frames, Decoded(n) PROVE TableDone(n)'
  <2>1. TableDone(n) /\ IsSequence(decoded[n])
    BY <1>1, <1>3
  <2>2. Len(decoded[n]) \in 1 .. Len(decoded[n]) /\ Last(decoded[n]) = decoded[n][Len(decoded[n])]
    BY <2>1 DEF TableDone, IsSequence, Last
  <2>3. heap'[Last(decoded[n])] = heap[Last(decoded[n])]
    BY <2>2
  <2>4. \A i \in 1 .. Len(decoded[n]) :
          decoded[n][i] \in 1 .. Len(heap') /\ Regs(heap'[decoded[n][i]]) \subseteq Regs(heap'[Last(decoded[n])])
    <3>1. ASSUME NEW i \in 1 .. Len(decoded[n])
          PROVE  decoded[n][i] \in 1 .. Len(heap') /\ Regs(heap'[decoded[n][i]]) \subseteq Regs(heap'[Last(decoded[n])])
      <4>1. decoded[n][i] \in 1 .. Len(heap) /\ Regs(heap[decoded[n][i]]) \subseteq Regs(heap[Last(decoded[n])])
        BY <2>1 DEF TableDone
      <4>2. heap'[decoded[n][i]] = heap[decoded[n][i]]
        OBVIOUS
      <4>3. QED
        BY <2>3, <4>1, <4>2
    <3>2. QED
      BY <3>1
  <2>5. OrderOf(orders[n], heap'[Last(decoded[n])])
    BY <2>1, <2>3 DEF TableDone
  <2>6. (LinesOf(n) = Means(n))'
    BY <1>2, <2>1, SameSection DEF TableDone
  <2>7. Readable(n)' /\ Len(decoded[n]) # 0
    BY <2>1, SameSection DEF TableDone
  <2>8. QED
    BY <2>4, <2>5, <2>6, <2>7 DEF TableDone
<1>4. \A n \in DOMAIN frames : Decoded(n)' <=> Decoded(n)
  BY DEF Decoded
<1>5. TablesDone'
  BY <1>1, <1>3, <1>4 DEF TablesDone
<1>6. QED
  BY <1>2, <1>5

\* What the actions on the entries leave alone.
LEMMA DecodeStays ==
  ASSUME frames' = frames, UNCHANGED << heap, decoded, orders, cur, base, saved, table, order >>
  PROVE  /\ LinesAre' <=> LinesAre
         /\ StackAndTable' <=> StackAndTable
         /\ LinesApart' <=> LinesApart
         /\ \A n : (Ready(n)' <=> Ready(n)) /\ (Pending(n)' <=> Pending(n))
         /\ \A n : LinesOf(n)' = LinesOf(n)
         /\ \A n, i : Meant(n, i)' <=> Meant(n, i)
<1>1. LinesAre' <=> LinesAre
  BY DEF LinesAre
<1>2. StackAndTable' <=> StackAndTable
  BY DEF StackAndTable
<1>3. LinesApart' <=> LinesApart
  BY DEF LinesApart
<1>4. ASSUME NEW n PROVE Pending(n)' <=> Pending(n)
  BY SameSection DEF Pending, Decoded
<1>5. ASSUME NEW n PROVE Ready(n)' <=> Ready(n)
  BY <1>4, SameSection DEF Ready, Decoded
<1>6. ASSUME NEW n PROVE LinesOf(n)' = LinesOf(n)
  BY DEF LinesOf
<1>7. ASSUME NEW n, NEW i PROVE Meant(n, i)' <=> Meant(n, i)
  <2>1. Out' = Out
    BY DEF Out
  <2>2. QED
    BY <2>1, SameSection DEF Meant
<1>8. QED
  BY <1>1, <1>2, <1>3, <1>4, <1>5, <1>6, <1>7

\* Before any entry was decoded.
LEMMA CfiInvInit == ASSUME CfiInit PROVE CfiInv
<1>1. /\ heap = << >> /\ saved = << >> /\ table = << >> /\ busy = << >> /\ todo = NotBegun
      /\ decoded = [n \in DOMAIN frames |-> << >>] /\ orders = decoded
  BY DEF CfiInit
<1>2. IsSequence(<< >>) /\ Len(<< >>) = 0
  BY DEF IsSequence
<1>3. LinesAre /\ StackAndTable
  BY <1>1, <1>2 DEF LinesAre, StackAndTable
<1>4. TablesDone
  BY <1>1, <1>2 DEF TablesDone, Decoded
<1>5. QED
  BY <1>1, <1>3, <1>4, FramesReadInit DEF CfiInv, BusyIs, RunIs, Decoding

\* Where nothing is being decoded, the entries decide.
LEMMA IdleInv ==
  ASSUME CfiInv, FramesRead', frames' = frames, UNCHANGED << heap, decoded, orders, cur, base, saved, table, order >>,
         BusyIs', todo' = NotBegun
  PROVE  CfiInv' /\ LinesKept
<1>1. LinesAre' /\ StackAndTable'
  BY DecodeStays DEF CfiInv
<1>5. LinesKept
  BY DecodeStays DEF LinesKept
<1>2. TablesDone'
  <2>1. TablesDone /\ Len(heap) \in Nat /\ Len(heap') \in Nat /\ Len(heap) <= Len(heap')
    BY DEF CfiInv, LinesAre, IsSequence
  <2>2. QED
    BY <2>1, TablesStay
<1>3. RunIs'
  BY DEF RunIs, Decoding
<1>4. QED
  BY <1>1, <1>2, <1>3, <1>5 DEF CfiInv

\* A step of CallFrameInfo: nothing is being decoded.
LEMMA EntryStep == ASSUME CfiInv, CfiStep PROVE CfiInv' /\ LinesKept
<1>1. cfiPc = "read" /\ frames' = frames /\ UNCHANGED decodeVars
  BY DEF CfiStep, ReadCached, ReadEntry, ReadRaises, ReadAll, readVars
<1>2. UNCHANGED << heap, decoded, orders, busy, todo, cur, base, saved, table, order >>
  BY <1>1 DEF decodeVars
<1>3. busy = << >> /\ todo = NotBegun
  BY <1>1 DEF CfiInv, BusyIs
<1>4. BusyIs' /\ todo' = NotBegun
  BY <1>2, <1>3 DEF BusyIs
<1>5. FramesRead'
  <2>1. FramesRead
    BY DEF CfiInv
  <2>2. CASE ReadCached
    BY <2>1, <2>2, CachedRead
  <2>3. CASE ReadEntry
    BY <2>1, <2>3, NewRead
  <2>4. CASE ReadRaises \/ ReadAll
    <3>1. UNCHANGED << frames, framePos, at, known, got >> /\ cfiPc' \in {"read", "decode", "raised"}
      BY <2>4 DEF ReadRaises, ReadAll, readVars
    <3>2. QED
      BY <2>1, <3>1, ReadStays
  <2>5. QED
    BY <2>2, <2>3, <2>4 DEF CfiStep
<1>6. QED
  BY <1>1, <1>2, <1>4, <1>5, IdleInv

\* The table of an entry is asked for.
LEMMA AskStep == ASSUME CfiInv, NEW n \in DOMAIN frames, GetDecoded(n) PROVE CfiInv' /\ LinesKept
<1>1. /\ cfiPc = "decode" /\ busy = << >> /\ n \in ToSet(got) /\ decoded[n] = << >>
      /\ busy' = IF IsFDE(n) /\ decoded[frames[n].of] = << >> THEN << frames[n].of, n >> ELSE << n >>
      /\ UNCHANGED readVars /\ cfiPc' = cfiPc
      /\ UNCHANGED << heap, decoded, orders, todo, cur, base, saved, table, order >>
  BY DEF GetDecoded
<1>2. UNCHANGED << frames, framePos, at, known, got >> /\ frames' = frames
  BY <1>1 DEF readVars
<1>3. FramesRead /\ BusyIs
  BY DEF CfiInv
<1>4. FramesRead'
  BY <1>1, <1>2, <1>3, ReadStays
<1>5. todo' = NotBegun
  BY <1>1, <1>3 DEF BusyIs, OneIs, TwoAre
<1>6. Readable(n) /\ Pending(n)
  <2>1. got \in Seq(known)
    BY <1>3 DEF FramesRead
  <2>2. n \in known
    BY <1>1, <2>1 DEF ToSet
  <2>3. QED
    BY <1>1, <1>3, <2>2 DEF FramesRead, Pending, Decoded
<1>7. \A m : (Ready(m)' <=> Ready(m)) /\ (Pending(m)' <=> Pending(m))
  BY <1>1, <1>2, DecodeStays
<1>8. BusyIs'
  <2>1. CASE IsFDE(n) /\ decoded[frames[n].of] = << >>
    <3>1. PICK m : m = frames[n].of
      OBVIOUS
    <3>2. m \in DOMAIN frames /\ Readable(m) /\ ~IsFDE(m)
      BY <1>3, <1>6, <2>1, <3>1, CieIs
    <3>3. Ready(m)
      BY <2>1, <3>1, <3>2 DEF Ready, Pending, Decoded
    <3>4. TwoAre(busy, m, n)'
      BY <1>1, <1>2, <1>6, <1>7, <2>1, <3>1, <3>3 DEF TwoAre
    <3>5. QED
      BY <1>1, <1>2, <3>2, <3>4 DEF BusyIs
  <2>2. CASE ~(IsFDE(n) /\ decoded[frames[n].of] = << >>)
    <3>1. Ready(n)
      BY <1>6, <2>2 DEF Ready, Decoded
    <3>2. OneIs(busy, n)'
      BY <1>1, <1>7, <2>2, <3>1 DEF OneIs
    <3>3. QED
      BY <1>1, <1>2, <3>2 DEF BusyIs
  <2>3. QED
    BY <2>1, <2>2
<1>9. QED
  BY <1>1, <1>2, <1>4, <1>5, <1>8, IdleInv

\* Nothing happens.
LEMMA CfiStutter == ASSUME CfiInv, UNCHANGED cfiVars PROVE CfiInv'
<1>1. /\ UNCHANGED << frames, framePos, at, known, got >> /\ cfiPc' = cfiPc /\ frames' = frames
      /\ UNCHANGED << heap, decoded, orders, cur, base, saved, table, order >> /\ UNCHANGED << busy, todo >>
  BY DEF cfiVars, readVars, decodeVars
<1>2. /\ LinesAre' <=> LinesAre
      /\ StackAndTable' <=> StackAndTable
      /\ LinesApart' <=> LinesApart
      /\ \A n : (Ready(n)' <=> Ready(n)) /\ (Pending(n)' <=> Pending(n))
      /\ \A n, i : Meant(n, i)' <=> Meant(n, i)
  BY <1>1, DecodeStays
<1>3. FramesRead'
  BY <1>1, ReadStays DEF CfiInv, FramesRead
<1>4. TablesDone'
  <2>1. TablesDone /\ Len(heap) \in Nat /\ Len(heap') \in Nat /\ Len(heap) <= Len(heap')
    BY <1>1 DEF CfiInv, LinesAre, IsSequence
  <2>2. QED
    BY <1>1, <2>1, TablesStay
<1>5. BusyIs'
  <2>1. ASSUME NEW m, NEW n PROVE (OneIs(busy, n)' <=> OneIs(busy, n)) /\ (TwoAre(busy, m, n)' <=> TwoAre(busy, m, n))
    BY <1>1, <1>2 DEF OneIs, TwoAre
  <2>2. QED
    BY <1>1, <2>1 DEF CfiInv, BusyIs
<1>6. RunIs'
  <2>1. ASSUME NEW n PROVE Follows(n)' <=> Follows(n)
    BY <1>1, <1>2 DEF Follows
  <2>2. Decoding' <=> Decoding
    BY <1>1 DEF Decoding
  <2>3. RunIs
    BY DEF CfiInv
  <2>4. QED
    BY <1>1, <1>2, <2>1, <2>2, <2>3 DEF RunIs
<1>7. QED
  BY <1>2, <1>3, <1>4, <1>5, <1>6 DEF CfiInv

\* The entry being decoded.
LEMMA HeadIs ==
  ASSUME CfiInv, busy # << >>
  PROVE  /\ cfiPc = "decode" /\ Head(busy) \in DOMAIN frames /\ Ready(Head(busy)) /\ Readable(Head(busy))
         /\ SectionIs(frames) /\ frames[Head(busy)].code \in Seq(CodesOf(frames))
<1>1. SectionIs(frames)
  BY FramesAre DEF CfiInv, FramesRead
<1>2. cfiPc = "decode" /\ Head(busy) \in DOMAIN frames /\ Ready(Head(busy))
  BY DEF CfiInv, BusyIs, OneIs, TwoAre
<1>3. Readable(Head(busy))
  BY <1>2 DEF Ready, Pending
<1>4. QED
  BY <1>1, <1>2, <1>3 DEF SectionIs

\* BusyIs does not depend on the lines.
LEMMA BusyStays ==
  ASSUME CfiInv, busy # << >>, frames' = frames, decoded' = decoded, busy' = busy, cfiPc' = cfiPc
  PROVE  BusyIs'
<1>1. \A n : (Ready(n)' <=> Ready(n)) /\ (Pending(n)' <=> Pending(n))
  <2>1. ASSUME NEW n PROVE Pending(n)' <=> Pending(n)
    BY SameSection DEF Pending, Decoded
  <2>2. ASSUME NEW n PROVE Ready(n)' <=> Ready(n)
    BY <2>1, SameSection DEF Ready, Decoded
  <2>3. QED
    BY <2>1, <2>2
<1>2. ASSUME NEW m, NEW n PROVE (OneIs(busy, n)' <=> OneIs(busy, n)) /\ (TwoAre(busy, m, n)' <=> TwoAre(busy, m, n))
  BY <1>1 DEF OneIs, TwoAre
<1>3. QED
  BY <1>2 DEF CfiInv, BusyIs

\* A line with another value for a key that it has.
LEMMA PutIs ==
  ASSUME NEW l, NEW k \in DOMAIN l, NEW v
  PROVE  /\ Put(l, k, v) = [l EXCEPT ![k] = v] /\ DOMAIN Put(l, k, v) = DOMAIN l
BY DEF Put

\* No register has a rule in the first line of a CIE.
LEMMA EmptyOrder == OrderOf(<< >>, FreshLine) /\ IsLine(FreshLine)
<1>1. DOMAIN FreshLine = {"pc", "cfa"}
  BY DEF FreshLine
<1>2. IsSequence(<< >>) /\ IsInjective(<< >>) /\ ToSet(<< >>) = {}
  BY DEF IsSequence, IsInjective, ToSet
<1>3. QED
  BY <1>1, <1>2 DEF OrderOf, IsLine, Regs

\* The line that an entry begins with is new.
LEMMA BeginLine ==
  ASSUME CfiInv, Begin
  PROVE  \E e : /\ IsLine(e) /\ OrderOf(order', e) /\ e = FirstLine(Head(busy))
                /\ heap' = Append(heap, e) /\ cur' = Len(heap) + 1
<1>1. PICK n : n = Head(busy)
  OBVIOUS
<1>2. /\ busy # << >>
      /\ IF IsFDE(n) THEN CopyLast(Last(decoded[frames[n].of])) ELSE heap' = Append(heap, FreshLine) /\ cur' = Len(heap) + 1
      /\ order' = IF IsFDE(n) THEN orders[frames[n].of] ELSE << >>
  BY <1>1 DEF Begin
<1>3. n \in DOMAIN frames /\ Ready(n) /\ Readable(n)
  BY <1>1, <1>2, HeadIs
<1>4. CASE ~IsFDE(n)
  <2>1. FirstLine(n) = FreshLine
    BY <1>4 DEF FirstLine
  <2>2. QED
    BY <1>1, <1>2, <1>4, <2>1, EmptyOrder
<1>5. CASE IsFDE(n)
  <2>1. PICK m, l, e : m = frames[n].of /\ l = Last(decoded[m]) /\ e = [heap[l] EXCEPT !["pc"] = 10]
    OBVIOUS
  <2>2. heap' = Append(heap, e) /\ cur' = Len(heap) + 1 /\ order' = orders[m]
    BY <1>2, <1>5, <2>1 DEF CopyLast
  <2>3. m \in DOMAIN frames /\ ~IsFDE(m) /\ Decoded(m)
    BY <1>3, <1>5, <2>1, CieIs DEF CfiInv, Ready
  <2>4. IsSequence(decoded[m]) /\ TableDone(m)
    BY <2>3 DEF CfiInv, TablesDone
  <2>5. Len(decoded[m]) \in 1 .. Len(decoded[m]) /\ l = decoded[m][Len(decoded[m])]
    <3>1. Len(decoded[m]) \in Nat /\ Len(decoded[m]) # 0
      BY <2>4 DEF TableDone, IsSequence
    <3>2. Len(decoded[m]) \in 1 .. Len(decoded[m])
      BY <3>1
    <3>3. QED
      BY <2>1, <3>2 DEF Last
  <2>6. l \in 1 .. Len(heap) /\ IsLine(heap[l])
    BY <2>4, <2>5 DEF TableDone, CfiInv, LinesAre
  <2>7. DOMAIN e = DOMAIN heap[l] /\ e = Put(heap[l], "pc", 10)
    BY <2>1, <2>6, PutIs DEF IsLine
  <2>8. IsLine(e) /\ OrderOf(order', e)
    BY <2>1, <2>2, <2>4, <2>6, <2>7 DEF IsLine, TableDone, OrderOf, Regs
  <2>9. e = FirstLine(n)
    <3>2. LinesOf(m) = CfiMeaning(frames[m].code, FreshLine)
      BY <2>3, <2>4 DEF TableDone, Means
    <3>3. Last(LinesOf(m)) = heap[l]
      <4>1. PICK k \in Nat : k = Len(decoded[m]) /\ DOMAIN decoded[m] = 1 .. k /\ k \in 1 .. k
        BY <2>4, <2>5 DEF IsSequence
      <4>2. LinesOf(m) = [i \in 1 .. k |-> heap[decoded[m][i]]]
        BY <4>1 DEF LinesOf
      <4>3. Len(LinesOf(m)) = k
        BY <4>1, <4>2, LenProperties, IsASeq
      <4>4. QED
        BY <2>5, <4>1, <4>2, <4>3 DEF Last
    <3>4. QED
      BY <1>5, <2>1, <2>7, <3>2, <3>3 DEF FirstLine
  <2>10. QED
    BY <1>1, <2>2, <2>8, <2>9
<1>6. QED
  BY <1>4, <1>5

\* The instructions of an entry are begun, those of its CIE first.
LEMMA BeginStep == ASSUME CfiInv, Begin PROVE CfiInv' /\ LinesKept
<1>1. PICK n : n = Head(busy)
  OBVIOUS
<1>2. /\ busy # << >> /\ todo' = frames[n].code /\ base' = cur' /\ saved' = << >> /\ table' = << >>
      /\ UNCHANGED << frames, framePos, at, known, got >> /\ frames' = frames
      /\ cfiPc' = cfiPc /\ decoded' = decoded /\ orders' = orders /\ busy' = busy
  BY <1>1 DEF Begin, readVars
<1>3. n \in DOMAIN frames /\ SectionIs(frames) /\ frames[n].code \in Seq(CodesOf(frames))
  BY <1>1, <1>2, HeadIs
<1>4. PICK e : /\ IsLine(e) /\ OrderOf(order', e) /\ e = FirstLine(n)
               /\ heap' = Append(heap, e) /\ cur' = Len(heap) + 1
  BY <1>1, BeginLine
<1>5. LinesAre /\ IsSequence(heap) /\ Len(heap) \in Nat
  BY DEF CfiInv, LinesAre, IsSequence
<1>6. Goes(heap, e, heap')
  BY <1>4, <1>5, AppendAny
<1>7. /\ IsSequence(heap') /\ Len(heap') = Len(heap) + 1 /\ heap'[Len(heap) + 1] = e
      /\ \A l \in 1 .. Len(heap) : heap'[l] = heap[l]
  BY <1>6 DEF Goes
<1>8. LinesAre'
  <2>1. ASSUME NEW l \in 1 .. Len(heap) + 1 PROVE IsLine(heap'[l])
    <3>1. CASE l = Len(heap) + 1
      BY <1>4, <1>7, <3>1
    <3>2. CASE l # Len(heap) + 1
      <4>1. l \in 1 .. Len(heap)
        BY <1>5, <3>2
      <4>2. QED
        BY <1>5, <1>7, <4>1 DEF LinesAre
    <3>3. QED
      BY <3>1, <3>2
  <2>2. QED
    BY <1>7, <2>1 DEF LinesAre
<1>9. IsSequence(<< >>) /\ Len(<< >>) = 0
  BY DEF IsSequence
<1>10. StackAndTable'
  BY <1>2, <1>9 DEF StackAndTable
<1>11. \A k \in DOMAIN frames : \A i \in 1 .. Len(decoded[k]) : decoded[k][i] \in 1 .. Len(heap)
  <2>1. ASSUME NEW k \in DOMAIN frames, NEW i \in 1 .. Len(decoded[k]) PROVE decoded[k][i] \in 1 .. Len(heap)
    <3>1. CASE Decoded(k)
      BY <3>1 DEF CfiInv, TablesDone, TableDone
    <3>2. CASE ~Decoded(k)
      BY <1>9, <3>2 DEF Decoded
    <3>3. QED
      BY <3>1, <3>2
  <2>2. QED
    BY <2>1
<1>12. TablesDone' /\ LinesKept
  <2>1. \A k \in DOMAIN frames : \A i \in 1 .. Len(decoded[k]) : heap'[decoded[k][i]] = heap[decoded[k][i]]
    BY <1>7, <1>11
  <2>2. TablesDone /\ Len(heap') \in Nat /\ Len(heap) <= Len(heap')
    BY <1>5, <1>7 DEF CfiInv
  <2>3. QED
    BY <1>2, <1>5, <2>1, <2>2, TablesStay DEF LinesKept
<1>13. LinesApart'
  <2>1. cur' \in 1 .. Len(heap') /\ heap'[cur'] = e
    BY <1>4, <1>5, <1>7
  <2>2. \A k \in DOMAIN frames : \A i \in 1 .. Len(decoded[k]) : decoded[k][i] # cur'
    BY <1>4, <1>5, <1>11
  <2>3. QED
    BY <1>2, <1>4, <1>9, <2>1, <2>2 DEF LinesApart
<1>14. Follows(n)'
  <2>1. Behind(frames[n].code, 0, todo')
    <3>1. Len(frames[n].code) \in Nat /\ SubSeq(frames[n].code, 1, Len(frames[n].code)) = frames[n].code
      BY <1>3
    <3>2. QED
      BY <1>2, <3>1 DEF Behind
  <2>2. Meant(n, 0)'
    <3>1. StateAfter(frames[n].code, FirstLine(n))[0] = NoEffect(FirstLine(n))
      BY <1>3, MeaningIs
    <3>2. Out' = << >>
      <4>1. Out' = [j \in 1 .. 0 |-> heap'[table'[j]]]
        BY <1>2, <1>9 DEF Out
      <4>2. QED
        BY <4>1
    <3>3. heap'[cur'] = FirstLine(n)
      BY <1>4, <1>7
    <3>4. StateAfter(frames[n].code, FirstLine(n))[0] = [line |-> heap'[cur'], out |-> Out']
      BY <3>1, <3>2, <3>3 DEF NoEffect
    <3>5. FirstLine(n)' = FirstLine(n)
      BY <1>2, SameSection
    <3>6. QED
      BY <1>2, <3>4, <3>5 DEF Meant
  <2>3. QED
    BY <1>2, <2>1, <2>2 DEF Follows
<1>15. BusyIs'
  BY <1>2, BusyStays
<1>16. FramesRead'
  BY <1>2, ReadStays DEF CfiInv, FramesRead
<1>17. QED
  BY <1>1, <1>2, <1>8, <1>10, <1>12, <1>13, <1>14, <1>15, <1>16 DEF CfiInv, RunIs

\* The first of the instructions that are left, and the others.
LEMMA BehindNext ==
  ASSUME NEW S, NEW code \in Seq(S), NEW i \in Nat, NEW rest, Behind(code, i, rest), rest # << >>
  PROVE  /\ i + 1 \in 1 .. Len(code) /\ Head(rest) = code[i + 1]
         /\ Behind(code, i + 1, Tail(rest))
<1>1. rest = SubSeq(code, i + 1, Len(code)) /\ i <= Len(code) /\ Len(code) \in Nat
  BY DEF Behind
<1>2. i # Len(code)
  BY <1>1
<1>3. i + 1 \in 1 .. Len(code)
  BY <1>1, <1>2
<1>4. /\ rest \in Seq(S) /\ Len(rest) = Len(code) - i
      /\ \A j \in 1 .. Len(code) - i : rest[j] = code[i + j]
  BY <1>1, <1>3
<1>5. Head(rest) = code[i + 1]
  BY <1>3, <1>4
<1>6. PICK t : t = SubSeq(code, i + 2, Len(code))
  OBVIOUS
<1>7. t \in Seq(S) /\ Len(t) = Len(code) - (i + 1) /\ \A j \in 1 .. Len(code) - (i + 1) : t[j] = code[(i + 1) + j]
  BY <1>3, <1>6
<1>8. /\ Tail(rest) \in Seq(S) /\ Len(Tail(rest)) = Len(code) - (i + 1)
      /\ \A j \in 1 .. Len(code) - (i + 1) : Tail(rest)[j] = rest[j + 1]
  BY <1>3, <1>4
<1>9. ASSUME NEW j \in 1 .. Len(t) PROVE t[j] = Tail(rest)[j]
  <2>1. j \in 1 .. Len(code) - (i + 1) /\ j + 1 \in 1 .. Len(code) - i
    BY <1>3, <1>7
  <2>2. t[j] = code[(i + 1) + j] /\ Tail(rest)[j] = rest[j + 1] /\ rest[j + 1] = code[i + (j + 1)]
    BY <1>4, <1>7, <1>8, <2>1
  <2>3. (i + 1) + j = i + (j + 1)
    BY <2>1
  <2>4. QED
    BY <2>2, <2>3
<1>10. t = Tail(rest)
  BY <1>7, <1>8, <1>9, SeqEqual
<1>11. QED
  BY <1>3, <1>5, <1>6, <1>10 DEF Behind

\* The instruction that is next.
NextIs(n, i, c) ==
  /\ n = Head(busy) /\ n \in DOMAIN frames /\ i \in Nat /\ i + 1 \in 1 .. Len(frames[n].code)
  /\ c = Head(todo) /\ c = frames[n].code[i + 1] /\ c \in CodesOf(frames)
  /\ Behind(frames[n].code, i + 1, Tail(todo))
  /\ Meant(n, i)
  /\ \A S : EffectsTo(S, frames[n].code, FirstLine(n), Len(frames[n].code)) => S[i + 1] = CfiEffect(c, S[i])

\* What is to be done is an instruction of the entry being decoded.
LEMMA NextToDo ==
  ASSUME CfiInv, NEW op, Doing(op)
  PROVE  /\ LinesApart /\ Decoding /\ Head(todo)[1] = op
         /\ \E n, i, c : NextIs(n, i, c)
<1>1. busy # << >> /\ todo # NotBegun /\ todo # << >> /\ Head(todo)[1] = op
  BY DEF Doing
<1>2. PICK n : n = Head(busy)
  OBVIOUS
<1>3. n \in DOMAIN frames /\ SectionIs(frames) /\ frames[n].code \in Seq(CodesOf(frames))
  BY <1>1, <1>2, HeadIs
<1>4. LinesApart /\ Decoding /\ Follows(n)
  BY <1>1, <1>2 DEF CfiInv, RunIs, Decoding
<1>5. PICK i \in Nat : Behind(frames[n].code, i, todo) /\ Meant(n, i)
  BY <1>4 DEF Follows
<1>6. PICK c : c = Head(todo)
  OBVIOUS
<1>7. i + 1 \in 1 .. Len(frames[n].code) /\ c = frames[n].code[i + 1] /\ Behind(frames[n].code, i + 1, Tail(todo))
  BY <1>1, <1>3, <1>5, <1>6, BehindNext
<1>8. c \in CodesOf(frames)
  BY <1>3, <1>7
<1>10. ASSUME NEW S, EffectsTo(S, frames[n].code, FirstLine(n), Len(frames[n].code))
       PROVE  S[i + 1] = CfiEffect(c, S[i])
  <2>1. i + 1 \in 0 .. Len(frames[n].code) /\ i + 1 # 0 /\ (i + 1) - 1 = i
    BY <1>7
  <2>2. S[i + 1] = CfiEffect(frames[n].code[i + 1], S[(i + 1) - 1])
    BY <1>10, <2>1, EffectsAt
  <2>3. QED
    BY <1>7, <2>1, <2>2
<1>11. NextIs(n, i, c)
  BY <1>2, <1>3, <1>5, <1>6, <1>7, <1>8, <1>10 DEF NextIs
<1>12. QED
  BY <1>1, <1>4, <1>11

\* What an instruction leaves: other lines than the current one stay, and the
\* lines of the table stay apart from it.
Leaves ==
  /\ UNCHANGED << frames, framePos, at, known, got >> /\ cfiPc' = cfiPc
  /\ decoded' = decoded /\ orders' = orders /\ busy' = busy /\ base' = base /\ cur' = cur
  /\ todo' = Tail(todo)
  /\ IsSequence(heap') /\ Len(heap) <= Len(heap')
  /\ \A l \in 1 .. Len(heap) : l # cur => heap'[l] = heap[l]
  /\ \A l \in 1 .. Len(heap') : IsLine(heap'[l])
  /\ IsSequence(saved') /\ \A i \in 1 .. Len(saved') : saved'[i] = cur
  /\ IsSequence(table')
  /\ \A i \in 1 .. Len(table') :
       table'[i] \in 1 .. Len(heap') /\ table'[i] # cur /\ Regs(heap'[table'[i]]) \subseteq Regs(heap'[cur])
  /\ OrderOf(order', heap'[cur])

\* An instruction that leaves the other lines alone keeps the invariant.
LEMMA InstructionStep ==
  ASSUME CfiInv, LinesApart, Decoding, NEW n, NEW i, NEW c, NextIs(n, i, c), Leaves,
         Meant(n, i + 1)'
  PROVE  CfiInv' /\ LinesKept
<1>1. /\ UNCHANGED << frames, framePos, at, known, got >> /\ cfiPc' = cfiPc /\ frames' = frames
      /\ decoded' = decoded /\ orders' = orders /\ busy' = busy /\ base' = base /\ cur' = cur /\ todo' = Tail(todo)
      /\ IsSequence(heap') /\ Len(heap) <= Len(heap') /\ Len(heap') \in Nat
  BY DEF Leaves, IsSequence
<1>2. cur \in 1 .. Len(heap) /\ base = cur /\ Len(heap) \in Nat
  BY DEF CfiInv, LinesAre, IsSequence, LinesApart
<1>3. cur \in 1 .. Len(heap')
  BY <1>1, <1>2
<1>4. LinesAre'
  BY <1>1 DEF Leaves, LinesAre
<1>5. StackAndTable'
  BY <1>1, <1>3 DEF Leaves, StackAndTable
<1>6. TablesDone' /\ LinesKept
  <2>1. ASSUME NEW k \in DOMAIN frames, NEW j \in 1 .. Len(decoded[k]) PROVE heap'[decoded[k][j]] = heap[decoded[k][j]]
    <3>1. decoded[k][j] # cur
      BY <2>1 DEF LinesApart
    <3>2. decoded[k][j] \in 1 .. Len(heap)
      <4>1. CASE Decoded(k)
        BY <2>1, <4>1 DEF CfiInv, TablesDone, TableDone
      <4>2. CASE ~Decoded(k)
        BY <2>1, <4>2 DEF Decoded
      <4>3. QED
        BY <4>1, <4>2
    <3>3. QED
      BY <3>1, <3>2 DEF Leaves
  <2>2. TablesDone
    BY DEF CfiInv
  <2>3. QED
    BY <1>1, <1>2, <2>1, <2>2, TablesStay DEF LinesKept
<1>7. LinesApart'
  <2>1. \A k \in DOMAIN frames : \A j \in 1 .. Len(decoded[k]) : decoded[k][j] # cur
    BY DEF LinesApart
  <2>2. /\ \A j \in 1 .. Len(saved') : saved'[j] = cur
        /\ \A j \in 1 .. Len(table') : table'[j] # cur /\ Regs(heap'[table'[j]]) \subseteq Regs(heap'[cur])
        /\ OrderOf(order', heap'[cur])
    BY DEF Leaves
  <2>3. QED
    BY <1>1, <1>2, <1>3, <2>1, <2>2 DEF LinesApart
<1>8. Follows(n)'
  <2>1. Behind(frames[n].code, i + 1, todo') /\ i + 1 \in Nat
    BY <1>1 DEF NextIs
  <2>2. QED
    BY <1>1, <2>1 DEF Follows
<1>9. BusyIs' /\ n = Head(busy')
  BY <1>1, BusyStays DEF Decoding, NextIs
<1>10. FramesRead'
  BY <1>1, ReadStays DEF CfiInv, FramesRead
<1>11. QED
  BY <1>4, <1>5, <1>6, <1>7, <1>8, <1>9, <1>10 DEF CfiInv, RunIs

\* What the next instruction means, from the state before.
LEMMA MeansNext ==
  ASSUME NEW n, NEW i, NEW c, NextIs(n, i, c), SectionIs(frames)
  PROVE  StateAfter(frames[n].code, FirstLine(n))[i + 1] = CfiEffect(c, [line |-> heap[cur], out |-> Out])
<1>1. Len(frames[n].code) \in Nat
  BY DEF NextIs, SectionIs
<1>2. PICK S : S = StateAfter(frames[n].code, FirstLine(n))
  OBVIOUS
<1>3. EffectsTo(S, frames[n].code, FirstLine(n), Len(frames[n].code))
  BY <1>1, <1>2, EffectsExist DEF StateAfter
<1>4. S[i + 1] = CfiEffect(c, S[i])
  BY <1>3 DEF NextIs
<1>5. Meant(n, i)
  BY DEF NextIs
<1>6. S[i] = [line |-> heap[cur], out |-> Out]
  BY <1>2, <1>5 DEF Meant
<1>7. QED
  BY <1>2, <1>4, <1>6

\* The order of the registers, with the one that gets a rule.
LEMMA OrderAdds ==
  ASSUME NEW o, NEW l, OrderOf(o, l), NEW k, NEW v, k \notin {"pc", "cfa"},
         NEW r, r = IF k \in DOMAIN l THEN o ELSE Append(o, k)
  PROVE  OrderOf(r, Put(l, k, v))
<1>1. DOMAIN Put(l, k, v) = DOMAIN l \cup {k} /\ Regs(Put(l, k, v)) = Regs(l) \cup {k}
  BY DEF Put, Regs
<1>2. CASE k \in DOMAIN l
  <2>1. Regs(Put(l, k, v)) = Regs(l)
    BY <1>1, <1>2 DEF Regs
  <2>2. QED
    BY <1>2, <2>1 DEF OrderOf
<1>3. CASE k \notin DOMAIN l
  <2>1. IsSequence(o) /\ IsInjective(o) /\ ToSet(o) = Regs(l) /\ r = Append(o, k)
    BY <1>3 DEF OrderOf
  <2>2. Goes(o, k, r)
    BY <2>1, AppendAny
  <2>3. PICK j \in Nat : j = Len(o)
    BY <2>1 DEF IsSequence
  <2>4. /\ IsSequence(r) /\ DOMAIN r = 1 .. j + 1 /\ DOMAIN o = 1 .. j /\ r[j + 1] = k
        /\ \A i \in 1 .. j : r[i] = o[i]
    BY <2>2, <2>3 DEF Goes
  <2>5. \A i \in 1 .. j : o[i] \in Regs(l)
    BY <2>1, <2>4 DEF ToSet
  <2>6. k \notin Regs(l)
    BY <1>3 DEF Regs
  <2>7. ToSet(r) = Regs(l) \cup {k}
    <3>1. ASSUME NEW x \in Regs(l) PROVE \E i \in 1 .. j + 1 : r[i] = x
      <4>1. PICK i \in 1 .. j : o[i] = x
        BY <2>1, <2>4 DEF ToSet
      <4>2. i \in 1 .. j + 1 /\ r[i] = x
        BY <2>4, <4>1
      <4>3. QED
        BY <4>2
    <3>2. j + 1 \in 1 .. j + 1
      OBVIOUS
    <3>3. ASSUME NEW i \in 1 .. j + 1 PROVE r[i] \in Regs(l) \cup {k}
      <4>1. i \in 1 .. j \/ i = j + 1
        OBVIOUS
      <4>2. QED
        BY <2>4, <2>5, <4>1
    <3>4. ToSet(r) = {r[i] : i \in 1 .. j + 1} /\ r[j + 1] = k
      BY <2>4 DEF ToSet
    <3>5. ToSet(r) \subseteq Regs(l) \cup {k}
      BY <3>3, <3>4
    <3>6. ASSUME NEW x \in Regs(l) \cup {k} PROVE x \in ToSet(r)
      <4>1. \E i \in 1 .. j + 1 : r[i] = x
        BY <3>1, <3>2, <3>4
      <4>2. QED
        BY <3>4, <4>1
    <3>7. QED
      BY <3>5, <3>6
  <2>8. IsInjective(r)
    <3>1. SUFFICES ASSUME NEW a \in 1 .. j + 1, NEW b \in 1 .. j + 1, r[a] = r[b] PROVE a = b
      BY <2>4 DEF IsInjective
    <3>2. (a \in 1 .. j \/ a = j + 1) /\ (b \in 1 .. j \/ b = j + 1)
      OBVIOUS
    <3>3. CASE a \in 1 .. j /\ b \in 1 .. j
      BY <2>1, <2>4, <3>1, <3>3 DEF IsInjective
    <3>4. CASE a \in 1 .. j /\ b = j + 1
      BY <2>4, <2>5, <2>6, <3>1, <3>4
    <3>5. CASE a = j + 1 /\ b \in 1 .. j
      BY <2>4, <2>5, <2>6, <3>1, <3>5
    <3>6. QED
      BY <3>2, <3>3, <3>4, <3>5
  <2>9. QED
    BY <1>1, <2>4, <2>7, <2>8 DEF OrderOf
<1>4. QED
  BY <1>2, <1>3

\* What the instructions leave alone.
Others ==
  /\ UNCHANGED << frames, framePos, at, known, got >> /\ cfiPc' = cfiPc
  /\ decoded' = decoded /\ orders' = orders /\ busy' = busy /\ base' = base /\ todo' = Tail(todo)

\* What an instruction does to the rest of the state.
LEMMA DoneLeaves == ASSUME Done PROVE Others
BY DEF Done, Others, readVars

\* The current line and the others.
LEMMA CurrentIs ==
  ASSUME CfiInv, LinesApart
  PROVE  /\ IsSequence(heap) /\ Len(heap) \in Nat /\ DOMAIN heap = 1 .. Len(heap) /\ cur \in 1 .. Len(heap) /\ base = cur
         /\ \A l \in 1 .. Len(heap) : IsLine(heap[l])
         /\ IsSequence(saved) /\ (\A i \in 1 .. Len(saved) : saved[i] = cur)
         /\ IsSequence(table)
         /\ \A i \in 1 .. Len(table) :
              table[i] \in 1 .. Len(heap) /\ table[i] # cur /\ Regs(heap[table[i]]) \subseteq Regs(heap[cur])
         /\ OrderOf(order, heap[cur])
BY DEF CfiInv, LinesAre, StackAndTable, LinesApart, IsSequence

\* A rule of the current line is set.
LEMMA RuleSet ==
  ASSUME CfiInv, LinesApart, Others, NEW k, NEW v, SetRule(k, v), UNCHANGED << cur, saved, table >>,
         OrderOf(order', Put(heap[cur], k, v))
  PROVE  /\ Leaves /\ heap'[cur] = Put(heap[cur], k, v) /\ Out' = Out
<1>1. PICK h, p : h = heap /\ p = Put(heap[cur], k, v)
  OBVIOUS
<1>2. heap' = [h EXCEPT ![cur] = p]
  BY <1>1 DEF SetRule, Put
<1>3. /\ IsSequence(h) /\ Len(h) \in Nat /\ DOMAIN h = 1 .. Len(h) /\ cur \in 1 .. Len(h)
      /\ \A l \in 1 .. Len(h) : IsLine(h[l])
      /\ IsSequence(saved) /\ (\A i \in 1 .. Len(saved) : saved[i] = cur)
      /\ IsSequence(table)
      /\ \A i \in 1 .. Len(table) :
           table[i] \in 1 .. Len(h) /\ table[i] # cur /\ Regs(h[table[i]]) \subseteq Regs(h[cur])
  BY <1>1, CurrentIs
<1>4. /\ heap'[cur] = p /\ \A l \in 1 .. Len(h) : l # cur => heap'[l] = h[l]
  BY <1>2, <1>3
<1>5. IsSequence(heap') /\ Len(heap') = Len(h)
  <2>1. heap' = [l \in 1 .. Len(h) |-> heap'[l]]
    BY <1>2, <1>3
  <2>2. Len(heap') = Len(h)
    BY <1>3, <2>1, LenProperties, IsASeq
  <2>3. QED
    BY <1>3, <2>1, <2>2 DEF IsSequence
<1>6. IsLine(p) /\ Regs(h[cur]) \subseteq Regs(p)
  <2>1. DOMAIN p = DOMAIN h[cur] \cup {k}
    BY <1>1 DEF Put
  <2>2. QED
    BY <1>3, <2>1 DEF IsLine, Regs
<1>7. \A l \in 1 .. Len(h) : IsLine(heap'[l])
  BY <1>3, <1>4, <1>6
<1>8. \A i \in 1 .. Len(table) :
        table[i] \in 1 .. Len(h) /\ table[i] # cur /\ Regs(heap'[table[i]]) \subseteq Regs(heap'[cur])
  BY <1>3, <1>4, <1>6
<1>9. Leaves
  BY <1>1, <1>3, <1>4, <1>5, <1>7, <1>8 DEF Leaves, Others
<1>10. Out' = Out
  <2>1. \A j \in 1 .. Len(table) : heap'[table[j]] = heap[table[j]]
    BY <1>1, <1>3, <1>4
  <2>2. QED
    BY <2>1 DEF Out
<1>11. QED
  BY <1>1, <1>4, <1>9, <1>10

\* An instruction that means what it does.
LEMMA RuleStep ==
  ASSUME CfiInv, LinesApart, Decoding, Others, NEW n, NEW i, NEW c, NextIs(n, i, c),
         NEW k, NEW v, SetRule(k, v), UNCHANGED << cur, saved, table >>,
         OrderOf(order', Put(heap[cur], k, v)),
         CfiEffect(c, [line |-> heap[cur], out |-> Out]) = [line |-> Put(heap[cur], k, v), out |-> Out]
  PROVE  CfiInv' /\ LinesKept
<1>1. Leaves /\ heap'[cur] = Put(heap[cur], k, v) /\ Out' = Out /\ cur' = cur /\ frames' = frames
  BY RuleSet DEF Others
<1>2. Meant(n, i + 1)'
  <2>1. SectionIs(frames)
    BY FramesAre DEF CfiInv, FramesRead
  <2>2. StateAfter(frames[n].code, FirstLine(n))[i + 1] = CfiEffect(c, [line |-> heap[cur], out |-> Out])
    BY ONLY NextIs(n, i, c), <2>1, MeansNext
  <2>3. StateAfter(frames[n].code, FirstLine(n))[i + 1] = [line |-> heap'[cur'], out |-> Out']
    BY <1>1, <2>2
  <2>4. FirstLine(n)' = FirstLine(n)
    BY <1>1, SameSection
  <2>5. QED
    BY <1>1, <2>3, <2>4 DEF Meant
<1>3. QED
  BY <1>1, <1>2, InstructionStep

\* DW_CFA_def_cfa and its kind.
LEMMA CfaStep == ASSUME CfiInv, DefCfa PROVE CfiInv' /\ LinesKept
<1>1. PICK op \in CfaOps : Doing(op)
  BY DEF DefCfa
<1>2. LinesApart /\ Decoding /\ Head(todo)[1] = op
  BY <1>1, NextToDo
<1>3. PICK n, i, c : NextIs(n, i, c)
  BY <1>1, NextToDo
<1>4. c = Head(todo) /\ c[1] = op
  BY <1>2, <1>3 DEF NextIs
<1>5. PICK v : v = CfaOf(c, heap[cur]["cfa"])
  OBVIOUS
<1>6. Others /\ SetRule("cfa", v) /\ UNCHANGED << cur, saved, table, order >>
  BY <1>4, <1>5, DoneLeaves DEF DefCfa
<1>7. "cfa" \in DOMAIN heap[cur] /\ OrderOf(order, heap[cur])
  BY <1>2, CurrentIs DEF IsLine
<1>8. OrderOf(order', Put(heap[cur], "cfa", v))
  <2>1. Regs(Put(heap[cur], "cfa", v)) = Regs(heap[cur])
    BY <1>7, PutIs DEF Regs
  <2>2. QED
    BY <1>6, <1>7, <2>1 DEF OrderOf
<1>9. CfiEffect(c, [line |-> heap[cur], out |-> Out]) = [line |-> Put(heap[cur], "cfa", v), out |-> Out]
  BY <1>1, <1>4, <1>5, CfaEffect
<1>10. QED
  BY <1>2, <1>3, <1>6, <1>8, <1>9, RuleStep

\* An instruction that gives a register a rule.
LEMMA RegisterStep == ASSUME CfiInv, RegisterRule PROVE CfiInv' /\ LinesKept
<1>1. Doing("rule")
  BY DEF RegisterRule
<1>2. LinesApart /\ Decoding /\ Head(todo)[1] = "rule"
  BY <1>1, NextToDo
<1>3. PICK n, i, c : NextIs(n, i, c)
  BY <1>1, NextToDo
<1>4. c = Head(todo) /\ c[1] = "rule" /\ c \in CodesOf(frames)
  BY <1>2, <1>3 DEF NextIs
<1>5. PICK k, v : k = c[2] /\ v = c[3]
  OBVIOUS
<1>6. Others /\ SetRule(k, v) /\ AddToOrder(k) /\ UNCHANGED << cur, saved, table >>
  BY <1>4, <1>5, DoneLeaves DEF RegisterRule
<1>7. k \notin {"pc", "cfa"}
  <2>1. SectionIs(frames)
    BY FramesAre DEF CfiInv, FramesRead
  <2>2. QED
    BY <1>4, <1>5, <2>1 DEF SectionIs
<1>8. OrderOf(order', Put(heap[cur], k, v))
  <2>1. OrderOf(order, heap[cur])
    BY <1>2 DEF LinesApart
  <2>2. QED
    BY <1>6, <1>7, <2>1, OrderAdds DEF AddToOrder
<1>9. CfiEffect(c, [line |-> heap[cur], out |-> Out]) = [line |-> Put(heap[cur], k, v), out |-> Out]
  BY <1>4, <1>5, RuleEffect
<1>10. QED
  BY <1>2, <1>3, <1>6, <1>8, <1>9, RuleStep

\* DW_CFA_restore takes the rule from the current line.
LEMMA RestoreStep == ASSUME CfiInv, Restore PROVE CfiInv' /\ LinesKept
<1>1. Doing("restore")
  BY DEF Restore
<1>2. LinesApart /\ Decoding /\ Head(todo)[1] = "restore"
  BY <1>1, NextToDo
<1>3. PICK n, i, c : NextIs(n, i, c)
  BY <1>1, NextToDo
<1>4. c = Head(todo) /\ c[1] = "restore" /\ c \in CodesOf(frames)
  BY <1>2, <1>3 DEF NextIs
<1>5. PICK k, v : k = c[2] /\ v = heap[base][k]
  OBVIOUS
<1>6. /\ Others /\ SetRule(k, v) /\ AddToOrder(k) /\ UNCHANGED << cur, saved, table >>
      /\ k \in DOMAIN heap[base]
  BY <1>4, <1>5, DoneLeaves DEF Restore, Restorable
<1>7. k \notin {"pc", "cfa"}
  <2>1. SectionIs(frames)
    BY FramesAre DEF CfiInv, FramesRead
  <2>2. QED
    BY <1>4, <1>5, <2>1 DEF SectionIs
<1>8. OrderOf(order', Put(heap[cur], k, v))
  <2>1. OrderOf(order, heap[cur])
    BY <1>2 DEF LinesApart
  <2>2. QED
    BY <1>6, <1>7, <2>1, OrderAdds DEF AddToOrder
<1>9. CfiEffect(c, [line |-> heap[cur], out |-> Out]) = [line |-> Put(heap[cur], k, v), out |-> Out]
  <2>1. base = cur
    BY <1>2 DEF LinesApart
  <2>2. QED
    BY <1>4, <1>5, <2>1, RestoreEffect
<1>10. QED
  BY <1>2, <1>3, <1>6, <1>8, <1>9, RuleStep

\* DW_CFA_remember_state.
LEMMA RememberStep == ASSUME CfiInv, RememberState PROVE CfiInv' /\ LinesKept
<1>1. Doing("remember")
  BY DEF RememberState
<1>2. LinesApart /\ Decoding /\ Head(todo)[1] = "remember"
  BY <1>1, NextToDo
<1>3. PICK n, i, c : NextIs(n, i, c)
  BY <1>1, NextToDo
<1>4. c[1] = "remember"
  BY <1>2, <1>3 DEF NextIs
<1>5. Others /\ saved' = Append(saved, cur) /\ UNCHANGED << heap, cur, table, order >>
  BY DoneLeaves DEF RememberState
<1>6. /\ IsSequence(heap) /\ Len(heap) \in Nat /\ cur \in 1 .. Len(heap) /\ base = cur
      /\ \A l \in 1 .. Len(heap) : IsLine(heap[l])
      /\ IsSequence(saved) /\ (\A j \in 1 .. Len(saved) : saved[j] = cur)
      /\ IsSequence(table)
      /\ \A j \in 1 .. Len(table) :
           table[j] \in 1 .. Len(heap) /\ table[j] # cur /\ Regs(heap[table[j]]) \subseteq Regs(heap[cur])
      /\ OrderOf(order, heap[cur])
  BY <1>2, CurrentIs
<1>7. Goes(saved, cur, saved')
  BY <1>5, <1>6, AppendAny
<1>8. IsSequence(saved') /\ \A j \in 1 .. Len(saved') : saved'[j] = cur
  <2>1. PICK k \in Nat : k = Len(saved)
    BY <1>6 DEF IsSequence
  <2>2. /\ IsSequence(saved') /\ Len(saved') = k + 1 /\ saved'[k + 1] = cur
        /\ \A j \in 1 .. k : saved'[j] = saved[j]
    BY <1>7, <2>1 DEF Goes
  <2>3. \A j \in 1 .. k + 1 : j \in 1 .. k \/ j = k + 1
    OBVIOUS
  <2>4. QED
    BY <1>6, <2>1, <2>2, <2>3
<1>9. Leaves
  BY <1>5, <1>6, <1>8 DEF Leaves, Others
<1>10. Meant(n, i + 1)'
  <2>1. SectionIs(frames)
    BY FramesAre DEF CfiInv, FramesRead
  <2>2. StateAfter(frames[n].code, FirstLine(n))[i + 1] = CfiEffect(c, [line |-> heap[cur], out |-> Out])
    BY ONLY <1>3, <2>1, MeansNext
  <2>3. CfiEffect(c, [line |-> heap[cur], out |-> Out]) = [line |-> heap[cur], out |-> Out]
    BY ONLY <1>4, StackEffect
  <2>4. Out' = Out /\ heap'[cur'] = heap[cur]
    BY <1>5 DEF Out
  <2>5. FirstLine(n)' = FirstLine(n) /\ frames' = frames
    BY <1>5, SameSection DEF Others
  <2>6. StateAfter(frames[n].code, FirstLine(n))[i + 1] = [line |-> heap'[cur'], out |-> Out']
    BY <2>2, <2>3, <2>4
  <2>7. QED
    BY <2>5, <2>6 DEF Meant
<1>11. QED
  BY <1>2, <1>3, <1>9, <1>10, InstructionStep

\* DW_CFA_restore_state takes back the current line: all of the stack is it.
LEMMA RecallStep == ASSUME CfiInv, RestoreState PROVE CfiInv' /\ LinesKept
<1>1. Doing("recall") /\ saved # << >>
  BY DEF RestoreState
<1>2. LinesApart /\ Decoding /\ Head(todo)[1] = "recall"
  BY <1>1, NextToDo
<1>3. PICK n, i, c : NextIs(n, i, c)
  BY <1>1, NextToDo
<1>4. c[1] = "recall"
  BY <1>2, <1>3 DEF NextIs
<1>5. Others /\ cur' = Last(saved) /\ saved' = Front(saved) /\ UNCHANGED << heap, table, order >>
  BY DoneLeaves DEF RestoreState
<1>6. /\ IsSequence(heap) /\ Len(heap) \in Nat /\ cur \in 1 .. Len(heap) /\ base = cur
      /\ \A l \in 1 .. Len(heap) : IsLine(heap[l])
      /\ IsSequence(saved) /\ (\A j \in 1 .. Len(saved) : saved[j] = cur)
      /\ IsSequence(table)
      /\ \A j \in 1 .. Len(table) :
           table[j] \in 1 .. Len(heap) /\ table[j] # cur /\ Regs(heap[table[j]]) \subseteq Regs(heap[cur])
      /\ OrderOf(order, heap[cur])
  BY <1>2, CurrentIs
<1>7. PICK k \in Nat : k = Len(saved) /\ k # 0 /\ saved \in [1 .. k -> Nat]
  <2>1. Len(saved) \in Nat /\ saved = [j \in 1 .. Len(saved) |-> saved[j]]
    BY <1>6 DEF IsSequence
  <2>2. \A j \in 1 .. Len(saved) : saved[j] \in Nat
    BY <1>6
  <2>3. saved \in [1 .. Len(saved) -> Nat]
    BY <2>1, <2>2
  <2>4. Len(saved) # 0
    <3>1. SUFFICES ASSUME Len(saved) = 0 PROVE FALSE
      OBVIOUS
    <3>2. saved \in Seq(Nat)
      BY <2>1, <2>3, SeqDef
    <3>3. QED
      BY <1>1, <3>1, <3>2
  <2>5. QED
    BY <2>1, <2>3, <2>4
<1>8. saved \in Seq(Nat)
  BY <1>7, SeqDef
<1>9. cur' = cur
  <2>1. k \in 1 .. k
    BY <1>7
  <2>2. QED
    BY <1>5, <1>6, <1>7, <2>1 DEF Last
<1>10. IsSequence(saved') /\ \A j \in 1 .. Len(saved') : saved'[j] = cur
  <2>1. /\ SubSeq(saved, 1, k - 1) \in Seq(Nat) /\ Len(SubSeq(saved, 1, k - 1)) = k - 1
        /\ \A j \in 1 .. k - 1 : SubSeq(saved, 1, k - 1)[j] = saved[j]
    BY <1>7, <1>8
  <2>2. saved' = SubSeq(saved, 1, k - 1)
    BY <1>5, <1>7 DEF Front
  <2>3. IsSequence(saved')
    BY <2>1, <2>2, LenProperties DEF IsSequence
  <2>4. QED
    BY <1>6, <1>7, <2>1, <2>2, <2>3
<1>11. Leaves
  BY <1>5, <1>6, <1>9, <1>10 DEF Leaves, Others
<1>12. Meant(n, i + 1)'
  <2>1. SectionIs(frames)
    BY FramesAre DEF CfiInv, FramesRead
  <2>2. StateAfter(frames[n].code, FirstLine(n))[i + 1] = CfiEffect(c, [line |-> heap[cur], out |-> Out])
    BY ONLY <1>3, <2>1, MeansNext
  <2>3. CfiEffect(c, [line |-> heap[cur], out |-> Out]) = [line |-> heap[cur], out |-> Out]
    BY ONLY <1>4, StackEffect
  <2>4. Out' = Out /\ heap'[cur'] = heap[cur]
    BY <1>5, <1>9 DEF Out
  <2>5. FirstLine(n)' = FirstLine(n) /\ frames' = frames
    BY <1>5, SameSection DEF Others
  <2>6. StateAfter(frames[n].code, FirstLine(n))[i + 1] = [line |-> heap'[cur'], out |-> Out']
    BY <2>2, <2>3, <2>4
  <2>7. QED
    BY <2>5, <2>6 DEF Meant
<1>13. QED
  BY <1>2, <1>3, <1>11, <1>12, InstructionStep

\* A copy of the current line enters the table.
LEMMA AdvanceStep == ASSUME CfiInv, AdvanceLoc PROVE CfiInv' /\ LinesKept
<1>1. Doing("advance")
  BY DEF AdvanceLoc
<1>2. LinesApart /\ Decoding /\ Head(todo)[1] = "advance"
  BY <1>1, NextToDo
<1>3. PICK n, i, c : NextIs(n, i, c)
  BY <1>1, NextToDo
<1>4. c[1] = "advance"
  BY <1>2, <1>3 DEF NextIs
<1>5. PICK l, h : l = [heap[cur] EXCEPT !["pc"] = @ + 1] /\ h = [heap EXCEPT ![cur] = l]
  OBVIOUS
<1>6. PICK z \in Nat : z = Len(heap)
  BY <1>2, CurrentIs
<1>7. Others /\ heap' = Append(h, heap[cur]) /\ table' = Append(table, z + 1) /\ UNCHANGED << cur, saved, order >>
  <2>1. [heap EXCEPT ![cur]["pc"] = @ + 1] = [heap EXCEPT ![cur] = [heap[cur] EXCEPT !["pc"] = @ + 1]]
    OBVIOUS
  <2>2. QED
    BY <1>5, <1>6, <2>1, DoneLeaves DEF AdvanceLoc
<1>8. /\ IsSequence(heap) /\ DOMAIN heap = 1 .. z /\ cur \in 1 .. z /\ base = cur
      /\ \A j \in 1 .. z : IsLine(heap[j])
      /\ IsSequence(saved) /\ (\A j \in 1 .. Len(saved) : saved[j] = cur)
      /\ IsSequence(table)
      /\ \A j \in 1 .. Len(table) :
           table[j] \in 1 .. z /\ table[j] # cur /\ Regs(heap[table[j]]) \subseteq Regs(heap[cur])
      /\ OrderOf(order, heap[cur])
  BY <1>2, <1>6, CurrentIs
<1>9. IsSequence(h) /\ Len(h) = z /\ h[cur] = l /\ \A j \in 1 .. z : j # cur => h[j] = heap[j]
  <2>1. h = [j \in 1 .. z |-> h[j]]
    BY <1>5, <1>8
  <2>2. Len(h) = z
    BY <2>1, LenProperties, IsASeq
  <2>3. QED
    BY <1>5, <1>8, <2>1, <2>2 DEF IsSequence
<1>10. /\ IsSequence(heap') /\ Len(heap') = z + 1 /\ heap'[z + 1] = heap[cur]
       /\ \A j \in 1 .. z : heap'[j] = h[j]
  <2>1. Goes(h, heap[cur], heap')
    BY <1>7, <1>9, AppendAny
  <2>2. QED
    BY <1>9, <2>1 DEF Goes
<1>11. heap'[cur] = l /\ \A j \in 1 .. z : j # cur => heap'[j] = heap[j]
  BY <1>8, <1>9, <1>10
<1>12. PICK k \in Nat : k = Len(table)
  BY <1>8 DEF IsSequence
<1>13. /\ IsSequence(table') /\ Len(table') = k + 1 /\ table'[k + 1] = z + 1
       /\ \A j \in 1 .. k : table'[j] = table[j]
  <2>1. Goes(table, z + 1, table')
    BY <1>7, <1>8, AppendAny
  <2>2. QED
    BY <1>12, <2>1 DEF Goes
<1>14. DOMAIN l = DOMAIN heap[cur] /\ IsLine(l) /\ Regs(l) = Regs(heap[cur])
  BY <1>5, <1>8 DEF IsLine, Regs
<1>15. \A j \in 1 .. k + 1 : heap'[table'[j]] = IF j = k + 1 THEN heap[cur] ELSE heap[table[j]]
  <2>1. ASSUME NEW j \in 1 .. k + 1
        PROVE  heap'[table'[j]] = IF j = k + 1 THEN heap[cur] ELSE heap[table[j]]
    <3>1. CASE j = k + 1
      BY <1>10, <1>13, <3>1
    <3>2. CASE j # k + 1
      <4>1. j \in 1 .. k
        BY <3>2
      <4>2. table[j] \in 1 .. z /\ table[j] # cur /\ table'[j] = table[j]
        BY <1>8, <1>12, <1>13, <4>1
      <4>3. QED
        BY <1>11, <3>2, <4>2
    <3>3. QED
      BY <3>1, <3>2
  <2>2. QED
    BY <2>1
<1>16. \A j \in 1 .. Len(table') :
         table'[j] \in 1 .. Len(heap') /\ table'[j] # cur /\ Regs(heap'[table'[j]]) \subseteq Regs(heap'[cur])
  <2>1. ASSUME NEW j \in 1 .. k + 1
        PROVE  table'[j] \in 1 .. z + 1 /\ table'[j] # cur /\ Regs(heap'[table'[j]]) \subseteq Regs(heap'[cur])
    <3>1. heap'[table'[j]] = IF j = k + 1 THEN heap[cur] ELSE heap[table[j]]
      BY <1>15
    <3>2. CASE j = k + 1
      BY <1>8, <1>11, <1>13, <1>14, <3>1, <3>2
    <3>3. CASE j # k + 1
      <4>1. j \in 1 .. k
        BY <3>3
      <4>2. QED
        BY <1>8, <1>11, <1>12, <1>13, <1>14, <3>1, <3>3, <4>1
    <3>4. QED
      BY <3>2, <3>3
  <2>2. QED
    BY <1>10, <1>13, <2>1
<1>17. \A j \in 1 .. Len(heap') : IsLine(heap'[j])
  <2>1. ASSUME NEW j \in 1 .. z + 1 PROVE IsLine(heap'[j])
    <3>1. CASE j = z + 1
      BY <1>8, <1>10, <3>1
    <3>2. CASE j = cur
      BY <1>11, <1>14, <3>2
    <3>3. CASE j # z + 1 /\ j # cur
      <4>1. j \in 1 .. z
        BY <3>3
      <4>2. QED
        BY <1>8, <1>11, <3>3, <4>1
    <3>4. QED
      BY <3>1, <3>2, <3>3
  <2>2. QED
    BY <1>10, <2>1
<1>18. OrderOf(order', heap'[cur])
  BY <1>7, <1>8, <1>11, <1>14 DEF OrderOf
<1>19. Leaves
  <2>1. Len(heap) <= Len(heap')
    BY <1>6, <1>10
  <2>2. \A j \in 1 .. Len(heap) : j # cur => heap'[j] = heap[j]
    BY <1>6, <1>11
  <2>3. QED
    BY <1>7, <1>8, <1>10, <1>13, <1>16, <1>17, <1>18, <2>1, <2>2 DEF Leaves, Others
<1>20. Meant(n, i + 1)'
  <2>1. SectionIs(frames)
    BY FramesAre DEF CfiInv, FramesRead
  <2>2. StateAfter(frames[n].code, FirstLine(n))[i + 1] = CfiEffect(c, [line |-> heap[cur], out |-> Out])
    BY ONLY <1>3, <2>1, MeansNext
  <2>3. CfiEffect(c, [line |-> heap[cur], out |-> Out]) = [line |-> l, out |-> Append(Out, heap[cur])]
    <3>1. CfiEffect(c, [line |-> heap[cur], out |-> Out])
            = [line |-> [heap[cur] EXCEPT !["pc"] = @ + 1], out |-> Append(Out, heap[cur])]
      BY ONLY <1>4, AdvanceEffect
    <3>2. QED
      BY <1>5, <3>1
  <2>4. Out' = Append(Out, heap[cur])
    <3>1. Out = [j \in 1 .. k |-> heap[table[j]]]
      BY <1>12 DEF Out
    <3>2. Len(Out) = k /\ IsSequence(Out)
      <4>1. Len(Out) = k
        BY <3>1, LenProperties, IsASeq
      <4>2. QED
        BY <3>1, <4>1 DEF IsSequence
    <3>3. PICK r : r = Append(Out, heap[cur])
      OBVIOUS
    <3>4. Goes(Out, heap[cur], r)
      BY <3>2, <3>3, AppendAny
    <3>5. r = [j \in 1 .. k + 1 |-> r[j]] /\ r[k + 1] = heap[cur] /\ \A j \in 1 .. k : r[j] = heap[table[j]]
      <4>1. /\ IsSequence(r) /\ Len(r) = k + 1 /\ r[k + 1] = heap[cur]
            /\ \A j \in 1 .. k : r[j] = Out[j]
        BY <3>2, <3>4 DEF Goes
      <4>2. QED
        BY <3>1, <4>1 DEF IsSequence
    <3>6. Out' = [j \in 1 .. k + 1 |-> heap'[table'[j]]]
      BY <1>13 DEF Out
    <3>7. \A j \in 1 .. k + 1 : heap'[table'[j]] = r[j]
      <4>1. ASSUME NEW j \in 1 .. k + 1 PROVE heap'[table'[j]] = r[j]
        <5>1. j \in 1 .. k \/ j = k + 1
          OBVIOUS
        <5>2. j = k + 1 => j \notin 1 .. k
          OBVIOUS
        <5>3. QED
          BY <1>15, <3>5, <5>1, <5>2
      <4>2. QED
        BY <4>1
    <3>8. QED
      BY <3>3, <3>5, <3>6, <3>7
  <2>5. FirstLine(n)' = FirstLine(n) /\ frames' = frames
    BY <1>7, SameSection DEF Others
  <2>6. StateAfter(frames[n].code, FirstLine(n))[i + 1] = [line |-> heap'[cur'], out |-> Out']
    BY <1>7, <1>11, <2>2, <2>3, <2>4
  <2>7. QED
    BY <2>5, <2>6 DEF Meant
<1>21. QED
  BY <1>2, <1>3, <1>19, <1>20, InstructionStep

\* Decoding fails: the entry stays without a table.
LEMMA DecodeRaisesStep == ASSUME CfiInv, DecodeRaises PROVE CfiInv' /\ LinesKept
<1>1. /\ cfiPc' = "raised" /\ busy' = << >> /\ todo' = NotBegun
      /\ UNCHANGED << frames, framePos, at, known, got >> /\ frames' = frames
      /\ UNCHANGED << heap, decoded, orders, cur, base, saved, table, order >>
  BY DEF DecodeRaises, readVars
<1>2. FramesRead'
  BY <1>1, ReadStays DEF CfiInv
<1>3. BusyIs'
  BY <1>1 DEF BusyIs
<1>4. QED
  BY <1>1, <1>2, <1>3, IdleInv

\* The table of an entry, when its instructions are done.
LEMMA TableIs ==
  ASSUME CfiInv, Decoding, todo = << >>, NEW n, n = Head(busy)
  PROVE  /\ Goes(table, cur, Append(table, cur)) /\ cur \in 1 .. Len(heap)
         /\ \A i \in 1 .. Len(table) : table[i] \in 1 .. Len(heap) /\ Regs(heap[table[i]]) \subseteq Regs(heap[cur])
         /\ OrderOf(order, heap[cur])
         /\ [i \in 1 .. Len(table) + 1 |-> heap[Append(table, cur)[i]]] = Means(n)
<1>1. LinesApart /\ Follows(n)
  BY DEF CfiInv, RunIs
<1>2. /\ IsSequence(heap) /\ cur \in 1 .. Len(heap) /\ IsSequence(table)
      /\ \A i \in 1 .. Len(table) : table[i] \in 1 .. Len(heap) /\ Regs(heap[table[i]]) \subseteq Regs(heap[cur])
      /\ OrderOf(order, heap[cur])
  BY <1>1, CurrentIs
<1>3. PICK q : q = Append(table, cur)
  OBVIOUS
<1>4. Goes(table, cur, q)
  BY <1>2, <1>3, AppendAny
<1>5. PICK k \in Nat : k = Len(table)
  BY <1>2 DEF IsSequence
<1>6. [i \in 1 .. k + 1 |-> heap[q[i]]] = Means(n)
  <2>1. n \in DOMAIN frames /\ frames[n].code \in Seq(CodesOf(frames))
    BY HeadIs DEF Decoding
  <2>2. PICK i \in Nat : Behind(frames[n].code, i, todo) /\ Meant(n, i)
    BY <1>1 DEF Follows
  <2>3. i = Len(frames[n].code)
    <3>1. PICK code \in Seq(CodesOf(frames)) : code = frames[n].code
      BY <2>1
    <3>2. i <= Len(code) /\ << >> = SubSeq(code, i + 1, Len(code)) /\ Len(code) \in Nat
      BY <2>2, <3>1 DEF Behind
    <3>3. i + 1 \in 1 .. Len(code) => Len(SubSeq(code, i + 1, Len(code))) = Len(code) - i
      OBVIOUS
    <3>4. Len(<< >>) = 0
      OBVIOUS
    <3>5. ~(i + 1 \in 1 .. Len(code))
      <4>1. SUFFICES ASSUME i + 1 \in 1 .. Len(code) PROVE FALSE
        OBVIOUS
      <4>2. Len(code) - i = 0
        BY <3>2, <3>3, <3>4, <4>1
      <4>3. QED
        BY <3>2, <4>1, <4>2
    <3>6. QED
      BY <3>1, <3>2, <3>5
  <2>4. StateAfter(frames[n].code, FirstLine(n))[i] = [line |-> heap[cur], out |-> Out]
    BY <2>2 DEF Meant
  <2>5. Means(n) = Append(Out, heap[cur])
    <3>1. Means(n) = CfiMeaning(frames[n].code, FirstLine(n)) /\ Len(frames[n].code) \in Nat
      BY <2>1, MeansIs
    <3>2. PICK s : s = StateAfter(frames[n].code, FirstLine(n))[i]
      OBVIOUS
    <3>3. Means(n) = Append(s.out, s.line)
      BY ONLY <2>3, <3>1, <3>2, MeaningIs
    <3>4. QED
      BY <2>4, <3>2, <3>3
  <2>6. Out = [j \in 1 .. k |-> heap[table[j]]]
    BY <1>5 DEF Out
  <2>7. Len(Out) = k /\ IsSequence(Out)
    <3>1. Len(Out) = k
      BY <2>6, LenProperties, IsASeq
    <3>2. QED
      BY <2>6, <3>1 DEF IsSequence
  <2>8. PICK r : r = Append(Out, heap[cur])
    OBVIOUS
  <2>9. Goes(Out, heap[cur], r)
    BY <2>7, <2>8, AppendAny
  <2>10. r = [j \in 1 .. k + 1 |-> r[j]] /\ r[k + 1] = heap[cur] /\ \A j \in 1 .. k : r[j] = heap[table[j]]
    <3>1. /\ IsSequence(r) /\ Len(r) = k + 1 /\ r[k + 1] = heap[cur]
          /\ \A j \in 1 .. k : r[j] = Out[j]
      BY <2>7, <2>9 DEF Goes
    <3>2. QED
      BY <2>6, <3>1 DEF IsSequence
  <2>11. q[k + 1] = cur /\ \A j \in 1 .. k : q[j] = table[j]
    BY <1>4, <1>5 DEF Goes
  <2>12. ASSUME NEW j \in 1 .. k + 1 PROVE heap[q[j]] = r[j]
    <3>1. j \in 1 .. k \/ j = k + 1
      OBVIOUS
    <3>2. QED
      BY <2>10, <2>11, <3>1
  <2>13. QED
    BY <2>5, <2>8, <2>10, <2>12
<1>7. QED
  BY <1>2, <1>3, <1>4, <1>5, <1>6

\* The table of an entry is finished.
LEMMA FinishStep == ASSUME CfiInv, Finish PROVE CfiInv' /\ LinesKept
<1>1. PICK n, q : n = Head(busy) /\ q = Append(table, cur)
  OBVIOUS
<1>2. /\ busy # << >> /\ todo = << >> /\ busy' = Tail(busy) /\ todo' = NotBegun
      /\ decoded' = [decoded EXCEPT ![n] = q] /\ orders' = [orders EXCEPT ![n] = order]
      /\ UNCHANGED << frames, framePos, at, known, got >> /\ frames' = frames /\ cfiPc' = cfiPc
      /\ UNCHANGED << heap, cur, base, saved, table, order >>
  BY <1>1 DEF Finish, readVars
<1>3. Decoding
  <2>1. NotBegun # << >>
    BY DEF NotBegun
  <2>2. QED
    BY <1>2, <2>1 DEF Decoding
<1>4. n \in DOMAIN frames /\ Ready(n) /\ Readable(n) /\ cfiPc = "decode"
  BY <1>1, <1>2, HeadIs
<1>5. /\ Goes(table, cur, q) /\ cur \in 1 .. Len(heap)
      /\ \A i \in 1 .. Len(table) : table[i] \in 1 .. Len(heap) /\ Regs(heap[table[i]]) \subseteq Regs(heap[cur])
      /\ OrderOf(order, heap[cur])
      /\ [i \in 1 .. Len(table) + 1 |-> heap[q[i]]] = Means(n)
  BY <1>1, <1>2, <1>3, TableIs
<1>6. PICK k \in Nat : k = Len(table)
  BY DEF CfiInv, StackAndTable, IsSequence
<1>7. /\ IsSequence(q) /\ Len(q) = k + 1 /\ DOMAIN q = 1 .. k + 1 /\ q[k + 1] = cur /\ \A i \in 1 .. k : q[i] = table[i]
  BY <1>5, <1>6 DEF Goes
<1>8. /\ DOMAIN decoded = DOMAIN frames /\ DOMAIN orders = DOMAIN frames
      /\ \A m \in DOMAIN frames : IsSequence(decoded[m]) /\ (Decoded(m) => TableDone(m))
  BY DEF CfiInv, TablesDone
<1>9. /\ decoded'[n] = q /\ orders'[n] = order
      /\ \A m \in DOMAIN frames : m # n => decoded'[m] = decoded[m] /\ orders'[m] = orders[m]
      /\ DOMAIN decoded' = DOMAIN frames /\ DOMAIN orders' = DOMAIN frames
  BY <1>2, <1>4, <1>8
<1>10. q # << >>
  <2>1. Len(q) # 0
    BY <1>7
  <2>2. QED
    BY <2>1
<1>11. TableDone(n)'
  <2>1. Last(decoded'[n]) = cur
    BY <1>7, <1>9 DEF Last
  <2>2. \A i \in 1 .. k + 1 : q[i] \in 1 .. Len(heap) /\ Regs(heap[q[i]]) \subseteq Regs(heap[cur])
    <3>1. ASSUME NEW i \in 1 .. k + 1 PROVE q[i] \in 1 .. Len(heap) /\ Regs(heap[q[i]]) \subseteq Regs(heap[cur])
      <4>1. i \in 1 .. k \/ i = k + 1
        OBVIOUS
      <4>2. QED
        BY <1>5, <1>6, <1>7, <4>1
    <3>2. QED
      BY <3>1
  <2>3. (LinesOf(n) = Means(n))'
    <3>1. LinesOf(n)' = [i \in 1 .. k + 1 |-> heap[q[i]]]
      BY <1>2, <1>7, <1>9 DEF LinesOf
    <3>2. Means(n)' = Means(n)
      BY <1>2, SameSection
    <3>3. QED
      BY <1>5, <1>6, <3>1, <3>2
  <2>4. Readable(n)' /\ Len(decoded'[n]) # 0
    BY <1>2, <1>4, <1>7, <1>9, SameSection
  <2>5. QED
    BY <1>2, <1>5, <1>7, <1>9, <2>1, <2>2, <2>3, <2>4 DEF TableDone
<1>12. ASSUME NEW m \in DOMAIN frames, m # n
       PROVE  /\ IsSequence(decoded'[m]) /\ (Decoded(m)' => TableDone(m)') /\ (Decoded(m)' <=> Decoded(m))
              /\ LinesOf(m)' = LinesOf(m)
  <2>1. decoded'[m] = decoded[m] /\ orders'[m] = orders[m] /\ heap' = heap
    BY <1>2, <1>9, <1>12
  <2>2. LinesOf(m)' = LinesOf(m)
    BY <2>1 DEF LinesOf
  <2>3. Decoded(m)' <=> Decoded(m)
    BY <2>1 DEF Decoded
  <2>4. TableDone(m) => TableDone(m)'
    BY <1>2, <2>1, <2>2, SameSection DEF TableDone
  <2>5. QED
    BY <1>8, <2>1, <2>2, <2>3, <2>4
<1>13. TablesDone'
  <2>1. ASSUME NEW m \in DOMAIN frames PROVE IsSequence(decoded'[m]) /\ (Decoded(m)' => TableDone(m)')
    BY <1>7, <1>9, <1>11, <1>12
  <2>2. QED
    BY <1>2, <1>9, <2>1 DEF TablesDone
<1>14. LinesKept
  <2>1. ~Decoded(n)
    BY <1>4 DEF Ready, Pending
  <2>2. QED
    BY <1>12, <2>1 DEF LinesKept
<1>15. LinesAre' /\ StackAndTable' /\ RunIs'
  BY <1>2 DEF CfiInv, LinesAre, StackAndTable, RunIs, Decoding
<1>16. FramesRead'
  BY <1>2, ReadStays DEF CfiInv, FramesRead
<1>17. BusyIs'
  <2>1. CASE \E m \in DOMAIN frames : OneIs(busy, m)
    BY <1>2, <2>1 DEF OneIs, BusyIs
  <2>2. CASE \E a, b \in DOMAIN frames : TwoAre(busy, a, b)
    <3>1. PICK b \in DOMAIN frames : busy = << n, b >> /\ Pending(b) /\ frames[b].of = n
      BY <1>1, <2>2 DEF TwoAre
    <3>2. IsFDE(b)
      <4>1. SectionIs(frames)
        BY <1>2, HeadIs
      <4>2. n # 0
        BY <1>4, <4>1 DEF SectionIs
      <4>3. QED
        BY <3>1, <4>2 DEF IsFDE
    <3>3. b # n /\ Readable(b)
      BY <3>1, <3>2, CieIs DEF CfiInv, Pending
    <3>4. Decoded(n)' /\ (Decoded(b)' <=> Decoded(b))
      BY <1>9, <1>10, <1>12, <3>3 DEF Decoded
    <3>5. Ready(b)'
      BY <1>2, <3>1, <3>3, <3>4, SameSection DEF Ready, Pending
    <3>6. busy' = << b >>
      BY <1>2, <3>1
    <3>7. QED
      BY <1>2, <1>4, <3>5, <3>6 DEF BusyIs, OneIs
  <2>3. QED
    BY <1>2, <2>1, <2>2 DEF CfiInv, BusyIs
<1>18. QED
  BY <1>13, <1>14, <1>15, <1>16, <1>17 DEF CfiInv

\* Every step preserves the invariant, and writes no line that was returned.
LEMMA CfiInvNext == ASSUME CfiInv, CfiNext PROVE CfiInv' /\ LinesKept
<1>1. CASE CfiStep
  BY <1>1, EntryStep
<1>2. ASSUME NEW n \in DOMAIN frames, GetDecoded(n) PROVE CfiInv' /\ LinesKept
  BY <1>2, AskStep
<1>3. CASE DecodeStep
  <2>1. CASE Begin
    BY <2>1, BeginStep
  <2>2. CASE AdvanceLoc
    BY <2>2, AdvanceStep
  <2>3. CASE DefCfa
    BY <2>3, CfaStep
  <2>4. CASE RegisterRule
    BY <2>4, RegisterStep
  <2>5. CASE Restore
    BY <2>5, RestoreStep
  <2>6. CASE RememberState
    BY <2>6, RememberStep
  <2>7. CASE RestoreState
    BY <2>7, RecallStep
  <2>8. CASE DecodeRaises
    BY <2>8, DecodeRaisesStep
  <2>9. CASE Finish
    BY <2>9, FinishStep
  <2>10. QED
    BY <1>3, <2>1, <2>2, <2>3, <2>4, <2>5, <2>6, <2>7, <2>8, <2>9 DEF DecodeStep
<1>4. QED
  BY <1>1, <1>2, <1>3 DEF CfiNext

\* The invariant says what the properties say.
LEMMA CfiInvMeans == ASSUME CfiInv PROVE CfiTypeOK /\ EntriesInOrder /\ DecodedAsWritten /\ RegOrderExact
<1>1. EntriesInOrder
  BY DEF CfiInv, FramesRead
<1>2. SectionIs(frames) /\ FramesRead
  BY FramesAre DEF CfiInv, FramesRead
<1>3. \A n \in DOMAIN frames : IsSequence(decoded[n]) /\ (Decoded(n) => TableDone(n))
  BY DEF CfiInv, TablesDone
<1>4. IsSequence(heap) /\ DOMAIN heap = 1 .. Len(heap) /\ \A n \in DOMAIN frames : DOMAIN decoded[n] = 1 .. Len(decoded[n])
  BY <1>3 DEF CfiInv, LinesAre, IsSequence
<1>5. DecodedAsWritten
  BY <1>3 DEF DecodedAsWritten, TableDone
<1>6. RegOrderExact
  <2>1. SUFFICES ASSUME NEW n \in DOMAIN frames, Decoded(n)
                 PROVE  /\ IsInjective(orders[n])
                        /\ ToSet(orders[n]) = (UNION {DOMAIN LinesOf(n)[i] : i \in DOMAIN decoded[n]}) \ {"pc", "cfa"}
    BY DEF RegOrderExact
  <2>2. TableDone(n) /\ IsSequence(decoded[n])
    BY <1>3, <2>1
  <2>3. PICK k \in Nat : k = Len(decoded[n]) /\ k \in 1 .. k /\ DOMAIN decoded[n] = 1 .. k
    <3>1. Len(decoded[n]) \in Nat /\ Len(decoded[n]) # 0
      BY <2>2 DEF TableDone, IsSequence
    <3>2. Len(decoded[n]) \in 1 .. Len(decoded[n])
      BY <3>1
    <3>3. QED
      BY <1>4, <3>1, <3>2
  <2>4. PICK last : last = heap[decoded[n][k]]
    OBVIOUS
  <2>5. heap[Last(decoded[n])] = last
    BY <2>3, <2>4 DEF Last
  <2>6. \A i \in 1 .. k : LinesOf(n)[i] = heap[decoded[n][i]] /\ DOMAIN LinesOf(n)[i] \ {"pc", "cfa"} \subseteq Regs(last)
    BY <2>2, <2>3, <2>5 DEF TableDone, LinesOf, Regs
  <2>7. DOMAIN LinesOf(n)[k] \ {"pc", "cfa"} = Regs(last)
    BY <2>3, <2>4, <2>6 DEF Regs
  <2>8. (UNION {DOMAIN LinesOf(n)[i] : i \in 1 .. k}) \ {"pc", "cfa"} = Regs(last)
    <3>1. (UNION {DOMAIN LinesOf(n)[i] : i \in 1 .. k}) \ {"pc", "cfa"} \subseteq Regs(last)
      BY <2>6
    <3>2. k \in 1 .. k
      BY <2>3
    <3>3. DOMAIN LinesOf(n)[k] \subseteq UNION {DOMAIN LinesOf(n)[i] : i \in 1 .. k}
      BY <3>2
    <3>4. QED
      BY <2>7, <3>1, <3>3
  <2>9. QED
    BY <2>2, <2>3, <2>5, <2>8 DEF TableDone, OrderOf
<1>7. CfiTypeOK
  <2>1. cfiPc \in {"read", "decode", "raised"} /\ framePos \in 1 .. Len(frames) + 1 /\ at \in 1 .. Len(frames) + 1
    BY <1>2 DEF FramesRead
  <2>2. known \subseteq DOMAIN frames
    BY <1>2 DEF FramesRead, SectionIs
  <2>3. ToSet(got) \subseteq known
    <3>1. got \in Seq(known)
      BY <1>2 DEF FramesRead
    <3>2. QED
      BY <3>1 DEF ToSet
  <2>4. ASSUME NEW n \in DOMAIN frames PROVE ToSet(decoded[n]) \subseteq DOMAIN heap
    <3>1. CASE Decoded(n)
      BY <1>3, <1>4, <3>1 DEF TableDone, ToSet
    <3>2. CASE ~Decoded(n)
      BY <3>2 DEF Decoded, ToSet
    <3>3. QED
      BY <3>1, <3>2
  <2>5. ToSet(saved) \subseteq DOMAIN heap /\ ToSet(table) \subseteq DOMAIN heap
    <3>1. /\ IsSequence(saved) /\ \A i \in 1 .. Len(saved) : saved[i] \in DOMAIN heap
          /\ IsSequence(table) /\ \A i \in 1 .. Len(table) : table[i] \in DOMAIN heap
      BY <1>4 DEF CfiInv, StackAndTable
    <3>2. DOMAIN saved = 1 .. Len(saved) /\ DOMAIN table = 1 .. Len(table)
      BY <3>1 DEF IsSequence
    <3>3. QED
      BY <3>1, <3>2 DEF ToSet
  <2>6. Len(busy) <= 2 /\ (Len(busy) = 2 => frames[busy[2]].of = busy[1])
    <3>1. \/ busy = << >>
          \/ \E n \in DOMAIN frames : busy = << n >>
          \/ \E m, n \in DOMAIN frames : busy = << m, n >> /\ frames[n].of = m
      BY DEF CfiInv, BusyIs, OneIs, TwoAre
    <3>2. busy = << >> => Len(busy) = 0
      OBVIOUS
    <3>3. ASSUME NEW n \in DOMAIN frames, busy = << n >> PROVE Len(busy) = 1
      BY <3>3
    <3>4. ASSUME NEW m \in DOMAIN frames, NEW n \in DOMAIN frames, busy = << m, n >>, frames[n].of = m
          PROVE  Len(busy) = 2 /\ frames[busy[2]].of = busy[1]
      BY <3>4
    <3>5. QED
      BY <3>1, <3>2, <3>3, <3>4
  <2>7. QED
    BY <2>1, <2>2, <2>3, <2>4, <2>5, <2>6 DEF CfiTypeOK
<1>8. QED
  BY <1>1, <1>5, <1>6, <1>7

\* The invariant of the section and its tables holds always.
LEMMA CfiAlways == CfiSpec => []CfiInv
<1>1. CfiInit => CfiInv
  BY CfiInvInit
<1>2. CfiInv /\ [CfiNext]_cfiVars => CfiInv'
  BY CfiInvNext, CfiStutter
<1>3. QED
  BY <1>1, <1>2, PTL DEF CfiSpec

\* The entries of a section are read in its order up to the first CIE that an
\* earlier FDE points at, and that one for ever then; the table of an entry is
\* what its instructions come to, with those that save and restore a rule or a
\* state changing nothing; and its order of registers names each once: for
\* every section, whichever tables are asked for and in which order.
THEOREM TablesStayExact == CfiSpec => [](CfiTypeOK /\ EntriesInOrder /\ DecodedAsWritten /\ RegOrderExact)
<1>1. CfiInv => CfiTypeOK /\ EntriesInOrder /\ DecodedAsWritten /\ RegOrderExact
  BY CfiInvMeans
<1>2. QED
  BY <1>1, CfiAlways, PTL

\* A line of a table that was returned is never written again, whichever
\* entries are decoded later.
THEOREM LinesStayFinal == CfiSpec => LinesAreFinal
<1>1. CfiInv /\ [CfiNext]_cfiVars => [\A n \in DOMAIN frames : Decoded(n) => LinesOf(n)' = LinesOf(n)]_cfiVars
  BY CfiInvNext DEF LinesKept
<1>2. QED
  BY <1>1, CfiAlways, PTL DEF CfiSpec, LinesAreFinal

\* The number that the last n digits are.
NumbersTo(F, digits, w, n) == F = [k \in 0 .. n |-> IF k = 0 THEN 0 ELSE F[k - 1] * w + digits[Len(digits) + 1 - k]]

\* The numbers that the last digits are, one by one.
LEMMA NumbersToAt ==
  ASSUME NEW F, NEW digits, NEW w, NEW n, NumbersTo(F, digits, w, n)
  PROVE  \A k \in 0 .. n : F[k] = IF k = 0 THEN 0 ELSE F[k - 1] * w + digits[Len(digits) + 1 - k]
BY DEF NumbersTo

\* There are such numbers, for any digits.
LEMMA NumbersToExists ==
  ASSUME NEW digits, NEW w PROVE \A n \in Nat : \E F : NumbersTo(F, digits, w, n)
<1> DEFINE G == {n \in Nat : \E F : NumbersTo(F, digits, w, n)}
<1>1. 0 \in G
  <2>1. PICK F : F = [k \in 0 .. 0 |-> 0]
    OBVIOUS
  <2>2. F = [k \in 0 .. 0 |-> IF k = 0 THEN 0 ELSE F[k - 1] * w + digits[Len(digits) + 1 - k]]
    BY <2>1
  <2>3. QED
    BY <2>2 DEF NumbersTo
<1>2. ASSUME NEW n \in Nat, n \in G PROVE n + 1 \in G
  <2>1. SUFFICES \E F : NumbersTo(F, digits, w, n + 1)
    OBVIOUS
  <2>2. PICK F : NumbersTo(F, digits, w, n)
    BY <1>2
  <2> DEFINE H == [k \in 0 .. n + 1 |-> IF k = 0 THEN 0 ELSE F[k - 1] * w + digits[Len(digits) + 1 - k]]
  <2>3. ASSUME NEW k \in 0 .. n PROVE H[k] = F[k]
    <3>1. F[k] = IF k = 0 THEN 0 ELSE F[k - 1] * w + digits[Len(digits) + 1 - k]
      BY <2>2, NumbersToAt
    <3>2. k \in 0 .. n + 1
      OBVIOUS
    <3>3. H[k] = IF k = 0 THEN 0 ELSE F[k - 1] * w + digits[Len(digits) + 1 - k]
      BY <3>2
    <3> HIDE DEF H
    <3>4. QED
      BY <3>1, <3>3
  <2>4. ASSUME NEW k \in 0 .. n + 1
        PROVE  H[k] = IF k = 0 THEN 0 ELSE H[k - 1] * w + digits[Len(digits) + 1 - k]
    <3>1. CASE k = 0
      BY <3>1
    <3>2. CASE k # 0
      <4>1. k - 1 \in 0 .. n
        BY <3>2
      <4>2. H[k - 1] = F[k - 1]
        BY <2>3, <4>1
      <4>3. H[k] = F[k - 1] * w + digits[Len(digits) + 1 - k]
        BY <3>2
      <4> HIDE DEF H
      <4>4. QED
        BY <3>2, <4>2, <4>3
    <3>3. QED
      BY <3>1, <3>2
  <2>5. H = [k \in 0 .. n + 1 |-> H[k]]
    OBVIOUS
  <2> HIDE DEF H
  <2>6. H = [k \in 0 .. n + 1 |-> IF k = 0 THEN 0 ELSE H[k - 1] * w + digits[Len(digits) + 1 - k]]
    BY <2>4, <2>5
  <2>7. QED
    BY <2>6 DEF NumbersTo
<1> HIDE DEF G
<1>3. Nat \subseteq G
  BY <1>1, <1>2, AllNumbers
<1>4. QED
  BY <1>3 DEF G

\* The operands taken, up to each of the first n.
TakenTo(F, kinds, b, pos, s, n) == F = [k \in 0 .. n |-> IF k = 0 THEN Took(<< >>, pos) ELSE TakeNext(F[k - 1], kinds[k], b, s)]

\* The operands taken, one by one.
LEMMA TakenToAt ==
  ASSUME NEW F, NEW kinds, NEW b, NEW pos, NEW s, NEW n, TakenTo(F, kinds, b, pos, s, n)
  PROVE  \A k \in 0 .. n : F[k] = IF k = 0 THEN Took(<< >>, pos) ELSE TakeNext(F[k - 1], kinds[k], b, s)
BY DEF TakenTo

\* They can be taken from any bytes.
LEMMA TakenToExists ==
  ASSUME NEW kinds, NEW b, NEW pos, NEW s PROVE \A n \in Nat : \E F : TakenTo(F, kinds, b, pos, s, n)
<1> DEFINE G == {n \in Nat : \E F : TakenTo(F, kinds, b, pos, s, n)}
<1>1. 0 \in G
  <2>1. PICK F : F = [k \in 0 .. 0 |-> Took(<< >>, pos)]
    OBVIOUS
  <2>2. F = [k \in 0 .. 0 |-> IF k = 0 THEN Took(<< >>, pos) ELSE TakeNext(F[k - 1], kinds[k], b, s)]
    BY <2>1
  <2>3. QED
    BY <2>2 DEF TakenTo
<1>2. ASSUME NEW n \in Nat, n \in G PROVE n + 1 \in G
  <2>1. SUFFICES \E F : TakenTo(F, kinds, b, pos, s, n + 1)
    OBVIOUS
  <2>2. PICK F : TakenTo(F, kinds, b, pos, s, n)
    BY <1>2
  <2> DEFINE H == [k \in 0 .. n + 1 |-> IF k = 0 THEN Took(<< >>, pos) ELSE TakeNext(F[k - 1], kinds[k], b, s)]
  <2>3. ASSUME NEW k \in 0 .. n PROVE H[k] = F[k]
    <3>1. F[k] = IF k = 0 THEN Took(<< >>, pos) ELSE TakeNext(F[k - 1], kinds[k], b, s)
      BY <2>2, TakenToAt
    <3>2. k \in 0 .. n + 1
      OBVIOUS
    <3>3. H[k] = IF k = 0 THEN Took(<< >>, pos) ELSE TakeNext(F[k - 1], kinds[k], b, s)
      BY <3>2
    <3> HIDE DEF H
    <3>4. QED
      BY <3>1, <3>3
  <2>4. ASSUME NEW k \in 0 .. n + 1
        PROVE  H[k] = IF k = 0 THEN Took(<< >>, pos) ELSE TakeNext(H[k - 1], kinds[k], b, s)
    <3>1. CASE k = 0
      BY <3>1
    <3>2. CASE k # 0
      <4>1. k - 1 \in 0 .. n
        BY <3>2
      <4>2. H[k - 1] = F[k - 1]
        BY <2>3, <4>1
      <4>3. H[k] = TakeNext(F[k - 1], kinds[k], b, s)
        BY <3>2
      <4> HIDE DEF H
      <4>4. QED
        BY <3>2, <4>2, <4>3
    <3>3. QED
      BY <3>1, <3>2
  <2>5. H = [k \in 0 .. n + 1 |-> H[k]]
    OBVIOUS
  <2> HIDE DEF H
  <2>6. H = [k \in 0 .. n + 1 |-> IF k = 0 THEN Took(<< >>, pos) ELSE TakeNext(H[k - 1], kinds[k], b, s)]
    BY <2>4, <2>5
  <2>7. QED
    BY <2>6 DEF TakenTo
<1> HIDE DEF G
<1>3. Nat \subseteq G
  BY <1>1, <1>2, AllNumbers
<1>4. QED
  BY <1>3 DEF G

\* The pc of the table, up to each of the first n instructions.
PcsTo(F, q, n) == F = [k \in 0 .. n |-> IF k = 0 THEN StartPc ELSE TablePcNext(q[k], F[k - 1])]

\* The offsets a description has come to, one by one.
LEMMA PcsToAt ==
  ASSUME NEW F, NEW q, NEW n, PcsTo(F, q, n)
  PROVE  \A k \in 0 .. n : F[k] = IF k = 0 THEN StartPc ELSE TablePcNext(q[k], F[k - 1])
BY DEF PcsTo

\* There are such offsets, for any instructions.
LEMMA PcsToExists ==
  ASSUME NEW q PROVE \A n \in Nat : \E F : PcsTo(F, q, n)
<1> DEFINE G == {n \in Nat : \E F : PcsTo(F, q, n)}
<1>1. 0 \in G
  <2>1. PICK F : F = [k \in 0 .. 0 |-> StartPc]
    OBVIOUS
  <2>2. F = [k \in 0 .. 0 |-> IF k = 0 THEN StartPc ELSE TablePcNext(q[k], F[k - 1])]
    BY <2>1
  <2>3. QED
    BY <2>2 DEF PcsTo
<1>2. ASSUME NEW n \in Nat, n \in G PROVE n + 1 \in G
  <2>1. SUFFICES \E F : PcsTo(F, q, n + 1)
    OBVIOUS
  <2>2. PICK F : PcsTo(F, q, n)
    BY <1>2
  <2> DEFINE H == [k \in 0 .. n + 1 |-> IF k = 0 THEN StartPc ELSE TablePcNext(q[k], F[k - 1])]
  <2>3. ASSUME NEW k \in 0 .. n PROVE H[k] = F[k]
    <3>1. F[k] = IF k = 0 THEN StartPc ELSE TablePcNext(q[k], F[k - 1])
      BY <2>2, PcsToAt
    <3>2. k \in 0 .. n + 1
      OBVIOUS
    <3>3. H[k] = IF k = 0 THEN StartPc ELSE TablePcNext(q[k], F[k - 1])
      BY <3>2
    <3> HIDE DEF H
    <3>4. QED
      BY <3>1, <3>3
  <2>4. ASSUME NEW k \in 0 .. n + 1
        PROVE  H[k] = IF k = 0 THEN StartPc ELSE TablePcNext(q[k], H[k - 1])
    <3>1. CASE k = 0
      BY <3>1
    <3>2. CASE k # 0
      <4>1. k - 1 \in 0 .. n
        BY <3>2
      <4>2. H[k - 1] = F[k - 1]
        BY <2>3, <4>1
      <4>3. H[k] = TablePcNext(q[k], F[k - 1])
        BY <3>2
      <4> HIDE DEF H
      <4>4. QED
        BY <3>2, <4>2, <4>3
    <3>3. QED
      BY <3>1, <3>2
  <2>5. H = [k \in 0 .. n + 1 |-> H[k]]
    OBVIOUS
  <2> HIDE DEF H
  <2>6. H = [k \in 0 .. n + 1 |-> IF k = 0 THEN StartPc ELSE TablePcNext(q[k], H[k - 1])]
    BY <2>4, <2>5
  <2>7. QED
    BY <2>6 DEF PcsTo
<1> HIDE DEF G
<1>3. Nat \subseteq G
  BY <1>1, <1>2, AllNumbers
<1>4. QED
  BY <1>3 DEF G

\* A number of digits.
LEMMA NumberIs == ASSUME NEW digits \in Seq(Nat), NEW w \in Nat PROVE NumberOf(digits, w) \in Nat
<1>1. PICK F : F = CHOOSE H : NumbersTo(H, digits, w, Len(digits))
  OBVIOUS
<1>2. NumberOf(digits, w) = F[Len(digits)]
  BY <1>1 DEF NumberOf, NumbersTo
<1>3. NumbersTo(F, digits, w, Len(digits))
  <2>1. \E H : NumbersTo(H, digits, w, Len(digits))
    <3>1. Len(digits) \in Nat
      OBVIOUS
    <3>2. QED
      BY ONLY <3>1, NumbersToExists
  <2>2. QED
    BY <1>1, <2>1
<1>4. PICK n \in Nat : n = Len(digits)
  OBVIOUS
<1> DEFINE G == {k \in Nat : k \in 0 .. n => F[k] \in Nat}
<1>5. 0 \in G
  <2>1. 0 \in 0 .. n
    BY <1>4
  <2>2. F[0] = 0
    BY <1>3, <1>4, <2>1, NumbersToAt
  <2>3. QED
    BY <2>2
<1>6. ASSUME NEW k \in Nat, k \in G PROVE k + 1 \in G
  <2>1. SUFFICES ASSUME k + 1 \in 0 .. n PROVE F[k + 1] \in Nat
    OBVIOUS
  <2>2. k \in 0 .. n /\ k + 1 # 0 /\ (k + 1) - 1 = k /\ n + 1 - (k + 1) \in 1 .. n
    BY <2>1
  <2>3. F[k + 1] = F[(k + 1) - 1] * w + digits[n + 1 - (k + 1)]
    <3>1. NumbersTo(F, digits, w, n)
      BY <1>3, <1>4
    <3>2. \A j \in 0 .. n : F[j] = IF j = 0 THEN 0 ELSE F[j - 1] * w + digits[Len(digits) + 1 - j]
      BY ONLY <3>1, NumbersToAt
    <3>3. QED
      BY <1>4, <2>1, <2>2, <3>2
  <2>4. PICK x \in Nat, y \in Nat : x = F[k] /\ y = digits[n + 1 - (k + 1)]
    BY <1>4, <1>6, <2>2
  <2>5. F[k + 1] = x * w + y
    BY <2>2, <2>3, <2>4
  <2>6. x * w \in Nat
    OBVIOUS
  <2>7. QED
    BY <2>5, <2>6
<1> HIDE DEF G
<1>7. Nat \subseteq G
  BY <1>5, <1>6, AllNumbers
<1>8. QED
  BY <1>2, <1>4, <1>7 DEF G

\* The bytes of b are in c, behind d others.
Inside(b, c, d) ==
  /\ b \in Seq(Octets) /\ c \in Seq(Octets) /\ d \in Nat
  /\ d + Len(b) <= Len(c) /\ \A i \in 1 .. Len(b) : c[d + i] = b[i]

\* What is read of b is read of c.
Same(x, y, b, d) == x.ok => y.ok /\ y.val = x.val /\ x.pos \in 0 .. Len(b) /\ y.pos = d + x.pos

\* A run of bytes.
LEMMA BytesInside ==
  ASSUME NEW b, NEW c, NEW d, Inside(b, c, d), NEW p \in 0 .. Len(b), NEW n \in Nat
  PROVE  Same(TakeBytes(n, b, p), TakeBytes(n, c, d + p), b, d)
<1>1. /\ b \in Seq(Octets) /\ c \in Seq(Octets) /\ d \in Nat /\ Len(b) \in Nat /\ Len(c) \in Nat
      /\ d + Len(b) <= Len(c) /\ \A i \in 1 .. Len(b) : c[d + i] = b[i]
  BY DEF Inside
<1>2. CASE p + n <= Len(b)
  <2>1. PICK x, y : x = SubSeq(b, p + 1, p + n) /\ y = SubSeq(c, (d + p) + 1, (d + p) + n)
    OBVIOUS
  <2>2. x \in Seq(Octets) /\ Len(x) = n /\ \A i \in 1 .. n : x[i] = b[p + i]
    <3>1. p \in Nat /\ p + n \in Nat /\ p <= p + n /\ (p + n) - p = n
      BY <1>1
    <3>2. IsCut(Octets, Cut(b, p, p + n), b, p, p + n)
      BY <1>1, <1>2, <3>1, CutIs
    <3>3. Cut(b, p, p + n) = x
      BY <2>1 DEF Cut
    <3>4. QED
      BY ONLY <3>1, <3>2, <3>3 DEF IsCut
  <2>3. y \in Seq(Octets) /\ Len(y) = n /\ \A i \in 1 .. n : y[i] = c[(d + p) + i]
    <3>1. PICK g \in Nat, e \in Nat : g = d + p /\ e = g + n /\ g <= e /\ e - g = n /\ e <= Len(c)
      BY <1>1, <1>2
    <3>2. IsCut(Octets, Cut(c, g, e), c, g, e)
      BY <1>1, <3>1, CutIs
    <3>3. Cut(c, g, e) = y
      BY <2>1, <3>1 DEF Cut
    <3>4. QED
      BY ONLY <3>1, <3>2, <3>3 DEF IsCut
  <2>4. ASSUME NEW i \in 1 .. n PROVE x[i] = y[i]
    <3>1. p + i \in 1 .. Len(b) /\ (d + p) + i = d + (p + i)
      BY <1>1, <1>2
    <3>2. QED
      BY <1>1, <2>2, <2>3, <3>1
  <2>5. x = y
    BY <2>2, <2>3, <2>4, SeqEqual
  <2>6. TakeBytes(n, b, p) = Took(x, p + n)
    BY <1>2, <2>1 DEF TakeBytes
  <2>7. (d + p) + n <= Len(c) /\ (d + p) + n = d + (p + n) /\ p + n \in 0 .. Len(b)
    BY <1>1, <1>2
  <2>8. TakeBytes(n, c, d + p) = Took(y, d + (p + n))
    BY <2>1, <2>7 DEF TakeBytes
  <2>9. QED
    BY <2>5, <2>6, <2>7, <2>8 DEF Same, Took
<1>3. CASE ~(p + n <= Len(b))
  BY <1>3 DEF TakeBytes, Same, Short
<1>4. QED
  BY <1>2, <1>3

\* What TakeLeb does with the bytes up to the end.
LebTo(b, p, signed, e) ==
  LET n == NumberOf([i \in 1 .. e - p |-> b[p + i] % 128], 128)
  IN Took(IF signed /\ b[e] >= 64 THEN n - 128^(e - p) ELSE n, e)

\* A LEB128 number.
LEMMA LebInside ==
  ASSUME NEW b, NEW c, NEW d, Inside(b, c, d), NEW p \in 0 .. Len(b), NEW signed
  PROVE  /\ Same(TakeLeb(b, p, signed), TakeLeb(c, d + p, signed), b, d)
         /\ TakeLeb(b, p, FALSE).ok => TakeLeb(b, p, FALSE).val \in Nat
<1>1. /\ b \in Seq(Octets) /\ c \in Seq(Octets) /\ d \in Nat /\ Len(b) \in Nat /\ Len(c) \in Nat
      /\ d + Len(b) <= Len(c) /\ \A i \in 1 .. Len(b) : c[d + i] = b[i]
  BY DEF Inside
<1>2. PICK B, C : B = {i \in p + 1 .. Len(b) : b[i] < 128} /\ C = {i \in (d + p) + 1 .. Len(c) : c[i] < 128}
  OBVIOUS
<1>3. \A g : TakeLeb(b, p, g) = IF B = {} THEN Short(Len(b)) ELSE LebTo(b, p, g, Min(B))
  BY <1>2 DEF TakeLeb, LebTo
<1>4. TakeLeb(c, d + p, signed) = IF C = {} THEN Short(Len(c)) ELSE LebTo(c, d + p, signed, Min(C))
  BY <1>2 DEF TakeLeb, LebTo
<1>5. CASE B = {}
  <2>1. PICK x, y, z : x = TakeLeb(b, p, signed) /\ y = TakeLeb(b, p, FALSE) /\ z = TakeLeb(c, d + p, signed)
    OBVIOUS
  <2>2. x = Short(Len(b)) /\ y = Short(Len(b))
    BY <1>3, <1>5, <2>1
  <2>3. ~x.ok /\ ~y.ok
    BY <2>2 DEF Short
  <2>4. Same(x, z, b, d)
    BY <2>3 DEF Same
  <2>5. QED
    BY <2>1, <2>3, <2>4
<1>6. CASE B # {}
  <2>1. PICK e : e = Min(B)
    OBVIOUS
  <2>2. B \subseteq Nat /\ C \subseteq Nat
    BY <1>1, <1>2
  <2>3. e \in B /\ \A i \in B : e <= i
    BY <1>6, <2>1, <2>2, MinIsLeast
  <2>4. e \in p + 1 .. Len(b) /\ b[e] < 128 /\ e \in 1 .. Len(b)
    BY <1>1, <1>2, <2>3
  <2>5. d + e \in C /\ c[d + e] = b[e]
    BY <1>1, <1>2, <2>4
  <2>6. PICK z : z = Min(C)
    OBVIOUS
  <2>7. z \in C /\ \A i \in C : z <= i
    BY <2>2, <2>5, <2>6, MinIsLeast
  <2>8. z = d + e
    <3>1. z \in Nat /\ (d + p) + 1 <= z /\ z <= d + e /\ c[z] < 128
      BY <1>1, <1>2, <2>4, <2>5, <2>7
    <3>2. PICK i \in 1 .. Len(b) : z = d + i /\ p + 1 <= i
      <4>1. z - d \in 1 .. Len(b) /\ z = d + (z - d) /\ p + 1 <= z - d
        BY <1>1, <2>4, <3>1
      <4>2. QED
        BY <4>1
    <3>3. i \in B
      BY <1>1, <1>2, <3>1, <3>2
    <3>4. QED
      BY <1>1, <2>3, <2>4, <3>1, <3>2, <3>3
  <2>9. PICK f : f = [i \in 1 .. e - p |-> b[p + i] % 128]
    OBVIOUS
  <2>10. [i \in 1 .. (d + e) - (d + p) |-> c[(d + p) + i] % 128] = f
    <3>1. (d + e) - (d + p) = e - p
      BY <1>1, <2>4
    <3>2. ASSUME NEW i \in 1 .. e - p PROVE c[(d + p) + i] = b[p + i]
      <4>1. p + i \in 1 .. Len(b) /\ (d + p) + i = d + (p + i)
        BY <1>1, <2>4
      <4>2. QED
        BY <1>1, <4>1
    <3>3. QED
      BY <2>9, <3>1, <3>2
  <2>11. f \in Seq(Nat)
    <3>1. e - p \in Nat
      BY <2>4
    <3>2. ASSUME NEW i \in 1 .. e - p PROVE b[p + i] % 128 \in Nat
      <4>1. p + i \in 1 .. Len(b)
        BY <1>1, <2>4
      <4>2. b[p + i] \in Octets
        BY <1>1, <4>1
      <4>6. \A v \in Octets : v \in Nat
        BY DEF Octets
      <4>3. PICK v \in Nat : v = b[p + i]
        BY <4>2, <4>6
      <4>4. v % 128 \in Nat
        OBVIOUS
      <4>5. QED
        BY <4>3, <4>4
    <3>3. f \in [1 .. e - p -> Nat]
      BY <2>9, <3>2
    <3>4. QED
      BY <3>1, <3>3, SeqDef
  <2>12. PICK n \in Nat : n = NumberOf(f, 128)
    BY <2>11, NumberIs
  <2>13. \A g : LebTo(b, p, g, e) = Took(IF g /\ b[e] >= 64 THEN n - 128^(e - p) ELSE n, e)
    BY <2>9, <2>12 DEF LebTo
  <2>14. LebTo(c, d + p, signed, d + e) = Took(IF signed /\ b[e] >= 64 THEN n - 128^(e - p) ELSE n, d + e)
    <3>1. (d + e) - (d + p) = e - p
      BY <1>1, <2>4
    <3>2. QED
      BY <2>5, <2>10, <2>12, <3>1 DEF LebTo
  <2>15. TakeLeb(b, p, signed) = LebTo(b, p, signed, e) /\ TakeLeb(b, p, FALSE) = LebTo(b, p, FALSE, e)
    BY <1>3, <1>6, <2>1
  <2>16. TakeLeb(c, d + p, signed) = LebTo(c, d + p, signed, d + e)
    BY <1>4, <2>5, <2>6, <2>8
  <2>17. TakeLeb(b, p, FALSE).val = n
    <3>1. LebTo(b, p, FALSE, e) = Took(IF FALSE /\ b[e] >= 64 THEN n - 128^(e - p) ELSE n, e)
      BY <2>13
    <3>2. TakeLeb(b, p, FALSE) = Took(n, e)
      BY <2>15, <3>1
    <3>4. PICK x : x = TakeLeb(b, p, FALSE)
      OBVIOUS
    <3>6. x = Took(n, e)
      BY <3>2, <3>4
    <3>5. x.val = n
      BY <3>6 DEF Took
    <3>3. QED
      BY <3>4, <3>5
  <2>18. Same(TakeLeb(b, p, signed), TakeLeb(c, d + p, signed), b, d)
    <3>1. PICK v : v = IF signed /\ b[e] >= 64 THEN n - 128^(e - p) ELSE n
      OBVIOUS
    <3>2. TakeLeb(b, p, signed) = Took(v, e) /\ TakeLeb(c, d + p, signed) = Took(v, d + e)
      BY <2>13, <2>14, <2>15, <2>16, <3>1
    <3>3. e \in 0 .. Len(b)
      BY <2>4
    <3>4. QED
      BY <3>2, <3>3 DEF Same, Took
  <2>19. QED
    BY <2>12, <2>17, <2>18
<1>7. QED
  BY <1>5, <1>6

\* A block, whose length is a LEB128 number.
LEMMA BlockInside ==
  ASSUME NEW b, NEW c, NEW d, Inside(b, c, d), NEW p \in 0 .. Len(b)
  PROVE  Same(TakeBlock(b, p), TakeBlock(c, d + p), b, d)
<1>1. PICK x, y : x = TakeLeb(b, p, FALSE) /\ y = TakeLeb(c, d + p, FALSE)
  OBVIOUS
<1>2. Same(x, y, b, d) /\ (x.ok => x.val \in Nat)
  BY <1>1, LebInside
<1>3. /\ TakeBlock(b, p) = IF x.ok THEN TakeBytes(x.val, b, x.pos) ELSE x
      /\ TakeBlock(c, d + p) = IF y.ok THEN TakeBytes(y.val, c, y.pos) ELSE y
  BY <1>1 DEF TakeBlock
<1>4. CASE ~x.ok
  BY <1>3, <1>4 DEF Same
<1>5. CASE x.ok
  <2>1. y.ok /\ y.val = x.val /\ x.pos \in 0 .. Len(b) /\ y.pos = d + x.pos /\ x.val \in Nat
    BY <1>2, <1>5 DEF Same
  <2>2. Same(TakeBytes(x.val, b, x.pos), TakeBytes(x.val, c, d + x.pos), b, d)
    BY <2>1, BytesInside
  <2>3. QED
    BY <1>3, <1>5, <2>1, <2>2
<1>6. QED
  BY <1>4, <1>5

\* The operands that the instructions have.
Kinds == {"uleb", "sleb", "block", "u8", "u16", "u32", "addr"}

\* An operand of any kind.
LEMMA OperandInside ==
  ASSUME NEW b, NEW c, NEW d, Inside(b, c, d), NEW p \in 0 .. Len(b), NEW kind \in Kinds, NEW s, s.addr \in Nat
  PROVE  Same(TakeOperand(kind, b, p, s), TakeOperand(kind, c, d + p, s), b, d)
<1>1. CASE kind = "uleb"
  <2>1. TakeOperand(kind, b, p, s) = TakeLeb(b, p, FALSE) /\ TakeOperand(kind, c, d + p, s) = TakeLeb(c, d + p, FALSE)
    BY <1>1 DEF TakeOperand
  <2>2. QED
    BY <2>1, LebInside
<1>2. CASE kind = "sleb"
  <2>1. TakeOperand(kind, b, p, s) = TakeLeb(b, p, TRUE) /\ TakeOperand(kind, c, d + p, s) = TakeLeb(c, d + p, TRUE)
    BY <1>2 DEF TakeOperand
  <2>2. QED
    BY <2>1, LebInside
<1>3. CASE kind = "block"
  <2>1. TakeOperand(kind, b, p, s) = TakeBlock(b, p) /\ TakeOperand(kind, c, d + p, s) = TakeBlock(c, d + p)
    BY <1>3 DEF TakeOperand
  <2>2. QED
    BY <2>1, BlockInside
<1>4. CASE kind \in {"u8", "u16", "u32", "addr"}
  <2>1. PICK n \in Nat : n = OperandSize(kind, s)
    BY <1>4 DEF OperandSize
  <2>2. TakeOperand(kind, b, p, s) = TakeBytes(n, b, p) /\ TakeOperand(kind, c, d + p, s) = TakeBytes(n, c, d + p)
    BY <1>4, <2>1 DEF TakeOperand
  <2>3. QED
    BY <2>2, BytesInside
<1>5. QED
  BY <1>1, <1>2, <1>3, <1>4 DEF Kinds

\* The operands are what was chosen.
LEMMA TakenIs ==
  ASSUME NEW kinds, Len(kinds) \in Nat, NEW b, NEW pos, NEW s
  PROVE  \E F : /\ TakeOperands(kinds, b, pos, s) = F[Len(kinds)]
                /\ \A k \in 0 .. Len(kinds) :
                     F[k] = IF k = 0 THEN Took(<< >>, pos) ELSE TakeNext(F[k - 1], kinds[k], b, s)
<1>1. PICK F : F = CHOOSE H : TakenTo(H, kinds, b, pos, s, Len(kinds))
  OBVIOUS
<1>2. TakeOperands(kinds, b, pos, s) = F[Len(kinds)]
  BY <1>1 DEF TakeOperands, TakenTo
<1>3. TakenTo(F, kinds, b, pos, s, Len(kinds))
  <2>1. \E H : TakenTo(H, kinds, b, pos, s, Len(kinds))
    BY ONLY Len(kinds) \in Nat, TakenToExists
  <2>2. QED
    BY <1>1, <2>1
<1>4. \A k \in 0 .. Len(kinds) :
        F[k] = IF k = 0 THEN Took(<< >>, pos) ELSE TakeNext(F[k - 1], kinds[k], b, s)
  BY ONLY <1>3, TakenToAt
<1>5. QED
  BY <1>2, <1>4

\* One operand more.
LEMMA NextInside ==
  ASSUME NEW b, NEW c, NEW d, Inside(b, c, d), NEW kind \in Kinds, NEW s, s.addr \in Nat,
         NEW x, NEW y, Same(x, y, b, d)
  PROVE  Same(TakeNext(x, kind, b, s), TakeNext(y, kind, c, s), b, d)
<1>1. CASE ~x.ok
  <2>1. TakeNext(x, kind, b, s) = x
    BY <1>1 DEF TakeNext
  <2>2. QED
    BY <1>1, <2>1 DEF Same
<1>2. CASE x.ok
  <2>1. y.ok /\ y.val = x.val /\ x.pos \in 0 .. Len(b) /\ y.pos = d + x.pos
    BY <1>2 DEF Same
  <2>2. PICK r, t : r = TakeOperand(kind, b, x.pos, s) /\ t = TakeOperand(kind, c, y.pos, s)
    OBVIOUS
  <2>3. Same(r, t, b, d)
    BY <2>1, <2>2, OperandInside
  <2>4. /\ TakeNext(x, kind, b, s) = IF r.ok THEN Took(Append(x.val, r.val), r.pos) ELSE Short(r.pos)
        /\ TakeNext(y, kind, c, s) = IF t.ok THEN Took(Append(y.val, t.val), t.pos) ELSE Short(t.pos)
    BY <1>2, <2>1, <2>2 DEF TakeNext
  <2>5. CASE ~r.ok
    <3>1. PICK z : z = TakeNext(x, kind, b, s)
      OBVIOUS
    <3>2. z = Short(r.pos)
      BY <2>4, <2>5, <3>1
    <3>3. ~z.ok
      BY <3>2 DEF Short
    <3>4. QED
      BY <3>1, <3>3 DEF Same
  <2>6. CASE r.ok
    <3>1. t.ok /\ t.val = r.val /\ r.pos \in 0 .. Len(b) /\ t.pos = d + r.pos
      BY <2>3, <2>6 DEF Same
    <3>2. PICK v : v = Append(x.val, r.val)
      OBVIOUS
    <3>3. TakeNext(x, kind, b, s) = Took(v, r.pos) /\ TakeNext(y, kind, c, s) = Took(v, d + r.pos)
      BY <2>1, <2>4, <2>6, <3>1, <3>2
    <3>4. Same(Took(v, r.pos), Took(v, d + r.pos), b, d)
      BY <3>1 DEF Same, Took
    <3>5. QED
      BY <3>3, <3>4
  <2>7. QED
    BY <2>5, <2>6
<1>3. QED
  BY <1>1, <1>2

\* The operands of an instruction.
LEMMA TakenInside ==
  ASSUME NEW b, NEW c, NEW d, Inside(b, c, d), NEW kinds \in Seq(Kinds), NEW s, s.addr \in Nat
  PROVE  Same(TakeOperands(kinds, b, 0, s), TakeOperands(kinds, c, d, s), b, d)
<1>1. PICK n \in Nat : n = Len(kinds)
  OBVIOUS
<1>2. PICK F : /\ TakeOperands(kinds, b, 0, s) = F[n]
               /\ \A k \in 0 .. n : F[k] = IF k = 0 THEN Took(<< >>, 0) ELSE TakeNext(F[k - 1], kinds[k], b, s)
  BY <1>1, TakenIs
<1>3. PICK H : /\ TakeOperands(kinds, c, d, s) = H[n]
               /\ \A k \in 0 .. n : H[k] = IF k = 0 THEN Took(<< >>, d) ELSE TakeNext(H[k - 1], kinds[k], c, s)
  BY <1>1, TakenIs
<1> DEFINE G == {k \in Nat : k \in 0 .. n => Same(F[k], H[k], b, d)}
<1>4. 0 \in G
  <2>1. F[0] = Took(<< >>, 0) /\ H[0] = Took(<< >>, d)
    BY <1>2, <1>3
  <2>2. d \in Nat /\ Len(b) \in Nat
    BY DEF Inside
  <2>3. Same(Took(<< >>, 0), Took(<< >>, d), b, d)
    BY <2>2 DEF Same, Took
  <2>4. QED
    BY <2>1, <2>3
<1>5. ASSUME NEW k \in Nat, k \in G PROVE k + 1 \in G
  <2>1. SUFFICES ASSUME k + 1 \in 0 .. n PROVE Same(F[k + 1], H[k + 1], b, d)
    OBVIOUS
  <2>2. k \in 0 .. n /\ k + 1 # 0 /\ (k + 1) - 1 = k /\ k + 1 \in 1 .. n
    BY <2>1
  <2>3. F[k + 1] = TakeNext(F[k], kinds[k + 1], b, s) /\ H[k + 1] = TakeNext(H[k], kinds[k + 1], c, s)
    BY <1>2, <1>3, <2>1, <2>2
  <2>4. kinds[k + 1] \in Kinds
    BY <1>1, <2>2
  <2>5. Same(F[k], H[k], b, d)
    BY <1>5, <2>2
  <2>6. QED
    BY <2>3, <2>4, <2>5, NextInside
<1> HIDE DEF G
<1>6. Nat \subseteq G
  BY <1>4, <1>5, AllNumbers
<1>7. Same(F[n], H[n], b, d)
  <2>1. n \in 0 .. n
    OBVIOUS
  <2>2. QED
    BY <1>6, <2>1 DEF G
<1>8. QED
  BY <1>2, <1>3, <1>7

\* The kinds of operand of an instruction that is known.
LEMMA ArgsAre == ASSUME NEW op PROVE CfiArgs(op) = << "?" >> \/ CfiArgs(op) \in Seq(Kinds)
<1>1. /\ << >> \in Seq(Kinds) /\ << "uleb" >> \in Seq(Kinds) /\ << "addr" >> \in Seq(Kinds)
      /\ << "u8" >> \in Seq(Kinds) /\ << "u16" >> \in Seq(Kinds) /\ << "u32" >> \in Seq(Kinds)
      /\ << "uleb", "uleb" >> \in Seq(Kinds) /\ << "sleb" >> \in Seq(Kinds) /\ << "block" >> \in Seq(Kinds)
      /\ << "uleb", "block" >> \in Seq(Kinds) /\ << "uleb", "sleb" >> \in Seq(Kinds)
  BY DEF Kinds
<1>2. CfiArgs(op) \in {<< "?" >>, << >>, << "uleb" >>, << "addr" >>, << "u8" >>, << "u16" >>, << "u32" >>,
                       << "uleb", "uleb" >>, << "sleb" >>, << "block" >>, << "uleb", "block" >>, << "uleb", "sleb" >>}
  BY DEF CfiArgs
<1>3. QED
  BY <1>1, <1>2

\* What is at a place of one sequence behind another.
LEMMA JoinedAt ==
  ASSUME NEW S, NEW x \in Seq(S), NEW y \in Seq(S)
  PROVE  /\ Joined(x, y) \in Seq(S) /\ Len(Joined(x, y)) = Len(x) + Len(y)
         /\ \A i \in 1 .. Len(x) : Joined(x, y)[i] = x[i]
         /\ \A i \in 1 .. Len(y) : Joined(x, y)[Len(x) + i] = y[i]
BY DEF Joined

\* Of two runs of bytes joined, each lies inside.
LEMMA BehindInside ==
  ASSUME NEW x \in Seq(Octets), NEW y \in Seq(Octets)
  PROVE  Inside(y, Joined(x, y), Len(x)) /\ Inside(x, Joined(x, y), 0)
<1>1. /\ Joined(x, y) \in Seq(Octets) /\ Len(Joined(x, y)) = Len(x) + Len(y)
      /\ \A i \in 1 .. Len(x) : Joined(x, y)[i] = x[i]
      /\ \A i \in 1 .. Len(y) : Joined(x, y)[Len(x) + i] = y[i]
  BY DEF Joined
<1>2. Len(x) \in Nat /\ Len(y) \in Nat
  OBVIOUS
<1>3. \A i \in 1 .. Len(x) : 0 + i = i
  BY <1>2
<1>4. QED
  BY <1>1, <1>2, <1>3 DEF Inside

\* What lies inside something inside lies inside.
LEMMA InsideInside ==
  ASSUME NEW x, NEW y, NEW z, NEW d, NEW e, Inside(x, y, d), Inside(y, z, e)
  PROVE  Inside(x, z, e + d)
<1>1. /\ x \in Seq(Octets) /\ y \in Seq(Octets) /\ z \in Seq(Octets) /\ d \in Nat /\ e \in Nat
      /\ d + Len(x) <= Len(y) /\ (\A i \in 1 .. Len(x) : y[d + i] = x[i])
      /\ e + Len(y) <= Len(z) /\ \A i \in 1 .. Len(y) : z[e + i] = y[i]
  BY DEF Inside
<1>2. Len(x) \in Nat /\ Len(y) \in Nat /\ Len(z) \in Nat
  BY <1>1
<1>3. ASSUME NEW i \in 1 .. Len(x) PROVE z[(e + d) + i] = x[i]
  <2>1. d + i \in 1 .. Len(y) /\ (e + d) + i = e + (d + i)
    BY <1>1, <1>2
  <2>2. QED
    BY <1>1, <2>1
<1>4. (e + d) + Len(x) <= Len(z)
  BY <1>1, <1>2
<1>5. QED
  BY <1>1, <1>3, <1>4 DEF Inside

\* The bytes of the first k instructions of an entry, and how many they are.
CodeFront(k) == FlattenSeq([j \in 1 .. k |-> InstBytes(cfiEntry.code[j])])
StartAt(k) == Len(CodeFront(k))

\* What the assumption says of an entry.
LEMMA EntryIs ==
  ASSUME cfiEntry \in CfiEntries
  PROVE  /\ Len(cfiEntry.code) \in Nat /\ DOMAIN cfiEntry.code = 1 .. Len(cfiEntry.code)
         /\ cfiEntry.cut \in Nat /\ cfiEntry.after \in Seq(Octets)
         /\ \A k \in 1 .. Len(cfiEntry.code) :
              Written(cfiEntry.code[k]) /\ InstBytes(cfiEntry.code[k]) \in Seq(Octets)
         /\ CodeBytes = CodeFront(Len(cfiEntry.code))
<1>1. PICK e : e = cfiEntry /\ e \in CfiEntries
  OBVIOUS
<1>2. e.cut \in Nat /\ e.after \in Seq(Octets) /\ e.code \in Seq(ToSet(e.code)) /\ \A i \in ToSet(e.code) : Written(i)
  BY <1>1, CfiInstructionsAssumption
<1>3. Len(e.code) \in Nat /\ DOMAIN e.code = 1 .. Len(e.code) /\ \A k \in 1 .. Len(e.code) : e.code[k] \in ToSet(e.code)
  BY <1>2
<1>4. ASSUME NEW k \in 1 .. Len(e.code) PROVE Written(e.code[k]) /\ InstBytes(e.code[k]) \in Seq(Octets)
  <2>1. Written(e.code[k])
    BY <1>2, <1>3
  <2>2. e.code[k].op \in Octets /\ e.code[k].raw \in Seq(Octets)
    BY <2>1 DEF Written
  <2>3. << e.code[k].op >> \in Seq(Octets)
    BY <2>2
  <2>4. QED
    BY <2>1, <2>2, <2>3 DEF InstBytes
<1>5. CodeBytes = CodeFront(Len(cfiEntry.code))
  BY <1>1, <1>3 DEF CodeBytes, CodeFront
<1>6. QED
  BY <1>1, <1>2, <1>3, <1>4, <1>5

\* One more instruction is one more run of bytes.
LEMMA CodeFrontNext ==
  ASSUME cfiEntry \in CfiEntries, NEW k \in Nat, k + 1 \in 1 .. Len(cfiEntry.code)
  PROVE  /\ CodeFront(k) \in Seq(Octets)
         /\ CodeFront(k + 1) = Joined(CodeFront(k), InstBytes(cfiEntry.code[k + 1]))
<1>1. PICK q, x : q = [j \in 1 .. k |-> InstBytes(cfiEntry.code[j])] /\ x = InstBytes(cfiEntry.code[k + 1])
  OBVIOUS
<1>2. \A j \in 1 .. k + 1 : InstBytes(cfiEntry.code[j]) \in Seq(Octets)
  BY EntryIs
<1>3. q \in Seq(Seq(Octets)) /\ x \in Seq(Octets) /\ Len(q) = k
  <2>1. q \in [1 .. k -> Seq(Octets)]
    BY <1>1, <1>2
  <2>2. q \in Seq(Seq(Octets))
    BY <2>1, SeqDef
  <2>3. Len(q) = k
    BY <2>1, <2>2, LenProperties
  <2>4. QED
    BY <1>1, <1>2, <2>2, <2>3
<1>4. Append(q, x) = [j \in 1 .. k + 1 |-> InstBytes(cfiEntry.code[j])]
  <2>1. PICK r : r = Append(q, x)
    OBVIOUS
  <2>2. r \in Seq(Seq(Octets)) /\ Len(r) = k + 1 /\ r[k + 1] = x /\ \A j \in 1 .. k : r[j] = q[j]
    BY <1>3, <2>1, AppendProperties
  <2>3. r = [j \in 1 .. k + 1 |-> r[j]]
    BY <2>2
  <2>4. ASSUME NEW j \in 1 .. k + 1 PROVE r[j] = InstBytes(cfiEntry.code[j])
    <3>1. j \in 1 .. k \/ j = k + 1
      OBVIOUS
    <3>2. QED
      BY <1>1, <2>2, <3>1
  <2>5. QED
    BY <2>1, <2>3, <2>4
<1>5. FlattenSeq(q) \in Seq(Octets)
  BY <1>3, FlattenGives
<1>6. FlattenSeq(Append(q, x)) = Joined(FlattenSeq(q), x)
  BY <1>3, FlattenBack
<1>7. QED
  BY <1>1, <1>4, <1>5, <1>6 DEF CodeFront

\* The first instructions are bytes.
LEMMA FrontIsBytes ==
  ASSUME cfiEntry \in CfiEntries, NEW k \in Nat, k <= Len(cfiEntry.code)
  PROVE  CodeFront(k) \in Seq(Octets)
<1>1. PICK q : q = [j \in 1 .. k |-> InstBytes(cfiEntry.code[j])]
  OBVIOUS
<1>2. \A j \in 1 .. k : InstBytes(cfiEntry.code[j]) \in Seq(Octets)
  BY EntryIs
<1>3. q \in [1 .. k -> Seq(Octets)]
  BY <1>1, <1>2
<1>4. q \in Seq(Seq(Octets))
  BY <1>3, SeqDef
<1>5. FlattenSeq(q) \in Seq(Octets)
  BY <1>4, FlattenGives
<1>6. QED
  BY <1>1, <1>5 DEF CodeFront

\* The bytes of fewer instructions are at the front of those of more.
LEMMA FrontsInside ==
  ASSUME cfiEntry \in CfiEntries, NEW k \in Nat
  PROVE  \A m \in Nat : k <= m /\ m <= Len(cfiEntry.code) => Inside(CodeFront(k), CodeFront(m), 0)
<1> DEFINE G == {m \in Nat : k <= m /\ m <= Len(cfiEntry.code) => Inside(CodeFront(k), CodeFront(m), 0)}
<1>1. ASSUME k <= Len(cfiEntry.code) PROVE Inside(CodeFront(k), CodeFront(k), 0)
  <2>1. PICK x \in Seq(Octets) : x = CodeFront(k)
    BY <1>1, FrontIsBytes
  <2>2. Len(x) \in Nat /\ \A i \in 1 .. Len(x) : 0 + i = i
    OBVIOUS
  <2>3. QED
    BY <2>1, <2>2 DEF Inside
<1>2. 0 \in G
  <2>1. SUFFICES ASSUME k <= 0, 0 <= Len(cfiEntry.code) PROVE Inside(CodeFront(k), CodeFront(0), 0)
    OBVIOUS
  <2>2. k = 0
    BY <2>1
  <2>3. QED
    BY <1>1, <2>1, <2>2
<1>3. ASSUME NEW m \in Nat, m \in G PROVE m + 1 \in G
  <2>1. SUFFICES ASSUME k <= m + 1, m + 1 <= Len(cfiEntry.code) PROVE Inside(CodeFront(k), CodeFront(m + 1), 0)
    OBVIOUS
  <2>2. CASE k = m + 1
    BY <1>1, <2>1, <2>2
  <2>3. CASE k # m + 1
    <3>1. Len(cfiEntry.code) \in Nat
      BY EntryIs
    <3>2. k <= m /\ m <= Len(cfiEntry.code) /\ m + 1 \in 1 .. Len(cfiEntry.code)
      BY <2>1, <2>3, <3>1
    <3>3. Inside(CodeFront(k), CodeFront(m), 0)
      BY <1>3, <3>2
    <3>4. PICK x \in Seq(Octets), y \in Seq(Octets) : x = CodeFront(m) /\ CodeFront(m + 1) = Joined(x, y)
      BY <3>2, CodeFrontNext, EntryIs
    <3>5. Inside(x, Joined(x, y), 0)
      BY BehindInside
    <3>6. Inside(CodeFront(k), CodeFront(m + 1), 0 + 0)
      BY <3>3, <3>4, <3>5, InsideInside
    <3>7. QED
      BY <3>6
  <2>4. QED
    BY <2>2, <2>3
<1> HIDE DEF G
<1>4. Nat \subseteq G
  BY <1>2, <1>3, AllNumbers
<1>5. QED
  BY <1>4 DEF G

\* Where an instruction begins, and what is there.
LEMMA InstructionInside ==
  ASSUME cfiEntry \in CfiEntries, NEW k \in Nat, k + 1 \in 1 .. Len(cfiEntry.code)
  PROVE  /\ StartAt(k) \in Nat /\ StartAt(k + 1) = StartAt(k) + 1 + Len(cfiEntry.code[k + 1].raw)
         /\ Inside(cfiEntry.code[k + 1].raw, SectionTail, StartAt(k) + 1)
         /\ SectionTail[StartAt(k) + 1] = cfiEntry.code[k + 1].op
<1>1. PICK n \in Nat : n = Len(cfiEntry.code)
  BY EntryIs
<1>2. k <= n /\ k + 1 <= n
  BY <1>1
<1>3. PICK i : i = cfiEntry.code[k + 1]
  OBVIOUS
<1>4. i.op \in Octets /\ i.raw \in Seq(Octets)
  BY <1>1, <1>3, EntryIs DEF Written
<1>5. PICK o : o = << i.op >> /\ o \in Seq(Octets) /\ Len(o) = 1 /\ o[1] = i.op
  <2>1. PICK c \in Octets : c = i.op
    BY <1>4
  <2>2. << c >> \in Seq(Octets) /\ Len(<< c >>) = 1 /\ << c >>[1] = c
    OBVIOUS
  <2>3. QED
    BY <2>1, <2>2
<1>6. PICK x \in Seq(Octets) : x = CodeFront(k)
  BY <1>1, <1>2, FrontIsBytes
<1>7. PICK y \in Seq(Octets) : y = InstBytes(i) /\ y = Joined(o, i.raw)
  <2>1. o \o i.raw \in Seq(Octets)
    BY <1>4, <1>5
  <2>2. QED
    BY <1>5, <2>1 DEF InstBytes, Joined
<1>8. CodeFront(k + 1) = Joined(x, y)
  BY <1>3, <1>6, <1>7, CodeFrontNext
<1>9. Inside(i.raw, y, 1) /\ Inside(o, y, 0) /\ Len(y) = 1 + Len(i.raw)
  <2>1. PICK w \in Seq(Octets) : w = i.raw
    BY <1>4
  <2>2. Inside(w, Joined(o, w), Len(o)) /\ Inside(o, Joined(o, w), 0)
    BY <1>5, BehindInside
  <2>3. Len(Joined(o, w)) = Len(o) + Len(w)
    BY <1>5 DEF Joined
  <2>4. QED
    BY <1>5, <1>7, <2>1, <2>2, <2>3
<1>10. Inside(y, Joined(x, y), Len(x)) /\ Len(Joined(x, y)) = Len(x) + Len(y)
  <2>1. Len(Joined(x, y)) = Len(x) + Len(y)
    BY DEF Joined
  <2>2. QED
    BY <2>1, BehindInside
<1>11. Inside(Joined(x, y), CodeFront(n), 0)
  <2>1. k + 1 \in Nat /\ k + 1 <= n
    BY <1>2
  <2>2. QED
    BY <1>1, <1>8, <2>1, FrontsInside
<1>12. Inside(CodeFront(n), SectionTail, 0)
  <2>1. SectionTail = Joined(CodeFront(n), cfiEntry.after) /\ cfiEntry.after \in Seq(Octets)
    BY <1>1, EntryIs DEF SectionTail, Joined
  <2>2. CodeFront(n) \in Seq(Octets)
    BY <1>1, FrontIsBytes
  <2>3. QED
    BY <2>1, <2>2, BehindInside
<1>13. PICK s \in Nat, l \in Nat : s = Len(x) /\ l = Len(i.raw) /\ StartAt(k) = s
  BY <1>4, <1>6 DEF StartAt
<1>14. Inside(y, SectionTail, 0 + (0 + s))
  BY <1>10, <1>11, <1>12, <1>13, InsideInside
<1>15. Inside(y, SectionTail, s)
  BY <1>14
<1>16. Inside(i.raw, SectionTail, s + 1) /\ Inside(o, SectionTail, s + 0)
  BY <1>9, <1>15, InsideInside
<1>17. SectionTail[s + 1] = i.op
  <2>1. 1 \in 1 .. Len(o) /\ (s + 0) + 1 = s + 1
    BY <1>5
  <2>2. QED
    BY <1>5, <1>16, <2>1 DEF Inside
<1>18. StartAt(k + 1) = s + 1 + l
  <2>1. PICK t : t = Len(y)
    OBVIOUS
  <2>2. StartAt(k + 1) = s + t /\ t = 1 + l
    BY <1>8, <1>9, <1>10, <1>13, <2>1 DEF StartAt
  <2>3. s + t = s + 1 + l
    BY ONLY <2>2, s \in Nat, l \in Nat
  <2>4. QED
    BY <2>2, <2>3
<1>19. QED
  BY <1>3, <1>13, <1>16, <1>17, <1>18

\* Instructions begin one behind the other.
LEMMA StartsGrow ==
  ASSUME cfiEntry \in CfiEntries, NEW k \in Nat, NEW m \in Nat, k <= m, m <= Len(cfiEntry.code)
  PROVE  StartAt(k) \in Nat /\ StartAt(m) \in Nat /\ StartAt(k) <= StartAt(m)
<1>1. Len(cfiEntry.code) \in Nat
  BY EntryIs
<1>2. Inside(CodeFront(k), CodeFront(m), 0)
  BY FrontsInside
<1>3. Len(CodeFront(k)) \in Nat /\ Len(CodeFront(m)) \in Nat /\ 0 + Len(CodeFront(k)) <= Len(CodeFront(m))
  BY <1>2 DEF Inside
<1>4. QED
  BY <1>3 DEF StartAt

\* The pc of the table behind the first n instructions of q.
PcBehind(q, n) == (CHOOSE F : PcsTo(F, q, n))[n]

\* The offset behind n instructions is chosen from such offsets.
LEMMA PcChosen ==
  ASSUME NEW q, NEW n \in Nat
  PROVE  \E F : PcBehind(q, n) = F[n] /\ \A k \in 0 .. n : F[k] = IF k = 0 THEN StartPc ELSE TablePcNext(q[k], F[k - 1])
<1>1. PICK F : F = CHOOSE H : PcsTo(H, q, n)
  OBVIOUS
<1>2. PcsTo(F, q, n)
  <2>1. \E H : PcsTo(H, q, n)
    BY PcsToExists
  <2>2. QED
    BY <1>1, <2>1
<1>3. \A k \in 0 .. n : F[k] = IF k = 0 THEN StartPc ELSE TablePcNext(q[k], F[k - 1])
  BY ONLY <1>2, PcsToAt
<1>4. PcBehind(q, n) = F[n]
  BY <1>1 DEF PcBehind
<1>5. QED
  BY <1>3, <1>4

\* The offset at the start, and behind one more instruction.
LEMMA PcNext ==
  ASSUME NEW q, NEW n \in Nat
  PROVE  PcBehind(q, 0) = StartPc /\ PcBehind(q, n + 1) = TablePcNext(q[n + 1], PcBehind(q, n))
<1>1. PcBehind(q, 0) = StartPc
  <2>1. 0 \in Nat /\ 0 \in 0 .. 0
    OBVIOUS
  <2>2. PICK F : PcBehind(q, 0) = F[0] /\ \A k \in 0 .. 0 : F[k] = IF k = 0 THEN StartPc ELSE TablePcNext(q[k], F[k - 1])
    BY <2>1, PcChosen
  <2>3. QED
    BY <2>1, <2>2
<1>2. PICK F : PcBehind(q, n) = F[n] /\ \A k \in 0 .. n : F[k] = IF k = 0 THEN StartPc ELSE TablePcNext(q[k], F[k - 1])
  BY PcChosen
<1>3. PICK H : /\ PcBehind(q, n + 1) = H[n + 1]
               /\ \A k \in 0 .. n + 1 : H[k] = IF k = 0 THEN StartPc ELSE TablePcNext(q[k], H[k - 1])
  <2>1. n + 1 \in Nat
    OBVIOUS
  <2>2. QED
    BY <2>1, PcChosen
<1> DEFINE G == {k \in Nat : k \in 0 .. n => F[k] = H[k]}
<1>4. 0 \in G
  <2>1. 0 \in 0 .. n /\ 0 \in 0 .. n + 1
    OBVIOUS
  <2>2. F[0] = StartPc /\ H[0] = StartPc
    BY <1>2, <1>3, <2>1
  <2>3. QED
    BY <2>2
<1>5. ASSUME NEW k \in Nat, k \in G PROVE k + 1 \in G
  <2>1. SUFFICES ASSUME k + 1 \in 0 .. n PROVE F[k + 1] = H[k + 1]
    OBVIOUS
  <2>2. k \in 0 .. n /\ k + 1 # 0 /\ (k + 1) - 1 = k /\ k + 1 \in 0 .. n + 1
    BY <2>1
  <2>3. F[k + 1] = TablePcNext(q[k + 1], F[k]) /\ H[k + 1] = TablePcNext(q[k + 1], H[k])
    BY <1>2, <1>3, <2>1, <2>2
  <2>4. F[k] = H[k]
    BY <1>5, <2>2
  <2>5. QED
    BY <2>3, <2>4
<1> HIDE DEF G
<1>6. Nat \subseteq G
  BY <1>4, <1>5, AllNumbers
<1>7. F[n] = H[n]
  <2>1. n \in 0 .. n
    OBVIOUS
  <2>2. QED
    BY <1>6, <2>1 DEF G
<1>8. H[n + 1] = TablePcNext(q[n + 1], H[n])
  <2>1. n + 1 \in 0 .. n + 1 /\ n + 1 # 0 /\ (n + 1) - 1 = n
    OBVIOUS
  <2>2. QED
    BY <1>3, <2>1
<1>9. QED
  BY <1>1, <1>2, <1>3, <1>7, <1>8

\* The instructions that begin inside the entry.
Begun == {k \in 1 .. Len(cfiEntry.code) : StartAt(k - 1) < EndOffset}

\* What is read is the front of what was written; the offset is where the
\* next instruction begins; the pc of the text is that of the table.
InstInv ==
  /\ cfiEntry \in CfiEntries
  /\ IsSequence(insts) /\ IsSequence(told) /\ Len(told) <= Len(insts)
  /\ Len(insts) <= Len(cfiEntry.code)
  /\ \A k \in 1 .. Len(insts) :
       k \in Begun /\ insts[k].op = cfiEntry.code[k].op /\ insts[k].args = cfiEntry.code[k].args
  /\ instPc = "parse" => told = << >> /\ textPc = StartPc /\ instOffset = StartAt(Len(insts))
  /\ instPc \in {"describe", "done"} => Len(insts) = Cardinality(Begun)
  /\ instPc = "raised" =>
       \/ Len(insts) = Cardinality(Begun)
       \/ CfiArgs(cfiEntry.code[Len(insts) + 1].op) = << "?" >>
  /\ instPc # "raised" /\ cfiEntry.fde => textPc = PcBehind(insts, Len(told))

\* Reading at the beginning of an instruction, inside the entry.
LEMMA InstructionRead ==
  ASSUME cfiEntry \in CfiEntries, NEW m \in Nat, m <= Len(cfiEntry.code), StartAt(m) < EndOffset
  PROVE  /\ m + 1 \in Begun
         /\ SectionTail[StartAt(m) + 1] = cfiEntry.code[m + 1].op
         /\ \/ CfiArgs(cfiEntry.code[m + 1].op) = << "?" >>
            \/ \E r : /\ r = TakeOperands(CfiArgs(cfiEntry.code[m + 1].op), SectionTail, StartAt(m) + 1, CfiStructs)
                      /\ r.ok /\ r.pos = StartAt(m + 1)
                      /\ AllArgs(cfiEntry.code[m + 1].op, r.val) = cfiEntry.code[m + 1].args
<1>1. PICK n \in Nat : n = Len(cfiEntry.code)
  BY EntryIs
<1>2. StartAt(n) \in Nat /\ StartAt(m) \in Nat /\ EndOffset = StartAt(n) - cfiEntry.cut /\ cfiEntry.cut \in Nat
  <2>1. n <= Len(cfiEntry.code) /\ m <= Len(cfiEntry.code)
    BY <1>1
  <2>2. CodeFront(n) \in Seq(Octets) /\ CodeFront(m) \in Seq(Octets)
    BY <2>1, FrontIsBytes
  <2>3. StartAt(n) \in Nat /\ StartAt(m) \in Nat
    BY <2>2 DEF StartAt
  <2>4. CodeBytes = CodeFront(n) /\ cfiEntry.cut \in Nat
    BY <1>1, EntryIs
  <2>5. EndOffset = StartAt(n) - cfiEntry.cut
    BY <2>4 DEF EndOffset, StartAt
  <2>6. QED
    BY <2>3, <2>4, <2>5
<1>3. m # n
  BY <1>2
<1>4. m + 1 \in 1 .. Len(cfiEntry.code) /\ (m + 1) - 1 = m
  BY <1>1, <1>3
<1>5. PICK i : i = cfiEntry.code[m + 1]
  OBVIOUS
<1>6. PICK d \in Nat : d = StartAt(m) + 1
  BY <1>2
<1>7. StartAt(m + 1) = d + Len(i.raw) /\ Inside(i.raw, SectionTail, d) /\ SectionTail[d] = i.op
  <2>1. /\ StartAt(m) \in Nat /\ StartAt(m + 1) = StartAt(m) + 1 + Len(i.raw)
        /\ Inside(i.raw, SectionTail, StartAt(m) + 1)
        /\ SectionTail[StartAt(m) + 1] = i.op
    BY <1>4, <1>5, InstructionInside
  <2>2. QED
    BY <1>6, <2>1
<1>8. m + 1 \in Begun
  BY <1>4 DEF Begun
<1>9. ASSUME CfiArgs(i.op) # << "?" >>
      PROVE  \E r : /\ r = TakeOperands(CfiArgs(i.op), SectionTail, d, CfiStructs)
                    /\ r.ok /\ r.pos = StartAt(m + 1) /\ AllArgs(i.op, r.val) = i.args
  <2>1. PICK kinds \in Seq(Kinds) : kinds = CfiArgs(i.op)
    BY <1>9, ArgsAre
  <2>2. PICK x, y : x = TakeOperands(kinds, i.raw, 0, CfiStructs) /\ y = TakeOperands(kinds, SectionTail, d, CfiStructs)
    OBVIOUS
  <2>3. x.ok /\ x.pos = Len(i.raw) /\ AllArgs(i.op, x.val) = i.args
    <3>1. Written(i)
      BY <1>4, <1>5, EntryIs
    <3>2. QED
      BY <1>9, <2>1, <2>2, <3>1 DEF Written
  <2>4. Same(x, y, i.raw, d)
    <3>1. CfiStructs.addr \in Nat
      BY CfiInstructionsAssumption
    <3>2. QED
      BY <1>7, <2>2, <3>1, TakenInside
  <2>5. y.ok /\ y.val = x.val /\ y.pos = d + Len(i.raw)
    BY <2>3, <2>4 DEF Same
  <2>6. y.pos = StartAt(m + 1) /\ AllArgs(i.op, y.val) = i.args
    BY <1>7, <2>3, <2>5
  <2>7. QED
    BY <2>1, <2>2, <2>5, <2>6
<1>10. QED
  BY <1>5, <1>6, <1>7, <1>8, <1>9

\* At the end of the entry every instruction that begins in it is read.
LEMMA AllBegun ==
  ASSUME cfiEntry \in CfiEntries, NEW m \in Nat, m <= Len(cfiEntry.code), ~(StartAt(m) < EndOffset),
         \A k \in 1 .. m : k \in Begun
  PROVE  m = Cardinality(Begun)
<1>1. PICK n \in Nat : n = Len(cfiEntry.code)
  BY EntryIs
<1>2. EndOffset \in Int
  <2>1. n <= Len(cfiEntry.code)
    BY <1>1
  <2>2. CodeFront(n) \in Seq(Octets)
    BY <2>1, FrontIsBytes
  <2>3. Len(CodeFront(n)) \in Nat
    BY <2>2
  <2>4. QED
    BY <1>1, <2>3, EntryIs DEF EndOffset
<1>3. ASSUME NEW k \in Begun PROVE k \in 1 .. m
  <2>1. k \in 1 .. n /\ StartAt(k - 1) < EndOffset
    BY <1>1 DEF Begun
  <2>2. SUFFICES ASSUME ~(k <= m) PROVE FALSE
    BY <2>1
  <2>3. k - 1 \in Nat /\ m <= k - 1 /\ k - 1 <= Len(cfiEntry.code)
    BY <1>1, <2>1, <2>2
  <2>4. StartAt(m) \in Nat /\ StartAt(k - 1) \in Nat /\ StartAt(m) <= StartAt(k - 1)
    BY <2>3, StartsGrow
  <2>5. QED
    BY <1>2, <2>1, <2>4
<1>4. Begun = 1 .. m
  BY <1>3
<1>5. Cardinality(1 .. m) = m
  <2>1. 1 \in Int /\ m \in Int /\ (m - 1) + 1 = m
    OBVIOUS
  <2>2. QED
    BY <2>1, FS_Interval
<1>6. QED
  BY <1>4, <1>5

\* Before an instruction was read.
LEMMA InstInvInit == InstInit => InstInv
<1>1. SUFFICES ASSUME InstInit PROVE InstInv
  OBVIOUS
<1>2. /\ cfiEntry \in CfiEntries /\ instOffset = 0 /\ insts = << >> /\ told = << >> /\ instPc = "parse"
      /\ textPc = StartPc
  BY <1>1 DEF InstInit
<1>3. Len(insts) = 0 /\ Len(told) = 0 /\ IsSequence(insts) /\ IsSequence(told)
  BY <1>2 DEF IsSequence
<1>4. Len(cfiEntry.code) \in Nat
  BY <1>2, EntryIs
<1>5. StartAt(0) = 0
  <2>1. [j \in 1 .. 0 |-> InstBytes(cfiEntry.code[j])] = << >>
    OBVIOUS
  <2>2. FlattenSeq(<< >>) = << >>
    <3>1. << >> \in Seq(Seq(Octets))
      OBVIOUS
    <3>2. QED
      BY <3>1, FlattenGives
  <2>3. QED
    BY <2>1, <2>2 DEF StartAt, CodeFront
<1>6. PcBehind(insts, 0) = StartPc
  <2>1. 0 \in Nat
    OBVIOUS
  <2>2. QED
    BY <2>1, PcNext
<1>7. QED
  BY <1>2, <1>3, <1>4, <1>5, <1>6 DEF InstInv

\* Where the instructions begin depends on the entry alone.
LEMMA EntryStays ==
  ASSUME cfiEntry' = cfiEntry
  PROVE  Begun' = Begun /\ \A k : StartAt(k)' = StartAt(k)
<1>1. EndOffset' = EndOffset
  BY DEF EndOffset, CodeBytes, InstBytes
<1>2. \A k : StartAt(k)' = StartAt(k)
  BY DEF StartAt, CodeFront, InstBytes
<1>3. QED
  BY <1>1, <1>2 DEF Begun

\* An instruction is read.
LEMMA ParseKeeps == ASSUME InstInv, ParseInstruction PROVE InstInv'
<1>1. /\ instPc = "parse" /\ instOffset < EndOffset
      /\ cfiEntry' = cfiEntry /\ textPc' = textPc /\ told' = told
  BY DEF ParseInstruction
<1>2. PICK m \in Nat : m = Len(insts)
  BY DEF InstInv, IsSequence
<1>3. /\ cfiEntry \in CfiEntries /\ IsSequence(insts) /\ told = << >> /\ textPc = StartPc
      /\ instOffset = StartAt(m) /\ m <= Len(cfiEntry.code)
      /\ \A k \in 1 .. m :
           k \in Begun /\ insts[k].op = cfiEntry.code[k].op /\ insts[k].args = cfiEntry.code[k].args
  BY <1>1, <1>2 DEF InstInv
<1>4. PICK i : i = cfiEntry.code[m + 1]
  OBVIOUS
<1>5. /\ m + 1 \in Begun /\ SectionTail[instOffset + 1] = i.op
      /\ \/ CfiArgs(i.op) = << "?" >>
         \/ \E r : /\ r = TakeOperands(CfiArgs(i.op), SectionTail, instOffset + 1, CfiStructs)
                   /\ r.ok /\ r.pos = StartAt(m + 1) /\ AllArgs(i.op, r.val) = i.args
  BY <1>1, <1>3, <1>4, InstructionRead
<1>6. PICK r : r = TakeOperands(CfiArgs(i.op), SectionTail, instOffset + 1, CfiStructs)
  OBVIOUS
<1>7. IF CfiArgs(i.op) = << "?" >> \/ ~r.ok
      THEN instPc' = "raised" /\ insts' = insts
      ELSE /\ insts' = Append(insts, [op |-> i.op, args |-> AllArgs(i.op, r.val)])
           /\ instOffset' = r.pos /\ instPc' = instPc
  BY <1>5, <1>6 DEF ParseInstruction
<1>8. Begun' = Begun /\ \A k : StartAt(k)' = StartAt(k)
  BY <1>1, EntryStays
<1>9. Len(told) = 0 /\ IsSequence(told)
  BY <1>3 DEF IsSequence
<1>10. CASE CfiArgs(i.op) = << "?" >>
  <2>1. instPc' = "raised" /\ insts' = insts
    BY <1>7, <1>10
  <2>2. QED
    BY <1>1, <1>2, <1>3, <1>4, <1>8, <1>9, <1>10, <2>1 DEF InstInv
<1>11. CASE CfiArgs(i.op) # << "?" >>
  <2>1. r.ok /\ r.pos = StartAt(m + 1) /\ AllArgs(i.op, r.val) = i.args
    BY <1>5, <1>6, <1>11
  <2>2. PICK e : e.op = i.op /\ e.args = i.args /\ insts' = Append(insts, e)
    <3>1. [op |-> i.op, args |-> AllArgs(i.op, r.val)].op = i.op /\ [op |-> i.op, args |-> AllArgs(i.op, r.val)].args = i.args
      BY <2>1
    <3>2. insts' = Append(insts, [op |-> i.op, args |-> AllArgs(i.op, r.val)])
      BY <1>7, <1>11, <2>1
    <3>3. QED
      BY <3>1, <3>2
  <2>3. instOffset' = StartAt(m + 1) /\ instPc' = "parse"
    BY <1>1, <1>7, <1>11, <2>1
  <2>4. PICK q : q = insts' /\ Goes(insts, e, q)
    BY <1>3, <2>2, AppendAny
  <2>5. IsSequence(q) /\ Len(q) = m + 1 /\ q[m + 1] = e /\ \A k \in 1 .. m : q[k] = insts[k]
    BY <1>2, <2>4 DEF Goes
  <2>6. ASSUME NEW k \in 1 .. m + 1
        PROVE  k \in Begun /\ q[k].op = cfiEntry.code[k].op /\ q[k].args = cfiEntry.code[k].args
    <3>1. k \in 1 .. m \/ k = m + 1
      OBVIOUS
    <3>2. QED
      BY <1>3, <1>4, <1>5, <2>2, <2>5, <3>1
  <2>7. m + 1 <= Len(cfiEntry.code)
    BY <1>3, <1>5, EntryIs DEF Begun
  <2>8. PcBehind(q, 0) = StartPc
    BY <1>2, PcNext
  <2>9. /\ insts' = q /\ told' = << >> /\ Len(told') = 0 /\ IsSequence(told') /\ textPc' = StartPc
        /\ Len(insts') = m + 1 /\ IsSequence(insts')
    BY <1>1, <1>3, <1>9, <2>4, <2>5
  <2>10. instOffset' = StartAt(Len(insts))'
    BY <1>8, <2>3, <2>9
  <2>11. QED
    BY <1>1, <1>3, <1>8, <2>3, <2>5, <2>6, <2>7, <2>8, <2>9, <2>10 DEF InstInv
<1>12. QED
  BY <1>10, <1>11

\* The instructions have all been read.
LEMMA ParsedKeeps == ASSUME InstInv, ParsedAll PROVE InstInv'
<1>1. /\ instPc = "parse" /\ ~(instOffset < EndOffset) /\ instPc' = "describe"
      /\ cfiEntry' = cfiEntry /\ textPc' = textPc /\ told' = told /\ insts' = insts /\ instOffset' = instOffset
  <2>1. instPc = "parse" /\ instOffset >= EndOffset
    BY DEF ParsedAll
  <2>2. PICK m, n : m = Len(insts) /\ n = Len(cfiEntry.code)
    OBVIOUS
  <2>3. cfiEntry \in CfiEntries /\ m \in Nat /\ n \in Nat /\ m <= n /\ instOffset = StartAt(m)
    BY <2>1, <2>2, EntryIs DEF InstInv, IsSequence
  <2>4. CodeFront(m) \in Seq(Octets) /\ CodeFront(n) \in Seq(Octets) /\ cfiEntry.cut \in Nat /\ CodeBytes = CodeFront(n)
    <3>1. n <= Len(cfiEntry.code) /\ m <= Len(cfiEntry.code)
      BY <2>2, <2>3
    <3>2. QED
      BY <2>2, <2>3, <3>1, FrontIsBytes, EntryIs
  <2>5. instOffset \in Nat /\ EndOffset \in Int
    <3>1. Len(CodeFront(m)) \in Nat /\ Len(CodeFront(n)) \in Nat
      BY <2>4
    <3>2. QED
      BY <2>3, <2>4, <3>1 DEF StartAt, EndOffset
  <2>6. ~(instOffset < EndOffset)
    BY <2>1, <2>5
  <2>7. QED
    BY <2>6 DEF ParsedAll
<1>2. PICK m \in Nat : m = Len(insts)
  BY DEF InstInv, IsSequence
<1>3. /\ cfiEntry \in CfiEntries /\ instOffset = StartAt(m) /\ m <= Len(cfiEntry.code)
      /\ \A k \in 1 .. m : k \in Begun
  BY <1>1, <1>2 DEF InstInv
<1>4. m = Cardinality(Begun)
  BY <1>1, <1>3, AllBegun
<1>5. Begun' = Begun /\ \A k : StartAt(k)' = StartAt(k)
  BY <1>1, EntryStays
<1>6. QED
  BY <1>1, <1>2, <1>4, <1>5 DEF InstInv

\* An instruction is described.
LEMMA DescribeKeeps == ASSUME InstInv, DescribeInstruction PROVE InstInv'
<1>1. /\ instPc = "describe" /\ Len(told) < Len(insts)
      /\ cfiEntry' = cfiEntry /\ insts' = insts /\ instOffset' = instOffset
  BY DEF DescribeInstruction
<1>2. PICK m, n : m = Len(insts) /\ n = Len(told)
  OBVIOUS
<1>3. /\ cfiEntry \in CfiEntries /\ IsSequence(insts) /\ IsSequence(told) /\ m \in Nat /\ n \in Nat
      /\ m <= Len(cfiEntry.code) /\ m = Cardinality(Begun)
      /\ \A k \in 1 .. m :
           k \in Begun /\ insts[k].op = cfiEntry.code[k].op /\ insts[k].args = cfiEntry.code[k].args
      /\ cfiEntry.fde => textPc = PcBehind(insts, n)
  BY <1>1, <1>2 DEF InstInv, IsSequence
<1>4. n + 1 \in 1 .. m
  BY <1>1, <1>2, <1>3
<1>5. PICK i : i = insts[n + 1]
  OBVIOUS
<1>6. i.op \in Octets
  <2>1. n + 1 \in 1 .. Len(cfiEntry.code)
    BY <1>3, <1>4 DEF Begun
  <2>2. cfiEntry.code[n + 1].op \in Octets
    BY <1>3, <2>1, EntryIs DEF Written
  <2>3. QED
    BY <1>3, <1>4, <1>5, <2>2
<1>7. InstructionName(i.op) = 1 <=> i.op = 1
  BY <1>6 DEF InstructionName, Primary, Octets
<1>8. Begun' = Begun /\ \A k : StartAt(k)' = StartAt(k)
  BY <1>1, EntryStays
<1>9. PICK name, to : name = InstructionName(i.op) /\ to = textPc + FactoredOffset(i)
  OBVIOUS
<1>10. CASE name \in Advances /\ name # 1 /\ ~cfiEntry.fde
  <2>1. instPc' = "raised" /\ textPc' = textPc /\ told' = told
    BY <1>2, <1>5, <1>9, <1>10 DEF DescribeInstruction
  <2>2. QED
    BY <1>1, <1>2, <1>3, <1>8, <1>10, <2>1 DEF InstInv
<1>11. CASE name = 1 \/ ~(name \in Advances /\ ~cfiEntry.fde)
  <2>1. PICK e : told' = Append(told, e) /\ instPc' = instPc /\ (cfiEntry.fde => textPc' = TablePcNext(i, textPc))
    <3>1. CASE name = 1
      <4>1. /\ textPc' = NumberOf(i.args[1], 256)
            /\ told' = Append(told, << name, textPc' >>) /\ instPc' = instPc
        <5>1. name \notin Advances
          BY <3>1 DEF Advances
        <5>2. QED
          BY <1>2, <1>5, <1>9, <3>1, <5>1 DEF DescribeInstruction
      <4>2. TablePcNext(i, textPc) = NumberOf(i.args[1], 256)
        BY <1>7, <1>9, <3>1 DEF TablePcNext
      <4>3. QED
        BY <4>1, <4>2
    <3>2. CASE name # 1 /\ name \in Advances /\ cfiEntry.fde
      <4>1. textPc' = to /\ told' = Append(told, << name, to >>) /\ instPc' = instPc
        BY <1>2, <1>5, <1>9, <3>2 DEF DescribeInstruction
      <4>2. TablePcNext(i, textPc) = to
        BY <1>7, <1>9, <3>2 DEF TablePcNext, FactoredOffset
      <4>3. QED
        BY <4>1, <4>2
    <3>3. CASE name # 1 /\ name \notin Advances
      <4>1. told' = Append(told, << name >>) /\ textPc' = textPc /\ instPc' = instPc
        BY <1>2, <1>5, <1>9, <3>3 DEF DescribeInstruction
      <4>2. TablePcNext(i, textPc) = textPc
        BY <1>7, <1>9, <3>3 DEF TablePcNext
      <4>3. QED
        BY <4>1, <4>2
    <3>4. QED
      BY <1>11, <3>1, <3>2, <3>3
  <2>2. PICK t : t = told' /\ Goes(told, e, t)
    BY <1>3, <2>1, AppendAny
  <2>3. IsSequence(t) /\ Len(t) = n + 1
    BY <1>2, <2>2 DEF Goes
  <2>4. PcBehind(insts, n + 1) = TablePcNext(i, PcBehind(insts, n))
    BY <1>3, <1>5, PcNext
  <2>5. cfiEntry.fde => textPc' = PcBehind(insts, n + 1)
    BY <1>3, <2>1, <2>4
  <2>6. Len(told') = n + 1 /\ IsSequence(told') /\ n + 1 <= m /\ instPc' = "describe"
    BY <1>1, <1>4, <2>1, <2>2, <2>3
  <2>7. QED
    BY <1>1, <1>2, <1>3, <1>8, <2>5, <2>6 DEF InstInv
<1>12. QED
  BY <1>10, <1>11

\* A step keeps the invariant.
LEMMA InstStep == InstInv /\ [InstNext]_instVars => InstInv'
<1>1. SUFFICES ASSUME InstInv, [InstNext]_instVars PROVE InstInv'
  OBVIOUS
<1>2. CASE DescribedAll
  <2>1. /\ instPc = "describe" /\ instPc' = "done" /\ cfiEntry' = cfiEntry
        /\ insts' = insts /\ instOffset' = instOffset /\ told' = told /\ textPc' = textPc
    BY <1>2 DEF DescribedAll
  <2>2. Begun' = Begun /\ \A k : StartAt(k)' = StartAt(k)
    BY <2>1, EntryStays
  <2>3. QED
    BY <1>1, <2>1, <2>2 DEF InstInv
<1>3. CASE UNCHANGED instVars
  <2>1. /\ instPc' = instPc /\ cfiEntry' = cfiEntry
        /\ insts' = insts /\ instOffset' = instOffset /\ told' = told /\ textPc' = textPc
    BY <1>3 DEF instVars
  <2>2. Begun' = Begun /\ \A k : StartAt(k)' = StartAt(k)
    BY <2>1, EntryStays
  <2>3. StartAt(Len(insts))' = StartAt(Len(insts))
    BY <2>1, <2>2
  <2>4. QED
    BY <1>1, <2>1, <2>2, <2>3 DEF InstInv
<1>4. QED
  BY <1>1, <1>2, <1>3, ParseKeeps, ParsedKeeps, DescribeKeeps DEF InstNext

\* The invariant holds throughout.
LEMMA InstReached == InstSpec => []InstInv
<1>1. InstInit => InstInv
  BY InstInvInit
<1>2. InstInv /\ [InstNext]_instVars => InstInv'
  BY InstStep
<1>3. QED
  BY <1>1, <1>2, PTL DEF InstSpec

\* The invariant gives the two properties.
LEMMA InstGives == InstInv => InstructionsAsWritten /\ TextMatchesTable
<1>1. SUFFICES ASSUME InstInv PROVE InstructionsAsWritten /\ TextMatchesTable
  OBVIOUS
<1>2. PICK code, n, m : code = cfiEntry.code /\ n = Len(code) /\ m = Len(insts)
  OBVIOUS
<1>3. DOMAIN code = 1 .. n /\ n \in Nat /\ m \in Nat /\ DOMAIN insts = 1 .. m
  <2>1. cfiEntry \in CfiEntries /\ m \in Nat /\ insts = [k \in 1 .. m |-> insts[k]]
    BY <1>1, <1>2 DEF InstInv, IsSequence
  <2>2. QED
    BY <1>2, <2>1, EntryIs
<1>4. {k \in DOMAIN code : Len(FlattenSeq([j \in 1 .. k - 1 |-> InstBytes(code[j])])) < EndOffset} = Begun
  BY <1>2, <1>3 DEF Begun, StartAt, CodeFront
<1>5. \A k \in DOMAIN insts : k \in Begun /\ insts[k].op = code[k].op /\ insts[k].args = code[k].args
  BY <1>1, <1>2, <1>3 DEF InstInv
<1>6. instPc \in {"describe", "done"} => m = Cardinality(Begun)
  BY <1>1, <1>2 DEF InstInv
<1>7. instPc = "raised" /\ m < Cardinality(Begun) => CfiArgs(code[m + 1].op) = << "?" >>
  <2>1. ~(m < m)
    BY <1>3
  <2>2. QED
    BY <1>1, <1>2, <2>1 DEF InstInv
<1>8. InstructionsAsWritten
  BY <1>2, <1>4, <1>5, <1>6, <1>7 DEF InstructionsAsWritten
<1>9. TextMatchesTable
  <2>1. TablePc = PcBehind(insts, Len(told))
    BY DEF TablePc, PcBehind, PcsTo
  <2>2. QED
    BY <1>1, <2>1 DEF InstInv, TextMatchesTable
<1>10. QED
  BY <1>8, <1>9

\* The instructions of an entry are read as they were written, however its
\* length cuts them, and its description steps pc as its table does.
THEOREM InstructionsStayWritten == InstSpec => [](InstructionsAsWritten /\ TextMatchesTable)
BY InstReached, InstGives, PTL

\* What readelf shows of .debug_frame: the entries, their instructions, the
\* tables made of them and their description agree with the section, for every
\* section and every entry.
THEOREM CallFramesStayExact == CfiSpec /\ InstSpec => []CallFramesExact
<1>1. CfiTypeOK /\ EntriesInOrder /\ DecodedAsWritten /\ RegOrderExact /\ InstructionsAsWritten /\ TextMatchesTable
      => CallFramesExact
  BY DEF CallFramesExact
<1>2. QED
  BY <1>1, TablesStayExact, InstructionsStayWritten, PTL
=============================================================================
