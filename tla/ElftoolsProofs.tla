--------------------------- MODULE ElftoolsProofs ---------------------------
(***************************************************************************)
(* Theorems about elftools: the line programs, the compile units and the   *)
(* sections of ELF files, for every file.                                  *)
(***************************************************************************)
EXTENDS LineProgram, DebugInfo, ElfFile,
        FiniteSetTheorems, WellFoundedInduction, SequenceTheorems, TLAPS

\* Induction, for a set of numbers.
LEMMA AllNumbers ==
  ASSUME NEW S, 0 \in S, \A n \in Nat : n \in S => n + 1 \in S PROVE Nat \subseteq S
<1> SUFFICES ASSUME Nat \ S # {} PROVE FALSE
  OBVIOUS
<1> DEFINE R == OpToRel(<, Nat)
<1>1. IsWellFoundedOn(R, Nat)
  BY NatLessThanWellFounded
<1>2. \A i, j \in Nat : i < j => << i, j >> \in R
  BY DEF OpToRel
<1> HIDE DEF R
<1>3. PICK n \in Nat \ S : \A i \in Nat \ S : << i, n >> \notin R
  BY <1>1, WFMin
<1>4. n # 0 /\ n - 1 \in Nat /\ n - 1 < n
  BY <1>3
<1>5. n - 1 \in S
  BY <1>2, <1>3, <1>4
<1>6. QED
  BY <1>3, <1>4, <1>5

\* The least of a set of numbers is one of them, and below all of them.
LEMMA MinIsLeast == ASSUME NEW S, S \subseteq Nat, S # {} PROVE Min(S) \in S /\ \A y \in S : Min(S) <= y
<1> DEFINE R == OpToRel(<, Nat)
<1>1. IsWellFoundedOn(R, Nat)
  BY NatLessThanWellFounded
<1>2. \A i, j \in Nat : i < j => << i, j >> \in R
  BY DEF OpToRel
<1> HIDE DEF R
<1>3. PICK n \in S : \A i \in S : << i, n >> \notin R
  BY <1>1, WFMin
<1>4. ASSUME NEW i \in S PROVE n <= i
  <2>1. i \in Nat /\ n \in Nat /\ ~(i < n)
    BY <1>2, <1>3
  <2>2. QED
    BY <2>1
<1>5. QED
  BY <1>3, <1>4 DEF Min

-----------------------------------------------------------------------------
(***************************************************************************)
(* The line programs: the registers after any instruction are those that   *)
(* the instructions of its sequence give, so that every row is the one the *)
(* line table should have.                                                 *)
(***************************************************************************)
\* The instructions of the sequence that is open before i.
OpenAt(p, i) ==
  {j \in 1 .. i - 1 : \A k \in j .. i - 1 : ~Is(p, k, {"end_sequence"})}

\* Of these, the ones after the last row, and after the last address.
SinceRowAt(p, i) == {j \in OpenAt(p, i) : \A k \in j .. i - 1 : ~Is(p, k, RowOps)}
AfterSetAt(p, i) == {j \in OpenAt(p, i) : \A k \in j .. i - 1 : ~Is(p, k, {"set_address"})}

\* The registers that the instructions before i leave.
StateAt(p, i) ==
  LET S == OpenAt(p, i)
  IN [address |-> LastSet(p, S, "set_address", 0) + Total(p, AddressSteps(p), AfterSetAt(p, i)),
      file |-> LastSet(p, S, "set_file", 1),
      line |-> 1 + Total(p, LineSteps(p), S),
      column |-> LastSet(p, S, "set_column", 0),
      is_stmt |-> StmtAfter(p, S),
      basic_block |-> \E j \in SinceRowAt(p, i) : Is(p, j, {"set_basic_block"}),
      end_sequence |-> FALSE,
      prologue_end |-> \E j \in SinceRowAt(p, i) : Is(p, j, {"set_prologue_end"}),
      epilogue_begin |-> \E j \in SinceRowAt(p, i) : Is(p, j, {"set_epilogue_begin"}),
      isa |-> LastSet(p, S, "set_isa", 0)]

\* A sequence of anything.
IsSequence(s) == Len(s) \in Nat /\ s = [n \in 1 .. Len(s) |-> s[n]]

\* T has, besides the places in S, the place i after them.
Grown(S, i, T) == i \in Nat \ {0} /\ S \subseteq 1 .. i - 1 /\ T = S \cup {i}

\* Sums along a program are computed by a function.
LEMMA TotalIs ==
  ASSUME NEW p, Len(p) \in Nat, NEW steps, NEW S
  PROVE  \E g : /\ g[0] = 0 /\ Total(p, steps, S) = g[Len(p)]
                /\ \A i \in 1 .. Len(p) : g[i] = g[i - 1] + (IF i \in S THEN steps[i] ELSE 0)
<1> DEFINE W(n, g) == [i \in 0 .. n |-> IF i = 0 THEN 0 ELSE g[i - 1] + (IF i \in S THEN steps[i] ELSE 0)]
           N == {n \in Nat : \E g : g = W(n, g)}
<1>1. 0 \in N
  <2> DEFINE g == [i \in 0 .. 0 |-> 0]
  <2>1. g = W(0, g)
    OBVIOUS
  <2>2. QED
    BY <2>1
<1>2. ASSUME NEW n \in Nat, n \in N PROVE n + 1 \in N
  <2>1. PICK g : g = W(n, g)
    BY <1>2
  <2> DEFINE h == [i \in 0 .. n + 1 |-> IF i = n + 1 THEN g[n] + (IF i \in S THEN steps[i] ELSE 0) ELSE g[i]]
  <2>2. ASSUME NEW i \in 0 .. n + 1 PROVE h[i] = W(n + 1, h)[i]
    <3>1. CASE i = n + 1
      <4>1. i # 0 /\ i - 1 = n /\ n \in 0 .. n + 1 /\ n # n + 1
        BY <3>1
      <4>2. h[i - 1] = g[n]
        BY <4>1
      <4>3. QED
        BY <3>1, <4>1, <4>2
    <3>2. CASE i # n + 1
      <4>1. i \in 0 .. n
        BY <3>2
      <4>2. h[i] = g[i] /\ g[i] = W(n, g)[i]
        BY <2>1, <3>2
      <4>3. i # 0 => i - 1 \in 0 .. n + 1 /\ i - 1 # n + 1
        BY <4>1
      <4>4. i # 0 => h[i - 1] = g[i - 1]
        BY <4>3
      <4>5. QED
        BY <4>1, <4>2, <4>4
    <3>3. QED
      BY <3>1, <3>2
  <2>3. h = W(n + 1, h)
    BY <2>2
  <2> HIDE DEF h
  <2>4. QED
    BY <2>3, SMTT(30)
<1>3. PICK g : g = W(Len(p), g)
  BY <1>1, <1>2, AllNumbers
<1> DEFINE f == CHOOSE u : u = W(Len(p), u)
<1>4. f = W(Len(p), f)
  BY <1>3
<1>5. Total(p, steps, S) = f[Len(p)]
  BY DEF Total
<1> HIDE DEF f
<1>6. f[0] = 0
  BY <1>4
<1>7. ASSUME NEW i \in 1 .. Len(p) PROVE f[i] = f[i - 1] + (IF i \in S THEN steps[i] ELSE 0)
  <2>1. i \in 0 .. Len(p) /\ i # 0
    OBVIOUS
  <2>2. QED
    BY <1>4, <2>1
<1>8. QED
  BY <1>5, <1>6, <1>7

\* A sum of no steps.
LEMMA TotalNone ==
  ASSUME NEW p, Len(p) \in Nat, NEW steps, NEW S, S = {} PROVE Total(p, steps, S) = 0
<1>1. PICK g : /\ g[0] = 0 /\ Total(p, steps, S) = g[Len(p)]
               /\ \A i \in 1 .. Len(p) : g[i] = g[i - 1] + (IF i \in S THEN steps[i] ELSE 0)
  BY TotalIs
<1> DEFINE N == {n \in Nat : n <= Len(p) => g[n] = 0}
<1>2. 0 \in N
  BY <1>1
<1>3. ASSUME NEW n \in Nat, n \in N PROVE n + 1 \in N
  <2>1. n + 1 <= Len(p) => n + 1 \in 1 .. Len(p) /\ (n + 1) - 1 = n
    OBVIOUS
  <2>2. QED
    BY <1>1, <1>3, <2>1
<1>4. Nat \subseteq N
  BY <1>2, <1>3, AllNumbers
<1>5. QED
  BY <1>1, <1>4

\* Steps are numbers.
AreSteps(p, steps) == Len(p) \in Nat /\ \A i \in 1 .. Len(p) : steps[i] \in Int

\* One more step.
LEMMA TotalAdds ==
  ASSUME NEW p, NEW steps, AreSteps(p, steps), NEW S, NEW m \in 1 .. Len(p), NEW T, Grown(S, m, T)
  PROVE  /\ Total(p, steps, S) \in Int
         /\ Total(p, steps, T) = Total(p, steps, S) + steps[m]
<1> USE DEF AreSteps
<1>0. m \notin S /\ T = S \cup {m}
  BY DEF Grown
<1>1. PICK g : /\ g[0] = 0 /\ Total(p, steps, S) = g[Len(p)]
               /\ \A i \in 1 .. Len(p) : g[i] = g[i - 1] + (IF i \in S THEN steps[i] ELSE 0)
  BY TotalIs
<1>2. PICK h : /\ h[0] = 0 /\ Total(p, steps, T) = h[Len(p)]
               /\ \A i \in 1 .. Len(p) : h[i] = h[i - 1] + (IF i \in T THEN steps[i] ELSE 0)
  BY TotalIs
<1> DEFINE N == {n \in Nat : n <= Len(p) => g[n] \in Int /\ h[n] = g[n] + (IF m <= n THEN steps[m] ELSE 0)}
<1>3. 0 \in N
  BY <1>1, <1>2
<1>4. ASSUME NEW n \in Nat, n \in N PROVE n + 1 \in N
  <2> SUFFICES ASSUME n + 1 <= Len(p)
               PROVE  g[n + 1] \in Int /\ h[n + 1] = g[n + 1] + (IF m <= n + 1 THEN steps[m] ELSE 0)
    OBVIOUS
  <2>1. n + 1 \in 1 .. Len(p) /\ (n + 1) - 1 = n
    OBVIOUS
  <2>2. g[n] \in Int /\ h[n] = g[n] + (IF m <= n THEN steps[m] ELSE 0) /\ steps[n + 1] \in Int /\ steps[m] \in Int
    BY <1>4, <2>1
  <2>3. /\ g[n + 1] = g[n] + (IF n + 1 \in S THEN steps[n + 1] ELSE 0)
        /\ h[n + 1] = h[n] + (IF n + 1 \in T THEN steps[n + 1] ELSE 0)
    BY <1>1, <1>2, <2>1
  <2> HIDE DEF N
  <2>4. CASE n + 1 = m
    BY <1>0, <2>2, <2>3, <2>4
  <2>5. CASE n + 1 # m
    <3>1. (m <= n + 1) <=> (m <= n)
      BY <2>5
    <3>2. (n + 1 \in T) <=> (n + 1 \in S)
      BY <1>0, <2>5
    <3>3. QED
      BY <2>2, <2>3, <3>1, <3>2
  <2>6. QED
    BY <2>4, <2>5
<1>5. Nat \subseteq N
  BY <1>3, <1>4, AllNumbers
<1>6. g[Len(p)] \in Int /\ h[Len(p)] = g[Len(p)] + (IF m <= Len(p) THEN steps[m] ELSE 0)
  BY <1>5
<1>7. m <= Len(p)
  OBVIOUS
<1>8. QED
  BY <1>1, <1>2, <1>6, <1>7

\* Quotient and remainder are the parts of a special opcode.
LEMMA PartsAre ==
  ASSUME LineProgramAssumption, NEW k \in Nat
  PROVE  SpecialParts(k) = << LineBase + (k % LineRange), k \div LineRange >>
<1> DEFINE R == LineRange
           a == k % R
           b == k \div R
<1>1. R \in Nat \ {0} /\ LineBase \in Int
  BY DEF LineProgramAssumption
<1>2. b \in Nat /\ a \in 0 .. R - 1 /\ k = (R * b) + a
  BY <1>1
<1>3. R * b >= b
  <2> HIDE DEF R, b
  <2>1. QED
    BY <1>1, <1>2
<1>4. b \in 0 .. k /\ LineBase + a \in LineBase .. LineBase + R - 1 /\ k = ((LineBase + a) - LineBase) + R * b
  <2>1. R * b \in Nat
    BY <1>1, <1>2
  <2> HIDE DEF R, a, b
  <2>2. QED
    BY <1>1, <1>2, <1>3, <2>1
<1>5. ASSUME NEW d \in (LineBase .. LineBase + LineRange - 1) \X (0 .. k), k = (d[1] - LineBase) + LineRange * d[2]
      PROVE  d = << LineBase + a, b >>
  <2>1. PICK x, y : x = d[1] - LineBase /\ y = d[2]
    OBVIOUS
  <2>2. x \in 0 .. R - 1 /\ y \in Nat /\ k = x + R * y /\ d = << LineBase + x, y >>
    BY <1>1, <1>5, <2>1, SMTT(30)
  <2> HIDE DEF R, a, b
  <2>3. R * y \in Int /\ R * b \in Int
    BY <1>1, <1>2, <2>2
  <2>4. y <= b
    <3>1. SUFFICES ASSUME b + 1 <= y PROVE FALSE
      BY <1>2, <2>2
    <3>2. R * (b + 1) <= R * y /\ R * (b + 1) = R * b + R
      BY <1>1, <1>2, <2>2, <3>1
    <3>3. QED
      BY <1>1, <1>2, <2>2, <2>3, <3>2
  <2>5. b <= y
    <3>1. SUFFICES ASSUME y + 1 <= b PROVE FALSE
      BY <1>2, <2>2
    <3>2. R * (y + 1) <= R * b /\ R * (y + 1) = R * y + R
      BY <1>1, <1>2, <2>2, <3>1
    <3>3. QED
      BY <1>1, <1>2, <2>2, <2>3, <3>2
  <2>6. y = b /\ x = a
    BY <1>2, <2>2, <2>3, <2>4, <2>5, SMTT(30)
  <2>7. QED
    BY <2>2, <2>6
<1>6. PICK e : e = << LineBase + a, b >>
  OBVIOUS
<1>7. e \in (LineBase .. LineBase + LineRange - 1) \X (0 .. k) /\ k = (e[1] - LineBase) + LineRange * e[2]
  BY <1>4, <1>6
<1> HIDE DEF a, b
<1>8. SpecialParts(k) = e
  BY <1>5, <1>6, <1>7 DEF SpecialParts
<1>9. QED
  BY <1>6, <1>8 DEF a, b

\* The instructions of a sequence are those before and the last.
LEMMA SequencesGrow ==
  ASSUME NEW p, NEW i \in Nat \ {0}
  PROVE  /\ SequenceTo(p, i) = OpenAt(p, i) \cup {i}
         /\ OpenAt(p, i) \subseteq 1 .. i - 1
         /\ OpenAt(p, i + 1) = IF Is(p, i, {"end_sequence"}) THEN {} ELSE OpenAt(p, i) \cup {i}
<1>1. i \in 1 .. i /\ 1 .. i = (1 .. i - 1) \cup {i} /\ i \notin 1 .. i - 1 /\ i .. i - 1 = {} /\ (i + 1) - 1 = i
  OBVIOUS
<1>2. ASSUME NEW j \in 1 .. i PROVE j .. i = (j .. i - 1) \cup {i}
  OBVIOUS
<1>3. OpenAt(p, i) \subseteq 1 .. i - 1
  BY DEF OpenAt
<1>4. SequenceTo(p, i) = OpenAt(p, i) \cup {i}
  BY <1>1 DEF SequenceTo, OpenAt
<1>5. OpenAt(p, i + 1) = {j \in 1 .. i : \A k \in j .. i : ~Is(p, k, {"end_sequence"})}
  BY <1>1 DEF OpenAt
<1>6. CASE Is(p, i, {"end_sequence"})
  <2>1. \A j \in 1 .. i : i \in j .. i
    OBVIOUS
  <2>2. OpenAt(p, i + 1) = {}
    BY <1>5, <1>6, <2>1
  <2>3. QED
    BY <1>3, <1>4, <1>6, <2>2
<1>7. CASE ~Is(p, i, {"end_sequence"})
  <2>1. OpenAt(p, i + 1) = SequenceTo(p, i)
    BY <1>2, <1>5, <1>7 DEF SequenceTo
  <2>2. QED
    BY <1>3, <1>4, <1>7, <2>1
<1>8. QED
  BY <1>3, <1>4, <1>6, <1>7

\* So are those since a row or an address.
LEMMA SinceGrows ==
  ASSUME NEW p, NEW i \in Nat \ {0}
  PROVE  /\ SinceRow(p, i) = SinceRowAt(p, i) \cup {i}
         /\ SinceRowAt(p, i + 1) = IF Is(p, i, RowOps) THEN {} ELSE SinceRowAt(p, i) \cup {i}
         /\ AfterSet(p, i) = IF Is(p, i, {"set_address"}) THEN {} ELSE AfterSetAt(p, i) \cup {i}
         /\ AfterSetAt(p, i + 1) = IF Is(p, i, {"end_sequence", "set_address"}) THEN {} ELSE AfterSetAt(p, i) \cup {i}
         /\ SinceRowAt(p, i) \subseteq 1 .. i - 1 /\ AfterSetAt(p, i) \subseteq 1 .. i - 1
<1>1. i \in 1 .. i /\ i \notin 1 .. i - 1 /\ i .. i - 1 = {} /\ i .. i = {i} /\ (i + 1) - 1 = i
  OBVIOUS
<1>2. ASSUME NEW j \in 1 .. i PROVE j .. i = (j .. i - 1) \cup {i}
  OBVIOUS
<1>3. /\ SequenceTo(p, i) = OpenAt(p, i) \cup {i} /\ OpenAt(p, i) \subseteq 1 .. i - 1
      /\ OpenAt(p, i + 1) = IF Is(p, i, {"end_sequence"}) THEN {} ELSE SequenceTo(p, i)
  BY SequencesGrow
<1>4. SequenceTo(p, i) \subseteq 1 .. i
  BY DEF SequenceTo
<1>5. Is(p, i, {"end_sequence"}) => Is(p, i, RowOps)
  BY DEF Is, RowOps
<1>6. Is(p, i, {"end_sequence", "set_address"}) <=> Is(p, i, {"end_sequence"}) \/ Is(p, i, {"set_address"})
  BY DEF Is
<1>7. SinceRow(p, i) = SinceRowAt(p, i) \cup {i}
  BY <1>1, <1>3 DEF SinceRow, SinceRowAt
<1>8. SinceRowAt(p, i + 1) = {j \in OpenAt(p, i + 1) : \A k \in j .. i : ~Is(p, k, RowOps)}
  BY <1>1 DEF SinceRowAt
<1>9. SinceRowAt(p, i + 1) = IF Is(p, i, RowOps) THEN {} ELSE SinceRow(p, i)
  <2>1. CASE Is(p, i, RowOps)
    BY <1>2, <1>3, <1>4, <1>8, <2>1
  <2>2. CASE ~Is(p, i, RowOps)
    BY <1>2, <1>3, <1>4, <1>5, <1>8, <2>2 DEF SinceRow
  <2>3. QED
    BY <2>1, <2>2
<1>10. AfterSet(p, i) = IF Is(p, i, {"set_address"}) THEN {} ELSE AfterSetAt(p, i) \cup {i}
  <2>1. CASE Is(p, i, {"set_address"})
    BY <1>2, <1>4, <2>1 DEF AfterSet
  <2>2. CASE ~Is(p, i, {"set_address"})
    <3>1. AfterSet(p, i) = {j \in SequenceTo(p, i) : \A k \in j .. i - 1 : ~Is(p, k, {"set_address"})}
      BY <1>2, <1>4, <2>2 DEF AfterSet
    <3>2. QED
      BY <1>1, <1>3, <2>2, <3>1 DEF AfterSetAt
  <2>3. QED
    BY <2>1, <2>2
<1>11. AfterSetAt(p, i + 1) = {j \in OpenAt(p, i + 1) : \A k \in j .. i : ~Is(p, k, {"set_address"})}
  BY <1>1 DEF AfterSetAt
<1>12. AfterSetAt(p, i + 1) = IF Is(p, i, {"end_sequence"}) THEN {} ELSE AfterSet(p, i)
  BY <1>3, <1>11 DEF AfterSet
<1>13. SinceRowAt(p, i) \subseteq 1 .. i - 1 /\ AfterSetAt(p, i) \subseteq 1 .. i - 1
  BY <1>3 DEF SinceRowAt, AfterSetAt
<1>14. QED
  BY <1>6, <1>7, <1>9, <1>10, <1>12, <1>13

\* What the last instruction sets.
LEMMA LastSetIs ==
  ASSUME NEW p, NEW i, NEW S, NEW T, Grown(S, i, T), NEW name, NEW d
  PROVE  LastSet(p, T, name, d) = IF Is(p, i, {name}) THEN p[i][2] ELSE LastSet(p, S, name, d)
<1> USE DEF Grown
<1> DEFINE L == {j \in T : Is(p, j, {name})}
<1>1. CASE Is(p, i, {name})
  <2>1. i \in L
    BY <1>1
  <2>2. \A j \in L : j \in Nat /\ i >= j
    OBVIOUS
  <2> HIDE DEF L
  <2>3. \A x \in L : (\A y \in L : x >= y) => x = i
    BY <2>1, <2>2
  <2>4. Max(L) = i
    BY <2>1, <2>2, <2>3 DEF Max
  <2>5. QED
    BY <1>1, <2>1, <2>4 DEF LastSet, L
<1>2. CASE ~Is(p, i, {name})
  <2>1. L = {j \in S : Is(p, j, {name})}
    BY <1>2
  <2>2. QED
    BY <1>2, <2>1 DEF LastSet
<1>3. QED
  BY <1>1, <1>2

\* Their number is even.
EvenIn(p, S, name) == Cardinality({j \in S : Is(p, j, {name})}) % 2 = 0

\* The parity of negations.
LEMMA ParityFlips ==
  ASSUME NEW p, NEW i, NEW S, NEW T, Grown(S, i, T), NEW name
  PROVE  EvenIn(p, T, name) <=> (Is(p, i, {name}) <=> ~EvenIn(p, S, name))
<1> USE DEF Grown, EvenIn
<1> DEFINE A == {j \in S : Is(p, j, {name})}
           B == {j \in T : Is(p, j, {name})}
<1>1. IsFiniteSet(A) /\ Cardinality(A) \in Nat
  <2>1. IsFiniteSet(1 .. i - 1)
    BY FS_Interval
  <2>2. IsFiniteSet(A)
    BY <2>1, FS_Subset
  <2>3. QED
    BY <2>2, FS_CardinalityType
<1>2. CASE Is(p, i, {name})
  <2>1. B = A \cup {i} /\ i \notin A
    BY <1>2
  <2> HIDE DEF A, B
  <2>2. Cardinality(B) = Cardinality(A) + 1
    BY <1>1, <2>1, FS_AddElement
  <2>3. PICK n \in Nat : n = Cardinality(A)
    BY <1>1
  <2>4. (n + 1) % 2 = 0 <=> ~(n % 2 = 0)
    OBVIOUS
  <2>5. QED
    BY <1>2, <2>2, <2>3, <2>4 DEF A, B
<1>3. CASE ~Is(p, i, {name})
  <2>1. A = B
    BY <1>3
  <2>2. QED
    BY <1>3, <2>1
<1>4. QED
  BY <1>2, <1>3

\* The steps of line and address.
LEMMA StepsAre ==
  ASSUME NEW p \in Programs, NEW i \in 1 .. Len(p), NEW op, op = p[i][1]
  PROVE  /\ LineSteps(p)[i] = IF op = "special" THEN LineAddend(p[i][2])
                              ELSE IF op = "advance_line" THEN p[i][2] ELSE 0
         /\ AddressSteps(p)[i] = IF op = "special" THEN AddressAddend(p[i][2])
                                 ELSE IF op = "advance_pc" THEN p[i][2] * InstLength
                                 ELSE IF op = "fixed_advance_pc" THEN p[i][2]
                                 ELSE IF op = "const_add_pc" THEN AddressAddend(MaxSpecial) ELSE 0
         /\ LineSteps(p)[i] \in Int /\ AddressSteps(p)[i] \in Int
<1>1. /\ LineBase \in Int /\ LineRange \in Nat \ {0} /\ InstLength \in Nat \ {0} /\ MaxSpecial \in Nat
      /\ WellFormed(p[i])
  BY LineProgramAssumption
<1>2. /\ op = "special" => p[i][2] \in Nat
      /\ op \in {"advance_pc", "fixed_advance_pc"} => p[i][2] \in Nat
      /\ op = "advance_line" => p[i][2] \in Int
  BY <1>1 DEF WellFormed
<1>3. ASSUME NEW k \in Nat
      PROVE  /\ SpecialParts(k)[1] = LineAddend(k) /\ SpecialParts(k)[2] * InstLength = AddressAddend(k)
             /\ LineAddend(k) \in Int /\ AddressAddend(k) \in Int
  <2>1. SpecialParts(k) = << LineBase + (k % LineRange), k \div LineRange >>
    BY PartsAre, LineProgramAssumption
  <2>2. k % LineRange \in Int /\ k \div LineRange \in Int
    BY <1>1
  <2>3. (k \div LineRange) * InstLength \in Int
    BY <1>1, <2>2
  <2>4. QED
    BY <1>1, <2>1, <2>2, <2>3 DEF LineAddend, AddressAddend
<1>4. op = "advance_pc" => p[i][2] * InstLength \in Int
  BY <1>1, <1>2
<1>5. LineSteps(p)[i] = IF op = "special" THEN SpecialParts(p[i][2])[1]
                        ELSE IF op = "advance_line" THEN p[i][2] ELSE 0
  BY DEF LineSteps, Is
<1>6. AddressSteps(p)[i] = CASE op = "special"          -> SpecialParts(p[i][2])[2] * InstLength
                             [] op = "advance_pc"       -> p[i][2] * InstLength
                             [] op = "fixed_advance_pc" -> p[i][2]
                             [] op = "const_add_pc"     -> SpecialParts(MaxSpecial)[2] * InstLength
                             [] OTHER                   -> 0
  BY DEF AddressSteps, Is
<1>7. op = "special" => /\ SpecialParts(p[i][2])[1] = LineAddend(p[i][2]) /\ LineAddend(p[i][2]) \in Int
                        /\ SpecialParts(p[i][2])[2] * InstLength = AddressAddend(p[i][2])
                        /\ AddressAddend(p[i][2]) \in Int
  BY <1>2, <1>3
<1>8. SpecialParts(MaxSpecial)[2] * InstLength = AddressAddend(MaxSpecial) /\ AddressAddend(MaxSpecial) \in Int
  BY <1>1, <1>3
<1>9. LineSteps(p)[i] \in Int /\ LineSteps(p)[i] = IF op = "special" THEN LineAddend(p[i][2])
                              ELSE IF op = "advance_line" THEN p[i][2] ELSE 0
  BY <1>2, <1>5, <1>7
<1>10. CASE op = "special"
  BY <1>6, <1>7, <1>9, <1>10
<1>11. CASE op # "special"
  BY <1>2, <1>4, <1>6, <1>8, <1>9, <1>11
<1>12. QED
  BY <1>10, <1>11

\* One of them has that name.
HasIn(p, S, name) == \E j \in S : Is(p, j, {name})

\* The address last set is a number.
Addressed(p, i) == LastSet(p, OpenAt(p, i), "set_address", 0) \in Nat

\* Registers, and the same with some of them changed.
IsState(s) == s = [z \in DOMAIN LineState |-> s[z]]

Changed(s, a, l, d) == [s EXCEPT !.address = a, !.line = l, !.end_sequence = d]

WithFields(s, a, l, d) ==
  [address |-> a, file |-> s.file, line |-> l, column |-> s.column, is_stmt |-> s.is_stmt,
   basic_block |-> s.basic_block, end_sequence |-> d, prologue_end |-> s.prologue_end,
   epilogue_begin |-> s.epilogue_begin, isa |-> s.isa]

\* These are the same.
LEMMA StateChanged ==
  ASSUME NEW s, IsState(s), NEW a, NEW l, NEW d PROVE Changed(s, a, l, d) = WithFields(s, a, l, d)
<1>1. PICK x : x = Changed(s, a, l, d)
  OBVIOUS
<1>2. PICK y : y = WithFields(s, a, l, d)
  OBVIOUS
<1> DEFINE F == {"address", "file", "line", "column", "is_stmt", "basic_block", "end_sequence",
                 "prologue_end", "epilogue_begin", "isa"}
<1>3. s = [z \in F |-> s[z]]
  BY DEF IsState, LineState
<1>4. /\ x = [z \in F |-> x[z]] /\ x.address = a /\ x.line = l /\ x.end_sequence = d
      /\ \A z \in F \ {"address", "line", "end_sequence"} : x[z] = s[z]
  BY <1>1, <1>3 DEF Changed
<1>5. /\ y = [z \in F |-> y[z]] /\ y.address = a /\ y.line = l /\ y.end_sequence = d
      /\ \A z \in F \ {"address", "line", "end_sequence"} : y[z] = s[z]
  BY <1>2 DEF WithFields
<1>6. \A z \in F : x[z] = y[z]
  BY <1>4, <1>5
<1>7. x = y
  BY <1>4, <1>5, <1>6
<1>8. QED
  BY <1>1, <1>2, <1>7

\* The flags of the registers s are Booleans, and end no sequence.
Flags(s) ==
  /\ s.is_stmt \in BOOLEAN /\ s.basic_block \in BOOLEAN /\ s.prologue_end \in BOOLEAN
  /\ s.epilogue_begin \in BOOLEAN /\ s.end_sequence = FALSE

\* The registers that the instruction << op, arg >> leaves of s, a and l being the new
\* address and line.
After(op, arg, s, a, l) ==
  IF op = "end_sequence" THEN LineState ELSE
  [address |-> IF op = "set_address" THEN arg ELSE a,
   file |-> IF op = "set_file" THEN arg ELSE s.file,
   line |-> l,
   column |-> IF op = "set_column" THEN arg ELSE s.column,
   is_stmt |-> IF op = "negate_stmt" THEN ~s.is_stmt ELSE s.is_stmt,
   basic_block |-> op \notin RowOps /\ (s.basic_block \/ op = "set_basic_block"),
   end_sequence |-> FALSE,
   prologue_end |-> op \notin RowOps /\ (s.prologue_end \/ op = "set_prologue_end"),
   epilogue_begin |-> op \notin RowOps /\ (s.epilogue_begin \/ op = "set_epilogue_begin"),
   isa |-> IF op = "set_isa" THEN arg ELSE s.isa]

\* The registers after an instruction, from those before it; where a row is added, the
\* registers in it.
LEMMA StateGoesOn ==
  ASSUME NEW p \in Programs, NEW i \in 1 .. Len(p), NEW op, op = p[i][1],
         NEW s, s = StateAt(p, i), NEW a, a = s.address + AddressSteps(p)[i], NEW l, l = s.line + LineSteps(p)[i],
         Addressed(p, i)
  PROVE  /\ Addressed(p, i + 1) /\ IsState(s) /\ s.address \in Int /\ s.line \in Int
         /\ Flags(s)
         /\ StateAt(p, i + 1) = After(op, p[i][2], s, a, l)
         /\ op \in RowOps => Row(p, i) = Changed(s, a, l, op = "end_sequence")
<1> DEFINE O == OpenAt(p, i)
           S == SequenceTo(p, i)
<1>1. Len(p) \in Nat /\ i \in Nat \ {0} /\ i \notin 1 .. i - 1
  BY LineProgramAssumption
<1>2. Grown(O, i, S)
  <2>1. S = O \cup {i} /\ O \subseteq 1 .. i - 1
    BY <1>1, SequencesGrow, Zenon
  <2>2. QED
    BY <1>1, <2>1 DEF Grown
<1>3. OpenAt(p, i + 1) = IF op = "end_sequence" THEN {} ELSE S
  <2>1. OpenAt(p, i + 1) = IF Is(p, i, {"end_sequence"}) THEN {} ELSE O \cup {i}
    BY <1>1, SequencesGrow, Zenon
  <2>2. QED
    BY <1>2, <2>1 DEF Is, Grown
<1> DEFINE A == AfterSetAt(p, i)
           B == SinceRowAt(p, i)
           T == A \cup {i}
<1>4. /\ SinceRow(p, i) = B \cup {i}
      /\ SinceRowAt(p, i + 1) = IF op \in RowOps THEN {} ELSE B \cup {i}
      /\ AfterSet(p, i) = IF op = "set_address" THEN {} ELSE T
      /\ AfterSetAt(p, i + 1) = IF op \in {"end_sequence", "set_address"} THEN {} ELSE T
      /\ Grown(A, i, T)
  <2>1. /\ SinceRow(p, i) = B \cup {i}
        /\ SinceRowAt(p, i + 1) = IF Is(p, i, RowOps) THEN {} ELSE B \cup {i}
        /\ AfterSet(p, i) = IF Is(p, i, {"set_address"}) THEN {} ELSE A \cup {i}
        /\ AfterSetAt(p, i + 1) = IF Is(p, i, {"end_sequence", "set_address"}) THEN {} ELSE A \cup {i}
        /\ A \subseteq 1 .. i - 1
    BY <1>1, SinceGrows, Zenon
  <2>2. Grown(A, i, T)
    BY <1>1, <2>1 DEF Grown
  <2>3. QED
    BY <2>1, <2>2 DEF Is
<1> HIDE DEF O, S, A, B, T
<1>5. ASSUME NEW name PROVE Is(p, i, {name}) <=> op = name
  BY DEF Is
<1>6. ASSUME NEW name, NEW d
      PROVE  LastSet(p, S, name, d) = IF op = name THEN p[i][2] ELSE LastSet(p, O, name, d)
  <2>1. LastSet(p, S, name, d) = IF Is(p, i, {name}) THEN p[i][2] ELSE LastSet(p, O, name, d)
    BY <1>2, LastSetIs
  <2>2. QED
    BY <1>5, <2>1
<1>7. StmtAfter(p, S) <=> (op = "negate_stmt" <=> ~StmtAfter(p, O))
  <2>1. EvenIn(p, S, "negate_stmt") <=> (op = "negate_stmt" <=> ~EvenIn(p, O, "negate_stmt"))
    BY <1>2, <1>5, ParityFlips
  <2>2. ASSUME NEW X PROVE StmtAfter(p, X) <=> (EvenIn(p, X, "negate_stmt") <=> DefaultIsStmt)
    BY LineProgramAssumption DEF StmtAfter, EvenIn
  <2>3. QED
    BY <2>1, <2>2
<1>8. AreSteps(p, LineSteps(p)) /\ AreSteps(p, AddressSteps(p))
  BY <1>1, StepsAre DEF AreSteps
<1>9. Total(p, LineSteps(p), S) = Total(p, LineSteps(p), O) + LineSteps(p)[i] /\ Total(p, LineSteps(p), O) \in Int
  BY <1>2, <1>8, TotalAdds
<1>10. Total(p, AddressSteps(p), T) = Total(p, AddressSteps(p), A) + AddressSteps(p)[i] /\ Total(p, AddressSteps(p), A) \in Int
  BY <1>4, <1>8, TotalAdds
<1>11. ASSUME NEW steps PROVE Total(p, steps, {}) = 0
  BY <1>1, TotalNone
<1>12. ASSUME NEW name, NEW d PROVE LastSet(p, {}, name, d) = d
  BY DEF LastSet
<1>13. StmtAfter(p, {}) = DefaultIsStmt
  <2>1. {j \in {} : Is(p, j, {"negate_stmt"})} = {}
    OBVIOUS
  <2>2. QED
    BY <2>1, FS_EmptySet, LineProgramAssumption DEF StmtAfter
<1>14. ASSUME NEW name PROVE HasIn(p, B \cup {i}, name) <=> HasIn(p, B, name) \/ op = name
  BY <1>5 DEF HasIn
<1>15. s = [address |-> LastSet(p, O, "set_address", 0) + Total(p, AddressSteps(p), A),
            file |-> LastSet(p, O, "set_file", 1), line |-> 1 + Total(p, LineSteps(p), O),
            column |-> LastSet(p, O, "set_column", 0), is_stmt |-> StmtAfter(p, O),
            basic_block |-> HasIn(p, B, "set_basic_block"), end_sequence |-> FALSE,
            prologue_end |-> HasIn(p, B, "set_prologue_end"), epilogue_begin |-> HasIn(p, B, "set_epilogue_begin"),
            isa |-> LastSet(p, O, "set_isa", 0)]
  BY DEF StateAt, HasIn, O, A, B
<1> DEFINE P  == OpenAt(p, i + 1)
           Ap == AfterSetAt(p, i + 1)
           Bp == SinceRowAt(p, i + 1)
<1>16. StateAt(p, i + 1) =
           [address |-> LastSet(p, P, "set_address", 0) + Total(p, AddressSteps(p), Ap),
            file |-> LastSet(p, P, "set_file", 1), line |-> 1 + Total(p, LineSteps(p), P),
            column |-> LastSet(p, P, "set_column", 0), is_stmt |-> StmtAfter(p, P),
            basic_block |-> HasIn(p, Bp, "set_basic_block"), end_sequence |-> FALSE,
            prologue_end |-> HasIn(p, Bp, "set_prologue_end"),
            epilogue_begin |-> HasIn(p, Bp, "set_epilogue_begin"),
            isa |-> LastSet(p, P, "set_isa", 0)]
  BY DEF StateAt, HasIn
<1>17. Row(p, i) =
           [address |-> LastSet(p, S, "set_address", 0) + Total(p, AddressSteps(p), AfterSet(p, i)),
            file |-> LastSet(p, S, "set_file", 1), line |-> 1 + Total(p, LineSteps(p), S),
            column |-> LastSet(p, S, "set_column", 0), is_stmt |-> StmtAfter(p, S),
            basic_block |-> HasIn(p, SinceRow(p, i), "set_basic_block"),
            end_sequence |-> Is(p, i, {"end_sequence"}),
            prologue_end |-> HasIn(p, SinceRow(p, i), "set_prologue_end"),
            epilogue_begin |-> HasIn(p, SinceRow(p, i), "set_epilogue_begin"),
            isa |-> LastSet(p, S, "set_isa", 0)]
  BY DEF Row, HasIn, S
<1> HIDE DEF P, Ap, Bp
<1>18. /\ LastSet(p, O, "set_address", 0) \in Nat /\ AddressSteps(p)[i] \in Int /\ LineSteps(p)[i] \in Int
       /\ op = "set_address" => p[i][2] \in Nat
  BY <1>1, StepsAre, LineProgramAssumption DEF Addressed, O, WellFormed
<1>19. /\ a = LastSet(p, O, "set_address", 0) + Total(p, AddressSteps(p), T)
       /\ l = 1 + Total(p, LineSteps(p), S)
  <2>1. s.address = LastSet(p, O, "set_address", 0) + Total(p, AddressSteps(p), A) /\ s.line = 1 + Total(p, LineSteps(p), O)
    BY <1>15
  <2>2. PICK x, y, u, v : /\ x = LastSet(p, O, "set_address", 0) /\ y = Total(p, AddressSteps(p), A)
                          /\ u = AddressSteps(p)[i] /\ v = Total(p, LineSteps(p), O)
    OBVIOUS
  <2>3. x \in Int /\ y \in Int /\ u \in Int /\ v \in Int /\ LineSteps(p)[i] \in Int
    BY <1>9, <1>10, <1>18, <2>2
  <2>4. a = (x + y) + u /\ l = (1 + v) + LineSteps(p)[i]
    BY <2>1, <2>2
  <2>5. Total(p, AddressSteps(p), T) = y + u /\ Total(p, LineSteps(p), S) = v + LineSteps(p)[i]
    BY <1>9, <1>10, <2>2
  <2>6. (x + y) + u = x + (y + u) /\ (1 + v) + LineSteps(p)[i] = 1 + (v + LineSteps(p)[i])
    BY <2>3
  <2>7. QED
    BY <2>2, <2>4, <2>5, <2>6, Zenon
<1>20. op \in RowOps => Row(p, i) = Changed(s, a, l, op = "end_sequence")
  <2>1. SUFFICES ASSUME op \in RowOps PROVE Row(p, i) = Changed(s, a, l, op = "end_sequence")
    OBVIOUS
  <2>2. op \in {"special", "copy", "end_sequence"}
    BY <2>1 DEF RowOps
  <2>3. LastSet(p, S, "set_address", 0) + Total(p, AddressSteps(p), AfterSet(p, i)) = a
    BY <1>4, <1>6, <1>19, <2>2
  <2>4. /\ LastSet(p, S, "set_file", 1) = LastSet(p, O, "set_file", 1)
        /\ LastSet(p, S, "set_column", 0) = LastSet(p, O, "set_column", 0)
        /\ LastSet(p, S, "set_isa", 0) = LastSet(p, O, "set_isa", 0)
    BY <1>6, <2>2
  <2>5. StmtAfter(p, S) = StmtAfter(p, O)
    BY <1>7, <2>2 DEF StmtAfter
  <2>6. Is(p, i, {"end_sequence"}) = (op = "end_sequence")
    BY <1>5 DEF Is
  <2>7. /\ HasIn(p, SinceRow(p, i), "set_basic_block") = HasIn(p, B, "set_basic_block")
        /\ HasIn(p, SinceRow(p, i), "set_prologue_end") = HasIn(p, B, "set_prologue_end")
        /\ HasIn(p, SinceRow(p, i), "set_epilogue_begin") = HasIn(p, B, "set_epilogue_begin")
    <3>1. ASSUME NEW name, op # name PROVE HasIn(p, SinceRow(p, i), name) <=> HasIn(p, B, name)
      BY <1>4, <1>14, <3>1
    <3>2. QED
      BY <2>2, <3>1 DEF HasIn
  <2>8. Row(p, i) =
           [address |-> a, file |-> LastSet(p, O, "set_file", 1), line |-> l,
            column |-> LastSet(p, O, "set_column", 0), is_stmt |-> StmtAfter(p, O),
            basic_block |-> HasIn(p, B, "set_basic_block"), end_sequence |-> (op = "end_sequence"),
            prologue_end |-> HasIn(p, B, "set_prologue_end"), epilogue_begin |-> HasIn(p, B, "set_epilogue_begin"),
            isa |-> LastSet(p, O, "set_isa", 0)]
    BY <1>17, <1>19, <2>3, <2>4, <2>5, <2>6, <2>7
  <2>9. QED
    <3>1. IsState(s)
      BY <1>15 DEF IsState, LineState
    <3>2. PICK e : e = (op = "end_sequence")
      OBVIOUS
    <3>3. Changed(s, a, l, e) = WithFields(s, a, l, e)
      BY <3>1, StateChanged
    <3>4. /\ s.file = LastSet(p, O, "set_file", 1) /\ s.column = LastSet(p, O, "set_column", 0)
          /\ s.is_stmt = StmtAfter(p, O) /\ s.basic_block = HasIn(p, B, "set_basic_block")
          /\ s.prologue_end = HasIn(p, B, "set_prologue_end")
          /\ s.epilogue_begin = HasIn(p, B, "set_epilogue_begin") /\ s.isa = LastSet(p, O, "set_isa", 0)
      BY <1>15
    <3>5. Row(p, i) = WithFields(s, a, l, e)
      BY <2>8, <3>2, <3>4 DEF WithFields
    <3>6. QED
      BY <3>2, <3>3, <3>5
<1>21. IsState(s) /\ s.address \in Int /\ s.line \in Int /\ Flags(s)
  <2>1. IsState(s)
    BY <1>15 DEF IsState, LineState
  <2>2. s.address = LastSet(p, O, "set_address", 0) + Total(p, AddressSteps(p), A) /\ s.line = 1 + Total(p, LineSteps(p), O)
    BY <1>15
  <2>3. Flags(s)
    <3>1. /\ s.is_stmt = StmtAfter(p, O) /\ s.basic_block = HasIn(p, B, "set_basic_block")
          /\ s.prologue_end = HasIn(p, B, "set_prologue_end")
          /\ s.epilogue_begin = HasIn(p, B, "set_epilogue_begin") /\ s.end_sequence = FALSE
      BY <1>15
    <3>2. QED
      BY <3>1 DEF Flags, StmtAfter, HasIn
  <2>4. QED
    BY <1>9, <1>10, <1>18, <2>1, <2>2, <2>3, SMTT(30)
<1>22. CASE op = "end_sequence"
  <2>1. P = {} /\ Ap = {} /\ Bp = {}
    BY <1>3, <1>4, <1>22 DEF P, Ap, Bp, RowOps
  <2>2. StateAt(p, i + 1) =
           [address |-> 0, file |-> 1, line |-> 1, column |-> 0, is_stmt |-> DefaultIsStmt,
            basic_block |-> FALSE, end_sequence |-> FALSE, prologue_end |-> FALSE, epilogue_begin |-> FALSE, isa |-> 0]
    <3>1. LastSet(p, P, "set_address", 0) + Total(p, AddressSteps(p), Ap) = 0 /\ 1 + Total(p, LineSteps(p), P) = 1
      BY <1>11, <1>12, <2>1
    <3>2. StmtAfter(p, P) = DefaultIsStmt
      BY <1>13, <2>1
    <3>3. /\ LastSet(p, P, "set_file", 1) = 1 /\ LastSet(p, P, "set_column", 0) = 0
          /\ LastSet(p, P, "set_isa", 0) = 0
      BY <1>12, <2>1
    <3>4. /\ HasIn(p, Bp, "set_basic_block") = FALSE /\ HasIn(p, Bp, "set_prologue_end") = FALSE
          /\ HasIn(p, Bp, "set_epilogue_begin") = FALSE
      BY <2>1 DEF HasIn
    <3>5. QED
      BY <1>16, <3>1, <3>2, <3>3, <3>4
  <2>3. Addressed(p, i + 1)
    <3>1. LastSet(p, P, "set_address", 0) = 0
      BY <1>12, <2>1
    <3>2. QED
      BY <3>1 DEF Addressed, P
  <2>4. QED
    BY <1>20, <1>21, <1>22, <2>2, <2>3 DEF LineState, After
<1>23. CASE op # "end_sequence"
  <2>1. P = S /\ Bp = (IF op \in RowOps THEN {} ELSE B \cup {i}) /\ Ap = (IF op = "set_address" THEN {} ELSE T)
    BY <1>3, <1>4, <1>23 DEF P, Ap, Bp
  <2>2. LastSet(p, P, "set_address", 0) + Total(p, AddressSteps(p), Ap) = IF op = "set_address" THEN p[i][2] ELSE a
    BY <1>6, <1>11, <1>18, <1>19, <2>1
  <2>3. ASSUME NEW name PROVE HasIn(p, Bp, name) <=> op \notin RowOps /\ (HasIn(p, B, name) \/ op = name)
    <3>1. CASE op \in RowOps
      BY <2>1, <3>1 DEF HasIn
    <3>2. CASE op \notin RowOps
      BY <1>14, <2>1, <3>2
    <3>3. QED
      BY <3>1, <3>2
  <2>4. StmtAfter(p, P) = IF op = "negate_stmt" THEN ~StmtAfter(p, O) ELSE StmtAfter(p, O)
    BY <1>7, <2>1 DEF StmtAfter
  <2>5. 1 + Total(p, LineSteps(p), P) = l
    BY <1>19, <2>1
  <2>6. Addressed(p, i + 1)
    BY <1>6, <1>18, <2>1 DEF Addressed, P
  <2>7. /\ HasIn(p, Bp, "set_basic_block") = (op \notin RowOps /\ (HasIn(p, B, "set_basic_block") \/ op = "set_basic_block"))
        /\ HasIn(p, Bp, "set_prologue_end") = (op \notin RowOps /\ (HasIn(p, B, "set_prologue_end") \/ op = "set_prologue_end"))
        /\ HasIn(p, Bp, "set_epilogue_begin") = (op \notin RowOps /\ (HasIn(p, B, "set_epilogue_begin") \/ op = "set_epilogue_begin"))
    BY <2>3 DEF HasIn
  <2>8. /\ LastSet(p, P, "set_file", 1) = IF op = "set_file" THEN p[i][2] ELSE s.file
        /\ LastSet(p, P, "set_column", 0) = IF op = "set_column" THEN p[i][2] ELSE s.column
        /\ LastSet(p, P, "set_isa", 0) = IF op = "set_isa" THEN p[i][2] ELSE s.isa
    BY <1>6, <1>15, <2>1
  <2>9. /\ s.is_stmt = StmtAfter(p, O) /\ s.basic_block = HasIn(p, B, "set_basic_block")
        /\ s.prologue_end = HasIn(p, B, "set_prologue_end") /\ s.epilogue_begin = HasIn(p, B, "set_epilogue_begin")
    BY <1>15
  <2>10. StateAt(p, i + 1) =
              [address |-> IF op = "set_address" THEN p[i][2] ELSE a,
               file |-> IF op = "set_file" THEN p[i][2] ELSE s.file,
               line |-> l,
               column |-> IF op = "set_column" THEN p[i][2] ELSE s.column,
               is_stmt |-> IF op = "negate_stmt" THEN ~s.is_stmt ELSE s.is_stmt,
               basic_block |-> op \notin RowOps /\ (s.basic_block \/ op = "set_basic_block"),
               end_sequence |-> FALSE,
               prologue_end |-> op \notin RowOps /\ (s.prologue_end \/ op = "set_prologue_end"),
               epilogue_begin |-> op \notin RowOps /\ (s.epilogue_begin \/ op = "set_epilogue_begin"),
               isa |-> IF op = "set_isa" THEN p[i][2] ELSE s.isa]
    <3>1. StmtAfter(p, P) = IF op = "negate_stmt" THEN ~s.is_stmt ELSE s.is_stmt
      BY <2>4, <2>9
    <3>2. /\ HasIn(p, Bp, "set_basic_block") = (op \notin RowOps /\ (s.basic_block \/ op = "set_basic_block"))
          /\ HasIn(p, Bp, "set_prologue_end") = (op \notin RowOps /\ (s.prologue_end \/ op = "set_prologue_end"))
          /\ HasIn(p, Bp, "set_epilogue_begin") = (op \notin RowOps /\ (s.epilogue_begin \/ op = "set_epilogue_begin"))
      BY <2>7, <2>9
    <3>3. QED
      BY <1>16, <2>2, <2>5, <2>8, <3>1, <3>2
  <2>11. QED
    <3>1. StateAt(p, i + 1) = After(op, p[i][2], s, a, l)
      BY <1>23, <2>10 DEF After
    <3>2. QED
      BY <1>20, <1>21, <2>6, <3>1
<1>24. QED
  BY <1>22, <1>23

\* Registers with the same fields are the same.
LEMMA SameState ==
  ASSUME NEW x, IsState(x), NEW y, IsState(y),
         x.address = y.address, x.file = y.file, x.line = y.line, x.column = y.column, x.is_stmt = y.is_stmt,
         x.basic_block = y.basic_block, x.end_sequence = y.end_sequence, x.prologue_end = y.prologue_end,
         x.epilogue_begin = y.epilogue_begin, x.isa = y.isa
  PROVE  x = y
<1>1. ASSUME NEW z \in DOMAIN LineState PROVE x[z] = y[z]
  BY DEF LineState
<1>2. QED
  BY <1>1 DEF IsState

\* The registers s with v in the field f, and that y are these.
OneSet(s, f, v) == [s EXCEPT ![f] = v]

Only(s, y, f, v) ==
  /\ IsState(s) /\ IsState(y) /\ f \in DOMAIN LineState
  /\ y[f] = v /\ \A z \in DOMAIN LineState \ {f} : y[z] = s[z]

\* Then that is what y is.
LEMMA OneChanged == ASSUME NEW s, NEW y, NEW f, NEW v, Only(s, y, f, v) PROVE y = OneSet(s, f, v)
<1>1. /\ s = [z \in DOMAIN LineState |-> s[z]] /\ y = [z \in DOMAIN LineState |-> y[z]]
      /\ f \in DOMAIN LineState /\ y[f] = v /\ \A z \in DOMAIN LineState \ {f} : y[z] = s[z]
  BY DEF Only, IsState
<1>2. OneSet(s, f, v) = [z \in DOMAIN LineState |-> IF z = f THEN v ELSE s[z]]
  BY <1>1 DEF OneSet
<1>3. QED
  BY <1>1, <1>2

\* What an instruction that moves the program on does to the registers s.
Moves(p, i, s, t) ==
  LET op  == p[i][1]
      arg == p[i][2]
  IN \/ /\ op = "special"
        /\ t = Cleared([s EXCEPT !.address = @ + AddressAddend(arg), !.line = @ + LineAddend(arg)])
     \/ op = "copy" /\ t = Cleared(s)
     \/ op = "end_sequence" /\ t = LineState
     \/ op = "set_address" /\ t = [s EXCEPT !.address = arg]
     \/ op = "advance_pc" /\ t = [s EXCEPT !.address = @ + arg * InstLength]
     \/ op = "fixed_advance_pc" /\ t = [s EXCEPT !.address = @ + arg]
     \/ op = "const_add_pc" /\ t = [s EXCEPT !.address = @ + AddressAddend(MaxSpecial)]
     \/ op = "set_file" /\ t = [s EXCEPT !.file = arg]
     \/ op = "set_column" /\ t = [s EXCEPT !.column = arg]
     \/ op = "set_isa" /\ t = [s EXCEPT !.isa = arg]
     \/ op = "advance_line" /\ t = [s EXCEPT !.line = @ + arg]
     \/ op = "set_prologue_end" /\ t = [s EXCEPT !.prologue_end = TRUE]
     \/ op = "set_epilogue_begin" /\ t = [s EXCEPT !.epilogue_begin = TRUE]
     \/ op = "negate_stmt" /\ t = [s EXCEPT !.is_stmt = ~@]
     \/ op = "set_basic_block" /\ t = [s EXCEPT !.basic_block = TRUE]
     \/ op \in {"define_file", "unknown_extended"} /\ t = s

\* They are then those the next instruction should find.
LEMMA StateMoves ==
  ASSUME NEW p \in Programs, NEW i \in 1 .. Len(p), Addressed(p, i), NEW t, Moves(p, i, StateAt(p, i), t)
  PROVE  t = StateAt(p, i + 1)
<1>1. PICK op, arg : op = p[i][1] /\ arg = p[i][2]
  OBVIOUS
<1>2. PICK s, y : s = StateAt(p, i) /\ y = StateAt(p, i + 1)
  OBVIOUS
<1>3. PICK a, l : a = s.address + AddressSteps(p)[i] /\ l = s.line + LineSteps(p)[i]
  OBVIOUS
<1>4. IsState(s) /\ s.address \in Int /\ s.line \in Int /\ Flags(s) /\ y = After(op, arg, s, a, l)
  <2>1. p[i][2] = arg
    BY <1>1
  <2>2. /\ IsState(s) /\ s.address \in Int /\ s.line \in Int /\ Flags(s)
        /\ StateAt(p, i + 1) = After(op, p[i][2], s, a, l)
    BY ONLY p \in Programs, i \in 1 .. Len(p), Addressed(p, i), <1>1, <1>2, <1>3, StateGoesOn
  <2>3. QED
    BY <1>2, <2>1, <2>2
<1>5. /\ LineSteps(p)[i] = IF op = "special" THEN LineAddend(arg)
                            ELSE IF op = "advance_line" THEN arg ELSE 0
      /\ AddressSteps(p)[i] = IF op = "special" THEN AddressAddend(arg)
                               ELSE IF op = "advance_pc" THEN arg * InstLength
                               ELSE IF op = "fixed_advance_pc" THEN arg
                               ELSE IF op = "const_add_pc" THEN AddressAddend(MaxSpecial) ELSE 0
  BY <1>1, StepsAre
<1>6. Moves(p, i, s, t)
  BY <1>2
<1>7. CASE op = "end_sequence"
  BY <1>1, <1>2, <1>4, <1>6, <1>7 DEF Moves, After
<1>8. CASE op # "end_sequence"
  <2>1. IsState(y) /\ y.end_sequence = FALSE
    BY <1>4, <1>8 DEF After, IsState, LineState
  <2>2. /\ y.address = (IF op = "set_address" THEN arg ELSE a) /\ y.line = l
        /\ y.file = (IF op = "set_file" THEN arg ELSE s.file)
        /\ y.column = (IF op = "set_column" THEN arg ELSE s.column)
        /\ y.is_stmt = (IF op = "negate_stmt" THEN ~s.is_stmt ELSE s.is_stmt)
        /\ y.isa = (IF op = "set_isa" THEN arg ELSE s.isa)
    BY <1>4, <1>8 DEF After
  <2>3. /\ y.basic_block = (op \notin RowOps /\ (s.basic_block \/ op = "set_basic_block"))
        /\ y.prologue_end = (op \notin RowOps /\ (s.prologue_end \/ op = "set_prologue_end"))
        /\ y.epilogue_begin = (op \notin RowOps /\ (s.epilogue_begin \/ op = "set_epilogue_begin"))
    BY <1>4, <1>8 DEF After
  <2>4. CASE op = "set_address"
    <3>1. y.address = arg
      BY <1>3, <1>4, <1>5, <2>2, <2>3, <2>4 DEF RowOps
    <3>2. /\ y.line = s.line /\ y.file = s.file /\ y.column = s.column /\ y.is_stmt = s.is_stmt /\ y.isa = s.isa
          /\ y.basic_block = s.basic_block /\ y.prologue_end = s.prologue_end /\ y.epilogue_begin = s.epilogue_begin
      BY <1>3, <1>4, <1>5, <2>2, <2>3, <2>4 DEF Flags, RowOps
    <3>3. Only(s, y, "address", arg)
      BY <1>4, <2>1, <3>1, <3>2 DEF Only, LineState, Flags
    <3>4. t = OneSet(s, "address", arg)
      BY <1>1, <1>2, <1>6, <2>4 DEF Moves, OneSet
    <3>5. QED
      BY <1>2, <3>3, <3>4, OneChanged
  <2>5. CASE op = "advance_pc"
    <3>1. y.address = s.address + arg * InstLength
      BY <1>3, <1>4, <1>5, <2>2, <2>3, <2>5 DEF RowOps
    <3>2. /\ y.line = s.line /\ y.file = s.file /\ y.column = s.column /\ y.is_stmt = s.is_stmt /\ y.isa = s.isa
          /\ y.basic_block = s.basic_block /\ y.prologue_end = s.prologue_end /\ y.epilogue_begin = s.epilogue_begin
      BY <1>3, <1>4, <1>5, <2>2, <2>3, <2>5 DEF Flags, RowOps
    <3>3. Only(s, y, "address", s.address + arg * InstLength)
      BY <1>4, <2>1, <3>1, <3>2 DEF Only, LineState, Flags
    <3>4. t = OneSet(s, "address", s.address + arg * InstLength)
      BY <1>1, <1>2, <1>6, <2>5 DEF Moves, OneSet
    <3>5. QED
      BY <1>2, <3>3, <3>4, OneChanged
  <2>6. CASE op = "fixed_advance_pc"
    <3>1. y.address = s.address + arg
      BY <1>3, <1>4, <1>5, <2>2, <2>3, <2>6 DEF RowOps
    <3>2. /\ y.line = s.line /\ y.file = s.file /\ y.column = s.column /\ y.is_stmt = s.is_stmt /\ y.isa = s.isa
          /\ y.basic_block = s.basic_block /\ y.prologue_end = s.prologue_end /\ y.epilogue_begin = s.epilogue_begin
      BY <1>3, <1>4, <1>5, <2>2, <2>3, <2>6 DEF Flags, RowOps
    <3>3. Only(s, y, "address", s.address + arg)
      BY <1>4, <2>1, <3>1, <3>2 DEF Only, LineState, Flags
    <3>4. t = OneSet(s, "address", s.address + arg)
      BY <1>1, <1>2, <1>6, <2>6 DEF Moves, OneSet
    <3>5. QED
      BY <1>2, <3>3, <3>4, OneChanged
  <2>7. CASE op = "const_add_pc"
    <3>1. y.address = s.address + AddressAddend(MaxSpecial)
      BY <1>3, <1>4, <1>5, <2>2, <2>3, <2>7 DEF RowOps
    <3>2. /\ y.line = s.line /\ y.file = s.file /\ y.column = s.column /\ y.is_stmt = s.is_stmt /\ y.isa = s.isa
          /\ y.basic_block = s.basic_block /\ y.prologue_end = s.prologue_end /\ y.epilogue_begin = s.epilogue_begin
      BY <1>3, <1>4, <1>5, <2>2, <2>3, <2>7 DEF Flags, RowOps
    <3>3. Only(s, y, "address", s.address + AddressAddend(MaxSpecial))
      BY <1>4, <2>1, <3>1, <3>2 DEF Only, LineState, Flags
    <3>4. t = OneSet(s, "address", s.address + AddressAddend(MaxSpecial))
      BY <1>1, <1>2, <1>6, <2>7 DEF Moves, OneSet
    <3>5. QED
      BY <1>2, <3>3, <3>4, OneChanged
  <2>8. CASE op = "advance_line"
    <3>1. y.line = s.line + arg
      BY <1>3, <1>4, <1>5, <2>2, <2>3, <2>8 DEF RowOps
    <3>2. /\ y.address = s.address /\ y.file = s.file /\ y.column = s.column /\ y.is_stmt = s.is_stmt /\ y.isa = s.isa
          /\ y.basic_block = s.basic_block /\ y.prologue_end = s.prologue_end /\ y.epilogue_begin = s.epilogue_begin
      BY <1>3, <1>4, <1>5, <2>2, <2>3, <2>8 DEF Flags, RowOps
    <3>3. Only(s, y, "line", s.line + arg)
      BY <1>4, <2>1, <3>1, <3>2 DEF Only, LineState, Flags
    <3>4. t = OneSet(s, "line", s.line + arg)
      BY <1>1, <1>2, <1>6, <2>8 DEF Moves, OneSet
    <3>5. QED
      BY <1>2, <3>3, <3>4, OneChanged
  <2>9. CASE op = "set_file"
    <3>1. y.file = arg
      BY <1>3, <1>4, <1>5, <2>2, <2>3, <2>9 DEF RowOps
    <3>2. /\ y.address = s.address /\ y.line = s.line /\ y.column = s.column /\ y.is_stmt = s.is_stmt /\ y.isa = s.isa
          /\ y.basic_block = s.basic_block /\ y.prologue_end = s.prologue_end /\ y.epilogue_begin = s.epilogue_begin
      BY <1>3, <1>4, <1>5, <2>2, <2>3, <2>9 DEF Flags, RowOps
    <3>3. Only(s, y, "file", arg)
      BY <1>4, <2>1, <3>1, <3>2 DEF Only, LineState, Flags
    <3>4. t = OneSet(s, "file", arg)
      BY <1>1, <1>2, <1>6, <2>9 DEF Moves, OneSet
    <3>5. QED
      BY <1>2, <3>3, <3>4, OneChanged
  <2>10. CASE op = "set_column"
    <3>1. y.column = arg
      BY <1>3, <1>4, <1>5, <2>2, <2>3, <2>10 DEF RowOps
    <3>2. /\ y.address = s.address /\ y.line = s.line /\ y.file = s.file /\ y.is_stmt = s.is_stmt /\ y.isa = s.isa
          /\ y.basic_block = s.basic_block /\ y.prologue_end = s.prologue_end /\ y.epilogue_begin = s.epilogue_begin
      BY <1>3, <1>4, <1>5, <2>2, <2>3, <2>10 DEF Flags, RowOps
    <3>3. Only(s, y, "column", arg)
      BY <1>4, <2>1, <3>1, <3>2 DEF Only, LineState, Flags
    <3>4. t = OneSet(s, "column", arg)
      BY <1>1, <1>2, <1>6, <2>10 DEF Moves, OneSet
    <3>5. QED
      BY <1>2, <3>3, <3>4, OneChanged
  <2>11. CASE op = "set_isa"
    <3>1. y.isa = arg
      BY <1>3, <1>4, <1>5, <2>2, <2>3, <2>11 DEF RowOps
    <3>2. /\ y.address = s.address /\ y.line = s.line /\ y.file = s.file /\ y.column = s.column /\ y.is_stmt = s.is_stmt
          /\ y.basic_block = s.basic_block /\ y.prologue_end = s.prologue_end /\ y.epilogue_begin = s.epilogue_begin
      BY <1>3, <1>4, <1>5, <2>2, <2>3, <2>11 DEF Flags, RowOps
    <3>3. Only(s, y, "isa", arg)
      BY <1>4, <2>1, <3>1, <3>2 DEF Only, LineState, Flags
    <3>4. t = OneSet(s, "isa", arg)
      BY <1>1, <1>2, <1>6, <2>11 DEF Moves, OneSet
    <3>5. QED
      BY <1>2, <3>3, <3>4, OneChanged
  <2>12. CASE op = "negate_stmt"
    <3>1. y.is_stmt = ~s.is_stmt
      BY <1>3, <1>4, <1>5, <2>2, <2>3, <2>12 DEF RowOps
    <3>2. /\ y.address = s.address /\ y.line = s.line /\ y.file = s.file /\ y.column = s.column /\ y.isa = s.isa
          /\ y.basic_block = s.basic_block /\ y.prologue_end = s.prologue_end /\ y.epilogue_begin = s.epilogue_begin
      BY <1>3, <1>4, <1>5, <2>2, <2>3, <2>12 DEF Flags, RowOps
    <3>3. Only(s, y, "is_stmt", ~s.is_stmt)
      BY <1>4, <2>1, <3>1, <3>2 DEF Only, LineState, Flags
    <3>4. t = OneSet(s, "is_stmt", ~s.is_stmt)
      BY <1>1, <1>2, <1>6, <2>12 DEF Moves, OneSet
    <3>5. QED
      BY <1>2, <3>3, <3>4, OneChanged
  <2>13. CASE op = "set_basic_block"
    <3>1. y.basic_block = TRUE
      BY <1>3, <1>4, <1>5, <2>2, <2>3, <2>13 DEF RowOps
    <3>2. /\ y.address = s.address /\ y.line = s.line /\ y.file = s.file /\ y.column = s.column /\ y.is_stmt = s.is_stmt
          /\ y.isa = s.isa /\ y.prologue_end = s.prologue_end /\ y.epilogue_begin = s.epilogue_begin
      BY <1>3, <1>4, <1>5, <2>2, <2>3, <2>13 DEF Flags, RowOps
    <3>3. Only(s, y, "basic_block", TRUE)
      BY <1>4, <2>1, <3>1, <3>2 DEF Only, LineState, Flags
    <3>4. t = OneSet(s, "basic_block", TRUE)
      BY <1>1, <1>2, <1>6, <2>13 DEF Moves, OneSet
    <3>5. QED
      BY <1>2, <3>3, <3>4, OneChanged
  <2>14. CASE op = "set_prologue_end"
    <3>1. y.prologue_end = TRUE
      BY <1>3, <1>4, <1>5, <2>2, <2>3, <2>14 DEF RowOps
    <3>2. /\ y.address = s.address /\ y.line = s.line /\ y.file = s.file /\ y.column = s.column /\ y.is_stmt = s.is_stmt
          /\ y.isa = s.isa /\ y.basic_block = s.basic_block /\ y.epilogue_begin = s.epilogue_begin
      BY <1>3, <1>4, <1>5, <2>2, <2>3, <2>14 DEF Flags, RowOps
    <3>3. Only(s, y, "prologue_end", TRUE)
      BY <1>4, <2>1, <3>1, <3>2 DEF Only, LineState, Flags
    <3>4. t = OneSet(s, "prologue_end", TRUE)
      BY <1>1, <1>2, <1>6, <2>14 DEF Moves, OneSet
    <3>5. QED
      BY <1>2, <3>3, <3>4, OneChanged
  <2>15. CASE op = "set_epilogue_begin"
    <3>1. y.epilogue_begin = TRUE
      BY <1>3, <1>4, <1>5, <2>2, <2>3, <2>15 DEF RowOps
    <3>2. /\ y.address = s.address /\ y.line = s.line /\ y.file = s.file /\ y.column = s.column /\ y.is_stmt = s.is_stmt
          /\ y.isa = s.isa /\ y.basic_block = s.basic_block /\ y.prologue_end = s.prologue_end
      BY <1>3, <1>4, <1>5, <2>2, <2>3, <2>15 DEF Flags, RowOps
    <3>3. Only(s, y, "epilogue_begin", TRUE)
      BY <1>4, <2>1, <3>1, <3>2 DEF Only, LineState, Flags
    <3>4. t = OneSet(s, "epilogue_begin", TRUE)
      BY <1>1, <1>2, <1>6, <2>15 DEF Moves, OneSet
    <3>5. QED
      BY <1>2, <3>3, <3>4, OneChanged
  <2>16. CASE op \in {"define_file", "unknown_extended"}
    <3>1. /\ y.address = s.address /\ y.line = s.line /\ y.file = s.file /\ y.column = s.column
          /\ y.is_stmt = s.is_stmt /\ y.isa = s.isa /\ y.basic_block = s.basic_block
          /\ y.prologue_end = s.prologue_end /\ y.epilogue_begin = s.epilogue_begin
      BY <1>3, <1>4, <1>5, <2>2, <2>3, <2>16 DEF Flags, RowOps
    <3>2. y.end_sequence = s.end_sequence
      BY <1>4, <2>1 DEF Flags
    <3>3. s = y
      BY <1>4, <2>1, <3>1, <3>2, SameState
    <3>4. t = s
      BY <1>1, <1>2, <1>6, <2>16 DEF Moves
    <3>5. QED
      BY <1>2, <3>3, <3>4
  <2>17. CASE op \in {"special", "copy"}
    <3>1. PICK w : w = [s EXCEPT !.address = a, !.line = l]
      OBVIOUS
    <3>2. t = Cleared(w)
      <4>1. CASE op = "special"
        <5>1. a = s.address + AddressAddend(arg) /\ l = s.line + LineAddend(arg)
          BY <1>3, <1>5, <4>1
        <5>2. QED
          BY <1>1, <1>2, <1>6, <3>1, <4>1, <5>1 DEF Moves
      <4>2. CASE op = "copy"
        <5>1. a = s.address /\ l = s.line
          BY <1>3, <1>4, <1>5, <4>2
        <5>2. w = s
          BY <1>4, <3>1, <5>1 DEF IsState, LineState
        <5>3. QED
          BY <1>1, <1>2, <1>6, <4>2, <5>2 DEF Moves
      <4>3. QED
        BY <2>17, <4>1, <4>2
    <3>3. /\ IsState(w) /\ w.address = a /\ w.line = l /\ w.file = s.file /\ w.column = s.column
          /\ w.is_stmt = s.is_stmt /\ w.isa = s.isa /\ w.end_sequence = FALSE
      BY <1>4, <3>1 DEF IsState, LineState, Flags
    <3>4. /\ IsState(t) /\ t.address = a /\ t.line = l /\ t.file = s.file /\ t.column = s.column
          /\ t.is_stmt = s.is_stmt /\ t.isa = s.isa /\ t.end_sequence = FALSE
          /\ t.basic_block = FALSE /\ t.prologue_end = FALSE /\ t.epilogue_begin = FALSE
      BY <3>2, <3>3 DEF IsState, LineState, Cleared
    <3>5. /\ y.address = a /\ y.line = l /\ y.file = s.file /\ y.column = s.column
          /\ y.is_stmt = s.is_stmt /\ y.isa = s.isa
          /\ y.basic_block = FALSE /\ y.prologue_end = FALSE /\ y.epilogue_begin = FALSE
      BY <2>2, <2>3, <2>17 DEF RowOps
    <3>6. t = y
      BY <2>1, <3>4, <3>5, SameState
    <3>7. QED
      BY <1>2, <3>6
  <2>18. QED
    BY <1>1, <1>6, <1>8, <2>4, <2>5, <2>6, <2>7, <2>8, <2>9, <2>10, <2>11, <2>12, <2>13, <2>14, <2>15,
       <2>16, <2>17 DEF Moves
<1>9. QED
  BY <1>7, <1>8

\* The row an instruction adds.
LEMMA RowAdded ==
  ASSUME NEW p \in Programs, NEW i \in 1 .. Len(p), Addressed(p, i), NEW s, s = StateAt(p, i)
  PROVE  /\ Is(p, i, {"special"}) =>
              Row(p, i) = [s EXCEPT !.address = @ + AddressAddend(p[i][2]), !.line = @ + LineAddend(p[i][2])]
         /\ Is(p, i, {"copy"}) => Row(p, i) = s
         /\ Is(p, i, {"end_sequence"}) => Row(p, i) = [s EXCEPT !.end_sequence = TRUE]
<1>1. PICK op, arg : op = p[i][1] /\ arg = p[i][2]
  OBVIOUS
<1>2. PICK a, l : a = s.address + AddressSteps(p)[i] /\ l = s.line + LineSteps(p)[i]
  OBVIOUS
<1>3. /\ IsState(s) /\ s.address \in Int /\ s.line \in Int /\ Flags(s)
      /\ op \in RowOps => Row(p, i) = Changed(s, a, l, op = "end_sequence")
  BY <1>1, <1>2, StateGoesOn
<1>4. /\ LineSteps(p)[i] = IF op = "special" THEN LineAddend(arg)
                            ELSE IF op = "advance_line" THEN arg ELSE 0
      /\ AddressSteps(p)[i] = IF op = "special" THEN AddressAddend(arg)
                               ELSE IF op = "advance_pc" THEN arg * InstLength
                               ELSE IF op = "fixed_advance_pc" THEN arg
                               ELSE IF op = "const_add_pc" THEN AddressAddend(MaxSpecial) ELSE 0
  BY <1>1, StepsAre
<1>5. s = [s EXCEPT !.address = s.address, !.line = s.line, !.end_sequence = FALSE]
  BY <1>3 DEF IsState, LineState, Flags
<1>6. CASE op = "special"
  <2>1. a = s.address + AddressAddend(arg) /\ l = s.line + LineAddend(arg)
    BY <1>2, <1>4, <1>6
  <2>2. Row(p, i) = [s EXCEPT !.address = a, !.line = l, !.end_sequence = FALSE]
    BY <1>3, <1>6 DEF RowOps, Changed
  <2>3. [s EXCEPT !.address = a, !.line = l, !.end_sequence = FALSE] = [s EXCEPT !.address = a, !.line = l]
    BY <1>3 DEF IsState, LineState, Flags
  <2>4. QED
    BY <1>1, <1>6, <2>1, <2>2, <2>3 DEF Is
<1>7. CASE op = "copy"
  <2>1. a = s.address /\ l = s.line
    BY <1>2, <1>3, <1>4, <1>7
  <2>2. Row(p, i) = [s EXCEPT !.address = a, !.line = l, !.end_sequence = FALSE]
    BY <1>3, <1>7 DEF RowOps, Changed
  <2>3. QED
    BY <1>1, <1>5, <1>7, <2>1, <2>2 DEF Is
<1>8. CASE op = "end_sequence"
  <2>1. a = s.address /\ l = s.line
    BY <1>2, <1>3, <1>4, <1>8
  <2>2. Row(p, i) = [s EXCEPT !.address = a, !.line = l, !.end_sequence = TRUE]
    BY <1>3, <1>8 DEF RowOps, Changed
  <2>3. [s EXCEPT !.address = s.address, !.line = s.line, !.end_sequence = TRUE] = [s EXCEPT !.end_sequence = TRUE]
    BY <1>3 DEF IsState, LineState
  <2>4. QED
    BY <1>1, <1>8, <2>1, <2>2, <2>3 DEF Is
<1>9. CASE op \notin RowOps
  BY <1>1, <1>9 DEF Is, RowOps
<1>10. QED
  BY <1>6, <1>7, <1>8, <1>9 DEF RowOps

\* A sequence goes on with one more.
Goes(s, e, r) ==
  /\ IsSequence(r) /\ Len(r) = Len(s) + 1 /\ DOMAIN r = 1 .. Len(s) + 1 /\ DOMAIN s = 1 .. Len(s)
  /\ r[Len(s) + 1] = e /\ \A n \in 1 .. Len(s) : r[n] = s[n]

\* It is what Append() makes of any sequence.
LEMMA AppendAny == ASSUME NEW s, IsSequence(s), NEW e, NEW r, r = Append(s, e) PROVE Goes(s, e, r)
<1>1. PICK X : X = {s[n] : n \in 1 .. Len(s)} \cup {e}
  OBVIOUS
<1>2. s \in Seq(X) /\ e \in X /\ Len(s) \in Nat
  <2>1. s \in [1 .. Len(s) -> X] /\ Len(s) \in Nat
    BY <1>1 DEF IsSequence
  <2>2. QED
    BY <1>1, <2>1, SeqDef
<1>3. /\ r \in Seq(X) /\ Len(r) = Len(s) + 1
      /\ r[Len(s) + 1] = e /\ \A n \in 1 .. Len(s) : r[n] = s[n]
  BY <1>2, AppendProperties
<1>4. DOMAIN r = 1 .. Len(r) /\ DOMAIN s = 1 .. Len(s) /\ Len(r) \in Nat /\ r = [n \in 1 .. Len(r) |-> r[n]]
  BY <1>2, <1>3, LenProperties
<1>5. QED
  BY <1>2, <1>3, <1>4 DEF IsSequence, Goes

\* The entries es list the instructions of p before i.
InRange(p, i, es) ==
  \A n \in DOMAIN es : es[n].at \in 1 .. i - 1 /\ ~Is(p, es[n].at, {"advance_line", "unknown_extended"})

AllListed(p, i, es) ==
  \A j \in 1 .. i - 1 : Is(p, j, {"advance_line", "unknown_extended"}) \/ \E n \in DOMAIN es : es[n].at = j

InOrder(es) == \A m, n \in DOMAIN es : m < n => es[m].at < es[n].at

RowExact(p, e) ==
  /\ (e.state # NoState) <=> Is(p, e.at, RowOps)
  /\ e.state # NoState => e.state = Row(p, e.at)
RowsExact(p, es) == \A n \in DOMAIN es : RowExact(p, es[n])

Listed(p, i, es) == IsSequence(es) /\ InRange(p, i, es) /\ AllListed(p, i, es) /\ InOrder(es) /\ RowsExact(p, es)

\* An entry for the instruction at i.
IsEntry(p, i, e) ==
  e.at = i /\ ~Is(p, i, {"advance_line", "unknown_extended"}) /\ RowExact(p, e)

\* With the entry for the next instruction, one more is listed.
LEMMA EntryAdded ==
  ASSUME NEW p, NEW i \in Nat \ {0}, NEW es, Listed(p, i, es), NEW e, IsEntry(p, i, e), NEW r, Goes(es, e, r)
  PROVE  Listed(p, i + 1, r)
<1>1. /\ IsSequence(r) /\ Len(r) = Len(es) + 1 /\ DOMAIN r = 1 .. Len(es) + 1 /\ DOMAIN es = 1 .. Len(es)
      /\ r[Len(es) + 1] = e /\ \A n \in 1 .. Len(es) : r[n] = es[n]
  BY DEF Goes
<1>2. Len(es) \in Nat
  BY DEF Listed, InRange, AllListed, InOrder, RowsExact, IsSequence
<1>3. PICK k : k = Len(es)
  OBVIOUS
<1>4. ASSUME NEW n \in 1 .. k + 1 PROVE n \in 1 .. k \/ n = k + 1
  BY <1>2, <1>3
<1>5. \A n \in 1 .. k : r[n].at \in 1 .. i - 1 /\ r[n] = es[n]
  BY <1>1, <1>3 DEF Listed, InRange, AllListed, InOrder, RowsExact
<1>6. \A n \in 1 .. k + 1 : r[n].at \in 1 .. i /\ ~Is(p, r[n].at, {"advance_line", "unknown_extended"})
  <2>1. SUFFICES ASSUME NEW n \in 1 .. k + 1
                 PROVE  r[n].at \in 1 .. i /\ ~Is(p, r[n].at, {"advance_line", "unknown_extended"})
    OBVIOUS
  <2>2. CASE n \in 1 .. k
    <3>1. r[n] = es[n] /\ n \in DOMAIN es
      BY <1>1, <1>3, <2>2
    <3>2. QED
      BY <3>1 DEF Listed, InRange
  <2>3. CASE n = k + 1
    BY <1>1, <1>3, <2>3 DEF IsEntry
  <2>4. QED
    BY <1>4, <2>2, <2>3
<1>7. \A j \in 1 .. i : Is(p, j, {"advance_line", "unknown_extended"}) \/ \E n \in 1 .. k + 1 : r[n].at = j
  <2>1. SUFFICES ASSUME NEW j \in 1 .. i, ~Is(p, j, {"advance_line", "unknown_extended"})
                 PROVE  \E n \in 1 .. k + 1 : r[n].at = j
    OBVIOUS
  <2>2. CASE j = i
    <3>1. k + 1 \in 1 .. k + 1 /\ r[k + 1].at = j
      BY <1>1, <1>2, <1>3, <2>2 DEF IsEntry
    <3>2. QED
      BY <3>1
  <2>3. CASE j # i
    <3>1. PICK n \in 1 .. k : es[n].at = j
      BY <1>1, <1>3, <2>1, <2>3 DEF Listed, InRange, AllListed, InOrder, RowsExact
    <3>2. n \in 1 .. k + 1 /\ r[n].at = j
      BY <1>2, <1>3, <1>5, <3>1
    <3>3. QED
      BY <3>2
  <2>4. QED
    BY <2>2, <2>3
<1>8. \A m, n \in 1 .. k + 1 : m < n => r[m].at < r[n].at
  <2>1. SUFFICES ASSUME NEW m \in 1 .. k + 1, NEW n \in 1 .. k + 1, m < n PROVE r[m].at < r[n].at
    OBVIOUS
  <2>2. m \in 1 .. k
    BY <1>2, <1>3, <2>1
  <2>3. CASE n \in 1 .. k
    BY <1>1, <1>3, <1>5, <2>1, <2>2, <2>3 DEF Listed, InRange, AllListed, InOrder, RowsExact
  <2>4. CASE n = k + 1
    <3>1. r[m].at \in Nat /\ r[m].at <= i - 1 /\ r[n].at = i
      BY <1>1, <1>3, <1>5, <2>2, <2>4 DEF IsEntry
    <3>2. i \in Int /\ i - 1 < i
      OBVIOUS
    <3>3. QED
      BY <3>1, <3>2
  <2>5. QED
    BY <1>4, <2>3, <2>4
<1>9. \A n \in 1 .. k + 1 : RowExact(p, r[n])
  <2>1. SUFFICES ASSUME NEW n \in 1 .. k + 1 PROVE RowExact(p, r[n])
    OBVIOUS
  <2>2. CASE n \in 1 .. k
    <3>1. r[n] = es[n] /\ n \in DOMAIN es
      BY <1>1, <1>3, <2>2
    <3>2. QED
      BY <3>1 DEF Listed, RowsExact
  <2>3. CASE n = k + 1
    BY <1>1, <1>3, <2>3 DEF IsEntry
  <2>4. QED
    BY <1>4, <2>2, <2>3
<1>10. QED
  <2>1. (i + 1) - 1 = i
    OBVIOUS
  <2>2. DOMAIN r = 1 .. k + 1
    BY <1>1, <1>3
  <2>3. InRange(p, i + 1, r)
    BY <1>6, <2>1, <2>2 DEF InRange
  <2>4. AllListed(p, i + 1, r)
    BY <1>7, <2>1, <2>2 DEF AllListed
  <2>5. InOrder(r)
    BY <1>8, <2>2 DEF InOrder
  <2>6. RowsExact(p, r)
    BY <1>9, <2>2 DEF RowsExact
  <2>7. QED
    BY <1>1, <2>3, <2>4, <2>5, <2>6 DEF Listed

\* An instruction that has no entry needs none.
LEMMA NoEntryAdded ==
  ASSUME NEW p, NEW i \in Nat \ {0}, NEW es, Listed(p, i, es), Is(p, i, {"advance_line", "unknown_extended"})
  PROVE  Listed(p, i + 1, es)
<1>1. (i + 1) - 1 = i
  OBVIOUS
<1>2. ASSUME NEW j \in 1 .. i PROVE j = i \/ j \in 1 .. i - 1
  OBVIOUS
<1>3. 1 .. i - 1 \subseteq 1 .. i
  OBVIOUS
<1>4. QED
  BY <1>1, <1>2, <1>3 DEF Listed, InRange, AllListed, InOrder, RowsExact

\* Which is what LineTableExact says.
LEMMA ListedIsExact ==
  ASSUME NEW p, NEW i, NEW es, Listed(p, i, es), p = program, i = next, es = entries, i \in Nat
  PROVE  LineTableExact
<1> DEFINE rows == {n \in DOMAIN es : es[n].state # NoState}
<1>1. {es[n].at : n \in rows} = {j \in 1 .. i - 1 : Is(p, j, RowOps)}
  <2>1. ASSUME NEW n \in rows PROVE es[n].at \in 1 .. i - 1 /\ Is(p, es[n].at, RowOps)
    BY DEF Listed, InRange, AllListed, InOrder, RowsExact, RowExact
  <2>2. ASSUME NEW j \in 1 .. i - 1, Is(p, j, RowOps) PROVE \E n \in rows : es[n].at = j
    <3>1. ~Is(p, j, {"advance_line", "unknown_extended"})
      BY <2>2 DEF Is, RowOps
    <3>2. PICK n \in DOMAIN es : es[n].at = j
      BY <3>1 DEF Listed, InRange, AllListed, InOrder, RowsExact, RowExact
    <3>3. n \in rows
      BY <2>2, <3>2 DEF Listed, InRange, AllListed, InOrder, RowsExact, RowExact
    <3>4. QED
      BY <3>2, <3>3
  <2> HIDE DEF rows
  <2>3. QED
    BY <2>1, <2>2
<1>2. \A n \in rows : es[n].state = Row(p, es[n].at)
  BY DEF Listed, InRange, AllListed, InOrder, RowsExact, RowExact
<1>3. RowsAsWritten
  BY <1>1, <1>2 DEF RowsAsWritten
<1>4. {es[n].at : n \in DOMAIN es} = {j \in 1 .. i - 1 : ~Is(p, j, {"advance_line", "unknown_extended"})}
  <2>1. ASSUME NEW n \in DOMAIN es
        PROVE  es[n].at \in 1 .. i - 1 /\ ~Is(p, es[n].at, {"advance_line", "unknown_extended"})
    BY DEF Listed, InRange, AllListed, InOrder, RowsExact, RowExact
  <2>2. ASSUME NEW j \in 1 .. i - 1, ~Is(p, j, {"advance_line", "unknown_extended"})
        PROVE  \E n \in DOMAIN es : es[n].at = j
    BY <2>2 DEF Listed, InRange, AllListed, InOrder, RowsExact, RowExact
  <2>3. QED
    BY <2>1, <2>2
<1>5. \A m, n \in DOMAIN es : m < n => es[m].at < es[n].at
  BY DEF Listed, InRange, AllListed, InOrder, RowsExact, RowExact
<1>6. QED
  BY <1>3, <1>4, <1>5 DEF LineTableExact, EveryCommandListed

\* The inductive invariant of the decoder.
LineInv ==
  /\ program \in Programs /\ next \in 1 .. Len(program) + 1
  /\ Addressed(program, next) /\ state = StateAt(program, next)
  /\ Listed(program, next, entries)

\* Before the first instruction nothing is open and nothing listed.
LEMMA LineInvInit == ASSUME LineInit PROVE LineInv
<1>1. program \in Programs /\ next = 1 /\ entries = << >> /\ Len(program) \in Nat /\ state = LineState
  BY LineProgramAssumption DEF LineInit
<1>2. OpenAt(program, 1) = {}
  BY DEF OpenAt
<1>3. SinceRowAt(program, 1) = {} /\ AfterSetAt(program, 1) = {}
  BY <1>2 DEF SinceRowAt, AfterSetAt
<1>4. ASSUME NEW name, NEW d PROVE LastSet(program, {}, name, d) = d
  BY DEF LastSet
<1>5. ASSUME NEW steps PROVE Total(program, steps, {}) = 0
  BY <1>1, TotalNone
<1>6. Cardinality({j \in {} : Is(program, j, {"negate_stmt"})}) = 0
  <2>1. {j \in {} : Is(program, j, {"negate_stmt"})} = {}
    OBVIOUS
  <2>2. QED
    BY <2>1, FS_EmptySet
<1>7. StateAt(program, 1) = LineState
  <2>1. /\ LastSet(program, {}, "set_address", 0) + Total(program, AddressSteps(program), {}) = 0
        /\ 1 + Total(program, LineSteps(program), {}) = 1
    BY <1>4, <1>5
  <2>2. StmtAfter(program, {}) = DefaultIsStmt
    BY <1>6, LineProgramAssumption DEF StmtAfter
  <2>3. /\ LastSet(program, {}, "set_file", 1) = 1 /\ LastSet(program, {}, "set_column", 0) = 0
        /\ LastSet(program, {}, "set_isa", 0) = 0
    BY <1>4
  <2>4. ASSUME NEW name PROVE (\E j \in {} : Is(program, j, {name})) = FALSE
    OBVIOUS
  <2>5. QED
    BY <1>2, <1>3, <2>1, <2>2, <2>3, <2>4 DEF StateAt, LineState
<1>8. Addressed(program, 1)
  BY <1>2, <1>4 DEF Addressed
<1>9. Listed(program, 1, entries)
  BY <1>1 DEF Listed, InRange, AllListed, InOrder, RowsExact, IsSequence
<1>10. QED
  BY <1>1, <1>7, <1>8, <1>9 DEF LineInv

\* The row states have more fields than NoState.
LEMMA RowIsState == ASSUME NEW p, NEW i PROVE Row(p, i) # NoState
<1>1. "file" \in DOMAIN Row(p, i)
  BY DEF Row
<1>2. "file" \notin DOMAIN NoState
  BY DEF NoState
<1>3. QED
  BY <1>1, <1>2

\* It goes on with any instruction that moves the registers as it should.
LEMMA LineInvStep ==
  ASSUME LineInv, next <= Len(program), program' = program, next' = next + 1,
         Moves(program, next, state, state'), Listed(program, next + 1, entries')
  PROVE  LineInv'
<1>1. program \in Programs /\ next \in 1 .. Len(program) /\ Addressed(program, next) /\ Len(program) \in Nat
  BY LineProgramAssumption DEF LineInv
<1>2. PICK p, i, t, s : p = program /\ i = next /\ t = state' /\ s = StateAt(p, i) /\ s = state
  BY DEF LineInv
<1>3. t = StateAt(p, i + 1)
  BY <1>1, <1>2, StateMoves
<1>4. PICK op, a, l : op = p[i][1] /\ a = s.address + AddressSteps(p)[i] /\ l = s.line + LineSteps(p)[i]
  OBVIOUS
<1>5. Addressed(p, i + 1)
  BY <1>1, <1>2, <1>4, StateGoesOn
<1>6. QED
  BY <1>1, <1>2, <1>3, <1>5 DEF LineInv

\* An entry without a row.
LEMMA PlainEntry ==
  ASSUME NEW p, NEW i, NEW args, ~Is(p, i, RowOps), ~Is(p, i, {"advance_line", "unknown_extended"}),
         NEW e, e = [at |-> i, args |-> args, state |-> NoState]
  PROVE  IsEntry(p, i, e)
<1>1. e.at = i /\ e.state = NoState
  OBVIOUS
<1>2. QED
  BY <1>1 DEF IsEntry, RowExact

\* And one with a row.
LEMMA RowEntry ==
  ASSUME NEW p, NEW i, NEW args, Is(p, i, RowOps), NEW s, s = Row(p, i),
         NEW e, e = [at |-> i, args |-> args, state |-> s]
  PROVE  IsEntry(p, i, e)
<1>1. e.at = i /\ e.state = s
  OBVIOUS
<1>2. s # NoState
  BY RowIsState
<1>3. ~Is(p, i, {"advance_line", "unknown_extended"})
  BY DEF Is, RowOps
<1>4. QED
  BY <1>1, <1>2, <1>3 DEF IsEntry, RowExact

\* Every step of the decoder keeps the invariant.
LEMMA LineInvNext == ASSUME LineInv, LineNext PROVE LineInv'
<1>1. PICK p, i, s : p = program /\ i = next /\ s = state
  OBVIOUS
<1>2. /\ p \in Programs /\ i \in 1 .. Len(p) + 1 /\ Addressed(p, i) /\ s = StateAt(p, i)
      /\ Listed(p, i, entries) /\ Len(p) \in Nat /\ i \in Nat \ {0}
  BY <1>1, LineProgramAssumption DEF LineInv
<1>3. ASSUME NEW e, IsEntry(p, i, e), entries' = Append(entries, e) PROVE Listed(p, i + 1, entries')
  <2>1. PICK es, r : es = entries /\ r = entries'
    OBVIOUS
  <2>2. IsSequence(es) /\ r = Append(es, e)
    BY <1>2, <1>3, <2>1 DEF Listed
  <2>3. Goes(es, e, r)
    BY <2>2, AppendAny
  <2>4. QED
    BY <1>2, <1>3, <2>1, <2>3, EntryAdded
<1>4. ASSUME NEW args, AddOldState(args), ~Is(p, i, RowOps), ~Is(p, i, {"advance_line", "unknown_extended"})
      PROVE  Listed(p, i + 1, entries')
  <2>1. PICK e : e = [at |-> i, args |-> args, state |-> NoState]
    OBVIOUS
  <2>2. entries' = Append(entries, e)
    BY <1>1, <1>4, <2>1 DEF AddOldState
  <2>3. IsEntry(p, i, e)
    BY <1>4, <2>1, PlainEntry
  <2>4. QED
    BY <1>3, <2>2, <2>3
<1>5. ASSUME NEW args, NEW w, AddNewState(w, args), Is(p, i, RowOps), w = Row(p, i)
      PROVE  Listed(p, i + 1, entries')
  <2>1. PICK e : e = [at |-> i, args |-> args, state |-> w]
    OBVIOUS
  <2>2. entries' = Append(entries, e)
    BY <1>1, <1>5, <2>1 DEF AddNewState
  <2>3. IsEntry(p, i, e)
    BY <1>5, <2>1, RowEntry
  <2>4. QED
    BY <1>3, <2>2, <2>3
<1>6. ASSUME Running, Advance, Moves(p, i, s, state'), Listed(p, i + 1, entries') PROVE LineInv'
  BY <1>1, <1>6, LineInvStep DEF Running, Advance
<1>7. Running => i \in 1 .. Len(p)
  BY <1>1, <1>2 DEF Running
<1>8. CASE SpecialOpcode
  <2>1. Is(p, i, {"special"}) /\ Is(p, i, RowOps) /\ p[i][1] = "special" /\ i \in 1 .. Len(p)
    BY <1>1, <1>7, <1>8 DEF SpecialOpcode, Op, Is, RowOps
  <2>2. PICK w : w = [s EXCEPT !.address = @ + AddressAddend(p[i][2]), !.line = @ + LineAddend(p[i][2])]
    OBVIOUS
  <2>3. w = Row(p, i)
    BY <1>2, <2>1, <2>2, RowAdded
  <2>4. Listed(p, i + 1, entries')
    BY <1>1, <1>5, <1>8, <2>1, <2>2, <2>3 DEF SpecialOpcode, Arg
  <2>5. Moves(p, i, s, state')
    BY <1>1, <1>8, <2>1, <2>2 DEF SpecialOpcode, Moves, Arg
  <2>7. QED
    BY <1>6, <1>8, <2>4, <2>5 DEF SpecialOpcode
<1>9. CASE Copy
  <2>1. Is(p, i, {"copy"}) /\ Is(p, i, RowOps) /\ p[i][1] = "copy" /\ i \in 1 .. Len(p)
    BY <1>1, <1>7, <1>9 DEF Copy, Op, Is, RowOps
  <2>3. s = Row(p, i)
    BY <1>2, <2>1, RowAdded
  <2>4. Listed(p, i + 1, entries')
    BY <1>1, <1>5, <1>9, <2>1, <2>3 DEF Copy
  <2>5. Moves(p, i, s, state')
    BY <1>1, <1>9, <2>1 DEF Copy, Moves
  <2>7. QED
    BY <1>6, <1>9, <2>4, <2>5 DEF Copy
<1>10. CASE EndSequence
  <2>1. Is(p, i, {"end_sequence"}) /\ Is(p, i, RowOps) /\ p[i][1] = "end_sequence" /\ i \in 1 .. Len(p)
    BY <1>1, <1>7, <1>10 DEF EndSequence, Op, Is, RowOps
  <2>2. PICK w : w = [s EXCEPT !.end_sequence = TRUE]
    OBVIOUS
  <2>3. w = Row(p, i)
    BY <1>2, <2>1, <2>2, RowAdded
  <2>4. Listed(p, i + 1, entries')
    BY <1>1, <1>5, <1>10, <2>1, <2>2, <2>3 DEF EndSequence
  <2>5. Moves(p, i, s, state')
    BY <1>1, <1>10, <2>1 DEF EndSequence, Moves, AfterSequence
  <2>7. QED
    BY <1>6, <1>10, <2>4, <2>5 DEF EndSequence
<1>11. CASE SetRegister
  <2>1. p[i][1] \in {"set_address", "advance_pc", "set_file", "set_column", "fixed_advance_pc", "set_isa"}
    BY <1>1, <1>11 DEF SetRegister, Op, WithOperand
  <2>2. ~Is(p, i, RowOps) /\ ~Is(p, i, {"advance_line", "unknown_extended"})
    BY <2>1 DEF Is, RowOps
  <2>3. Listed(p, i + 1, entries')
    BY <1>4, <1>11, <2>2, SMTT(30) DEF SetRegister
  <2>4. Moves(p, i, s, state')
    BY <1>1, <1>11, <2>1 DEF SetRegister, Moves, Op, Arg
  <2>5. QED
    BY <1>6, <1>11, <2>3, <2>4 DEF SetRegister
<1>12. CASE ConstAddPc
  <2>1. p[i][1] \in {"const_add_pc"}
    BY <1>1, <1>12 DEF ConstAddPc, Op
  <2>2. ~Is(p, i, RowOps) /\ ~Is(p, i, {"advance_line", "unknown_extended"})
    BY <2>1 DEF Is, RowOps
  <2>3. Listed(p, i + 1, entries')
    BY <1>4, <1>12, <2>2 DEF ConstAddPc
  <2>4. Moves(p, i, s, state')
    BY <1>1, <1>12, <2>1 DEF ConstAddPc, Moves, Op, Arg
  <2>5. QED
    BY <1>6, <1>12, <2>3, <2>4 DEF ConstAddPc
<1>13. CASE SetFlag
  <2>1. p[i][1] \in {"set_prologue_end", "set_epilogue_begin"}
    BY <1>1, <1>13 DEF SetFlag, Op
  <2>2. ~Is(p, i, RowOps) /\ ~Is(p, i, {"advance_line", "unknown_extended"})
    BY <2>1 DEF Is, RowOps
  <2>3. Listed(p, i + 1, entries')
    BY <1>4, <1>13, <2>2 DEF SetFlag
  <2>4. Moves(p, i, s, state')
    BY <1>1, <1>13, <2>1 DEF SetFlag, Moves, Op, Arg
  <2>5. QED
    BY <1>6, <1>13, <2>3, <2>4 DEF SetFlag
<1>14. CASE FlagShowingOperand
  <2>1. p[i][1] \in {"negate_stmt", "set_basic_block"}
    BY <1>1, <1>14 DEF FlagShowingOperand, Op
  <2>2. ~Is(p, i, RowOps) /\ ~Is(p, i, {"advance_line", "unknown_extended"})
    BY <2>1 DEF Is, RowOps
  <2>3. Listed(p, i + 1, entries')
    BY <1>4, <1>14, <2>2 DEF FlagShowingOperand
  <2>4. Moves(p, i, s, state')
    BY <1>1, <1>14, <2>1 DEF FlagShowingOperand, Moves, Op, Arg
  <2>5. QED
    BY <1>6, <1>14, <2>3, <2>4 DEF FlagShowingOperand
<1>15. CASE DefineFile
  <2>1. p[i][1] \in {"define_file"}
    BY <1>1, <1>15 DEF DefineFile, Op
  <2>2. ~Is(p, i, RowOps) /\ ~Is(p, i, {"advance_line", "unknown_extended"})
    BY <2>1 DEF Is, RowOps
  <2>3. Listed(p, i + 1, entries')
    BY <1>4, <1>15, <2>2 DEF DefineFile
  <2>4. Moves(p, i, s, state')
    BY <1>1, <1>15, <2>1 DEF DefineFile, Moves, Op, Arg
  <2>5. QED
    BY <1>6, <1>15, <2>3, <2>4 DEF DefineFile
<1>16. CASE AdvanceLine
  <2>1. p[i][1] = "advance_line" /\ entries' = entries
    BY <1>1, <1>16 DEF AdvanceLine, Op
  <2>2. Is(p, i, {"advance_line", "unknown_extended"})
    BY <2>1 DEF Is
  <2>3. Listed(p, i + 1, entries')
    BY <1>2, <2>1, <2>2, NoEntryAdded
  <2>4. Moves(p, i, s, state')
    BY <1>1, <1>16, <2>1 DEF AdvanceLine, Moves, Arg
  <2>5. QED
    BY <1>6, <1>16, <2>3, <2>4 DEF AdvanceLine
<1>17. CASE SkipUnknown
  <2>1. p[i][1] = "unknown_extended" /\ entries' = entries
    BY <1>1, <1>17 DEF SkipUnknown, Op
  <2>2. Is(p, i, {"advance_line", "unknown_extended"})
    BY <2>1 DEF Is
  <2>3. Listed(p, i + 1, entries')
    BY <1>2, <2>1, <2>2, NoEntryAdded
  <2>4. Moves(p, i, s, state')
    BY <1>1, <1>17, <2>1 DEF SkipUnknown, Moves, Arg
  <2>5. QED
    BY <1>6, <1>17, <2>3, <2>4 DEF SkipUnknown
<1>18. CASE DecodeFails
  BY <1>18 DEF DecodeFails, LineInv
<1>19. CASE GetEntries
  BY <1>19 DEF GetEntries, LineInv
<1>20. QED
  BY <1>8, <1>9, <1>10, <1>11, <1>12, <1>13, <1>14, <1>15, <1>16, <1>17, <1>18, <1>19 DEF LineNext

(***************************************************************************)
(* After any number of instructions of any line program, the entries are   *)
(* these instructions, in order, and the rows among them are the rows of   *)
(* the line table (LineProgram._decode_line_program()).                    *)
(***************************************************************************)
THEOREM LineTablesAreExact == LineSpec => []LineTableExact
<1>1. LineInit => LineInv
  BY LineInvInit
<1>2. LineInv /\ [LineNext]_lineVars => LineInv'
  <2>1. CASE LineNext
    BY <2>1, LineInvNext
  <2>2. CASE UNCHANGED lineVars
    BY <2>2 DEF lineVars, LineInv
  <2>3. QED
    BY <2>1, <2>2
<1>3. LineInv => LineTableExact
  <2>1. SUFFICES ASSUME LineInv PROVE LineTableExact
    OBVIOUS
  <2>2. Listed(program, next, entries) /\ next \in Nat
    BY <2>1, LineProgramAssumption DEF LineInv
  <2>3. QED
    BY <2>2, ListedIsExact
<1>4. QED
  BY <1>1, <1>2, <1>3, PTL DEF LineSpec

-----------------------------------------------------------------------------
(***************************************************************************)
(* The compile units of elftools: offsets that a sum over the units gives,  *)
(* entries that are read once, and the stack that makes a tree of them.     *)
(***************************************************************************)

\* S is the sequence of partial sums of the sizes w, up to the k-th.
PartialSums(S, w, k) == S = [j \in 1 .. k |-> IF j = 1 THEN 0 ELSE S[j - 1] + w[j - 1]]

\* Sizes, n of them.
Sizes(w, n) == n \in Nat /\ \A j \in 1 .. n : w[j] \in Nat

\* There are partial sums.
LEMMA PartialSumsExist ==
  ASSUME NEW w, NEW n, Sizes(w, n)
  PROVE  \A k \in 1 .. n + 1 : \E S : PartialSums(S, w, k)
<1> DEFINE G == {k \in Nat : k \in 1 .. n + 1 => \E S : PartialSums(S, w, k)}
<1>1. 0 \in G
  OBVIOUS
<1>2. ASSUME NEW k \in Nat, k \in G PROVE k + 1 \in G
  <2>1. SUFFICES ASSUME k + 1 \in 1 .. n + 1 PROVE \E S : PartialSums(S, w, k + 1)
    OBVIOUS
  <2>2. CASE k = 0
    <3> DEFINE T == [j \in 1 .. k + 1 |-> 0]
    <3>1. T = [j \in 1 .. k + 1 |-> IF j = 1 THEN 0 ELSE T[j - 1] + w[j - 1]]
      BY <2>2
    <3>2. QED
      BY <3>1 DEF PartialSums
  <2>3. CASE k # 0
    <3>1. PICK S : PartialSums(S, w, k)
      BY <1>2, <2>1, <2>3 DEF Sizes
    <3> DEFINE T == [j \in 1 .. k + 1 |-> IF j <= k THEN S[j] ELSE S[k] + w[k]]
    <3>2. \A j \in 1 .. k : T[j] = IF j = 1 THEN 0 ELSE T[j - 1] + w[j - 1]
      BY <2>3, <3>1 DEF PartialSums
    <3>3. T[k + 1] = T[k] + w[k]
      BY <2>3
    <3>4. \A j \in 1 .. k + 1 : T[j] = IF j = 1 THEN 0 ELSE T[j - 1] + w[j - 1]
      BY <2>3, <3>2, <3>3
    <3>5. T = [j \in 1 .. k + 1 |-> IF j = 1 THEN 0 ELSE T[j - 1] + w[j - 1]]
      BY <3>4
    <3>6. QED
      BY <3>5 DEF PartialSums
  <2>4. QED
    BY <2>2, <2>3
<1> HIDE DEF G
<1>3. Nat \subseteq G
  BY <1>1, <1>2, AllNumbers
<1>4. QED
  BY <1>3 DEF G, Sizes

\* Two of them agree as far as both go.
LEMMA PartialSumsAgree ==
  ASSUME NEW w, NEW n, Sizes(w, n), NEW k \in 1 .. n + 1, NEW m \in 1 .. n + 1,
         NEW S, PartialSums(S, w, k), NEW T, PartialSums(T, w, m)
  PROVE  \A j \in 1 .. n + 1 : j <= k /\ j <= m => S[j] = T[j] /\ S[j] \in Nat
<1> DEFINE G == {j \in Nat : j \in 1 .. n + 1 /\ j <= k /\ j <= m => S[j] = T[j] /\ S[j] \in Nat}
<1>1. 0 \in G
  OBVIOUS
<1>2. ASSUME NEW j \in Nat, j \in G PROVE j + 1 \in G
  <2>1. SUFFICES ASSUME j + 1 <= k, j + 1 <= m PROVE S[j + 1] = T[j + 1] /\ S[j + 1] \in Nat
    OBVIOUS
  <2>2. j + 1 \in 1 .. k /\ j + 1 \in 1 .. m /\ n \in Nat /\ j + 1 - 1 = j
    BY <2>1 DEF Sizes
  <2>3. /\ S[j + 1] = IF j + 1 = 1 THEN 0 ELSE S[j] + w[j]
        /\ T[j + 1] = IF j + 1 = 1 THEN 0 ELSE T[j] + w[j]
    BY <2>2 DEF PartialSums
  <2>4. j # 0 => w[j] \in Nat /\ S[j] = T[j] /\ S[j] \in Nat
    BY <1>2, <2>1, <2>2 DEF Sizes
  <2>5. QED
    BY <2>3, <2>4
<1> HIDE DEF G
<1>3. Nat \subseteq G
  BY <1>1, <1>2, AllNumbers
<1>4. QED
  BY <1>3 DEF G, Sizes

\* The next thing begins behind this one.
LEMMA BeginsNext ==
  ASSUME NEW w, NEW n, Sizes(w, n)
  PROVE  /\ Begins(w, 1) = 0
         /\ \A k \in 1 .. n + 1 : Begins(w, k) \in Nat
         /\ \A k \in 1 .. n : Begins(w, k + 1) = Begins(w, k) + w[k]
<1> DEFINE C(k) == CHOOSE S : PartialSums(S, w, k)
<1>1. \A k \in 1 .. n + 1 : PartialSums(C(k), w, k)
  BY PartialSumsExist
<1>2. \A k : Begins(w, k) = C(k)[k]
  BY DEF Begins, PartialSums
<1> HIDE DEF C
<1>3. n \in Nat
  BY DEF Sizes
<1>4. C(1)[1] = 0
  BY <1>1, <1>3 DEF PartialSums
<1>5. \A k \in 1 .. n + 1 : C(k)[k] \in Nat
  <2> TAKE k \in 1 .. n + 1
  <2>1. PartialSums(C(k), w, k)
    BY <1>1
  <2>2. QED
    BY <1>3, <2>1, PartialSumsAgree
<1>6. ASSUME NEW k \in 1 .. n PROVE C(k + 1)[k + 1] = C(k)[k] + w[k]
  <2>1. k \in 1 .. n + 1 /\ k + 1 \in 1 .. n + 1 /\ k + 1 # 1 /\ k + 1 - 1 = k /\ k <= k + 1 /\ k <= k
    BY <1>3
  <2>2. PartialSums(C(k), w, k) /\ PartialSums(C(k + 1), w, k + 1)
    BY <1>1, <2>1
  <2>3. C(k + 1)[k + 1] = C(k + 1)[k] + w[k]
    BY <1>3, <2>1, <2>2 DEF PartialSums
  <2>4. C(k)[k] = C(k + 1)[k]
    BY <2>1, <2>2, PartialSumsAgree
  <2>5. QED
    BY <2>3, <2>4
<1>7. QED
  BY <1>2, <1>4, <1>5, <1>6

\* Of two things the first ends before the second begins.
LEMMA BeginsApart ==
  ASSUME NEW w, NEW n, Sizes(w, n), NEW k \in 1 .. n, NEW m \in 1 .. n + 1, k < m
  PROVE  Begins(w, k) + w[k] <= Begins(w, m)
<1> DEFINE G == {j \in Nat : j \in 1 .. n + 1 /\ k < j => Begins(w, k) + w[k] <= Begins(w, j)}
<1>1. 0 \in G
  OBVIOUS
<1>2. ASSUME NEW j \in Nat, j \in G PROVE j + 1 \in G
  <2>1. SUFFICES ASSUME j + 1 \in 1 .. n + 1, k < j + 1 PROVE Begins(w, k) + w[k] <= Begins(w, j + 1)
    OBVIOUS
  <2>2. n \in Nat /\ j \in 1 .. n /\ j \in 1 .. n + 1 /\ k \in 1 .. n + 1
    BY <2>1 DEF Sizes
  <2>3. /\ Begins(w, j + 1) = Begins(w, j) + w[j] /\ Begins(w, j) \in Nat /\ Begins(w, k) \in Nat
        /\ w[j] \in Nat /\ w[k] \in Nat
    BY <2>2, BeginsNext DEF Sizes
  <2>4. CASE j = k
    BY <2>3, <2>4
  <2>5. CASE j # k
    <3>1. Begins(w, k) + w[k] <= Begins(w, j)
      BY <1>2, <2>1, <2>2, <2>5
    <3>2. QED
      BY <2>3, <3>1
  <2>6. QED
    BY <2>4, <2>5
<1> HIDE DEF G
<1>3. Nat \subseteq G
  BY <1>1, <1>2, AllNumbers
<1>4. QED
  BY <1>3 DEF G, Sizes

\* What starts behind one number and ends with another, of a set.
Between(S, a, b) == {y \in a + 1 .. b : y \in S}

\* Between two numbers there are finitely many.
LEMMA BetweenFinite ==
  ASSUME NEW S, NEW a \in Nat, NEW b \in Nat
  PROVE  IsFiniteSet(Between(S, a, b)) /\ Cardinality(Between(S, a, b)) \in Nat
<1>1. Between(S, a, b) \subseteq a + 1 .. b
  BY DEF Between
<1>2. IsFiniteSet(a + 1 .. b)
  BY FS_Interval
<1>3. IsFiniteSet(Between(S, a, b))
  BY <1>1, <1>2, FS_Subset
<1>4. QED
  BY <1>3, FS_CardinalityType

\* Counting up to b and from there on.
LEMMA BetweenSplits ==
  ASSUME NEW S, NEW a \in Nat, NEW b \in Nat, NEW c \in Nat, a <= b, b <= c
  PROVE  Cardinality(Between(S, a, c)) = Cardinality(Between(S, a, b)) + Cardinality(Between(S, b, c))
<1>1. Between(S, a, c) = Between(S, a, b) \cup Between(S, b, c)
  BY DEF Between
<1>2. Between(S, a, b) \cap Between(S, b, c) = {}
  BY DEF Between
<1>3. IsFiniteSet(Between(S, a, b)) /\ IsFiniteSet(Between(S, b, c))
  BY BetweenFinite
<1>4. Cardinality(Between(S, a, c)) =
        Cardinality(Between(S, a, b)) + Cardinality(Between(S, b, c)) - Cardinality({})
  BY <1>1, <1>2, <1>3, FS_Union
<1>5. Cardinality({}) = 0
  BY FS_EmptySet
<1>6. QED
  BY <1>3, <1>4, <1>5, BetweenFinite

\* Counting one more.
LEMMA BetweenNext ==
  ASSUME NEW S, NEW b \in Nat
  PROVE  Cardinality(Between(S, b, b)) = 0
         /\ Cardinality(Between(S, b, b + 1)) = IF b + 1 \in S THEN 1 ELSE 0
<1>1. Between(S, b, b) = {}
  BY DEF Between
<1>2. Between(S, b, b + 1) = IF b + 1 \in S THEN {b + 1} ELSE {}
  BY DEF Between
<1>3. Cardinality({}) = 0
  BY FS_EmptySet
<1>4. Cardinality({b + 1}) = 1
  BY FS_Singleton
<1>5. QED
  BY <1>1, <1>2, <1>3, <1>4

-----------------------------------------------------------------------------
\* The entries of unit k that open a list of children, and the null entries.
Openers(k) == {j \in Nat : Opens(k, j)}
Closers(k) == {j \in Nat : IsNull(k, j)}

\* How many more lists are opened than ended by what stands behind a, up to b.
Depth(k, a, b) == Cardinality(Between(Openers(k), a, b)) - Cardinality(Between(Closers(k), a, b))

\* The depths of two parts add up.
LEMMA DepthSplits ==
  ASSUME NEW k, NEW a \in Nat, NEW b \in Nat, NEW c \in Nat, a <= b, b <= c
  PROVE  /\ Depth(k, a, b) \in Int /\ Depth(k, b, c) \in Int
         /\ Depth(k, a, c) = Depth(k, a, b) + Depth(k, b, c)
BY BetweenSplits, BetweenFinite DEF Depth

\* What one entry does to the depth.
LEMMA DepthNext ==
  ASSUME NEW k, NEW b \in Nat
  PROVE  /\ Depth(k, b, b) = 0
         /\ Depth(k, b, b + 1) = (IF Opens(k, b + 1) THEN 1 ELSE 0) - (IF IsNull(k, b + 1) THEN 1 ELSE 0)
<1>1. /\ b + 1 \in Openers(k) <=> Opens(k, b + 1)
      /\ b + 1 \in Closers(k) <=> IsNull(k, b + 1)
  BY DEF Openers, Closers
<1>2. QED
  BY <1>1, BetweenNext DEF Depth

\* The depth around an entry that opens a list.
LEMMA DepthBehind ==
  ASSUME NEW k, NEW a \in Nat, NEW j \in Nat, NEW c \in Nat, a < j, j <= c, Opens(k, j), ~IsNull(k, j)
  PROVE  Depth(k, a, c) = Depth(k, a, j - 1) + 1 + Depth(k, j, c) /\ Depth(k, a, j - 1) \in Int
<1>1. PICK b \in Nat : j = b + 1 /\ a <= b /\ b <= j /\ a <= j /\ b <= c
  <2>1. j - 1 \in Nat /\ j = j - 1 + 1
    OBVIOUS
  <2>2. QED
    BY <2>1
<1>2. Depth(k, b, j) = 1
  BY <1>1, DepthNext
<1>3. Depth(k, a, c) = Depth(k, a, b) + Depth(k, b, c) /\ Depth(k, a, b) \in Int
  BY <1>1, DepthSplits
<1>4. Depth(k, b, c) = Depth(k, b, j) + Depth(k, j, c) /\ Depth(k, j, c) \in Int
  BY <1>1, DepthSplits
<1>5. b = j - 1
  BY <1>1
<1>6. QED
  BY <1>2, <1>3, <1>4, <1>5

\* The parent that the nesting gives is the last opener whose list is not ended.
LEMMA NestingParentIs ==
  ASSUME NEW k, NEW i \in Nat, NEW t \in 1 .. i - 1, Opens(k, t), Depth(k, t, i - 1) = 0,
         \A x \in t .. i - 1 : Depth(k, t, x) >= 0
  PROVE  NestingParent(k, i) = t
<1> DEFINE M == {j \in 1 .. i - 1 :
                   /\ Opens(k, j)
                   /\ Cardinality({x \in j + 1 .. i - 1 : Opens(k, x)}) =
                        Cardinality({x \in j + 1 .. i - 1 : IsNull(k, x)})}
<1>1. ASSUME NEW j \in 1 .. i - 1
      PROVE  /\ {x \in j + 1 .. i - 1 : Opens(k, x)} = Between(Openers(k), j, i - 1)
             /\ {x \in j + 1 .. i - 1 : IsNull(k, x)} = Between(Closers(k), j, i - 1)
  BY DEF Between, Openers, Closers
<1>2. ASSUME NEW j \in 1 .. i - 1 PROVE j \in M <=> Opens(k, j) /\ Depth(k, j, i - 1) = 0
  <2>1. j \in Nat /\ i - 1 \in Nat
    OBVIOUS
  <2>2. Cardinality(Between(Openers(k), j, i - 1)) \in Nat /\ Cardinality(Between(Closers(k), j, i - 1)) \in Nat
    BY <2>1, BetweenFinite
  <2>3. j \in M <=> /\ Opens(k, j)
                   /\ Cardinality({x \in j + 1 .. i - 1 : Opens(k, x)}) =
                        Cardinality({x \in j + 1 .. i - 1 : IsNull(k, x)})
    OBVIOUS
  <2> HIDE DEF M
  <2>4. j \in M <=> /\ Opens(k, j)
                   /\ Cardinality(Between(Openers(k), j, i - 1)) = Cardinality(Between(Closers(k), j, i - 1))
    BY <1>1, <2>3, Zenon
  <2>5. QED
    BY <2>2, <2>4 DEF Depth
<1>3. t \in M
  BY <1>2
<1>4. ASSUME NEW j \in M PROVE t >= j
  <2>1. j \in 1 .. i - 1
    OBVIOUS
  <2>2. Opens(k, j) /\ Depth(k, j, i - 1) = 0
    BY <1>2, <2>1
  <2>3. SUFFICES ASSUME t < j PROVE FALSE
    BY <2>1
  <2>4. t \in Nat /\ j - 1 \in Nat /\ j \in Nat /\ i - 1 \in Nat /\ t <= j - 1 /\ j - 1 <= j /\ j <= i - 1
        /\ t <= j /\ j - 1 + 1 = j /\ j # 1 /\ j - 1 \in t .. i - 1
    BY <2>1, <2>3
  <2>5. ~IsNull(k, j)
    BY <2>2, <2>4 DEF Opens
  <2>6. Depth(k, t, i - 1) = Depth(k, t, j - 1) + 1 + Depth(k, j, i - 1) /\ Depth(k, t, j - 1) \in Int
    BY <2>2, <2>4, <2>5, DepthBehind
  <2>7. Depth(k, t, j - 1) >= 0
    BY <2>4
  <2>8. QED
    BY <2>2, <2>6, <2>7
<1> HIDE DEF M
<1>5. \A j \in M : t >= j
  BY <1>4
<1>6. M \subseteq Int
  BY DEF M
<1>7. \A y \in M : (\A j \in M : y >= j) => y = t
  BY <1>3, <1>5, <1>6
<1>8. Max(M) = t
  BY <1>3, <1>5, <1>7 DEF Max
<1>9. QED
  BY <1>8 DEF NestingParent, M

\* A sequence that ascends gives as many elements as it is long.
LEMMA AscendingCounts ==
  ASSUME NEW S, NEW q \in Seq(S), \A a, b \in DOMAIN q : a < b => q[a] < q[b], S \subseteq Nat
  PROVE  Len(q) = Cardinality(ToSet(q))
<1>1. DOMAIN q = 1 .. Len(q) /\ Len(q) \in Nat /\ q \in [1 .. Len(q) -> S]
  OBVIOUS
<1>2. \A a, b \in 1 .. Len(q) : q[a] = q[b] => a = b
  <2> TAKE a, b \in 1 .. Len(q)
  <2>1. q[a] \in Nat /\ q[b] \in Nat
    BY <1>1
  <2>2. a < b \/ b < a \/ a = b
    BY <1>1
  <2>3. a < b => q[a] < q[b]
    BY <1>1
  <2>4. b < a => q[b] < q[a]
    BY <1>1
  <2>5. QED
    BY <2>1, <2>2, <2>3, <2>4
<1>3. q \in [1 .. Len(q) -> ToSet(q)]
  BY <1>1 DEF ToSet
<1>4. \A x \in ToSet(q) : \E a \in 1 .. Len(q) : q[a] = x
  BY <1>1 DEF ToSet
<1>5. q \in Injection(1 .. Len(q), ToSet(q))
  BY <1>1, <1>2, <1>3, SMTT(30) DEF Injection, IsInjective
<1>6. q \in Surjection(1 .. Len(q), ToSet(q))
  BY <1>3, <1>4 DEF Surjection
<1>7. ExistsBijection(1 .. Len(q), ToSet(q))
  BY <1>5, <1>6 DEF ExistsBijection, Bijection
<1>8. IsFiniteSet(1 .. Len(q)) /\ Cardinality(1 .. Len(q)) = Len(q)
  BY <1>1, FS_Interval
<1>9. QED
  BY <1>7, <1>8, FS_Bijection

-----------------------------------------------------------------------------
\* The stack of _unflatten_tree() when it is at entry m of unit k: the openers
\* whose lists are not ended, the outermost first.
StackOf(k, m, ps) ==
  /\ ps \in Seq(1 .. m - 1)
  /\ \A q \in 1 .. Len(ps) :
       /\ Opens(k, ps[q]) /\ Depth(k, ps[q], m - 1) = Len(ps) - q
       /\ \A x \in ps[q] .. m - 1 : Depth(k, ps[q], x) >= 0

\* The part of StackOf that is about one of them, j, with e above it.
Holds(k, m, j, e) ==
  /\ j \in 1 .. m - 1 /\ Opens(k, j) /\ Depth(k, j, m - 1) = e
  /\ \A x \in j .. m - 1 : Depth(k, j, x) >= 0

\* What one more entry makes of an opener on the stack.
LEMMA HoldsNext ==
  ASSUME NEW k, NEW m \in Nat, m >= 2, NEW j, NEW e \in Int, Holds(k, m, j, e),
         NEW d \in Int, d = (IF Opens(k, m) THEN 1 ELSE 0) - (IF IsNull(k, m) THEN 1 ELSE 0),
         e + d >= 0
  PROVE  Holds(k, m + 1, j, e + d)
<1>1. /\ j \in Nat /\ m - 1 \in Nat /\ j <= m - 1 /\ m - 1 <= m /\ m - 1 + 1 = m /\ j <= m /\ j >= 1
      /\ m + 1 - 1 = m
  BY DEF Holds
<1>2. PICK b \in Nat : b = m - 1
  BY <1>1
<1>3. Depth(k, b, b + 1) = d
  <2>1. m = b + 1
    BY <1>1, <1>2
  <2>2. QED
    BY <2>1, DepthNext
<1>4. Depth(k, m - 1, m) = d
  BY <1>1, <1>2, <1>3
<1>5. Depth(k, j, m) = Depth(k, j, m - 1) + Depth(k, m - 1, m)
  BY <1>1, DepthSplits
<1>6. Depth(k, j, m) = e + d
  BY <1>4, <1>5 DEF Holds
<1>7. ASSUME NEW x \in j .. m PROVE Depth(k, j, x) >= 0
  <2>1. CASE x = m
    BY <1>6, <2>1
  <2>2. CASE x # m
    BY <1>1, <2>2 DEF Holds
  <2>3. QED
    BY <2>1, <2>2
<1>8. QED
  BY <1>1, <1>6, <1>7 DEF Holds

\* The stack, place by place.
LEMMA StackHolds ==
  ASSUME NEW k, NEW m \in Nat, NEW n \in Nat, NEW ps \in Seq(Nat), Len(ps) = n
  PROVE  StackOf(k, m, ps) <=> \A q \in 1 .. n : Holds(k, m, ps[q], n - q)
<1>1. ps \in Seq(1 .. m - 1) <=> \A q \in 1 .. n : ps[q] \in 1 .. m - 1
  <2>1. ps \in [1 .. n -> Nat]
    OBVIOUS
  <2>2. ASSUME \A q \in 1 .. n : ps[q] \in 1 .. m - 1 PROVE ps \in Seq(1 .. m - 1)
    <3>1. ps \in [1 .. n -> 1 .. m - 1]
      BY <2>1, <2>2
    <3>2. QED
      BY <3>1
  <2>3. ASSUME ps \in Seq(1 .. m - 1) PROVE \A q \in 1 .. n : ps[q] \in 1 .. m - 1
    BY <2>3
  <2>4. QED
    BY <2>2, <2>3
<1>2. QED
  BY <1>1 DEF StackOf, Holds

\* The parent of entry m is the top of the stack.
LEMMA StackTop ==
  ASSUME NEW k, NEW m \in Nat, m >= 2, NEW ps, StackOf(k, m, ps), ps # << >>
  PROVE  Last(ps) \in 1 .. m - 1 /\ NestingParent(k, m) = Last(ps)
<1>1. PICK n \in Nat : Len(ps) = n /\ n >= 1 /\ ps \in Seq(Nat) /\ Last(ps) = ps[n]
  BY DEF StackOf, Last
<1>2. Holds(k, m, ps[n], n - n)
  <2>1. \A q \in 1 .. n : Holds(k, m, ps[q], n - q)
    BY <1>1, StackHolds
  <2>2. n \in 1 .. n
    BY <1>1
  <2>3. QED
    BY <2>1, <2>2
<1>3. n - n = 0
  BY <1>1
<1>4. Holds(k, m, Last(ps), 0)
  BY <1>1, <1>2, <1>3
<1>5. /\ Last(ps) \in 1 .. m - 1 /\ Opens(k, Last(ps)) /\ Depth(k, Last(ps), m - 1) = 0
      /\ \A x \in Last(ps) .. m - 1 : Depth(k, Last(ps), x) >= 0
  BY <1>4 DEF Holds
<1>6. QED
  BY <1>5, NestingParentIs

\* An entry without children leaves the stack, one with children goes on it,
\* and a null entry takes the top.
LEMMA StackNext ==
  ASSUME NEW k, NEW m \in Nat, m >= 2, NEW ps, StackOf(k, m, ps), ps # << >>
  PROVE  /\ ~IsNull(k, m) /\ ~Opens(k, m) => StackOf(k, m + 1, ps)
         /\ ~IsNull(k, m) /\ Opens(k, m) => StackOf(k, m + 1, Append(ps, m))
         /\ IsNull(k, m) => StackOf(k, m + 1, Front(ps))
<1>1. PICK n \in Nat : Len(ps) = n /\ n >= 1 /\ ps \in Seq(Nat) /\ m + 1 \in Nat
  BY DEF StackOf
<1>2. \A q \in 1 .. n : Holds(k, m, ps[q], n - q)
  BY <1>1, StackHolds
<1>3. ASSUME ~IsNull(k, m), ~Opens(k, m) PROVE StackOf(k, m + 1, ps)
  <2>1. ASSUME NEW q \in 1 .. n PROVE Holds(k, m + 1, ps[q], n - q)
    <3>1. n - q \in Int /\ n - q + 0 >= 0 /\ n - q + 0 = n - q
      BY <1>1
    <3>2. Holds(k, m + 1, ps[q], n - q + 0)
      BY <1>2, <1>3, <3>1, HoldsNext
    <3>3. QED
      BY <3>1, <3>2
  <2>2. QED
    BY <1>1, <2>1, StackHolds
<1>4. ASSUME ~IsNull(k, m), Opens(k, m) PROVE StackOf(k, m + 1, Append(ps, m))
  <2>1. PICK p : p = Append(ps, m)
    OBVIOUS
  <2>2. /\ p \in Seq(Nat) /\ Len(p) = n + 1 /\ n + 1 \in Nat /\ p[n + 1] = m
        /\ \A q \in 1 .. n : p[q] = ps[q]
    BY <1>1, <2>1
  <2>3. ASSUME NEW q \in 1 .. n PROVE Holds(k, m + 1, p[q], n + 1 - q)
    <3>1. n - q \in Int /\ n - q + 1 >= 0 /\ n - q + 1 = n + 1 - q
      BY <1>1
    <3>2. Holds(k, m + 1, ps[q], n - q + 1)
      BY <1>2, <1>4, <3>1, HoldsNext
    <3>3. QED
      BY <2>2, <3>1, <3>2
  <2>4. Holds(k, m + 1, m, 0)
    <3>1. m + 1 - 1 = m /\ \A x \in m .. m : x = m
      OBVIOUS
    <3>2. Depth(k, m, m) = 0
      BY DepthNext
    <3>3. QED
      BY <1>4, <3>1, <3>2 DEF Holds
  <2>5. n + 1 - (n + 1) = 0
    BY <1>1
  <2>6. \A q \in 1 .. n + 1 : Holds(k, m + 1, p[q], n + 1 - q)
    BY <1>1, <2>2, <2>3, <2>4, <2>5
  <2>7. PICK n1 \in Nat : n1 = n + 1
    BY <2>2
  <2>8. Len(p) = n1 /\ \A q \in 1 .. n1 : Holds(k, m + 1, p[q], n1 - q)
    BY <2>2, <2>6, <2>7
  <2>9. StackOf(k, m + 1, p)
    BY <1>1, <2>2, <2>8, StackHolds
  <2>10. QED
    BY <2>1, <2>9
<1>5. ASSUME IsNull(k, m) PROVE StackOf(k, m + 1, Front(ps))
  <2>1. PICK p : p = Front(ps)
    OBVIOUS
  <2>2. PICK l \in Nat : l = n - 1
    BY <1>1
  <2>3. /\ p \in Seq(Nat) /\ Len(p) = l /\ \A q \in 1 .. l : p[q] = ps[q]
    BY <1>1, <2>1, <2>2 DEF Front
  <2>4. ~Opens(k, m)
    BY <1>5 DEF Opens
  <2>5. ASSUME NEW q \in 1 .. l PROVE Holds(k, m + 1, p[q], l - q)
    <3>1. n - q \in Int /\ -1 \in Int /\ n - q + (-1) >= 0 /\ n - q + (-1) = l - q /\ q \in 1 .. n
      BY <1>1, <2>2
    <3>2. Holds(k, m + 1, ps[q], n - q + (-1))
      BY <1>2, <1>5, <2>4, <3>1, HoldsNext
    <3>3. QED
      BY <2>3, <3>1, <3>2
  <2>6. QED
    BY <1>1, <2>1, <2>3, <2>5, StackHolds
<1>6. QED
  BY <1>3, <1>4, <1>5

-----------------------------------------------------------------------------
\* Below the entry i, in the order of the entries, of n with these parents.
Ascends(q) == \A a, b \in DOMAIN q : a < b => q[a] < q[b]
ChildrenOf(P, n, i) == {j \in 1 .. n : P[j] = i}

\* The tree of unit k as it is before its entry m is linked.
TreeTo(k, n, P, C, m) ==
  /\ P \in [1 .. n -> 0 .. n] /\ C \in [1 .. n -> Seq(1 .. n)]
  /\ \A i \in 1 .. n :
       /\ P[i] = IF i = 1 \/ IsNull(k, i) \/ i >= m THEN 0 ELSE NestingParent(k, i)
       /\ ToSet(C[i]) = ChildrenOf(P, n, i)
       /\ Ascends(C[i])

\* A null entry has no place in the tree.
LEMMA TreeKeeps ==
  ASSUME NEW k, NEW n \in Nat, NEW P, NEW C, NEW m \in 2 .. n, TreeTo(k, n, P, C, m), IsNull(k, m)
  PROVE  TreeTo(k, n, P, C, m + 1)
<1>1. ASSUME NEW i \in 1 .. n
      PROVE  P[i] = IF i = 1 \/ IsNull(k, i) \/ i >= m + 1 THEN 0 ELSE NestingParent(k, i)
  <2>1. P[i] = IF i = 1 \/ IsNull(k, i) \/ i >= m THEN 0 ELSE NestingParent(k, i)
    BY DEF TreeTo
  <2>2. CASE i = m
    BY <2>1, <2>2
  <2>3. CASE i # m
    <3>1. i >= m <=> i >= m + 1
      BY <2>3
    <3>2. QED
      BY <2>1, <3>1
  <2>4. QED
    BY <2>2, <2>3
<1>2. QED
  BY <1>1 DEF TreeTo

\* Another entry goes below the one that the nesting says.
LEMMA TreeGrows ==
  ASSUME NEW k, NEW n \in Nat, NEW P, NEW C, NEW m \in 2 .. n, TreeTo(k, n, P, C, m), ~IsNull(k, m),
         NEW t \in 1 .. m - 1, NestingParent(k, m) = t,
         NEW P2, P2 = [P EXCEPT ![m] = t], NEW C2, C2 = [C EXCEPT ![t] = Append(@, m)]
  PROVE  TreeTo(k, n, P2, C2, m + 1)
<1>1. /\ P \in [1 .. n -> 0 .. n] /\ C \in [1 .. n -> Seq(1 .. n)] /\ t \in 1 .. n /\ m \in 1 .. n /\ t # m
  BY DEF TreeTo
<1>2. P2 \in [1 .. n -> 0 .. n] /\ P2[m] = t /\ \A i \in 1 .. n : i # m => P2[i] = P[i]
  BY <1>1
<1>3. C2 \in [1 .. n -> Seq(1 .. n)] /\ C2[t] = Append(C[t], m) /\ \A i \in 1 .. n : i # t => C2[i] = C[i]
  <2>1. C[t] \in Seq(1 .. n)
    BY <1>1
  <2>2. Append(C[t], m) \in Seq(1 .. n)
    BY <1>1, <2>1
  <2>3. QED
    BY <1>1, <2>2
<1>4. ASSUME NEW i \in 1 .. n
      PROVE  P2[i] = IF i = 1 \/ IsNull(k, i) \/ i >= m + 1 THEN 0 ELSE NestingParent(k, i)
  <2>1. P[i] = IF i = 1 \/ IsNull(k, i) \/ i >= m THEN 0 ELSE NestingParent(k, i)
    BY DEF TreeTo
  <2>2. CASE i = m
    BY <1>2, <2>2
  <2>3. CASE i # m
    <3>1. i >= m <=> i >= m + 1
      BY <2>3
    <3>2. QED
      BY <1>2, <2>1, <2>3, <3>1
  <2>4. QED
    BY <2>2, <2>3
<1>5. P[m] = 0 /\ \A j \in 1 .. n : P[j] # 0 => j < m
  BY <1>1 DEF TreeTo
<1>6. ASSUME NEW i \in 1 .. n PROVE ToSet(C2[i]) = ChildrenOf(P2, n, i)
  <2>1. ToSet(C[i]) = ChildrenOf(P, n, i)
    BY DEF TreeTo
  <2>2. CASE i = t
    <3>1. C[t] \in Seq(1 .. n)
      BY <1>1
    <3>2. ToSet(Append(C[t], m)) = ToSet(C[t]) \cup {m}
      <4>1. PICK c \in Seq(1 .. n) : c = C[t]
        BY <3>1
      <4>2. ToSet(Append(c, m)) = ToSet(c) \cup {m}
        <5>1. DOMAIN Append(c, m) = 1 .. Len(c) + 1 /\ DOMAIN c = 1 .. Len(c) /\ Len(c) \in Nat
          OBVIOUS
        <5>2. Append(c, m)[Len(c) + 1] = m /\ \A a \in 1 .. Len(c) : Append(c, m)[a] = c[a]
          OBVIOUS
        <5>3. \A x : x \in ToSet(Append(c, m)) <=> \E a \in 1 .. Len(c) + 1 : Append(c, m)[a] = x
          BY <5>1 DEF ToSet
        <5>4. \A x : x \in ToSet(c) <=> \E a \in 1 .. Len(c) : c[a] = x
          BY <5>1 DEF ToSet
        <5>5. \A a \in 1 .. Len(c) + 1 : a = Len(c) + 1 \/ a \in 1 .. Len(c)
          BY <5>1
        <5>6. \A x : x \in ToSet(Append(c, m)) <=> x \in ToSet(c) \/ x = m
          BY <5>1, <5>2, <5>3, <5>4, <5>5
        <5>7. QED
          BY <5>6
      <4>3. QED
        BY <4>1, <4>2
    <3>3. ChildrenOf(P2, n, t) = ChildrenOf(P, n, t) \cup {m}
      BY <1>1, <1>2, <1>5 DEF ChildrenOf
    <3>4. QED
      BY <1>3, <2>1, <2>2, <3>2, <3>3
  <2>3. CASE i # t
    <3>1. ChildrenOf(P2, n, i) = ChildrenOf(P, n, i)
      BY <1>1, <1>2, <1>5, <2>3 DEF ChildrenOf
    <3>2. QED
      BY <1>3, <2>1, <2>3, <3>1
  <2>4. QED
    BY <2>2, <2>3
<1>7. ASSUME NEW i \in 1 .. n PROVE Ascends(C2[i])
  <2>1. Ascends(C[i]) /\ ToSet(C[i]) = ChildrenOf(P, n, i)
    BY DEF TreeTo
  <2>2. CASE i = t
    <3>1. C[t] \in Seq(1 .. n) /\ Len(C[t]) \in Nat
      BY <1>1
    <3>2. ASSUME NEW a \in DOMAIN C[t] PROVE C[t][a] < m
      <4>1. C[t][a] \in ChildrenOf(P, n, t)
        BY <2>1, <2>2 DEF ToSet
      <4>2. C[t][a] \in 1 .. n /\ P[C[t][a]] # 0
        BY <1>1, <4>1 DEF ChildrenOf
      <4>3. QED
        BY <1>5, <4>2
    <3>3. PICK c \in Seq(1 .. n) : c = C[t]
      BY <3>1
    <3>4. Ascends(c) /\ \A a \in DOMAIN c : c[a] < m
      BY <2>1, <2>2, <3>2, <3>3
    <3>5. Ascends(Append(c, m))
      <4>1. SUFFICES ASSUME NEW a \in 1 .. Len(c) + 1, NEW b \in 1 .. Len(c) + 1, a < b
                     PROVE  Append(c, m)[a] < Append(c, m)[b]
        BY DEF Ascends
      <4>2. a \in 1 .. Len(c) /\ Append(c, m)[a] = c[a]
        <5>1. Len(c) \in Nat
          OBVIOUS
        <5>2. a \in 1 .. Len(c)
          BY <4>1, <5>1
        <5>3. QED
          BY <5>2
      <4>3. CASE b = Len(c) + 1
        BY <3>4, <4>2, <4>3
      <4>4. CASE b # Len(c) + 1
        <5>1. b \in 1 .. Len(c) /\ Append(c, m)[b] = c[b]
          BY <4>4
        <5>2. QED
          BY <3>4, <4>1, <4>2, <5>1 DEF Ascends
      <4>5. QED
        BY <4>3, <4>4
    <3>6. QED
      BY <1>3, <2>2, <3>3, <3>5
  <2>3. CASE i # t
    BY <1>3, <2>1, <2>3
  <2>4. QED
    BY <2>2, <2>3
<1>8. QED
  BY <1>2, <1>3, <1>4, <1>6, <1>7 DEF TreeTo

-----------------------------------------------------------------------------
\* What the section and the line programs are.
InfoRead ==
  /\ units \in Seq(InfoUnits) /\ lineSec \in Seq(LinePrograms)
  /\ \A k \in DOMAIN units : lineSec # << >> => units[k].stmts \in 0 .. Len(lineSec)

\* The generator goes on at the first unit that it has not given.
UnitsGiven ==
  /\ yielded \in Seq(DOMAIN units) /\ Len(yielded) \in 0 .. Len(units)
  /\ cuOffset = Start(Len(yielded) + 1)
  /\ CUsInOrder

\* The calls that run, and what they count.
CallsOK ==
  /\ parsing \in {0} \cup DOMAIN units /\ seeking \in {0} \cup DOMAIN units /\ linkAt \in Nat
  /\ dielist \in [DOMAIN units -> Seq(Int)] /\ DOMAIN returned = DOMAIN units
  /\ linked \subseteq DOMAIN units

\* What is in the list of entries of a unit: while they are read as many as
\* the offset says, and when that has not failed all of them.
EntriesRead ==
  /\ \A k \in DOMAIN units :
       /\ Len(dielist[k]) <= UnitLength(k)
       /\ k # parsing /\ dielist[k] # << >> /\ k \notin failed => Len(dielist[k]) = UnitLength(k)
       /\ k \in linked => dielist[k] # << >>
  /\ parsing # 0 =>
       /\ parsing \notin linked
       /\ linkAt = 0 => dieOffset = Start(parsing) + 1 + Len(dielist[parsing])
       /\ linkAt # 0 => /\ linkAt \in 2 .. UnitLength(parsing) + 1
                        /\ Len(dielist[parsing]) = UnitLength(parsing)
  /\ DIEsComplete

\* Unit k has its tree up to entry m.
HasTree(k, m) == TreeTo(k, UnitLength(k), parent[k], children[k], m)

\* The trees: none before the entries are read, all of it when it is linked.
TreesGrow ==
  /\ DOMAIN parent = DOMAIN units /\ DOMAIN children = DOMAIN units
  /\ \A k \in DOMAIN units :
       /\ dielist[k] = << >> \/ (k = parsing /\ linkAt = 0) => HasTree(k, 2)
       /\ k = parsing /\ linkAt # 0 => HasTree(k, linkAt) /\ StackOf(k, linkAt, parentstack)
       /\ k \in linked => HasTree(k, UnitLength(k) + 1)

\* The line programs that callers have been given.
LinesFound == DOMAIN lineOf = DOMAIN units /\ LineProgramsMeet

\* The inductive invariant of the compile units.
InfoInv == InfoRead /\ UnitsGiven /\ CallsOK /\ EntriesRead /\ TreesGrow /\ LinesFound

\* Where the units are.
LEMMA StartFacts ==
  ASSUME InfoRead
  PROVE  /\ Len(units) \in Nat /\ DOMAIN units = 1 .. Len(units)
         /\ \A k \in 1 .. Len(units) : UnitLength(k) \in Nat
         /\ Start(1) = 0
         /\ \A k \in 1 .. Len(units) + 1 : Start(k) \in Nat
         /\ \A k \in 1 .. Len(units) : Start(k + 1) = Start(k) + 1 + UnitLength(k)
         /\ \A k \in 1 .. Len(units), m \in 1 .. Len(units) + 1 :
              k < m => Start(k) + 1 + UnitLength(k) <= Start(m)
<1>1. /\ Len(units) \in Nat /\ DOMAIN units = 1 .. Len(units)
      /\ \A k \in 1 .. Len(units) : units[k] \in InfoUnits
  BY DEF InfoRead
<1>2. \A k \in 1 .. Len(units) : UnitLength(k) \in Nat
  BY <1>1 DEF UnitLength, InfoUnits
<1>3. \A k \in 1 .. Len(units) : UnitSizes[k] = 1 + UnitLength(k) /\ UnitSizes[k] \in Nat
  BY <1>1, <1>2 DEF UnitSizes
<1>4. Sizes(UnitSizes, Len(units))
  BY <1>1, <1>3 DEF Sizes
<1>5. /\ Start(1) = 0
      /\ \A k \in 1 .. Len(units) + 1 : Start(k) \in Nat
      /\ \A k \in 1 .. Len(units) : Start(k + 1) = Start(k) + UnitSizes[k]
  BY <1>4, BeginsNext DEF Start
<1>6. \A k \in 1 .. Len(units), m \in 1 .. Len(units) + 1 : k < m => Start(k) + UnitSizes[k] <= Start(m)
  BY <1>4, BeginsApart DEF Start
<1>7. \A k \in 1 .. Len(units) : k \in 1 .. Len(units) + 1
  BY <1>1
<1>8. \A k \in 1 .. Len(units) : Start(k) + 1 + UnitLength(k) = Start(k) + UnitSizes[k]
  <2> TAKE k \in 1 .. Len(units)
  <2>1. UnitSizes[k] = 1 + UnitLength(k) /\ UnitLength(k) \in Nat /\ Start(k) \in Nat
    BY <1>2, <1>3, <1>5, <1>7
  <2>2. QED
    BY <2>1
<1>9. QED
  BY <1>1, <1>2, <1>5, <1>6, <1>8

\* The unit at the offset of a unit is that one, and there is one as long as
\* the offset is inside the section.
LEMMA UnitAtStart ==
  ASSUME InfoRead, NEW k \in 1 .. Len(units) + 1
  PROVE  /\ Start(k) < InfoSize <=> k \in DOMAIN units
         /\ k \in DOMAIN units => UnitAt(Start(k)) = k
<1>1. PICK n \in Nat : n = Len(units) /\ DOMAIN units = 1 .. n
  BY StartFacts, Zenon
<1>2. /\ \A j \in 1 .. n : UnitLength(j) \in Nat
      /\ \A j \in 1 .. n + 1 : Start(j) \in Nat
      /\ \A j \in 1 .. n, m \in 1 .. n + 1 : j < m => Start(j) + 1 + UnitLength(j) <= Start(m)
  BY <1>1, StartFacts
<1>3. Start(k) < InfoSize <=> k \in DOMAIN units
  <2>1. InfoSize = Start(n + 1)
    BY <1>1 DEF InfoSize
  <2>2. k \in 1 .. n \/ k = n + 1
    BY <1>1
  <2>3. CASE k = n + 1
    <3>1. Start(n + 1) \in Nat /\ n + 1 \notin 1 .. n
      BY <1>2
    <3>2. ~(Start(n + 1) < Start(n + 1))
      BY <3>1
    <3>3. QED
      BY <1>1, <2>1, <2>3, <3>1, <3>2
  <2>4. CASE k \in 1 .. n
    <3>1. Start(k) + 1 + UnitLength(k) <= Start(n + 1) /\ Start(k) \in Nat /\ UnitLength(k) \in Nat /\ Start(n + 1) \in Nat
      BY <1>2, <2>4
    <3>2. QED
      BY <1>1, <2>1, <2>4, <3>1
  <2>5. QED
    BY <2>2, <2>3, <2>4
<1>4. ASSUME k \in DOMAIN units PROVE UnitAt(Start(k)) = k
  <2>1. k \in 1 .. n
    BY <1>1, <1>4
  <2>2. Start(k) \in Start(k) .. Start(k) + UnitLength(k)
    BY <1>1, <1>2, <2>1
  <2>3. ASSUME NEW j \in 1 .. n, Start(k) \in Start(j) .. Start(j) + UnitLength(j) PROVE j = k
    <3>1. /\ Start(k) \in Nat /\ Start(j) \in Nat /\ UnitLength(j) \in Nat /\ UnitLength(k) \in Nat
          /\ j \in 1 .. n + 1 /\ k \in 1 .. n + 1
      BY <1>1, <1>2, <2>1
    <3>2. Start(j) <= Start(k) /\ Start(k) <= Start(j) + UnitLength(j)
      BY <2>3, <3>1
    <3>3. j < k => Start(j) + 1 + UnitLength(j) <= Start(k)
      BY <1>2, <3>1
    <3>4. k < j => Start(k) + 1 + UnitLength(k) <= Start(j)
      BY <1>2, <2>1, <3>1
    <3>5. ~(j < k) /\ ~(k < j)
      BY <3>1, <3>2, <3>3, <3>4
    <3>6. QED
      BY <3>1, <3>5
  <2>4. QED
    <3>1. \A j \in DOMAIN units : Start(k) \in Start(j) .. Start(j) + UnitLength(j) <=> j = k
      BY <1>1, <2>1, <2>2, <2>3, Zenon
    <3>2. QED
      BY <1>4, <3>1, Zenon DEF UnitAt
<1>5. QED
  BY <1>3, <1>4

\* The section is not written.
LEMMA SectionStays == ASSUME [InfoNext]_infoVars PROVE units' = units /\ lineSec' = lineSec
BY DEF InfoNext, infoVars, NextCU, StopIteration, AlreadyParsed, BeginDIEs, AskLineProgram, ReadDIE,
       ReadDIERaises, BeginTree, EmptyUnitRaises, LinkDIE, LinkNull, LinkRaises, EndTree,
       GiveLineProgram, Raise, cuVars, treeVars, askVars

\* So what is said of it alone stays.
LEMMA StaysSaid ==
  ASSUME units' = units, lineSec' = lineSec
  PROVE  /\ InfoRead' <=> InfoRead
         /\ \A k : UnitLength(k)' = UnitLength(k)
         /\ \A k : Start(k)' = Start(k)
         /\ \A k, m, ps : StackOf(k, m, ps)' <=> StackOf(k, m, ps)
         /\ \A k, n, P, C, m : TreeTo(k, n, P, C, m)' <=> TreeTo(k, n, P, C, m)
<1>1. InfoRead' <=> InfoRead
  BY DEF InfoRead
<1>2. \A k : UnitLength(k)' = UnitLength(k)
  BY DEF UnitLength
<1>3. UnitSizes' = UnitSizes
  BY DEF UnitSizes, UnitLength
<1>4. \A k : Start(k)' = Start(k)
  BY <1>3 DEF Start
<1>5. \A k, j : /\ IsNull(k, j)' <=> IsNull(k, j)
                /\ Opens(k, j)' <=> Opens(k, j)
  BY DEF IsNull, Opens, HasChildren, Code
<1>6. \A k : Openers(k)' = Openers(k) /\ Closers(k)' = Closers(k)
  BY DEF Openers, Closers, IsNull, Opens, HasChildren, Code
<1>7. \A k, a, b : Depth(k, a, b)' = Depth(k, a, b)
  BY <1>6 DEF Depth
<1>8. \A k, i : NestingParent(k, i)' = NestingParent(k, i)
  BY DEF NestingParent, IsNull, Opens, HasChildren, Code
<1>9. \A k, m, ps : StackOf(k, m, ps)' <=> StackOf(k, m, ps)
  BY <1>5, <1>7 DEF StackOf
<1>10. \A k, n, P, C, m : TreeTo(k, n, P, C, m)' <=> TreeTo(k, n, P, C, m)
  BY <1>5, <1>8 DEF TreeTo
<1>11. QED
  BY <1>1, <1>2, <1>4, <1>9, <1>10

\* Initially
LEMMA InfoInitInv == ASSUME InfoInit PROVE InfoInv
<1>1. InfoRead
  BY InfoAssumption DEF InfoInit, InfoRead
<1>2. UnitsGiven
  <2>1. yielded = << >> /\ cuOffset = 0 /\ ~cuEnded
    BY DEF InfoInit
  <2>2. Start(1) = 0 /\ Len(units) \in Nat
    BY <1>1, StartFacts
  <2>3. CUsInOrder
    BY <2>1 DEF CUsInOrder
  <2>4. yielded \in Seq(DOMAIN units) /\ Len(yielded) = 0
    BY <2>1
  <2>5. QED
    BY <2>1, <2>2, <2>3, <2>4 DEF UnitsGiven
<1>3. CallsOK
  BY DEF InfoInit, CallsOK, Unparsed
<1>4. EntriesRead
  <2>1. /\ parsing = 0 /\ linked = {} /\ \A k \in DOMAIN units : dielist[k] = << >> /\ returned[k] = 0
    BY DEF InfoInit, Unparsed
  <2>2. \A k \in DOMAIN units : UnitLength(k) \in Nat
    BY <1>1, StartFacts
  <2>3. QED
    BY <2>1, <2>2 DEF EntriesRead, DIEsComplete
<1>5. TreesGrow
  <2>1. /\ parsing = 0 /\ linked = {} /\ parent = Unlinked(0) /\ children = Unlinked(<< >>)
    BY DEF InfoInit
  <2>2. ASSUME NEW k \in DOMAIN units PROVE HasTree(k, 2)
    <3>1. PICK n \in Nat : n = UnitLength(k) /\ DOMAIN units[k].codes = 1 .. n
      <4>1. units[k] \in InfoUnits
        BY <1>1 DEF InfoRead
      <4>2. units[k].codes \in Seq(Nat)
        BY <4>1 DEF InfoUnits
      <4>3. QED
        BY <4>2 DEF UnitLength
    <3>2. parent[k] = [i \in 1 .. n |-> 0] /\ children[k] = [i \in 1 .. n |-> << >>]
      BY <2>1, <3>1 DEF Unlinked
    <3>3. \A i \in 1 .. n : i = 1 \/ i >= 2
      OBVIOUS
    <3>4. ToSet(<< >>) = {} /\ Ascends(<< >>)
      BY DEF ToSet, Ascends
    <3>5. \A i \in 1 .. n : ChildrenOf(parent[k], n, i) = {}
      BY <3>2 DEF ChildrenOf
    <3>6. parent[k] \in [1 .. n -> 0 .. n] /\ children[k] \in [1 .. n -> Seq(1 .. n)]
      BY <3>2
    <3>7. QED
      BY <3>1, <3>2, <3>3, <3>4, <3>5, <3>6 DEF HasTree, TreeTo
  <2>3. DOMAIN parent = DOMAIN units /\ DOMAIN children = DOMAIN units
    BY <2>1 DEF Unlinked
  <2>4. ~(\E k \in DOMAIN units : k = parsing)
    <3>1. 0 \notin DOMAIN units
      BY <1>1, StartFacts
    <3>2. QED
      BY <2>1, <3>1
  <2>5. QED
    BY <2>1, <2>2, <2>3, <2>4 DEF TreesGrow
<1>6. LinesFound
  BY DEF InfoInit, LinesFound, LineProgramsMeet
<1>7. QED
  BY <1>1, <1>2, <1>3, <1>4, <1>5, <1>6 DEF InfoInv

-----------------------------------------------------------------------------
\* The generator: the next offset is the end of the unit it gives.
LEMMA UnitsStayGiven == ASSUME InfoRead, UnitsGiven, [InfoNext]_infoVars PROVE UnitsGiven'
<1>1. units' = units /\ lineSec' = lineSec
  BY SectionStays, Zenon
<1>2. PICK n \in Nat : n = Len(units) /\ DOMAIN units = 1 .. n
  BY StartFacts, Zenon
<1>3. PICK l \in 0 .. n : /\ l = Len(yielded) /\ yielded \in Seq(1 .. n) /\ cuOffset = Start(l + 1)
                          /\ yielded = [i \in 1 .. l |-> i]
                          /\ cuEnded => l = n \/ ~_is_supported_version(units[l + 1].version)
  BY <1>2, Zenon DEF UnitsGiven, CUsInOrder
<1>4. /\ DOMAIN units' = 1 .. n /\ Len(units') = n
      /\ \A k : Start(k)' = Start(k)
  BY <1>1, <1>2, StaysSaid
<1>5. CASE NextCU
  <2>1. /\ cuOffset < InfoSize /\ l + 1 \in 1 .. n + 1
    BY <1>3, <1>5 DEF NextCU, Resumes
  <2>2. l + 1 \in 1 .. n /\ UnitAt(Start(l + 1)) = l + 1
    BY <1>2, <1>3, <2>1, UnitAtStart
  <2>3. CASE _is_supported_version(units[l + 1].version)
    <3>1. yielded' = Append(yielded, l + 1) /\ cuOffset' = Start(l + 1) + UnitLength(l + 1) + 1 /\ cuEnded' = cuEnded
          /\ ~cuEnded
      BY <1>3, <1>5, <2>2, <2>3 DEF NextCU, Resumes
    <3>2. /\ yielded' \in Seq(1 .. n) /\ Len(yielded') = l + 1 /\ yielded'[l + 1] = l + 1
          /\ \A i \in 1 .. l : yielded'[i] = i
      <4>1. Append(yielded, l + 1) \in Seq(1 .. n)
        BY <1>3, <2>2
      <4>2. Len(Append(yielded, l + 1)) = l + 1 /\ Append(yielded, l + 1)[l + 1] = l + 1
        BY <1>3
      <4>3. \A i \in 1 .. l : Append(yielded, l + 1)[i] = yielded[i]
        BY <1>3
      <4>4. \A i \in 1 .. l : yielded[i] = i
        BY <1>3
      <4>5. QED
        BY <3>1, <4>1, <4>2, <4>3, <4>4
    <3>3. yielded' = [i \in 1 .. l + 1 |-> i]
      BY <3>2
    <3>4. Start(l + 1 + 1) = Start(l + 1) + UnitLength(l + 1) + 1
      <4>1. l + 1 \in 1 .. n + 1 /\ UnitLength(l + 1) \in Nat /\ Start(l + 1) \in Nat
            /\ Start(l + 1 + 1) = Start(l + 1) + 1 + UnitLength(l + 1)
        BY <1>2, <2>1, <2>2, StartFacts
      <4>2. QED
        BY <4>1
    <3>5. l + 1 \in 0 .. n
      BY <2>2
    <3>6. QED
      BY <1>4, <3>1, <3>2, <3>3, <3>4, <3>5 DEF UnitsGiven, CUsInOrder
  <2>4. CASE ~_is_supported_version(units[l + 1].version)
    <3>1. yielded' = yielded /\ cuOffset' = cuOffset
      BY <1>3, <1>5, <2>2, <2>4 DEF NextCU, Resumes
    <3>2. ~_is_supported_version(units'[l + 1].version)
      BY <1>1, <2>4
    <3>3. QED
      BY <1>3, <1>4, <3>1, <3>2 DEF UnitsGiven, CUsInOrder, _is_supported_version
  <2>5. QED
    BY <2>3, <2>4
<1>6. CASE StopIteration
  <2>1. /\ cuOffset >= InfoSize /\ l + 1 \in 1 .. n + 1 /\ yielded' = yielded /\ cuOffset' = cuOffset
    BY <1>3, <1>6 DEF StopIteration, Resumes
  <2>2. l = n
    <3>1. cuOffset \in Nat /\ InfoSize \in Nat
      BY <1>2, <1>3, <2>1, StartFacts DEF InfoSize
    <3>2. ~(Start(l + 1) < InfoSize)
      BY <1>3, <2>1, <3>1
    <3>3. l + 1 \notin 1 .. n
      BY <1>2, <2>1, <3>2, UnitAtStart
    <3>4. QED
      BY <2>1, <3>3
  <2>3. QED
    BY <1>3, <1>4, <2>1, <2>2 DEF UnitsGiven, CUsInOrder
<1>7. CASE UNCHANGED cuVars
  <2>1. yielded' = yielded /\ cuOffset' = cuOffset /\ cuEnded' = cuEnded
    BY <1>7 DEF cuVars
  <2>2. QED
    BY <1>1, <1>3, <1>4, <2>1 DEF UnitsGiven, CUsInOrder, _is_supported_version
<1>8. NextCU \/ StopIteration \/ UNCHANGED cuVars
  BY DEF InfoNext, infoVars, AlreadyParsed, BeginDIEs, AskLineProgram, ReadDIE, ReadDIERaises, BeginTree,
         EmptyUnitRaises, LinkDIE, LinkNull, LinkRaises, EndTree, GiveLineProgram, Raise
<1>9. QED
  BY <1>5, <1>6, <1>7, <1>8

\* The line programs: what was found stays, and the one that is found now ends
\* where the next begins.
LEMMA LinesStayFound == ASSUME InfoRead, CallsOK, LinesFound, [InfoNext]_infoVars PROVE LinesFound'
<1>1. units' = units /\ lineSec' = lineSec
  BY SectionStays
<1>2. PICK n \in Nat : n = Len(lineSec) /\ lineSec \in Seq(LinePrograms) /\ DOMAIN lineSec = 1 .. n
  BY DEF InfoRead
<1>3. \A p \in 1 .. n : lineSec[p].head \in Nat /\ lineSec[p].body \in Nat
  <2>1. \A p \in 1 .. n : lineSec[p] \in LinePrograms
    BY <1>2
  <2>2. QED
    BY <2>1 DEF LinePrograms
<1>4. \A p \in 1 .. n : LineSizes[p] = 1 + lineSec[p].head + lineSec[p].body /\ LineSizes[p] \in Nat
  BY <1>2, <1>3 DEF LineSizes
<1>5. Sizes(LineSizes, n)
  BY <1>4 DEF Sizes
<1>6. /\ \A p \in 1 .. n + 1 : ProgramAt(p) \in Nat
      /\ \A p \in 1 .. n : ProgramAt(p + 1) = ProgramAt(p) + LineSizes[p]
  BY <1>5, BeginsNext DEF ProgramAt
<1> DEFINE Found(k, v) ==
       IF ~HasStmtList(k) THEN v = <<"none">>
       ELSE IF lineSec = << >> THEN v = <<"raised">>
       ELSE /\ v[2] - v[1] = lineSec[units[k].stmts].body
            /\ v[2] = IF units[k].stmts = Len(lineSec) THEN LineSize ELSE ProgramAt(units[k].stmts + 1)
<1>7. LineProgramsMeet <=> \A k \in DOMAIN units : lineOf[k] # << >> => Found(k, lineOf[k])
  BY DEF LineProgramsMeet
<1>8. LineProgramsMeet' <=> \A k \in DOMAIN units : lineOf'[k] # << >> => Found(k, lineOf'[k])
  <2>1. \A k : /\ HasStmtList(k)' <=> HasStmtList(k)
               /\ ProgramAt(k)' = ProgramAt(k)
    BY <1>1 DEF HasStmtList, IsNull, Code, ProgramAt, LineSizes
  <2>2. LineSize' = LineSize
    BY <1>1 DEF LineSize, ProgramAt, LineSizes
  <2>3. QED
    BY <1>1, <2>1, <2>2 DEF LineProgramsMeet
<1>9. DOMAIN lineOf = DOMAIN units /\ \A k \in DOMAIN units : lineOf[k] # << >> => Found(k, lineOf[k])
  BY <1>7 DEF LinesFound
<1>10. CASE GiveLineProgram
  <2>1. seeking \in DOMAIN units
    BY <1>10 DEF GiveLineProgram, CallsOK
  <2>2. PICK v : v = IF ~HasStmtList(seeking) THEN <<"none">>
                     ELSE IF lineSec = << >> THEN <<"raised">>
                     ELSE _parse_line_program_at_offset(units[seeking].stmts)
    OBVIOUS
  <2>3. lineOf' = [lineOf EXCEPT ![seeking] = v]
    BY <1>10, <2>2 DEF GiveLineProgram
  <2>4. Found(seeking, v)
    <3>1. CASE ~HasStmtList(seeking) \/ lineSec = << >>
      BY <2>2, <3>1
    <3>2. CASE HasStmtList(seeking) /\ lineSec # << >>
      <4>1. PICK p : p = units[seeking].stmts
        OBVIOUS
      <4>2. p \in 1 .. n
        <5>1. p \in 0 .. n /\ p # 0
          BY <1>2, <2>1, <3>2, <4>1 DEF InfoRead, HasStmtList
        <5>2. QED
          BY <5>1
      <4>3. v = << ProgramAt(p) + 1 + lineSec[p].head, ProgramAt(p) + 1 + lineSec[p].head + lineSec[p].body >>
        BY <2>2, <3>2, <4>1 DEF _parse_line_program_at_offset
      <4>4. /\ ProgramAt(p) \in Nat /\ lineSec[p].head \in Nat /\ lineSec[p].body \in Nat
            /\ ProgramAt(p + 1) = ProgramAt(p) + (1 + lineSec[p].head + lineSec[p].body)
        <5>1. p \in 1 .. n + 1
          BY <4>2
        <5>2. QED
          BY <1>3, <1>4, <1>6, <4>2, <5>1
      <4>5. v[2] - v[1] = lineSec[p].body /\ v[2] = ProgramAt(p + 1)
        BY <4>3, <4>4
      <4>6. p = Len(lineSec) => LineSize = ProgramAt(p + 1)
        BY DEF LineSize
      <4>7. QED
        BY <3>2, <4>1, <4>5, <4>6
    <3>3. QED
      BY <3>1, <3>2
  <2> HIDE DEF Found
  <2>5. QED
    BY <1>1, <1>8, <1>9, <2>1, <2>3, <2>4 DEF LinesFound
<1>11. CASE UNCHANGED lineOf
  BY <1>1, <1>8, <1>9, <1>11 DEF LinesFound
<1>12. GiveLineProgram \/ UNCHANGED lineOf
  BY DEF InfoNext, infoVars, NextCU, StopIteration, AlreadyParsed, BeginDIEs, AskLineProgram, ReadDIE,
         ReadDIERaises, BeginTree, EmptyUnitRaises, LinkDIE, LinkNull, LinkRaises, EndTree, Raise, askVars
<1>13. QED
  BY <1>10, <1>11, <1>12

\* The calls: who reads, and the lists.
LEMMA CallsStayOK ==
  ASSUME InfoRead, UnitsGiven, CallsOK, EntriesRead, [InfoNext]_infoVars PROVE CallsOK'
<1>1. units' = units
  BY SectionStays
<1>2. ToSet(yielded) \subseteq DOMAIN units
  <2>1. \A i \in DOMAIN yielded : yielded[i] \in DOMAIN units
    BY DEF UnitsGiven
  <2>2. QED
    BY <2>1 DEF ToSet
<1>3. CASE NextCU \/ StopIteration \/ GiveLineProgram \/ UNCHANGED infoVars
  BY <1>1, <1>3 DEF CallsOK, NextCU, StopIteration, GiveLineProgram, infoVars, cuVars, treeVars, askVars
<1>4. ASSUME NEW k \in DOMAIN units, AlreadyParsed(k) PROVE CallsOK'
  BY <1>1, <1>4 DEF CallsOK, AlreadyParsed, cuVars, treeVars, askVars
<1>5. ASSUME NEW k \in DOMAIN units, BeginDIEs(k) \/ AskLineProgram(k) PROVE CallsOK'
  BY <1>1, <1>2, <1>5 DEF CallsOK, BeginDIEs, AskLineProgram, ParseDIEs, cuVars, treeVars, askVars
<1>6. CASE ReadDIE
  <2>1. parsing \in DOMAIN units /\ dielist[parsing] \in Seq(Int)
    BY <1>6 DEF CallsOK, ReadDIE, Reading
  <2>2. ReadIndex \in Int
    <3>1. dieOffset = Start(parsing) + 1 + Len(dielist[parsing]) /\ Len(dielist[parsing]) \in Nat
      BY <1>6, <2>1 DEF EntriesRead, ReadDIE, Reading
    <3>2. Start(parsing) \in Nat
      BY <2>1, StartFacts
    <3>3. QED
      BY <3>1, <3>2 DEF ReadIndex
  <2>3. Append(dielist[parsing], ReadIndex) \in Seq(Int)
    BY <2>1, <2>2
  <2>4. dielist' \in [DOMAIN units -> Seq(Int)]
    BY <1>6, <2>1, <2>3 DEF ReadDIE, CallsOK
  <2>5. QED
    BY <1>1, <1>6, <2>4 DEF CallsOK, ReadDIE, cuVars, treeVars, askVars
<1>7. CASE ReadDIERaises \/ EmptyUnitRaises \/ LinkRaises
  BY <1>1, <1>7 DEF CallsOK, ReadDIERaises, EmptyUnitRaises, LinkRaises, Raise, cuVars, treeVars, askVars
<1>8. CASE BeginTree
  BY <1>1, <1>8 DEF CallsOK, BeginTree, cuVars, treeVars, askVars
<1>9. CASE LinkDIE \/ LinkNull
  BY <1>1, <1>9 DEF CallsOK, LinkDIE, LinkNull, Linking, cuVars, treeVars, askVars
<1>10. CASE EndTree
  BY <1>1, <1>10 DEF CallsOK, EndTree, cuVars, treeVars, askVars
<1>11. QED
  BY <1>3, <1>4, <1>5, <1>6, <1>7, <1>8, <1>9, <1>10 DEF InfoNext

\* The lists of entries grow by one, up to the end of the unit, and are final
\* when they are returned.
LEMMA EntriesStayRead ==
  ASSUME InfoRead, UnitsGiven, CallsOK, EntriesRead, [InfoNext]_infoVars PROVE EntriesRead'
<1>1. units' = units /\ (\A k : UnitLength(k)' = UnitLength(k)) /\ (\A k : Start(k)' = Start(k))
  BY SectionStays, StaysSaid
<1>2. ToSet(yielded) \subseteq DOMAIN units /\ 0 \notin DOMAIN units
  <2>1. \A i \in DOMAIN yielded : yielded[i] \in DOMAIN units
    BY DEF UnitsGiven
  <2>2. 0 \notin DOMAIN units
    BY StartFacts
  <2>3. QED
    BY <2>1, <2>2 DEF ToSet
<1>3. \A k \in DOMAIN units : UnitLength(k) \in Nat /\ Start(k) \in Nat /\ dielist[k] \in Seq(Int) /\ Len(dielist[k]) \in Nat
  <2>1. \A k \in DOMAIN units : k \in 1 .. Len(units) /\ k \in 1 .. Len(units) + 1
    BY StartFacts
  <2>2. QED
    BY <2>1, StartFacts DEF CallsOK
<1>4. CASE NextCU \/ StopIteration \/ GiveLineProgram \/ UNCHANGED infoVars
  <2>1. UNCHANGED << parsing, linkAt, dielist, dieOffset, failed, linked, returned >>
    BY <1>4 DEF NextCU, StopIteration, GiveLineProgram, infoVars, cuVars, treeVars, askVars
  <2>2. QED
    BY <1>1, <2>1 DEF EntriesRead, DIEsComplete
<1>5. ASSUME NEW k \in DOMAIN units, AlreadyParsed(k) PROVE EntriesRead'
  <2>1. /\ UNCHANGED << parsing, linkAt, dielist, dieOffset, failed, linked >> /\ parsing = 0
        /\ dielist[k] # << >> /\ returned' = [returned EXCEPT ![k] = Len(dielist[k])]
    BY <1>5 DEF AlreadyParsed, AtRest, treeVars
  <2>2. k \notin failed => Len(dielist[k]) = UnitLength(k)
    BY <1>2, <2>1 DEF EntriesRead
  <2>3. \A j \in DOMAIN units \ failed : returned'[j] \in {0, UnitLength(j)}
    BY <2>1, <2>2 DEF EntriesRead, DIEsComplete, CallsOK
  <2>4. QED
    BY <1>1, <2>1, <2>3 DEF EntriesRead, DIEsComplete
<1>6. ASSUME NEW k \in DOMAIN units, BeginDIEs(k) \/ AskLineProgram(k) PROVE EntriesRead'
  <2>1. UNCHANGED << dielist, failed, linked, returned >> /\ parsing = 0
    BY <1>6 DEF BeginDIEs, AskLineProgram, AtRest
  <2>2. CASE UNCHANGED << parsing, dieOffset, linkAt >>
    BY <1>1, <2>1, <2>2 DEF EntriesRead, DIEsComplete
  <2>3. CASE ParseDIEs(k)
    <3>1. dielist[k] = << >> /\ parsing' = k /\ dieOffset' = Start(k) + 1 /\ linkAt' = 0
      BY <2>3 DEF ParseDIEs
    <3>2. k \notin linked /\ Start(k) + 1 = Start(k) + 1 + Len(dielist[k])
      BY <1>3, <3>1 DEF EntriesRead
    <3>3. QED
      BY <1>1, <1>2, <2>1, <3>1, <3>2 DEF EntriesRead, DIEsComplete
  <2>4. QED
    BY <1>6, <2>2, <2>3 DEF BeginDIEs, AskLineProgram
<1>7. CASE ReadDIE
  <2>1. /\ parsing \in DOMAIN units /\ linkAt = 0 /\ dieOffset < Boundary(parsing)
        /\ dielist' = [dielist EXCEPT ![parsing] = Append(@, ReadIndex)] /\ dieOffset' = dieOffset + 1
        /\ UNCHANGED << parsing, linkAt, failed, linked, returned >>
    BY <1>7 DEF ReadDIE, Reading, CallsOK, treeVars
  <2>2. PICK n \in Nat, s \in Nat, d \in Seq(Int) :
          /\ n = UnitLength(parsing) /\ s = Start(parsing) /\ d = dielist[parsing] /\ parsing # 0
          /\ dieOffset = s + 1 + Len(d) /\ parsing \notin linked
    BY <1>2, <1>3, <2>1 DEF EntriesRead
  <2>3. Len(d) + 1 <= n
    <3>1. PICK l \in Nat : l = Len(d)
      OBVIOUS
    <3>2. s + 1 + l < s + n + 1
      BY <2>1, <2>2, <3>1 DEF Boundary
    <3>3. QED
      BY <3>1, <3>2
  <2>4. PICK x \in Int : x = ReadIndex
    <3>1. Len(d) \in Nat
      OBVIOUS
    <3>2. ReadIndex \in Int
      BY <2>2, <3>1 DEF ReadIndex
    <3>3. QED
      BY <3>2
  <2>5. Len(Append(d, x)) = Len(d) + 1 /\ Append(d, x) # << >>
    BY AppendProperties
  <2>6. dielist'[parsing] = Append(d, x) /\ \A k \in DOMAIN units : k # parsing => dielist'[k] = dielist[k]
    BY <2>1, <2>2, <2>4 DEF CallsOK
  <2>7. \A k \in DOMAIN units : Len(dielist'[k]) <= UnitLength(k)
    BY <2>2, <2>3, <2>5, <2>6 DEF EntriesRead
  <2>8. s + 1 + Len(d) + 1 = s + 1 + (Len(d) + 1)
    BY <2>2
  <2>9. QED
    BY <1>1, <2>1, <2>2, <2>5, <2>6, <2>7, <2>8 DEF EntriesRead, DIEsComplete
<1>8. CASE ReadDIERaises \/ EmptyUnitRaises \/ LinkRaises
  <2>1. UNCHANGED << dielist, linked, returned >> /\ parsing' = 0 /\ failed' = failed \cup {parsing}
    BY <1>8 DEF ReadDIERaises, EmptyUnitRaises, LinkRaises, Raise
  <2>2. QED
    BY <1>1, <2>1 DEF EntriesRead, DIEsComplete
<1>9. CASE BeginTree
  <2>1. /\ parsing \in DOMAIN units /\ linkAt = 0 /\ dieOffset >= Boundary(parsing) /\ dielist[parsing] # << >>
        /\ linkAt' = 2 /\ UNCHANGED << parsing, dielist, dieOffset, failed, linked, returned >>
    BY <1>9 DEF BeginTree, CallsOK
  <2>2. PICK n \in Nat, s \in Nat, d \in Seq(Int) :
          /\ n = UnitLength(parsing) /\ s = Start(parsing) /\ d = dielist[parsing] /\ parsing # 0
          /\ dieOffset = s + 1 + Len(d) /\ parsing \notin linked /\ Len(d) <= n /\ Len(d) \in Nat
    BY <1>2, <1>3, <2>1 DEF EntriesRead
  <2>3. Len(d) = n /\ Len(d) # 0 /\ 2 \in 2 .. n + 1
    <3>1. PICK l \in Nat : l = Len(d) /\ l <= n
      BY <2>2
    <3>2. s + 1 + l >= s + n + 1
      BY <2>1, <2>2, <3>1 DEF Boundary
    <3>3. l = n
      BY <3>1, <3>2
    <3>4. l # 0
      BY <2>1, <2>2, <3>1
    <3>5. QED
      BY <3>1, <3>3, <3>4
  <2>4. QED
    BY <1>1, <2>1, <2>2, <2>3 DEF EntriesRead, DIEsComplete
<1>10. CASE LinkDIE \/ LinkNull
  <2>1. /\ parsing \in DOMAIN units /\ linkAt \in 2 .. Len(dielist[parsing]) /\ linkAt' = linkAt + 1
        /\ UNCHANGED << parsing, dielist, dieOffset, failed, linked, returned >>
    BY <1>10 DEF LinkDIE, LinkNull, Linking, CallsOK
  <2>2. linkAt + 1 \in 2 .. UnitLength(parsing) + 1 /\ linkAt + 1 # 0 /\ linkAt # 0
    BY <1>2, <1>3, <2>1 DEF EntriesRead
  <2>3. QED
    BY <1>1, <2>1, <2>2 DEF EntriesRead, DIEsComplete
<1>11. CASE EndTree
  <2>1. /\ parsing \in DOMAIN units /\ linkAt > Len(dielist[parsing]) /\ parsing' = 0 /\ linked' = linked \cup {parsing}
        /\ returned' = [returned EXCEPT ![parsing] = Len(dielist[parsing])]
        /\ UNCHANGED << dielist, failed >>
    BY <1>11 DEF EndTree, CallsOK
  <2>2. linkAt # 0 /\ parsing # 0
    BY <1>2, <1>3, <2>1
  <2>3. Len(dielist[parsing]) = UnitLength(parsing) /\ Len(dielist[parsing]) # 0
    BY <1>3, <2>1, <2>2 DEF EntriesRead
  <2>4. dielist[parsing] # << >>
    BY <2>3
  <2>5. \A k \in DOMAIN units \ failed : returned'[k] \in {0, UnitLength(k)}
    BY <2>1, <2>3 DEF EntriesRead, DIEsComplete, CallsOK
  <2>6. QED
    BY <1>1, <2>1, <2>3, <2>4, <2>5 DEF EntriesRead, DIEsComplete
<1>12. QED
  BY <1>4, <1>5, <1>6, <1>7, <1>8, <1>9, <1>10, <1>11 DEF InfoNext

\* What the trees of unit k need of the values of the variables.
TreeOfUnit(k, n, list, p, at, ps, done, P, C) ==
  /\ list = << >> \/ (k = p /\ at = 0) => TreeTo(k, n, P, C, 2)
  /\ k = p /\ at # 0 => TreeTo(k, n, P, C, at) /\ StackOf(k, at, ps)
  /\ k \in done => TreeTo(k, n, P, C, n + 1)

\* The trees: the entry that is linked goes where the stack says.
LEMMA TreesStay ==
  ASSUME InfoRead, UnitsGiven, CallsOK, EntriesRead, TreesGrow, [InfoNext]_infoVars PROVE TreesGrow'
<1>1. units' = units
  BY SectionStays
<1>2. TreesGrow <=>
        /\ DOMAIN parent = DOMAIN units /\ DOMAIN children = DOMAIN units
        /\ \A k \in DOMAIN units :
             TreeOfUnit(k, UnitLength(k), dielist[k], parsing, linkAt, parentstack, linked, parent[k], children[k])
  BY DEF TreesGrow, TreeOfUnit, HasTree
<1>3. TreesGrow' <=>
        /\ DOMAIN parent' = DOMAIN units /\ DOMAIN children' = DOMAIN units
        /\ \A k \in DOMAIN units :
             TreeOfUnit(k, UnitLength(k), dielist'[k], parsing', linkAt', parentstack', linked', parent'[k], children'[k])
  BY <1>1, SectionStays, StaysSaid DEF TreesGrow, TreeOfUnit, HasTree
<1>4. /\ DOMAIN parent = DOMAIN units /\ DOMAIN children = DOMAIN units
      /\ \A k \in DOMAIN units :
           TreeOfUnit(k, UnitLength(k), dielist[k], parsing, linkAt, parentstack, linked, parent[k], children[k])
  BY <1>2
<1>5. 0 \notin DOMAIN units /\ \A k \in DOMAIN units : /\ UnitLength(k) \in Nat /\ dielist[k] \in Seq(Int)
                                                       /\ dielist[k] # << >> <=> Len(dielist[k]) # 0
  BY StartFacts DEF CallsOK
<1>6. CASE UNCHANGED << parsing, linkAt, parentstack, linked, dielist, parent, children >>
  BY <1>3, <1>4, <1>6
<1>7. CASE (\E k \in DOMAIN units : ParseDIEs(k)) /\ UNCHANGED << parentstack, linked, dielist, parent, children >>
  <2>1. PICK u \in DOMAIN units : dielist[u] = << >> /\ parsing' = u /\ linkAt' = 0
    BY <1>7 DEF ParseDIEs
  <2>2. ASSUME NEW k \in DOMAIN units
        PROVE  TreeOfUnit(k, UnitLength(k), dielist'[k], parsing', linkAt', parentstack', linked', parent'[k], children'[k])
    <3>1. TreeOfUnit(k, UnitLength(k), dielist[k], parsing, linkAt, parentstack, linked, parent[k], children[k])
      BY <1>4
    <3>2. QED
      BY <1>7, <2>1, <3>1 DEF TreeOfUnit
  <2>3. QED
    BY <1>3, <1>4, <1>7, <2>2
<1>8. CASE ReadDIE
  <2>1. /\ parsing \in DOMAIN units /\ linkAt = 0
        /\ dielist' = [dielist EXCEPT ![parsing] = Append(@, ReadIndex)]
        /\ UNCHANGED << parsing, linkAt, parentstack, linked, parent, children >>
    BY <1>8 DEF ReadDIE, Reading, CallsOK, treeVars
  <2>2. ASSUME NEW k \in DOMAIN units
        PROVE  TreeOfUnit(k, UnitLength(k), dielist'[k], parsing', linkAt', parentstack', linked', parent'[k], children'[k])
    <3>1. TreeOfUnit(k, UnitLength(k), dielist[k], parsing, linkAt, parentstack, linked, parent[k], children[k])
      BY <1>4
    <3>2. k # parsing => dielist'[k] = dielist[k]
      BY <2>1
    <3>3. QED
      BY <2>1, <3>1, <3>2 DEF TreeOfUnit
  <2>3. QED
    BY <1>3, <1>4, <2>1, <2>2
<1>9. CASE parsing' = 0 /\ UNCHANGED << linkAt, parentstack, linked, dielist, parent, children >>
  <2>1. ASSUME NEW k \in DOMAIN units
        PROVE  TreeOfUnit(k, UnitLength(k), dielist'[k], parsing', linkAt', parentstack', linked', parent'[k], children'[k])
    <3>1. TreeOfUnit(k, UnitLength(k), dielist[k], parsing, linkAt, parentstack, linked, parent[k], children[k])
      BY <1>4
    <3>2. QED
      BY <1>5, <1>9, <3>1 DEF TreeOfUnit
  <2>2. QED
    BY <1>3, <1>4, <1>9, <2>1
<1>10. CASE BeginTree
  <2>1. /\ parsing \in DOMAIN units /\ linkAt = 0 /\ dielist[parsing] # << >> /\ linkAt' = 2 /\ parentstack' = << 1 >>
        /\ UNCHANGED << parsing, linked, dielist, parent, children >>
    BY <1>10 DEF BeginTree, CallsOK
  <2>2. StackOf(parsing, 2, << 1 >>)
    <3>1. Holds(parsing, 2, 1, 0)
      <4>1. Opens(parsing, 1) /\ Depth(parsing, 1, 1) = 0
        BY DepthNext DEF Opens
      <4>2. \A x \in 1 .. 1 : x = 1
        OBVIOUS
      <4>3. QED
        BY <4>1, <4>2 DEF Holds
    <3>2. PICK ps : ps \in Seq(Nat) /\ ps = << 1 >> /\ Len(ps) = 1 /\ ps[1] = 1
      <4>1. << 1 >> \in Seq(Nat) /\ Len(<< 1 >>) = 1 /\ << 1 >>[1] = 1
        OBVIOUS
      <4>2. QED
        BY <4>1, Zenon
    <3>3. \A q \in 1 .. 1 : Holds(parsing, 2, ps[q], 1 - q)
      BY <3>1, <3>2
    <3>4. StackOf(parsing, 2, ps)
      BY <3>2, <3>3, StackHolds
    <3>5. QED
      BY <3>2, <3>4
  <2>3. ASSUME NEW k \in DOMAIN units
        PROVE  TreeOfUnit(k, UnitLength(k), dielist'[k], parsing', linkAt', parentstack', linked', parent'[k], children'[k])
    <3>1. TreeOfUnit(k, UnitLength(k), dielist[k], parsing, linkAt, parentstack, linked, parent[k], children[k])
      BY <1>4
    <3>2. QED
      BY <2>1, <2>2, <3>1 DEF TreeOfUnit
  <2>4. QED
    BY <1>3, <1>4, <2>1, <2>3
<1>11. ASSUME Linking
       PROVE  /\ parsing \in DOMAIN units /\ parsing \notin linked /\ dielist[parsing] # << >>
              /\ linkAt \in 2 .. UnitLength(parsing) /\ linkAt \in Nat /\ linkAt # 0
              /\ TreeTo(parsing, UnitLength(parsing), parent[parsing], children[parsing], linkAt)
              /\ StackOf(parsing, linkAt, parentstack)
  <2>1. parsing \in DOMAIN units /\ linkAt \in 2 .. Len(dielist[parsing]) /\ parsing # 0
    BY <1>11 DEF Linking, CallsOK
  <2>2. linkAt # 0 /\ linkAt \in Nat
    BY <2>1
  <2>3. Len(dielist[parsing]) = UnitLength(parsing) /\ parsing \notin linked
    BY <2>1, <2>2 DEF EntriesRead
  <2>4. UnitLength(parsing) \in Nat /\ dielist[parsing] # << >>
    BY <1>5, <2>1, <2>3
  <2>5. QED
    BY <1>4, <2>1, <2>2, <2>3, <2>4 DEF TreeOfUnit
<1>12. CASE LinkDIE
  <2>1. /\ Linking /\ ~IsNull(parsing, linkAt) /\ parentstack # << >>
        /\ parent' = [parent EXCEPT ![parsing][linkAt] = Last(parentstack)]
        /\ children' = [children EXCEPT ![parsing][Last(parentstack)] = Append(@, linkAt)]
        /\ parentstack' = IF Pushes(parsing, linkAt) THEN Append(parentstack, linkAt) ELSE parentstack
        /\ linkAt' = linkAt + 1 /\ UNCHANGED << parsing, linked, dielist >>
    BY <1>12 DEF LinkDIE
  <2>2. PICK m \in Nat, n \in Nat, t \in 1 .. linkAt - 1 :
          m = linkAt /\ t = Last(parentstack) /\ n = UnitLength(parsing) /\ m >= 2 /\ NestingParent(parsing, m) = t
    <3>1. linkAt \in Nat /\ linkAt >= 2 /\ UnitLength(parsing) \in Nat
      BY <1>5, <1>11, <2>1
    <3>2. Last(parentstack) \in 1 .. linkAt - 1 /\ NestingParent(parsing, linkAt) = Last(parentstack)
      BY <1>11, <2>1, <3>1, StackTop
    <3>3. QED
      BY <3>1, <3>2
  <2>3. t \in 1 .. m - 1 /\ NestingParent(parsing, m) = t
    BY <2>2
  <2>4. PICK P, C : P = parent[parsing] /\ C = children[parsing]
    OBVIOUS
  <2>5. PICK P2, C2 : P2 = [P EXCEPT ![m] = t] /\ C2 = [C EXCEPT ![t] = Append(@, m)]
    OBVIOUS
  <2>6. TreeTo(parsing, n, P2, C2, m + 1)
    BY <1>11, <2>1, <2>2, <2>3, <2>4, <2>5, TreeGrows
  <2>7. StackOf(parsing, m + 1, parentstack')
    <3>1. Opens(parsing, m) <=> Pushes(parsing, m)
      BY <2>1, <2>2 DEF Opens, Pushes
    <3>2. QED
      BY <1>11, <2>1, <2>2, <3>1, StackNext
  <2>8. /\ DOMAIN parent' = DOMAIN units /\ DOMAIN children' = DOMAIN units
        /\ parent'[parsing] = P2 /\ children'[parsing] = C2
        /\ \A k \in DOMAIN units : k # parsing => parent'[k] = parent[k] /\ children'[k] = children[k]
    BY <1>4, <1>11, <2>1, <2>2, <2>4, <2>5
  <2>9. ASSUME NEW k \in DOMAIN units
        PROVE  TreeOfUnit(k, UnitLength(k), dielist'[k], parsing', linkAt', parentstack', linked', parent'[k], children'[k])
    <3>1. CASE k = parsing
      <4>1. linkAt' # 0 /\ linkAt' = m + 1
        BY <2>1, <2>2
      <4>2. QED
        BY <1>11, <2>1, <2>2, <2>6, <2>7, <2>8, <3>1, <4>1 DEF TreeOfUnit
    <3>2. CASE k # parsing
      <4>1. TreeOfUnit(k, UnitLength(k), dielist[k], parsing, linkAt, parentstack, linked, parent[k], children[k])
        BY <1>4
      <4>2. QED
        BY <2>1, <2>8, <3>2, <4>1 DEF TreeOfUnit
    <3>3. QED
      BY <3>1, <3>2
  <2>10. QED
    BY <1>3, <2>8, <2>9
<1>13. CASE LinkNull
  <2>1. /\ Linking /\ IsNull(parsing, linkAt) /\ parentstack # << >>
        /\ parentstack' = Front(parentstack) /\ linkAt' = linkAt + 1
        /\ UNCHANGED << parsing, linked, dielist, parent, children >>
    BY <1>13 DEF LinkNull
  <2>2. PICK m \in Nat, n \in Nat : m = linkAt /\ n = UnitLength(parsing) /\ m >= 2
    BY <1>5, <1>11, <2>1
  <2>3. PICK P, C : P = parent[parsing] /\ C = children[parsing]
    OBVIOUS
  <2>4. TreeTo(parsing, n, P, C, m + 1)
    BY <1>11, <2>1, <2>2, <2>3, TreeKeeps
  <2>5. StackOf(parsing, m + 1, parentstack')
    BY <1>11, <2>1, <2>2, StackNext
  <2>6. ASSUME NEW k \in DOMAIN units
        PROVE  TreeOfUnit(k, UnitLength(k), dielist'[k], parsing', linkAt', parentstack', linked', parent'[k], children'[k])
    <3>1. CASE k = parsing
      <4>1. linkAt' # 0 /\ linkAt' = m + 1
        BY <2>1, <2>2
      <4>2. QED
        BY <1>11, <2>1, <2>2, <2>3, <2>4, <2>5, <3>1, <4>1 DEF TreeOfUnit
    <3>2. CASE k # parsing
      <4>1. TreeOfUnit(k, UnitLength(k), dielist[k], parsing, linkAt, parentstack, linked, parent[k], children[k])
        BY <1>4
      <4>2. QED
        BY <2>1, <3>2, <4>1 DEF TreeOfUnit
    <3>3. QED
      BY <3>1, <3>2
  <2>7. QED
    BY <1>3, <1>4, <2>1, <2>6
<1>14. CASE EndTree
  <2>1. /\ parsing \in DOMAIN units /\ parsing # 0 /\ linkAt > Len(dielist[parsing]) /\ parsing' = 0
        /\ linked' = linked \cup {parsing} /\ UNCHANGED << dielist, linkAt, parentstack, parent, children >>
    BY <1>14 DEF EndTree, CallsOK, treeVars
  <2>2. linkAt # 0
    <3>1. Len(dielist[parsing]) \in Nat
      BY <1>5, <2>1
    <3>2. QED
      BY <2>1, <3>1
  <2>3. linkAt = UnitLength(parsing) + 1
    <3>1. linkAt \in 2 .. UnitLength(parsing) + 1 /\ Len(dielist[parsing]) = UnitLength(parsing) /\ UnitLength(parsing) \in Nat
      BY <1>5, <2>1, <2>2 DEF EntriesRead
    <3>2. QED
      BY <2>1, <3>1
  <2>4. TreeTo(parsing, UnitLength(parsing), parent[parsing], children[parsing], UnitLength(parsing) + 1)
    BY <1>4, <2>1, <2>2, <2>3 DEF TreeOfUnit
  <2>5. ASSUME NEW k \in DOMAIN units
        PROVE  TreeOfUnit(k, UnitLength(k), dielist'[k], parsing', linkAt', parentstack', linked', parent'[k], children'[k])
    <3>1. TreeOfUnit(k, UnitLength(k), dielist[k], parsing, linkAt, parentstack, linked, parent[k], children[k])
      BY <1>4
    <3>2. k # parsing'
      BY <1>5, <2>1
    <3>3. QED
      BY <2>1, <2>4, <3>1, <3>2 DEF TreeOfUnit
  <2>6. QED
    BY <1>3, <1>4, <2>1, <2>5
<1>15. ASSUME NEW k \in DOMAIN units, AlreadyParsed(k) \/ BeginDIEs(k) \/ AskLineProgram(k) PROVE TreesGrow'
  <2>1. \/ UNCHANGED << parsing, linkAt, parentstack, linked, dielist, parent, children >>
        \/ ParseDIEs(k) /\ UNCHANGED << parentstack, linked, dielist, parent, children >>
    BY <1>15 DEF AlreadyParsed, BeginDIEs, AskLineProgram, treeVars
  <2>2. QED
    BY <1>6, <1>7, <2>1
<1>16. CASE NextCU \/ StopIteration \/ GiveLineProgram \/ UNCHANGED infoVars
  <2>1. UNCHANGED << parsing, linkAt, parentstack, linked, dielist, parent, children >>
    BY <1>16 DEF NextCU, StopIteration, GiveLineProgram, infoVars, cuVars, treeVars, askVars
  <2>2. QED
    BY <1>6, <2>1
<1>17. CASE ReadDIERaises \/ EmptyUnitRaises \/ LinkRaises
  <2>1. parsing' = 0 /\ UNCHANGED << linkAt, parentstack, linked, dielist, parent, children >>
    BY <1>17 DEF ReadDIERaises, EmptyUnitRaises, LinkRaises, Raise, treeVars
  <2>2. QED
    BY <1>9, <2>1
<1>18. QED
  BY <1>8, <1>10, <1>12, <1>13, <1>14, <1>15, <1>16, <1>17 DEF InfoNext

-----------------------------------------------------------------------------
\* Every step preserves the invariant, part by part.
LEMMA InfoStepInv == ASSUME InfoInv, [InfoNext]_infoVars PROVE InfoInv'
<1>1. InfoRead /\ UnitsGiven /\ CallsOK /\ EntriesRead /\ TreesGrow /\ LinesFound
  BY DEF InfoInv
<1>2. InfoRead'
  BY <1>1, SectionStays, StaysSaid
<1>3. QED
  BY <1>1, <1>2, UnitsStayGiven, CallsStayOK, EntriesStayRead, TreesStay, LinesStayFound DEF InfoInv

\* A tree that is linked to its end is the one of the nesting.
LEMMA InfoInvTrees == ASSUME InfoInv PROVE TreeIsNesting
<1>1. SUFFICES ASSUME NEW k \in linked, NEW n \in Nat, n = UnitLength(k),
                      NEW P, P = parent[k], NEW C, C = children[k],
                      TreeTo(k, n, P, C, n + 1), NEW i \in 1 .. n
               PROVE  /\ P[i] = IF i = 1 \/ IsNull(k, i) THEN 0 ELSE NestingParent(k, i)
                      /\ LET mine == {j \in 1 .. n : P[j] = i}
                         IN ToSet(C[i]) = mine /\ Len(C[i]) = Cardinality(mine)
                      /\ \A a, b \in DOMAIN C[i] : a < b => C[i][a] < C[i][b]
                      /\ \A j \in iter_siblings(k, i) : i \in iter_siblings(k, j)
  <2>1. \A k \in linked : k \in DOMAIN units /\ UnitLength(k) \in Nat
                          /\ TreeTo(k, UnitLength(k), parent[k], children[k], UnitLength(k) + 1)
    BY StartFacts DEF InfoInv, CallsOK, TreesGrow, HasTree
  <2>2. QED
    BY <2>1 DEF TreeIsNesting
<1>2. /\ P[i] = IF i = 1 \/ IsNull(k, i) \/ i >= n + 1 THEN 0 ELSE NestingParent(k, i)
      /\ ToSet(C[i]) = ChildrenOf(P, n, i) /\ Ascends(C[i]) /\ C[i] \in Seq(1 .. n) /\ P[i] \in 0 .. n
  BY <1>1 DEF TreeTo
<1>3. P[i] = IF i = 1 \/ IsNull(k, i) THEN 0 ELSE NestingParent(k, i)
  <2>1. ~(i >= n + 1)
    OBVIOUS
  <2>2. QED
    BY <1>2, <2>1
<1>4. ToSet(C[i]) = {j \in 1 .. n : P[j] = i} /\ Len(C[i]) = Cardinality({j \in 1 .. n : P[j] = i})
  <2>1. ChildrenOf(P, n, i) = {j \in 1 .. n : P[j] = i}
    BY DEF ChildrenOf
  <2>2. PICK c \in Seq(1 .. n) : c = C[i]
    BY <1>2
  <2>3. \A a, b \in DOMAIN c : a < b => c[a] < c[b]
    BY <1>2, <2>2 DEF Ascends
  <2>4. Len(c) = Cardinality(ToSet(c))
    BY <2>2, <2>3, AscendingCounts
  <2>5. QED
    BY <1>2, <2>1, <2>2, <2>4
<1>5. \A a, b \in DOMAIN C[i] : a < b => C[i][a] < C[i][b]
  BY <1>2 DEF Ascends
<1>6. ASSUME NEW j \in iter_siblings(k, i) PROVE i \in iter_siblings(k, j)
  <2>1. P[i] # 0 /\ j \in ToSet(C[P[i]]) /\ j # i
    BY <1>1, <1>6 DEF iter_siblings, iter_children
  <2>2. P[i] \in 1 .. n
    BY <1>2, <2>1
  <2>3. ToSet(C[P[i]]) = ChildrenOf(P, n, P[i])
    BY <1>1, <2>2 DEF TreeTo
  <2>4. P[j] = P[i] /\ i \in ToSet(C[P[i]])
    BY <2>1, <2>3 DEF ChildrenOf
  <2>5. QED
    BY <1>1, <2>1, <2>4 DEF iter_siblings, iter_children
<1>7. QED
  BY <1>3, <1>4, <1>5, <1>6

\* iter_CUs() gives the units in order, each once, however the caller mixes it
\* with reading entries; the entries of a unit are complete, the tree is the
\* one that the null entries describe, and a line program is found between
\* the one before and the one behind it: for every section, every table of
\* abbreviations and every .debug_line.
THEOREM UnitsStayExact == InfoSpec => []UnitsExact
<1>1. InfoInit => InfoInv
  BY InfoInitInv
<1>2. InfoInv /\ [InfoNext]_infoVars => InfoInv'
  BY InfoStepInv
<1>3. InfoInv => UnitsExact
  BY InfoInvTrees DEF InfoInv, UnitsExact, UnitsGiven, EntriesRead, LinesFound
<1>4. QED
  BY <1>1, <1>2, <1>3, PTL DEF InfoSpec

-----------------------------------------------------------------------------
(***************************************************************************)
(* The sections of an ELF file: relocated copies, sections by name, debug   *)
(* sections, strings read by chunks, and sections inside segments.          *)
(***************************************************************************)

\* What is in two words is their value, and no other.
LEMMA TwoWords ==
  ASSUME NEW w \in Nat \ {0}, NEW a \in 0 .. w - 1, NEW b \in Nat, NEW v, v = a + w * b
  PROVE  v % w = a /\ v \div w = b
<1>1. v \in Nat
  <2>1. w * b \in Nat
    OBVIOUS
  <2>2. PICK c \in Nat : c = w * b
    BY <2>1
  <2>3. QED
    BY <2>2
<1>2. PICK q \in Nat, r \in 0 .. w - 1 : q = v \div w /\ r = v % w /\ v = (w * q) + r
  <2>1. v \div w \in Nat /\ v % w \in 0 .. w - 1 /\ v = (w * (v \div w)) + (v % w)
    BY <1>1
  <2>2. QED
    BY <2>1
<1>3. ASSUME NEW x \in Nat, NEW y \in Nat, x < y PROVE w * x + w <= w * y
  <2>1. PICK d \in Nat : y = x + 1 + d
    <3>1. y - x - 1 \in Nat /\ y = x + 1 + (y - x - 1)
      BY <1>3
    <3>2. QED
      BY <3>1
  <2>2. w * y = w * x + w + w * d /\ w * x \in Nat /\ w * d \in Nat
    BY <2>1
  <2>3. QED
    BY <2>2
<1>4. w * b \in Nat /\ w * q \in Nat
  OBVIOUS
<1>5. ~(b < q)
  <2>1. SUFFICES ASSUME b < q PROVE FALSE
    OBVIOUS
  <2>2. w * b + w <= w * q
    BY <1>3, <2>1
  <2>3. QED
    BY <1>2, <1>4, <2>2
<1>6. ~(q < b)
  <2>1. SUFFICES ASSUME q < b PROVE FALSE
    OBVIOUS
  <2>2. w * q + w <= w * b
    BY <1>3, <2>1
  <2>3. QED
    BY <1>2, <1>4, <2>2
<1>7. q = b
  BY <1>5, <1>6
<1>8. r = a
  BY <1>2, <1>4, <1>7
<1>9. QED
  BY <1>2, <1>7, <1>8

\* A value that fits into two words has its parts in them.
LEMMA PartsFit ==
  ASSUME NEW w \in Nat \ {0}, NEW v \in Nat, NEW n \in {1, 2}, v < (IF n = 1 THEN w ELSE w * w)
  PROVE  /\ v % w \in 0 .. w - 1 /\ (n = 1 => v % w = v)
         /\ n = 2 => v \div w \in 0 .. w - 1
<1>1. v % w \in 0 .. w - 1 /\ v \div w \in Nat /\ v = (w * (v \div w)) + (v % w)
  OBVIOUS
<1>2. n = 1 => v % w = v
  OBVIOUS
<1>3. ASSUME n = 2 PROVE v \div w < w
  <2>1. PICK q \in Nat : q = v \div w
    BY <1>1
  <2>2. w * q \in Nat /\ w * q <= v /\ v < w * w /\ w * w \in Nat
    BY <1>1, <1>3, <2>1
  <2>3. ~(w <= q)
    <3>1. SUFFICES ASSUME w <= q PROVE FALSE
      OBVIOUS
    <3>2. PICK d \in Nat : q = w + d
      <4>1. q - w \in Nat /\ q = w + (q - w)
        BY <3>1
      <4>2. QED
        BY <4>1
    <3>3. w * q = w * w + w * d /\ w * d \in Nat
      BY <3>2
    <3>4. QED
      BY <2>2, <3>3
  <2>4. QED
    BY <2>1, <2>3
<1>4. QED
  BY <1>1, <1>2, <1>3

\* The words of the section.
Digits == 0 .. WordMod - 1

\* The relocations up to the k-th that change word o.
AimedTo(k, o) == {i \in 1 .. k : elf.relocs[i].type # "none" /\ o \in Place(elf.relocs[i])}

\* What each adds, if its symbol is there.
Weights == [i \in DOMAIN elf.relocs |-> IF elf.relocs[i].sym \in DOMAIN elf.symbols THEN Shift[i] ELSE 0]

\* Word o, when the first k relocations are done.
WordThen(k, o) ==
  IF AimedTo(k, o) = {} THEN elf.data[o]
  ELSE IF elf.arch = "x64" THEN WordOf(elf.relocs[Max(AimedTo(k, o))], o)
  ELSE elf.data[o] + Total(elf.relocs, Weights, AimedTo(k, o))

\* The inductive invariant of the relocations: the copy is what those before
\* the next one make of it.
RelocInv ==
  /\ elf \in ElfFiles
  /\ elfPc \in {"relocating", "relocated"} =>
       /\ copy \in Seq(Digits) /\ Len(copy) = Len(elf.data)
       /\ reloc \in 1 .. Len(elf.relocs) + 1
       /\ elfPc = "relocated" => reloc = Len(elf.relocs) + 1
       /\ \A i \in 1 .. reloc - 1 : elf.relocs[i].sym \in DOMAIN elf.symbols
       /\ \A o \in DOMAIN copy : copy[o] = WordThen(reloc - 1, o)

\* A file, and a relocation of it.
LEMMA FileIs ==
  ASSUME elf \in ElfFiles
  PROVE  /\ elf.data \in Seq(Digits) /\ elf.relocs \in Seq(Relocations) /\ WordMod \in Nat \ {0}
         /\ Len(elf.relocs) \in Nat /\ DOMAIN elf.relocs = 1 .. Len(elf.relocs)
         /\ \A i \in 1 .. Len(elf.relocs) :
              /\ elf.relocs[i].offset \in Nat \ {0} /\ elf.relocs[i].addend \in Int
              /\ elf.relocs[i].sym \in DOMAIN elf.symbols => Sym(elf.relocs[i]) \in Nat
<1>1. /\ elf.data \in Seq(Digits) /\ elf.relocs \in Seq(Relocations) /\ WordMod \in Nat \ {0} /\ elf.symbols \in Seq(Nat)
  BY ElfFileAssumption DEF Digits
<1>2. Len(elf.relocs) \in Nat /\ DOMAIN elf.relocs = 1 .. Len(elf.relocs)
  BY <1>1
<1>3. \A i \in 1 .. Len(elf.relocs) : elf.relocs[i] \in Relocations
  BY <1>1, <1>2
<1>4. \A i \in 1 .. Len(elf.relocs) : elf.relocs[i].offset \in Nat \ {0} /\ elf.relocs[i].addend \in Int
  BY <1>3 DEF Relocations
<1>5. \A x \in DOMAIN elf.symbols : elf.symbols[x] \in Nat
  BY <1>1
<1>6. QED
  BY <1>1, <1>2, <1>4, <1>5 DEF Sym

\* What a relocation adds is a number.
LEMMA WeightsAre ==
  ASSUME elf \in ElfFiles
  PROVE  /\ AreSteps(elf.relocs, Weights)
         /\ \A i \in DOMAIN elf.relocs : elf.relocs[i].sym \in DOMAIN elf.symbols =>
              Weights[i] = Sym(elf.relocs[i]) - (IF elf.relocs[i].type = "pc32" THEN elf.relocs[i].offset ELSE 0)
<1>1. /\ Len(elf.relocs) \in Nat /\ DOMAIN elf.relocs = 1 .. Len(elf.relocs)
      /\ \A i \in 1 .. Len(elf.relocs) :
              /\ elf.relocs[i].offset \in Nat \ {0}
              /\ elf.relocs[i].sym \in DOMAIN elf.symbols => Sym(elf.relocs[i]) \in Nat
  BY FileIs
<1>2. ASSUME NEW i \in DOMAIN elf.relocs, elf.relocs[i].sym \in DOMAIN elf.symbols
      PROVE  Weights[i] = Sym(elf.relocs[i]) - (IF elf.relocs[i].type = "pc32" THEN elf.relocs[i].offset ELSE 0)
  BY <1>2 DEF Weights, Shift
<1>3. ASSUME NEW i \in DOMAIN elf.relocs PROVE Weights[i] \in Int
  <2>1. CASE elf.relocs[i].sym \in DOMAIN elf.symbols
    <3>1. PICK s \in Nat, a \in Nat : s = Sym(elf.relocs[i]) /\ a = elf.relocs[i].offset
      BY <1>1, <1>3, <2>1
    <3>2. Weights[i] = s - (IF elf.relocs[i].type = "pc32" THEN a ELSE 0)
      BY <1>2, <2>1, <3>1
    <3>3. QED
      BY <3>1, <3>2
  <2>2. CASE elf.relocs[i].sym \notin DOMAIN elf.symbols
    BY <2>2 DEF Weights
  <2>3. QED
    BY <2>1, <2>2
<1>4. QED
  BY <1>1, <1>2, <1>3 DEF AreSteps

\* A relocation covers one word or two.
LEMMA PlaceIs ==
  ASSUME NEW r, r.offset \in Nat \ {0}
  PROVE  /\ Words(r) = 1 \/ Words(r) = 2
         /\ Words(r) = 1 => Place(r) = {r.offset}
         /\ Words(r) = 2 => Place(r) = {r.offset, r.offset + 1}
<1>1. Words(r) = 1 \/ Words(r) = 2
  BY DEF Words
<1>2. ASSUME Words(r) = 1 PROVE Place(r) = {r.offset}
  BY <1>2 DEF Place
<1>3. ASSUME Words(r) = 2 PROVE Place(r) = {r.offset, r.offset + 1}
  BY <1>3 DEF Place
<1>4. QED
  BY <1>1, <1>2, <1>3

\* What storing v at the place of r makes of d.
Stored(d, r, v, e) ==
  /\ e \in Seq(Digits) /\ Len(e) = Len(d) /\ DOMAIN e = DOMAIN d
  /\ \A o \in DOMAIN d : o \notin Place(r) => e[o] = d[o]
  /\ e[r.offset] = v % WordMod
  /\ Words(r) = 1 => e[r.offset] = v
  /\ Words(r) = 2 => e[r.offset + 1] = v \div WordMod

\* Storing a value that fits.
LEMMA StoreHolds ==
  ASSUME NEW r, r.offset \in Nat \ {0}, NEW d \in Seq(Digits), Place(r) \subseteq DOMAIN d,
         WordMod \in Nat \ {0}, NEW v \in Int, Fits(v, Words(r)),
         NEW e, e = Store(d, r.offset, Words(r), v)
  PROVE  Stored(d, r, v, e)
<1>1. v \in Nat /\ Words(r) \in {1, 2} /\ v < (IF Words(r) = 1 THEN WordMod ELSE WordMod * WordMod)
  BY PlaceIs DEF Fits
<1>2. /\ v % WordMod \in Digits /\ (Words(r) = 1 => v % WordMod = v)
      /\ Words(r) = 2 => v \div WordMod \in Digits
  BY <1>1, PartsFit DEF Digits
<1>3. PICK p, q : p = v % WordMod /\ q = v \div WordMod
  OBVIOUS
<1>4. e = [i \in DOMAIN d |-> IF i = r.offset THEN p ELSE IF Words(r) = 2 /\ i = r.offset + 1 THEN q ELSE d[i]]
  BY <1>3 DEF Store
<1>5. DOMAIN d = 1 .. Len(d) /\ Len(d) \in Nat /\ \A o \in DOMAIN d : d[o] \in Digits
  OBVIOUS
<1>6. DOMAIN e = DOMAIN d /\ \A o \in DOMAIN d : e[o] \in Digits
  BY <1>2, <1>3, <1>4, <1>5
<1>7. e \in [1 .. Len(d) -> Digits]
  BY <1>4, <1>5, <1>6
<1>8. e \in Seq(Digits) /\ Len(e) = Len(d)
  BY <1>5, <1>7
<1>9. ASSUME NEW o \in DOMAIN d, o \notin Place(r) PROVE e[o] = d[o]
  BY <1>4, <1>9, PlaceIs
<1>10. r.offset \in DOMAIN d /\ r.offset + 1 # r.offset /\ (Words(r) = 2 => r.offset + 1 \in DOMAIN d)
  BY PlaceIs
<1>11. e[r.offset] = p /\ (Words(r) = 2 => e[r.offset + 1] = q)
  BY <1>4, <1>10
<1>12. QED
  BY <1>2, <1>3, <1>6, <1>8, <1>9, <1>11 DEF Stored

\* What a recipe computes is a number, and fits, and there is room for it.
LEMMA CalcFits ==
  ASSUME elf \in ElfFiles, NEW n \in DOMAIN elf.relocs, NEW r, r = elf.relocs[n], Applies(r),
         copy \in Seq(Digits), NEW v, v = Calc(r, ValueAt(copy, r.offset, Words(r)), Sym(r))
  PROVE  /\ r.offset \in Nat \ {0} /\ r.addend \in Int /\ Sym(r) \in Nat /\ r.sym \in DOMAIN elf.symbols
         /\ Place(r) \subseteq DOMAIN copy /\ v \in Int /\ Fits(v, Words(r)) /\ HasRecipe(r)
<1>1. /\ r.offset \in Nat \ {0} /\ r.addend \in Int /\ Sym(r) \in Nat /\ WordMod \in Nat \ {0}
      /\ InBounds(r) /\ Fits(v, Words(r)) /\ HasRecipe(r) /\ r.sym \in DOMAIN elf.symbols
  BY FileIs DEF Applies
<1>2. Place(r) \subseteq DOMAIN copy
  <2>1. DOMAIN copy = 1 .. Len(copy) /\ Len(copy) \in Nat
    OBVIOUS
  <2>2. PICK a \in Nat, w \in {1, 2} : a = r.offset /\ w = Words(r) /\ a >= 1 /\ a + w - 1 <= Len(copy)
    BY <1>1, PlaceIs DEF InBounds
  <2>3. Place(r) = a .. a + w - 1
    BY <2>2 DEF Place
  <2>4. QED
    BY <2>1, <2>2, <2>3
<1>3. \A o \in Place(r) : copy[o] \in Int
  BY <1>1, <1>2 DEF Digits
<1>4. PICK x : x = ValueAt(copy, r.offset, Words(r))
  OBVIOUS
<1>5. x \in Int
  <2>1. CASE Words(r) = 1
    BY <1>1, <1>3, <1>4, <2>1, PlaceIs DEF ValueAt
  <2>2. CASE Words(r) = 2
    <3>1. PICK a \in Int, b \in Int : a = copy[r.offset] /\ b = copy[r.offset + 1]
      BY <1>1, <1>3, <2>2, PlaceIs
    <3>2. x = a + WordMod * b
      BY <1>4, <2>2, <3>1 DEF ValueAt
    <3>3. WordMod * b \in Int
      BY <1>1
    <3>4. QED
      BY <3>2, <3>3
  <2>3. QED
    BY <1>1, <2>1, <2>2, PlaceIs
<1>6. PICK s \in Nat, o \in Nat, a \in Int : s = Sym(r) /\ o = r.offset /\ a = r.addend
  BY <1>1
<1>7. s + x - o \in Int /\ s + x \in Int /\ s + a \in Int
  BY <1>5
<1>8. v \in Int
  BY <1>4, <1>5, <1>6, <1>7 DEF Calc
<1>9. QED
  BY <1>1, <1>2, <1>8

\* Which relocations change a word, when there is one more.
LEMMA OneMoreAimed ==
  ASSUME NEW n \in Nat \ {0}, NEW o, NEW r, r = elf.relocs[n]
  PROVE  /\ r.type = "none" \/ o \notin Place(r) => AimedTo(n, o) = AimedTo(n - 1, o)
         /\ r.type # "none" /\ o \in Place(r) => Grown(AimedTo(n - 1, o), n, AimedTo(n, o))
<1>1. 1 .. n = (1 .. n - 1) \cup {n}
  OBVIOUS
<1>2. ASSUME r.type = "none" \/ o \notin Place(r) PROVE AimedTo(n, o) = AimedTo(n - 1, o)
  BY <1>1, <1>2 DEF AimedTo
<1>3. ASSUME r.type # "none", o \in Place(r) PROVE Grown(AimedTo(n - 1, o), n, AimedTo(n, o))
  BY <1>1, <1>3 DEF AimedTo, Grown
<1>4. QED
  BY <1>2, <1>3

\* The new one is the last.
LEMMA GrownMax == ASSUME NEW S, NEW n, NEW T, Grown(S, n, T) PROVE Max(T) = n /\ T # {}
<1>1. n \in Nat \ {0} /\ S \subseteq 1 .. n - 1 /\ T = S \cup {n}
  BY DEF Grown
<1>2. T \subseteq 1 .. n /\ n \in T /\ \A y \in T : n >= y
  BY <1>1
<1>3. \A m \in T : (\A y \in T : m >= y) => m = n
  <2>1. SUFFICES ASSUME NEW m \in T, \A y \in T : m >= y PROVE m = n
    OBVIOUS
  <2>2. m >= n /\ n >= m /\ m \in Nat
    BY <1>1, <1>2, <2>1
  <2>3. QED
    BY <1>1, <2>2
<1>4. PICK m : m = CHOOSE x \in T : \A y \in T : x >= y
  OBVIOUS
<1>5. m \in T /\ \A y \in T : m >= y
  BY <1>2, <1>4
<1>6. QED
  BY <1>2, <1>3, <1>4, <1>5 DEF Max

\* One relocation more: what word o holds then.
LEMMA OneMoreDone ==
  ASSUME RelocInv, elfPc = "relocating", NEW n \in DOMAIN elf.relocs, n = reloc,
         NEW r, r = elf.relocs[n], Applies(r), NEW v, v = Calc(r, ValueAt(copy, r.offset, Words(r)), Sym(r)),
         NEW e, e = Store(copy, r.offset, Words(r), v)
  PROVE  /\ e \in Seq(Digits) /\ Len(e) = Len(copy) /\ DOMAIN e = DOMAIN copy
         /\ \A o \in DOMAIN copy : e[o] = WordThen(n, o)
<1>1. /\ elf \in ElfFiles /\ copy \in Seq(Digits) /\ Len(copy) = Len(elf.data)
      /\ \A o \in DOMAIN copy : copy[o] = WordThen(n - 1, o)
  BY DEF RelocInv
<1>2. /\ DOMAIN elf.relocs = 1 .. Len(elf.relocs) /\ Len(elf.relocs) \in Nat /\ WordMod \in Nat \ {0}
      /\ elf.data \in Seq(Digits) /\ n \in Nat \ {0}
  BY <1>1, FileIs
<1>3. /\ r.offset \in Nat \ {0} /\ r.addend \in Int /\ Sym(r) \in Nat /\ r.sym \in DOMAIN elf.symbols
      /\ Place(r) \subseteq DOMAIN copy /\ v \in Int /\ Fits(v, Words(r)) /\ HasRecipe(r)
  BY <1>1, CalcFits
<1>4. /\ e \in Seq(Digits) /\ Len(e) = Len(copy) /\ DOMAIN e = DOMAIN copy
      /\ \A o \in DOMAIN copy : o \notin Place(r) => e[o] = copy[o]
      /\ e[r.offset] = v % WordMod
      /\ Words(r) = 1 => e[r.offset] = v
      /\ Words(r) = 2 => e[r.offset + 1] = v \div WordMod
  <2>1. copy \in Seq(Digits) /\ e = Store(copy, r.offset, Words(r), v)
    BY <1>1
  <2>2. r.offset \in Nat \ {0} /\ Place(r) \subseteq DOMAIN copy /\ v \in Int /\ Fits(v, Words(r))
    BY <1>3
  <2>3. WordMod \in Nat \ {0}
    BY <1>2
  <2>4. Stored(copy, r, v, e)
    BY ONLY <2>1, <2>2, <2>3, StoreHolds
  <2>5. QED
    BY <2>4 DEF Stored
<1>5. ASSUME NEW o \in DOMAIN copy, o \notin Place(r) PROVE e[o] = WordThen(n, o)
  <2>1. AimedTo(n, o) = AimedTo(n - 1, o)
    BY <1>2, <1>5, OneMoreAimed
  <2>2. WordThen(n, o) = WordThen(n - 1, o)
    BY <2>1 DEF WordThen
  <2>3. QED
    BY <1>1, <1>4, <1>5, <2>2
<1>6. ASSUME NEW o \in DOMAIN copy, o \in Place(r), r.type = "none" PROVE e[o] = WordThen(n, o)
  <2>1. AimedTo(n, o) = AimedTo(n - 1, o)
    BY <1>2, <1>6, OneMoreAimed
  <2>2. WordThen(n, o) = WordThen(n - 1, o)
    BY <2>1 DEF WordThen
  <2>3. v = ValueAt(copy, r.offset, Words(r))
    BY <1>6 DEF Calc
  <2>4. e[o] = copy[o]
    <3>1. CASE Words(r) = 1
      BY <1>3, <1>4, <1>6, <2>3, <3>1, PlaceIs DEF ValueAt
    <3>2. CASE Words(r) = 2
      <4>1. PICK a, b : a = copy[r.offset] /\ b = copy[r.offset + 1]
        OBVIOUS
      <4>2. r.offset \in DOMAIN copy /\ r.offset + 1 \in DOMAIN copy
        BY <1>3, <3>2, PlaceIs
      <4>3. a \in Digits /\ b \in Digits
        BY <1>1, <4>1, <4>2
      <4>4. a \in 0 .. WordMod - 1 /\ b \in Nat
        BY <1>2, <4>3 DEF Digits
      <4>5. v = a + WordMod * b
        BY <2>3, <3>2, <4>1 DEF ValueAt
      <4>6. v % WordMod = a /\ v \div WordMod = b
        BY ONLY <1>2, <4>4, <4>5, TwoWords, ZenonT(60)
      <4>7. QED
        BY <1>3, <1>4, <1>6, <3>2, <4>1, <4>6, PlaceIs, SMTT(30)
    <3>3. QED
      BY <1>3, <3>1, <3>2, PlaceIs
  <2>5. QED
    BY <1>1, <2>2, <2>4
<1>7. ASSUME NEW o \in DOMAIN copy, o \in Place(r), r.type # "none" PROVE e[o] = WordThen(n, o)
  <2>1. PICK S, T : S = AimedTo(n - 1, o) /\ T = AimedTo(n, o) /\ Grown(S, n, T)
    BY <1>2, <1>7, OneMoreAimed
  <2>2. T # {} /\ Max(T) = n
    BY <2>1, GrownMax
  <2>3. CASE elf.arch = "x64"
    <3>1. v = Sym(r) + r.addend
      BY <1>3, <1>7, <2>3 DEF Calc, HasRecipe
    <3>2. WordThen(n, o) = WordOf(r, o)
      BY <2>1, <2>2, <2>3 DEF WordThen
    <3>3. WordOf(r, o) = IF o = r.offset THEN v % WordMod ELSE v \div WordMod
      BY <3>1 DEF WordOf
    <3>4. e[o] = IF o = r.offset THEN v % WordMod ELSE v \div WordMod
      BY <1>3, <1>4, <1>7, PlaceIs
    <3>5. QED
      BY <3>2, <3>3, <3>4
  <2>4. CASE elf.arch # "x64"
    <3>1. elf.arch = "x86" /\ Words(r) = 1 /\ o = r.offset
      BY <1>3, <1>7, <2>4, PlaceIs DEF HasRecipe, Words
    <3>2. PICK x : x = copy[o] /\ e[o] = v /\ v = Calc(r, x, Sym(r))
      BY <1>4, <3>1 DEF ValueAt
    <3>3. PICK w : w = Weights[n]
      OBVIOUS
    <3>4. w = Sym(r) - (IF r.type = "pc32" THEN r.offset ELSE 0)
      BY <1>1, <1>3, <3>3, WeightsAre
    <3>5. x \in Int /\ elf.data[o] \in Int
      <4>1. x \in Digits /\ elf.data[o] \in Digits
        BY <1>1, <1>2, <3>2
      <4>2. QED
        BY <1>2, <4>1 DEF Digits
    <3>6. v = x + w
      <4>1. PICK s \in Nat, a \in Nat : s = Sym(r) /\ a = r.offset
        BY <1>3
      <4>2. v = IF r.type = "pc32" THEN s + x - a ELSE s + x
        BY <1>7, <3>1, <3>2, <4>1 DEF Calc
      <4>3. w = s - (IF r.type = "pc32" THEN a ELSE 0)
        BY <3>4, <4>1
      <4>4. QED
        BY <3>5, <4>2, <4>3
    <3>7. PICK p, q : p = Total(elf.relocs, Weights, S) /\ q = Total(elf.relocs, Weights, T)
      OBVIOUS
    <3>8. AreSteps(elf.relocs, Weights) /\ n \in 1 .. Len(elf.relocs)
      BY <1>1, <1>2, WeightsAre
    <3>9. p \in Int /\ q = p + w
      BY <2>1, <3>3, <3>7, <3>8, TotalAdds
    <3>10. x = elf.data[o] + p
      <4>1. CASE S = {}
        <5>1. p = 0
          BY <3>7, <3>8, <4>1, TotalNone DEF AreSteps
        <5>2. x = elf.data[o]
          BY <1>1, <2>1, <3>2, <4>1 DEF WordThen
        <5>3. QED
          BY <3>5, <5>1, <5>2
      <4>2. CASE S # {}
        BY <1>1, <2>1, <2>4, <3>2, <3>7, <4>2 DEF WordThen
      <4>3. QED
        BY <4>1, <4>2
    <3>11. WordThen(n, o) = elf.data[o] + q
      BY <2>1, <2>2, <2>4, <3>7 DEF WordThen
    <3>12. w \in Int
      BY <3>3, <3>8 DEF AreSteps
    <3>13. QED
      BY <3>2, <3>5, <3>6, <3>9, <3>10, <3>11, <3>12
  <2>5. QED
    BY <2>3, <2>4
<1>8. QED
  BY <1>4, <1>5, <1>6, <1>7

\* The relocations before a file's copy is relocated: a fresh copy.
LEMMA FreshHolds ==
  ASSUME RelocInv, ReadDwarfSection
  PROVE  RelocInv'
<1>1. /\ elf' = elf /\ copy' = elf.data /\ reloc' = 1 /\ elfPc' = "relocating" /\ elf \in ElfFiles
  BY DEF RelocInv, ReadDwarfSection, FreshCopy
<1>2. elf.data \in Seq(Digits) /\ Len(elf.relocs) \in Nat
  BY <1>1, FileIs
<1>3. 1 .. reloc' - 1 = {} /\ reloc' \in 1 .. Len(elf'.relocs) + 1
  BY <1>1, <1>2
<1>4. \A o : WordThen(reloc - 1, o)' = elf'.data[o]
  <2>1. \A o : AimedTo(reloc - 1, o)' = {}
    BY <1>3 DEF AimedTo
  <2>2. QED
    BY <2>1 DEF WordThen
<1>5. QED
  BY <1>1, <1>2, <1>3, <1>4 DEF RelocInv

\* A file that is relocated keeps its text, so what is said of the file alone
\* goes on being true.
LEMMA FileStays == ASSUME elf' = elf PROVE \A k, o : WordThen(k, o)' = WordThen(k, o)
<1>1. \A r : Words(r)' = Words(r) /\ Sym(r)' = Sym(r)
  BY DEF Words, Sym
<1>2. \A r : Place(r)' = Place(r)
  BY <1>1 DEF Place
<1>3. \A k, o : AimedTo(k, o)' = AimedTo(k, o)
  BY <1>2 DEF AimedTo
<1>4. \A r, o : WordOf(r, o)' = WordOf(r, o)
  BY <1>1 DEF WordOf
<1>5. Shift' = Shift
  BY <1>1 DEF Shift
<1>6. Weights' = Weights
  BY <1>5 DEF Weights
<1>7. QED
  BY <1>3, <1>4, <1>6 DEF WordThen

\* One relocation of the copy.
LEMMA AppliedHolds ==
  ASSUME RelocInv, ApplyRelocation
  PROVE  RelocInv'
<1>1. PICK n, r, v, e :
        /\ n = reloc /\ r = elf.relocs[n] /\ Applies(r) /\ n <= Len(elf.relocs)
        /\ v = Calc(r, ValueAt(copy, r.offset, Words(r)), Sym(r)) /\ e = Store(copy, r.offset, Words(r), v)
        /\ copy' = e /\ reloc' = n + 1 /\ elf' = elf /\ elfPc = "relocating" /\ elfPc' = "relocating"
  BY DEF ApplyRelocation, WriteAt
<1>2. /\ elf \in ElfFiles /\ copy \in Seq(Digits) /\ Len(copy) = Len(elf.data) /\ n \in 1 .. Len(elf.relocs) + 1
      /\ \A i \in 1 .. n - 1 : elf.relocs[i].sym \in DOMAIN elf.symbols
  BY <1>1 DEF RelocInv
<1>3. n \in DOMAIN elf.relocs /\ n \in Nat \ {0} /\ Len(elf.relocs) \in Nat /\ n + 1 - 1 = n
  BY <1>1, <1>2, FileIs
<1>4. /\ e \in Seq(Digits) /\ Len(e) = Len(copy) /\ DOMAIN e = DOMAIN copy
      /\ \A o \in DOMAIN copy : e[o] = WordThen(n, o)
  BY <1>1, <1>3, OneMoreDone
<1>5. \A o : WordThen(n, o)' = WordThen(n, o)
  BY <1>1, FileStays
<1>6. \A i \in 1 .. n : elf.relocs[i].sym \in DOMAIN elf.symbols
  <2>1. r.sym \in DOMAIN elf.symbols
    BY <1>1 DEF Applies
  <2>2. QED
    BY <1>1, <1>2, <1>3, <2>1
<1>7. reloc' \in 1 .. Len(elf.relocs) + 1 /\ reloc' - 1 = n
  BY <1>1, <1>2, <1>3
<1>8. \A o \in DOMAIN copy' : copy'[o] = WordThen(reloc - 1, o)'
  <2>1. \A o : WordThen(reloc - 1, o)' = WordThen(n, o)'
    BY <1>7 DEF WordThen, AimedTo
  <2>2. QED
    BY <1>1, <1>4, <1>5, <2>1
<1>9. QED
  BY <1>1, <1>2, <1>4, <1>6, <1>7, <1>8 DEF RelocInv

\* The relocations keep their invariant.
LEMMA RelocStep == ASSUME RelocInv, [ElfNext]_elfVars PROVE RelocInv'
<1>1. CASE UNCHANGED elfVars
  <2>1. elf' = elf /\ copy' = copy /\ reloc' = reloc /\ elfPc' = elfPc
    BY <1>1 DEF elfVars
  <2>2. \A o : WordThen(reloc - 1, o)' = WordThen(reloc - 1, o)
    BY <2>1, FileStays
  <2>3. QED
    BY <2>1, <2>2 DEF RelocInv
<1>2. CASE RelocationRaises
  BY <1>2 DEF RelocInv, RelocationRaises
<1>3. CASE Relocated
  <2>1. elf' = elf /\ copy' = copy /\ reloc' = reloc /\ elfPc' = "relocated"
    BY <1>3 DEF Relocated
  <2>2. elfPc = "relocating" /\ reloc > Len(elf.relocs)
    BY <1>3 DEF Relocated
  <2>3. elf \in ElfFiles /\ reloc \in 1 .. Len(elf.relocs) + 1
    BY <2>2 DEF RelocInv
  <2>4. reloc = Len(elf.relocs) + 1
    <3>1. PICK n : n = Len(elf.relocs)
      OBVIOUS
    <3>2. n \in Nat
      BY <2>3, <3>1, FileIs, Zenon
    <3>3. QED
      BY ONLY <2>2, <2>3, <3>1, <3>2
  <2>5. \A o : WordThen(reloc - 1, o)' = WordThen(reloc - 1, o)
    BY <2>1, FileStays
  <2>6. QED
    BY <2>1, <2>2, <2>4, <2>5 DEF RelocInv
<1>4. QED
  BY <1>1, <1>2, <1>3, FreshHolds, AppliedHolds DEF ElfNext

\* When all relocations are done, the copy is what the ABI says.
LEMMA AllDone == ASSUME RelocInv PROVE RelocatedAsSpecified
<1>1. SUFFICES ASSUME elfPc = "relocated"
               PROVE  /\ Len(copy) = Len(elf.data)
                      /\ \A o \in DOMAIN copy :
                           copy[o] = IF Aimed(o) = {} THEN elf.data[o]
                                     ELSE IF elf.arch = "x64" THEN WordOf(elf.relocs[Max(Aimed(o))], o)
                                     ELSE elf.data[o] + ShiftBy(Aimed(o))
  BY DEF RelocatedAsSpecified
<1>2. PICK n \in Nat : n = Len(elf.relocs) /\ DOMAIN elf.relocs = 1 .. n
  BY FileIs DEF RelocInv
<1>3. reloc = n + 1 /\ n + 1 - 1 = n
  BY <1>1, <1>2 DEF RelocInv
<1>4. /\ Len(copy) = Len(elf.data) /\ \A o \in DOMAIN copy : copy[o] = WordThen(n, o)
      /\ \A i \in 1 .. n : elf.relocs[i].sym \in DOMAIN elf.symbols
  BY <1>1, <1>3 DEF RelocInv
<1>5. \A o : AimedTo(n, o) = Aimed(o)
  BY <1>2 DEF AimedTo, Aimed
<1>6. Weights = Shift
  BY <1>2, <1>4 DEF Weights, Shift
<1>7. \A S : ShiftBy(S) = Total(elf.relocs, Shift, S)
  BY DEF ShiftBy, Total
<1>8. QED
  BY <1>4, <1>5, <1>6, <1>7 DEF WordThen

\* Every copy of a section that get_dwarf_info() relocates holds what the ABI
\* gives at each relocated place and the file's own words elsewhere, and where
\* relocations overlap the sum of their shifts or what the last one says: for
\* every file, and however often it is called.
THEOREM CopiesAreRelocated == ElfSpec => []RelocatedAsSpecified
<1>1. ElfInit => RelocInv
  BY DEF ElfInit, RelocInv
<1>2. RelocInv /\ [ElfNext]_elfVars => RelocInv'
  BY RelocStep
<1>3. RelocInv => RelocatedAsSpecified
  BY AllDone
<1>4. QED
  BY <1>1, <1>2, <1>3, PTL DEF ElfSpec

-----------------------------------------------------------------------------
\* The greatest of some numbers up to n is one of them.
LEMMA MaxIsOne == ASSUME NEW n \in Nat, NEW S, S \subseteq 1 .. n, S # {} PROVE Max(S) \in S
<1> DEFINE D == {n - y : y \in S}
<1>1. D \subseteq Nat /\ D # {}
  <2>1. \A y \in S : n - y \in Nat
    OBVIOUS
  <2>2. QED
    BY <2>1
<1>2. PICK d \in D : \A y \in D : d <= y
  BY <1>1, MinIsLeast
<1>3. PICK m \in S : d = n - m
  BY <1>2
<1>4. ASSUME NEW y \in S PROVE m >= y
  <2>1. n - y \in D
    OBVIOUS
  <2>2. n - m <= n - y /\ m \in Int /\ y \in Int
    BY <1>2, <1>3, <2>1
  <2>3. QED
    BY <2>2
<1>5. QED
  BY <1>3, <1>4 DEF Max

\* A piece of a sequence.
LEMMA PieceIs ==
  ASSUME NEW b \in Seq(Nat), NEW s \in Nat, NEW m \in Nat, m <= Len(b), NEW h, h = SubSeq(b, s + 1, m)
  PROVE  /\ h \in Seq(Nat) /\ Len(h) = (IF s < m THEN m - s ELSE 0)
         /\ \A j \in 1 .. Len(h) : h[j] = b[s + j] /\ s + j \in 1 .. Len(b)
<1>1. PICK a \in Int : a = s + 1
  OBVIOUS
<1>2. \A j \in a .. m : b[j] \in Nat
  BY <1>1
<1>3. /\ SubSeq(b, a, m) \in Seq(Nat)
      /\ Len(SubSeq(b, a, m)) = IF a <= m THEN m - a + 1 ELSE 0
      /\ \A j \in 1 .. m - a + 1 : SubSeq(b, a, m)[j] = b[a + j - 1]
  BY <1>2, SubSeqProperties
<1>4. h \in Seq(Nat) /\ Len(h) = (IF s < m THEN m - s ELSE 0)
  BY <1>1, <1>3
<1>5. ASSUME NEW j \in 1 .. Len(h) PROVE h[j] = b[s + j] /\ s + j \in 1 .. Len(b)
  <2>1. s < m /\ Len(h) = m - s /\ j \in 1 .. m - s
    BY <1>4
  <2>2. m - a + 1 = m - s /\ a + j - 1 = s + j /\ s + j \in 1 .. Len(b)
    BY <1>1, <2>1
  <2>3. QED
    BY <1>1, <1>3, <2>1, <2>2
<1>6. QED
  BY <1>4, <1>5

\* The i-th chunk of b: what is between i * ChunkSize and the next multiple, as
\* far as b goes.
LEMMA ChunkIs ==
  ASSUME NEW b \in Seq(Nat), NEW i \in Nat, NEW c \in Nat \ {0}, c = ChunkSize,
         NEW s \in Nat, s = i * c, NEW N \in Nat, N = Len(b), NEW h, h = ChunkAt(b, i)
  PROVE  /\ h \in Seq(Nat)
         /\ Len(h) = (IF s + c <= N THEN c ELSE IF s < N THEN N - s ELSE 0)
         /\ \A j \in 1 .. Len(h) : h[j] = b[s + j] /\ s + j \in 1 .. N
<1>1. (i + 1) * c = s + c
  OBVIOUS
<1>2. PICK e \in Nat : e = s + c /\ e >= s
  OBVIOUS
<1>3. PICK m \in Nat : m = Min({e, N}) /\ m = (IF e <= N THEN e ELSE N)
  <2>1. {e, N} \subseteq Nat /\ {e, N} # {}
    OBVIOUS
  <2>2. Min({e, N}) \in {e, N} /\ \A y \in {e, N} : Min({e, N}) <= y
    BY ONLY <2>1, MinIsLeast
  <2>3. QED
    BY ONLY <2>2, e \in Nat, N \in Nat
<1>4. h = SubSeq(b, s + 1, m)
  BY <1>1, <1>2, <1>3 DEF ChunkAt
<1>5. m <= Len(b)
  BY ONLY <1>3, N = Len(b), N \in Nat, e \in Nat
<1>6. /\ h \in Seq(Nat) /\ Len(h) = (IF s < m THEN m - s ELSE 0)
      /\ \A j \in 1 .. Len(h) : h[j] = b[s + j] /\ s + j \in 1 .. Len(b)
  <2>1. /\ h \in Seq(Nat) /\ Len(h) = (IF s < m THEN m - s ELSE 0)
    BY <1>4, <1>5, PieceIs
  <2>2. ASSUME NEW j \in 1 .. Len(h) PROVE h[j] = b[s + j]
    BY <1>4, <1>5, PieceIs
  <2>3. ASSUME NEW j \in 1 .. Len(h) PROVE s + j \in 1 .. Len(b)
    BY <1>4, <1>5, PieceIs
  <2>4. QED
    BY <2>1, <2>2, <2>3
<1>7. (IF s < m THEN m - s ELSE 0) = (IF s + c <= N THEN c ELSE IF s < N THEN N - s ELSE 0)
  BY ONLY <1>2, <1>3, s \in Nat, c \in Nat \ {0}, N \in Nat
<1>8. QED
  BY ONLY <1>6, <1>7, N = Len(b)

\* A chunk is a sequence of bytes.
LEMMA ChunkIsSeq == ASSUME NEW b \in Seq(Nat), NEW i \in Nat PROVE ChunkAt(b, i) \in Seq(Nat)
<1>1. PICK c \in Nat \ {0} : c = ChunkSize
  BY ElfSectionsAssumption
<1>2. PICK s \in Nat : s = i * c
  BY <1>1
<1>3. PICK N \in Nat : N = Len(b)
  OBVIOUS
<1>4. PICK h : h = ChunkAt(b, i)
  OBVIOUS
<1>5. h \in Seq(Nat)
  BY <1>1, <1>2, <1>3, <1>4, ChunkIs
<1>6. QED
  BY <1>4, <1>5

\* The first k bytes.
FrontOf(b, k) == SubSeq(b, 1, k)

\* One sequence behind the other.
Joined(x, h) == x \o h

\* h is what stands behind the first s of b.
StandsIn(h, b, s) == \A j \in 1 .. Len(h) : h[j] = b[s + j]

\* x is b as far as the s-th.
SameTo(x, b, s) == \A j \in 1 .. s : x[j] = b[j]

\* The front of a sequence.
LEMMA FrontIs ==
  ASSUME NEW b \in Seq(Nat), NEW s \in Nat, s <= Len(b), NEW x, x = FrontOf(b, s)
  PROVE  x \in Seq(Nat) /\ Len(x) = s /\ SameTo(x, b, s)
<1>1. \A j \in 1 .. s : b[j] \in Nat
  OBVIOUS
<1>2. /\ SubSeq(b, 1, s) \in Seq(Nat)
      /\ Len(SubSeq(b, 1, s)) = IF 1 <= s THEN s - 1 + 1 ELSE 0
      /\ \A j \in 1 .. s - 1 + 1 : SubSeq(b, 1, s)[j] = b[1 + j - 1]
  BY <1>1, SubSeqProperties
<1>3. s - 1 + 1 = s /\ \A j \in 1 .. s : 1 + j - 1 = j
  OBVIOUS
<1>4. QED
  BY <1>2, <1>3 DEF FrontOf, SameTo

\* An empty front.
LEMMA EmptyFront == ASSUME NEW b, NEW h \in Seq(Nat) PROVE Joined(FrontOf(b, 0), h) = h
<1>1. FrontOf(b, 0) = << >>
  BY SubSeqEmpty DEF FrontOf
<1>2. QED
  BY <1>1 DEF Joined

\* What follows a sequence, place by place.
LEMMA JoinIs ==
  ASSUME NEW x \in Seq(Nat), NEW h \in Seq(Nat), NEW z, z = Joined(x, h)
  PROVE  z \in Seq(Nat) /\ Len(z) = Len(x) + Len(h) /\ SameTo(x, z, Len(x)) /\ StandsIn(h, z, Len(x))
BY DEF Joined, SameTo, StandsIn

\* The front of a sequence, with what follows it.
LEMMA FrontJoins ==
  ASSUME NEW b \in Seq(Nat), NEW s \in Nat, NEW h \in Seq(Nat), NEW e \in Nat, e = s + Len(h), e <= Len(b),
         StandsIn(h, b, s)
  PROVE  Joined(FrontOf(b, s), h) = FrontOf(b, e)
<1>1. PICK x, y, z : x = FrontOf(b, s) /\ y = FrontOf(b, e) /\ z = Joined(x, h)
  OBVIOUS
<1>2. s <= Len(b)
  OBVIOUS
<1>3. x \in Seq(Nat) /\ Len(x) = s /\ SameTo(x, b, s)
  BY <1>1, <1>2, FrontIs
<1>4. y \in Seq(Nat) /\ Len(y) = e /\ SameTo(y, b, e)
  BY <1>1, FrontIs
<1>5. z \in Seq(Nat) /\ Len(z) = e /\ SameTo(x, z, s) /\ StandsIn(h, z, s)
  <2>1. z \in Seq(Nat) /\ Len(z) = Len(x) + Len(h) /\ SameTo(x, z, Len(x)) /\ StandsIn(h, z, Len(x))
    BY <1>1, <1>3, JoinIs
  <2>2. QED
    BY <1>3, <2>1
<1>6. ASSUME NEW j \in 1 .. e PROVE z[j] = y[j]
  <2>1. y[j] = b[j]
    BY <1>4 DEF SameTo
  <2>2. CASE j <= s
    <3>1. j \in 1 .. s
      BY <2>2
    <3>2. QED
      BY <1>3, <1>5, <2>1, <3>1 DEF SameTo
  <2>3. CASE j > s
    <3>1. PICK k : k = j - s /\ k \in 1 .. Len(h) /\ s + k = j
      BY <2>3
    <3>2. z[j] = h[k] /\ b[j] = h[k]
      BY <1>5, <3>1 DEF StandsIn
    <3>3. QED
      BY <2>1, <3>2
  <2>4. QED
    BY <2>2, <2>3
<1>7. z = y
  BY <1>4, <1>5, <1>6, SeqEqual
<1>8. QED
  BY <1>1, <1>7

\* b goes on for m whole chunks.
WholeChunks(b, m) == m \in Nat /\ m * ChunkSize <= Len(b)

\* F holds what the first chunks of b are together, up to the m-th.
JoinsOf(F, b, m) == F = [i \in 1 .. m |-> IF i = 1 THEN ChunkAt(b, 0) ELSE Joined(F[i - 1], ChunkAt(b, i - 1))]

\* One more whole chunk behind what is joined.
LEMMA FrontNext ==
  ASSUME NEW b \in Seq(Nat), NEW i \in Nat, NEW c \in Nat \ {0}, c = ChunkSize, NEW s \in Nat, s = i * c,
         s + c <= Len(b)
  PROVE  Joined(FrontOf(b, s), ChunkAt(b, i)) = FrontOf(b, s + c)
<1>1. PICK h, e : h = ChunkAt(b, i) /\ e = s + c
  OBVIOUS
<1>2. h \in Seq(Nat) /\ Len(h) = c /\ StandsIn(h, b, s)
  <2>1. h \in Seq(Nat)
    BY <1>1, ChunkIs
  <2>2. Len(h) = c
    BY <1>1, ChunkIs
  <2>3. \A j \in 1 .. Len(h) : h[j] = b[s + j]
    BY <1>1, ChunkIs
  <2>4. QED
    BY <2>1, <2>2, <2>3 DEF StandsIn
<1>3. e \in Nat /\ e <= Len(b) /\ e = s + Len(h)
  BY <1>1, <1>2
<1>4. Joined(FrontOf(b, s), h) = FrontOf(b, e)
  BY <1>2, <1>3, FrontJoins
<1>5. QED
  BY <1>1, <1>4

\* Whole chunks join to the front of b.
LEMMA JoinsAre ==
  ASSUME NEW b \in Seq(Nat), NEW c \in Nat \ {0}, c = ChunkSize, NEW m, WholeChunks(b, m), NEW F, JoinsOf(F, b, m)
  PROVE  \A i \in 1 .. m : F[i] = FrontOf(b, i * c)
<1> DEFINE G == {i \in Nat : i \in 1 .. m => F[i] = FrontOf(b, i * c)}
<1>1. 0 \in G
  OBVIOUS
<1>2. ASSUME NEW i \in Nat, i \in G PROVE i + 1 \in G
  <2>1. SUFFICES ASSUME i + 1 \in 1 .. m PROVE F[i + 1] = FrontOf(b, (i + 1) * c)
    OBVIOUS
  <2>2. PICK s \in Nat : s = i * c /\ (i + 1) * c = s + c
    OBVIOUS
  <2>3. s + c <= Len(b)
    <3>1. m \in Nat /\ m - (i + 1) \in Nat /\ m = i + 1 + (m - (i + 1))
      BY <2>1 DEF WholeChunks
    <3>2. PICK k \in Nat : m = i + 1 + k
      BY <3>1
    <3>3. m * c = s + c + k * c /\ k * c \in Nat
      BY <2>2, <3>2
    <3>4. QED
      BY <3>3 DEF WholeChunks
  <2>4. CASE i = 0
    <3>1. F[i + 1] = ChunkAt(b, i) /\ s = 0
      BY <2>1, <2>2, <2>4 DEF JoinsOf
    <3>2. ChunkAt(b, i) \in Seq(Nat)
      BY ChunkIsSeq
    <3>3. Joined(FrontOf(b, s), ChunkAt(b, i)) = ChunkAt(b, i)
      BY <3>1, <3>2, EmptyFront
    <3>4. QED
      BY <2>2, <2>3, <3>1, <3>3, FrontNext
  <2>5. CASE i # 0
    <3>0. PICK k : k = i + 1 /\ k \in 1 .. m /\ k # 1 /\ k - 1 = i
      BY <2>1, <2>5
    <3>1. F[i + 1] = Joined(F[i], ChunkAt(b, i))
      BY <3>0 DEF JoinsOf
    <3>2. F[i] = FrontOf(b, s)
      BY <1>2, <2>1, <2>2, <2>5 DEF WholeChunks
    <3>3. QED
      BY <2>2, <2>3, <3>1, <3>2, FrontNext
  <2>6. QED
    BY <2>4, <2>5
<1> HIDE DEF G
<1>3. Nat \subseteq G
  BY <1>1, <1>2, AllNumbers
<1>4. QED
  BY <1>3 DEF G

\* What FlattenSeq chooses: the sequences of q, joined up to each of them.
JoinsAll(F, q) == F = [i \in 1 .. Len(q) |-> IF i = 1 THEN q[i] ELSE F[i - 1] \o q[i]]

\* The first m chunks.
FirstChunks(b, m) == [i \in 1 .. m |-> ChunkAt(b, i - 1)]

\* That is what the first chunks of b give.
LEMMA JoinsSame ==
  ASSUME NEW b, NEW m \in Nat, NEW q, q = FirstChunks(b, m), Len(q) = m, NEW F
  PROVE  JoinsAll(F, q) <=> JoinsOf(F, b, m)
<1>1. \A i \in 1 .. m : q[i] = ChunkAt(b, i - 1)
  BY DEF FirstChunks
<1>2. m >= 1 => q[1] = ChunkAt(b, 0)
  BY <1>1
<1> DEFINE L == [i \in 1 .. m |-> IF i = 1 THEN q[i] ELSE F[i - 1] \o q[i]]
           R == [i \in 1 .. m |-> IF i = 1 THEN ChunkAt(b, 0) ELSE Joined(F[i - 1], ChunkAt(b, i - 1))]
<1>3. L = R
  <2>1. ASSUME NEW i \in 1 .. m
        PROVE  (IF i = 1 THEN q[i] ELSE F[i - 1] \o q[i]) =
               (IF i = 1 THEN ChunkAt(b, 0) ELSE Joined(F[i - 1], ChunkAt(b, i - 1)))
    <3>1. CASE i = 1
      BY <1>2, <3>1
    <3>2. CASE i # 1
      BY <1>1, <3>2 DEF Joined
    <3>3. QED
      BY <3>1, <3>2
  <2>2. QED
    BY <2>1
<1>4. (JoinsAll(F, q) <=> F = L) /\ (JoinsOf(F, b, m) <=> F = R)
  BY DEF JoinsAll, JoinsOf
<1>5. QED
  BY <1>3, <1>4

\* A front is the front before it with a chunk.
LEMMA JoinsExist ==
  ASSUME NEW b \in Seq(Nat), NEW c \in Nat \ {0}, c = ChunkSize, NEW m, WholeChunks(b, m)
  PROVE  \E F : JoinsOf(F, b, m)
<1>1. m \in Nat
  BY DEF WholeChunks
<1> DEFINE T == [i \in 1 .. m |-> FrontOf(b, i * c)]
<1>2. ASSUME NEW i \in 1 .. m
      PROVE  T[i] = IF i = 1 THEN ChunkAt(b, 0) ELSE Joined(T[i - 1], ChunkAt(b, i - 1))
  <2>1. PICK k \in Nat : k = i - 1 /\ i = k + 1
    BY <1>1
  <2>2. PICK s \in Nat : s = k * c /\ i * c = s + c
    BY <2>1
  <2>3. s + c <= Len(b)
    <3>1. m - i \in Nat /\ m = i + (m - i)
      BY <1>1
    <3>2. PICK d \in Nat : m = i + d
      BY <3>1
    <3>3. m * c = i * c + d * c /\ d * c \in Nat
      BY <3>2
    <3>4. QED
      BY <1>1, <2>2, <3>3 DEF WholeChunks
  <2>4. Joined(FrontOf(b, s), ChunkAt(b, k)) = FrontOf(b, s + c)
    BY <2>1, <2>2, <2>3, FrontNext
  <2>5. CASE i = 1
    <3>1. k = 0 /\ s = 0
      BY <2>1, <2>2, <2>5
    <3>2. ChunkAt(b, 0) \in Seq(Nat)
      BY ChunkIsSeq
    <3>3. Joined(FrontOf(b, 0), ChunkAt(b, 0)) = ChunkAt(b, 0)
      BY <3>2, EmptyFront
    <3>4. QED
      BY <2>2, <2>4, <2>5, <3>1, <3>3
  <2>6. CASE i # 1
    <3>1. i - 1 \in 1 .. m
      BY <1>1, <2>6
    <3>2. T[i - 1] = FrontOf(b, s)
      BY <2>1, <2>2, <3>1
    <3>3. QED
      BY <2>1, <2>2, <2>4, <2>6, <3>2
  <2>7. QED
    BY <2>5, <2>6
<1>3. T = [i \in 1 .. m |-> IF i = 1 THEN ChunkAt(b, 0) ELSE Joined(T[i - 1], ChunkAt(b, i - 1))]
  BY <1>2
<1>4. QED
  BY <1>3 DEF JoinsOf

\* The first chunks, joined, are the front of b.
LEMMA FlattenIs ==
  ASSUME NEW b \in Seq(Nat), NEW c \in Nat \ {0}, c = ChunkSize, NEW m, WholeChunks(b, m)
  PROVE  FlattenSeq(FirstChunks(b, m)) = FrontOf(b, m * c)
<1>1. m \in Nat
  BY DEF WholeChunks
<1>2. PICK q : q = FirstChunks(b, m)
  OBVIOUS
<1>3. q \in Seq(Seq(Nat)) /\ Len(q) = m
  <2>1. ASSUME NEW i \in 1 .. m PROVE ChunkAt(b, i - 1) \in Seq(Nat)
    <3>1. PICK k \in Nat : k = i - 1
      BY <1>1
    <3>2. PICK s \in Nat : s = k * c
      OBVIOUS
    <3>3. QED
      BY <3>1, <3>2, ChunkIs
  <2>2. q \in [1 .. m -> Seq(Nat)]
    BY <1>2, <2>1 DEF FirstChunks
  <2>3. QED
    BY <1>1, <2>2
<1>4. CASE m = 0
  <2>1. q = << >>
    BY <1>3, <1>4
  <2>2. FlattenSeq(q) = << >>
    BY <1>3, <1>4, <2>1 DEF FlattenSeq
  <2>3. m * c = 0 /\ FrontOf(b, 0) = << >>
    BY <1>4, SubSeqEmpty DEF FrontOf
  <2>4. QED
    BY <1>2, <2>2, <2>3
<1>5. CASE m # 0
  <2>1. PICK F : F = CHOOSE G : JoinsAll(G, q)
    OBVIOUS
  <2>2. FlattenSeq(q) = F[m]
    <3>1. FlattenSeq(q) = (CHOOSE G : JoinsAll(G, q))[Len(q)]
      BY <1>3, <1>5 DEF FlattenSeq, JoinsAll
    <3>2. QED
      BY <1>3, <2>1, <3>1
  <2>3. \E G : JoinsAll(G, q)
    BY <1>1, <1>2, <1>3, JoinsExist, JoinsSame
  <2>4. JoinsAll(F, q)
    BY <2>1, <2>3
  <2>5. JoinsOf(F, b, m)
    BY <1>1, <1>2, <1>3, <2>4, JoinsSame
  <2>6. F[m] = FrontOf(b, m * c)
    BY <1>1, <1>5, <2>5, JoinsAre
  <2>7. QED
    BY <1>2, <2>2, <2>6
<1>6. QED
  BY <1>4, <1>5

\* Chunk i of b has an end.
EndIn(b, i) == \E j \in DOMAIN ChunkAt(b, i) : ChunkAt(b, i)[j] = 0

\* It ends the reading.
Stops(b, i) == EndIn(b, i) \/ Len(ChunkAt(b, i)) < ChunkSize

\* The last chunk that is read.
LastChunk(b) == Min({i \in 0 .. Len(b) : Stops(b, i)})

\* Where h has a 0.
Zeros(h) == {j \in DOMAIN h : h[j] = 0}

\* Reading by chunks, in these words.
LEMMA CStringReads ==
  ASSUME NEW b, NEW m, m = LastChunk(b), NEW h, h = ChunkAt(b, m)
  PROVE  /\ EndIn(b, m) => CString0(b) = FlattenSeq(FirstChunks(b, m)) \o SubSeq(h, 1, Min(Zeros(h)) - 1)
         /\ ~EndIn(b, m) => CString0(b) = NoString
BY DEF CString0, EndIn, Stops, LastChunk, Zeros, FirstChunks

\* Chunk i is whole and has no end.
GoesOn(b, i, s) ==
  /\ s + ChunkSize <= Len(b)
  /\ \A j \in 1 .. ChunkSize : b[s + j] # 0

\* A chunk that does not end the reading.
LEMMA ChunkGoesOn ==
  ASSUME NEW b \in Seq(Nat), NEW i \in Nat, NEW c \in Nat \ {0}, c = ChunkSize, NEW s \in Nat, s = i * c,
         ~Stops(b, i)
  PROVE  GoesOn(b, i, s)
<1>1. PICK h, N : h = ChunkAt(b, i) /\ N = Len(b)
  OBVIOUS
<1>2. N \in Nat
  BY <1>1
<1>3. /\ h \in Seq(Nat)
      /\ Len(h) = (IF s + c <= N THEN c ELSE IF s < N THEN N - s ELSE 0)
      /\ \A j \in 1 .. Len(h) : h[j] = b[s + j] /\ s + j \in 1 .. N
  BY ONLY b \in Seq(Nat), i \in Nat, c \in Nat \ {0}, c = ChunkSize, s \in Nat, s = i * c, <1>1, <1>2, ChunkIs, SMTT(30)
<1>4. Len(h) = (IF s + c <= N THEN c ELSE IF s < N THEN N - s ELSE 0)
  BY <1>3
<1>5. \A j \in 1 .. Len(h) : h[j] = b[s + j]
  BY <1>3
<1>6. ~(Len(h) < c) /\ \A j \in DOMAIN h : h[j] # 0
  BY <1>1 DEF Stops, EndIn
<1>7. Len(h) = c /\ s + c <= N
  BY <1>2, <1>4, <1>6
<1>8. ASSUME NEW j \in 1 .. c PROVE b[s + j] # 0
  <2>1. j \in 1 .. Len(h) /\ j \in DOMAIN h
    BY <1>3, <1>7
  <2>2. QED
    BY <1>5, <1>6, <2>1
<1>9. QED
  BY <1>1, <1>7, <1>8 DEF GoesOn

\* The reading ends: no chunk is behind the end of b.
LEMMA SomeStops ==
  ASSUME NEW b \in Seq(Nat)
  PROVE  /\ LastChunk(b) \in 0 .. Len(b) /\ Stops(b, LastChunk(b))
         /\ \A i \in 0 .. LastChunk(b) - 1 : ~Stops(b, i)
<1>1. PICK N \in Nat, c \in Nat \ {0} : N = Len(b) /\ c = ChunkSize
  <2>1. Len(b) \in Nat
    OBVIOUS
  <2>2. ChunkSize \in Nat \ {0}
    BY ElfSectionsAssumption
  <2>3. QED
    BY <2>1, <2>2
<1>2. Stops(b, N)
  <2>1. PICK s \in Nat : s = N * c /\ s >= N
    <3>1. N * c \in Nat /\ N * c >= N
      <4>1. PICK d \in Nat : c = d + 1
        <5>1. c - 1 \in Nat /\ c = c - 1 + 1
          BY <1>1
        <5>2. QED
          BY <5>1
      <4>2. N * c = N * d + N /\ N * d \in Nat
        BY <1>1, <4>1
      <4>3. QED
        BY <1>1, <4>2
    <3>2. QED
      BY <3>1
  <2>2. PICK h : h = ChunkAt(b, N)
    OBVIOUS
  <2>3. Len(h) = (IF s + c <= N THEN c ELSE IF s < N THEN N - s ELSE 0)
    BY <1>1, <2>1, <2>2, ChunkIs
  <2>4. Len(h) < c
    BY <1>1, <2>1, <2>3
  <2>5. QED
    BY <1>1, <2>2, <2>4 DEF Stops
<1> DEFINE S == {i \in 0 .. Len(b) : Stops(b, i)}
<1>3. S \subseteq Nat /\ N \in S
  BY <1>1, <1>2
<1>4. Min(S) \in S /\ \A y \in S : Min(S) <= y
  BY <1>3, MinIsLeast
<1>5. PICK m : m = LastChunk(b) /\ m \in S /\ \A y \in S : m <= y
  BY <1>4 DEF LastChunk
<1>6. ASSUME NEW i \in 0 .. m - 1 PROVE ~Stops(b, i)
  <2>1. m \in 0 .. N /\ i \in 0 .. N /\ ~(m <= i)
    BY <1>1, <1>5
  <2>2. i \notin S
    BY <1>5, <2>1
  <2>3. QED
    BY <1>1, <2>1, <2>2
<1>7. QED
  BY <1>5, <1>6

\* Place k is in one of the first m chunks of c.
InChunk(c, m, k) == \E i \in 0 .. m - 1, j \in 1 .. c : k = i * c + j

\* Which chunk a place is in.
LEMMA ChunkOf == ASSUME NEW c \in Nat \ {0}, NEW m \in Nat, NEW k \in 1 .. m * c PROVE InChunk(c, m, k)
<1>1. PICK e \in Nat : e = k - 1 /\ k = e + 1
  <2>1. k - 1 \in Nat
    OBVIOUS
  <2>2. QED
    BY <2>1
<1>2. PICK i \in Nat, j \in 0 .. c - 1 : e = c * i + j
  <2>1. e \div c \in Nat /\ e % c \in 0 .. c - 1 /\ e = c * (e \div c) + (e % c)
    OBVIOUS
  <2>2. QED
    BY <2>1
<1>3. i < m
  <2>1. SUFFICES ASSUME i >= m PROVE FALSE
    OBVIOUS
  <2>2. i - m \in Nat /\ i = m + (i - m)
    BY <2>1
  <2>3. PICK d \in Nat : i = m + d
    BY <2>2
  <2>4. c * i = m * c + c * d /\ c * d \in Nat /\ m * c \in Nat
    BY <2>3
  <2>5. e < m * c
    BY <1>1, <2>4
  <2>6. QED
    BY <1>2, <2>4, <2>5
<1>4. PICK a \in Nat : a = c * i /\ a = i * c
  OBVIOUS
<1>5. k = a + (j + 1) /\ j + 1 \in 1 .. c /\ i \in 0 .. m - 1
  BY <1>1, <1>2, <1>3, <1>4
<1>6. QED
  BY <1>4, <1>5 DEF InChunk

\* A string is what stands before the first 0.
LEMMA CStringIs ==
  ASSUME NEW b \in Seq(Nat), NEW zs, zs = Zeros(b)
  PROVE  CString0(b) = IF zs = {} THEN NoString ELSE FrontOf(b, Min(zs) - 1)
<1>1. PICK N \in Nat, c \in Nat \ {0} : N = Len(b) /\ c = ChunkSize
  <2>1. Len(b) \in Nat
    OBVIOUS
  <2>2. ChunkSize \in Nat \ {0}
    BY ElfSectionsAssumption
  <2>3. QED
    BY <2>1, <2>2
<1>2. PICK m \in 0 .. N : m = LastChunk(b) /\ Stops(b, m) /\ \A i \in 0 .. m - 1 : ~Stops(b, i)
  BY <1>1, SomeStops
<1>3. PICK s \in Nat : s = m * c
  BY <1>1, <1>2
<1>4. PICK h : h = ChunkAt(b, m) /\ m \in Nat
  BY <1>1, <1>2
<1>5. h \in Seq(Nat) /\ Len(h) = (IF s + c <= N THEN c ELSE IF s < N THEN N - s ELSE 0)
  <2>1. h \in Seq(Nat)
    BY <1>1, <1>3, <1>4, ChunkIs
  <2>2. Len(h) = (IF s + c <= N THEN c ELSE IF s < N THEN N - s ELSE 0)
    BY <1>1, <1>3, <1>4, ChunkIs
  <2>3. QED
    BY <2>1, <2>2
<1>6. \A j \in 1 .. Len(h) : h[j] = b[s + j]
  BY <1>1, <1>3, <1>4, ChunkIs
<1>7. s <= N
  <2>1. CASE m = 0
    BY <1>1, <1>3, <2>1
  <2>2. CASE m # 0
    <3>1. PICK i \in Nat : m = i + 1
      <4>1. m - 1 \in Nat /\ m = m - 1 + 1
        BY <1>2, <2>2
      <4>2. QED
        BY <4>1
    <3>2. PICK a \in Nat : a = i * c /\ s = a + c
      BY <1>1, <1>3, <3>1
    <3>3. i \in 0 .. m - 1
      BY <3>1
    <3>4. GoesOn(b, i, a)
      BY <1>1, <1>2, <3>2, <3>3, ChunkGoesOn
    <3>5. QED
      BY <1>1, <3>2, <3>4 DEF GoesOn
  <2>3. QED
    BY <2>1, <2>2
<1>8. ASSUME NEW k \in 1 .. s PROVE b[k] # 0
  <2>1. PICK i \in 0 .. m - 1, j \in 1 .. c : k = i * c + j
    <3>1. k \in 1 .. m * c
      BY <1>3
    <3>2. InChunk(c, m, k)
      BY <1>1, <1>4, <3>1, ChunkOf
    <3>3. QED
      BY <3>2 DEF InChunk
  <2>2. PICK a \in Nat : a = i * c
    BY <1>1
  <2>3. GoesOn(b, i, a)
    BY <1>1, <1>2, <2>1, <2>2, ChunkGoesOn
  <2>4. QED
    BY <1>1, <2>1, <2>2, <2>3 DEF GoesOn
<1>9. DOMAIN b = 1 .. N /\ DOMAIN h = 1 .. Len(h) /\ Len(h) \in Nat
  BY <1>1, <1>5
<1>10. \A y \in zs : y \in 1 .. N /\ b[y] = 0 /\ y > s
  BY <1>3, <1>8, <1>9 DEF Zeros
<1>11. CASE EndIn(b, m)
  <2>1. PICK es : es = Zeros(h) /\ es # {} /\ es \subseteq 1 .. Len(h)
    BY <1>4, <1>9, <1>11 DEF EndIn, Zeros
  <2>2. PICK e \in Nat : e \in es /\ e = Min(es) /\ \A y \in es : e <= y
    <3>1. es \subseteq Nat
      BY <1>9, <2>1
    <3>2. Min(es) \in es /\ \A y \in es : Min(es) <= y
      BY <2>1, <3>1, MinIsLeast
    <3>3. QED
      BY <3>1, <3>2
  <2>3. e \in 1 .. Len(h) /\ h[e] = 0 /\ s + e \in 1 .. N
    <3>1. e \in 1 .. Len(h) /\ h[e] = 0
      BY <2>1, <2>2 DEF Zeros
    <3>2. Len(h) <= N - s
      BY <1>1, <1>5, <1>7
    <3>3. QED
      BY <1>1, <1>9, <3>1, <3>2
  <2>4. s + e \in zs
    BY <1>6, <1>9, <2>3 DEF Zeros
  <2>5. ASSUME NEW y \in zs PROVE s + e <= y
    <3>1. SUFFICES ASSUME y < s + e PROVE FALSE
      BY <1>10, <2>3
    <3>2. PICK j \in 1 .. Len(h) : y = s + j /\ j < e
      <4>1. y - s \in 1 .. Len(h) /\ y = s + (y - s) /\ y - s < e
        BY <1>9, <1>10, <2>3, <3>1
      <4>2. QED
        BY <4>1
    <3>3. j \in es
      BY <1>6, <1>9, <1>10, <2>1, <3>2 DEF Zeros
    <3>4. QED
      BY <2>2, <2>3, <3>2, <3>3
  <2>6. Min(zs) = s + e
    <3>1. zs \subseteq Nat
      BY <1>10
    <3>2. Min(zs) \in zs /\ \A y \in zs : Min(zs) <= y
      BY <2>4, <3>1, MinIsLeast
    <3>3. Min(zs) <= s + e /\ s + e <= Min(zs) /\ Min(zs) \in Nat
      BY <2>4, <2>5, <3>1, <3>2
    <3>4. QED
      BY <2>3, <3>3
  <2>7. PICK d \in Nat : d = e - 1
    BY <2>3
  <2>8. PICK g : g = FrontOf(h, d)
    OBVIOUS
  <2>9. g \in Seq(Nat) /\ Len(g) = d /\ SameTo(g, h, d)
    <3>1. d <= Len(h)
      BY <1>9, <2>3, <2>7
    <3>2. QED
      BY <1>5, <2>8, <3>1, FrontIs
  <2>10. StandsIn(g, b, s)
    <3>1. \A j \in 1 .. d : g[j] = h[j] /\ j \in 1 .. Len(h)
      BY <1>9, <2>3, <2>7, <2>9 DEF SameTo
    <3>2. QED
      BY <1>6, <2>9, <3>1 DEF StandsIn
  <2>11. PICK f : f \in Nat /\ f = s + d /\ f <= N /\ Min(zs) - 1 = f
    <3>1. s + d \in Nat /\ s + d <= N /\ s + e - 1 = s + d
      BY <1>1, <2>3, <2>7
    <3>2. s + e \in Nat
      BY <1>9, <2>3
    <3>3. Min(zs) - 1 = s + d
      BY <2>6, <3>1, <3>2
    <3>4. QED
      BY <3>1, <3>3
  <2>12. Joined(FrontOf(b, s), g) = FrontOf(b, f)
    BY <1>1, <2>9, <2>10, <2>11, FrontJoins
  <2>13. FlattenSeq(FirstChunks(b, m)) = FrontOf(b, s)
    <3>1. WholeChunks(b, m)
      BY <1>1, <1>2, <1>3, <1>7 DEF WholeChunks
    <3>2. QED
      BY <1>1, <1>3, <3>1, FlattenIs
  <2>14. CString0(b) = Joined(FrontOf(b, s), g)
    BY <1>2, <1>4, <1>11, <2>1, <2>2, <2>7, <2>8, <2>13, CStringReads DEF Joined, FrontOf
  <2>15. QED
    BY <2>4, <2>11, <2>12, <2>14
<1>12. CASE ~EndIn(b, m)
  <2>1. Len(h) < c
    BY <1>1, <1>2, <1>4, <1>12 DEF Stops
  <2>2. Len(h) = N - s
    BY <1>1, <1>5, <1>7, <2>1
  <2>3. ASSUME NEW y \in zs PROVE FALSE
    <3>1. PICK j \in 1 .. Len(h) : y = s + j
      <4>1. y - s \in 1 .. Len(h) /\ y = s + (y - s)
        BY <1>1, <1>10, <2>2
      <4>2. QED
        BY <4>1
    <3>2. h[j] = 0 /\ j \in DOMAIN h
      BY <1>6, <1>9, <1>10, <3>1
    <3>3. QED
      BY <1>4, <1>12, <3>2 DEF EndIn
  <2>4. zs = {}
    BY <2>3
  <2>5. CString0(b) = NoString
    BY <1>2, <1>4, <1>12, CStringReads
  <2>6. QED
    BY <2>4, <2>5
<1>13. QED
  BY <1>11, <1>12

\* A file, its strings, sections and segments.
LEMMA ImageIs ==
  ASSUME image \in ElfImages
  PROVE  /\ image.strs \in Seq(Nat) /\ image.secs \in Seq(ElfSections) /\ image.segs \in Seq(ElfSegments)
         /\ SecCount \in Nat /\ DOMAIN image.secs = 1 .. Len(image.secs)
<1>1. /\ image.strs \in Seq(Nat) /\ image.secs \in Seq(ElfSections) /\ image.segs \in Seq(ElfSegments)
      /\ image.shnum \in 0 .. Len(image.secs)
  BY ElfSectionsAssumption
<1>2. Len(image.secs) \in Nat /\ DOMAIN image.secs = 1 .. Len(image.secs)
  BY <1>1
<1>3. QED
  BY <1>1, <1>2 DEF SecCount

\* A string does not depend on the chunks that were read.
LEMMA StringsAreWhole == ASSUME image \in ElfImages PROVE StringsWhole
<1>1. PICK t \in Seq(Nat) : t = image.strs
  BY ImageIs
<1>2. PICK N \in Nat : N = Len(t) /\ DOMAIN t = 1 .. N
  OBVIOUS
<1>3. ASSUME NEW o \in 0 .. N, NEW ends, ends = {j \in o + 1 .. N : t[j] = 0}
      PROVE  GetString(o) = IF ends = {} THEN NoString ELSE SubSeq(t, o + 1, Min(ends) - 1)
  <2>0. PICK b : b = SubSeq(t, o + 1, N)
    OBVIOUS
  <2>1. b = SubSeq(t, o + 1, N) /\ GetString(o) = CString0(b) /\ o \in Nat
    BY <1>1, <1>2, <2>0 DEF GetString
  <2>2. b \in Seq(Nat)
    BY <1>2, <2>1, PieceIs
  <2>3. Len(b) = N - o
    <3>1. Len(b) = (IF o < N THEN N - o ELSE 0)
      BY <1>2, <2>1, PieceIs
    <3>2. QED
      BY <1>2, <2>1, <3>1
  <2>4. \A j \in 1 .. Len(b) : b[j] = t[o + j]
    <3>1. N <= Len(t) /\ o \in Nat
      BY <1>2, <2>1
    <3>2. QED
      BY <2>0, <3>1, PieceIs
  <2>5. PICK zs : zs = Zeros(b)
    OBVIOUS
  <2>6. ASSUME NEW j \in zs PROVE o + j \in ends /\ j \in 1 .. N - o
    <3>1. j \in 1 .. N - o /\ b[j] = 0 /\ j \in 1 .. Len(b)
      BY <2>2, <2>3, <2>5 DEF Zeros
    <3>2. o + j \in o + 1 .. N
      BY <1>2, <2>1, <3>1
    <3>3. QED
      BY <1>3, <2>4, <3>1, <3>2
  <2>7. ASSUME NEW y \in ends PROVE y - o \in zs /\ y \in Nat
    <3>1. PICK j \in 1 .. Len(b) : y = o + j
      <4>1. y - o \in 1 .. Len(b) /\ y = o + (y - o)
        BY <1>2, <1>3, <2>1, <2>3
      <4>2. QED
        BY <4>1
    <3>2. b[j] = 0 /\ j \in DOMAIN b
      BY <1>3, <2>2, <2>4, <3>1
    <3>3. j \in zs /\ y - o = j
      BY <2>1, <2>5, <3>1, <3>2 DEF Zeros
    <3>4. QED
      BY <1>2, <1>3, <2>1, <3>3
  <2>8. CASE zs = {}
    <3>1. ends = {}
      BY <2>7, <2>8
    <3>2. QED
      BY <2>1, <2>2, <2>5, <2>8, <3>1, CStringIs
  <2>9. CASE zs # {}
    <3>1. ends # {}
      BY <2>6, <2>9
    <3>2. Min(zs) \in zs /\ \A y \in zs : Min(zs) <= y
      <4>1. zs \subseteq Nat
        BY <2>6
      <4>2. QED
        BY <2>9, <4>1, MinIsLeast
    <3>3. Min(ends) \in ends /\ \A y \in ends : Min(ends) <= y
      <4>1. ends \subseteq Nat
        BY <2>7
      <4>2. QED
        BY <3>1, <4>1, MinIsLeast
    <3>4. PICK u, w : u = Min(zs) /\ w = Min(ends) /\ u \in zs /\ w \in ends
      BY <3>2, <3>3
    <3>5. u \in 1 .. N - o /\ w \in Nat /\ o + u \in ends /\ w - o \in zs
      BY <2>6, <2>7, <3>4
    <3>6. w <= o + u /\ u <= w - o
      BY <3>2, <3>3, <3>4, <3>5
    <3>7. w = o + u
      BY <2>1, <3>5, <3>6
    <3>8. PICK d \in Nat, m \in Nat : d = u - 1 /\ m = w - 1 /\ m = o + d /\ d <= N - o /\ m <= N
      <4>1. u - 1 \in Nat /\ w - 1 \in Nat /\ w - 1 = o + (u - 1) /\ u - 1 <= N - o /\ w - 1 <= N
        BY <2>1, <3>5, <3>7
      <4>2. QED
        BY <4>1
    <3>9. CString0(b) = FrontOf(b, d)
      BY <2>2, <2>5, <2>9, <3>4, <3>8, CStringIs
    <3>10. PICK x, h : x = FrontOf(b, d) /\ h = SubSeq(t, o + 1, m)
      OBVIOUS
    <3>11. x \in Seq(Nat) /\ Len(x) = d /\ SameTo(x, b, d)
      BY <2>2, <2>3, <3>8, <3>10, FrontIs
    <3>12. h \in Seq(Nat) /\ Len(h) = d
      <4>0. m \in Nat /\ m <= Len(t) /\ o \in Nat
        BY <1>2, <2>1, <3>8
      <4>1. h \in Seq(Nat)
        BY <3>10, <4>0, PieceIs
      <4>2. Len(h) = (IF o < m THEN m - o ELSE 0)
        BY <3>10, <4>0, PieceIs
      <4>3. QED
        BY <2>1, <3>8, <4>1, <4>2
    <3>13. \A j \in 1 .. Len(h) : h[j] = t[o + j]
      BY <1>2, <2>1, <3>8, <3>10, PieceIs
    <3>14. ASSUME NEW j \in 1 .. d PROVE x[j] = h[j]
      <4>1. j \in 1 .. Len(b)
        BY <1>2, <2>1, <2>3, <3>8
      <4>2. QED
        BY <2>4, <3>11, <3>12, <3>13, <4>1 DEF SameTo
    <3>15. x = h
      BY <3>11, <3>12, <3>14, SeqEqual
    <3>16. QED
      BY <2>1, <3>1, <3>4, <3>8, <3>9, <3>10, <3>15
  <2>10. QED
    BY <2>8, <2>9
<1>4. QED
  BY <1>1, <1>2, <1>3 DEF StringsWhole

\* Sections in segments: arithmetic.
LEMMA SegmentsApart == ASSUME image \in ElfImages PROVE SegmentsShareNothing
<1>1. SUFFICES ASSUME NEW n \in DOMAIN image.secs, NEW g \in Range(image.segs), NEW h \in Range(image.segs),
                      NEW s, s = image.secs[n]
               PROVE  /\ g.vaddr + g.memsz <= h.vaddr /\ s.alloc =>
                           ~(SectionInSegment(g, s) /\ SectionInSegment(h, s))
                      /\ SectionInSegment(g, s) /\ s.type # "nobits" =>
                           g.offset <= s.offset /\ s.offset + s.size <= g.offset + g.filesz
  BY DEF SegmentsShareNothing
<1>2. s \in ElfSections /\ g \in ElfSegments /\ h \in ElfSegments
  <2>1. s \in ElfSections
    BY <1>1, ImageIs
  <2>2. Range(image.segs) \subseteq ElfSegments
    BY ImageIs DEF Range
  <2>3. QED
    BY <2>1, <2>2
<1>3. /\ s.addr \in Nat /\ s.size \in Nat /\ s.offset \in Nat
      /\ g.vaddr \in Nat /\ g.memsz \in Nat /\ g.offset \in Nat /\ g.filesz \in Nat
      /\ h.vaddr \in Nat /\ h.memsz \in Nat
  BY <1>2 DEF ElfSections, ElfSegments
<1>4. ASSUME g.vaddr + g.memsz <= h.vaddr, s.alloc, SectionInSegment(g, s), SectionInSegment(h, s) PROVE FALSE
  <2>1. Within(s.addr, s.size, g.vaddr, g.memsz) /\ Within(s.addr, s.size, h.vaddr, h.memsz)
    BY <1>4 DEF SectionInSegment
  <2>2. s.addr >= h.vaddr /\ s.addr - g.vaddr <= g.memsz - 1
    BY <2>1 DEF Within
  <2>3. QED
    BY <1>3, <1>4, <2>2
<1>5. ASSUME SectionInSegment(g, s), s.type # "nobits"
      PROVE  g.offset <= s.offset /\ s.offset + s.size <= g.offset + g.filesz
  <2>1. Within(s.offset, s.size, g.offset, g.filesz)
    BY <1>5 DEF SectionInSegment
  <2>2. s.offset >= g.offset /\ s.offset - g.offset + s.size <= g.filesz
    BY <2>1 DEF Within
  <2>3. QED
    BY <1>3, <2>2
<1>6. QED
  BY <1>4, <1>5

-----------------------------------------------------------------------------
\* What a name in the map leads to, when the map has the first n sections.
LedTo(n, x) == LET S == {i \in 1 .. n : SectionName(i) = x} IN IF S = {} THEN NoSection ELSE Max(S)

\* The map, looked up.
LEMMA MapLeads ==
  ASSUME NEW n \in Nat, NEW x, NEW M, M = MapOf(n)
  PROVE  M.built = TRUE /\ (IF x \in DOMAIN M.at THEN M.at[x] ELSE NoSection) = LedTo(n, x)
<1>1. PICK A : A = [y \in {SectionName(i) : i \in 1 .. n} |-> Max({i \in 1 .. n : SectionName(i) = y})]
  OBVIOUS
<1>2. M.built = TRUE /\ M.at = A
  BY <1>1 DEF MapOf
<1>3. x \in DOMAIN A <=> {i \in 1 .. n : SectionName(i) = x} # {}
  BY <1>1
<1>4. x \in DOMAIN A => A[x] = Max({i \in 1 .. n : SectionName(i) = x})
  BY <1>1
<1>5. QED
  BY <1>2, <1>3, <1>4 DEF LedTo

\* iter_sections() yields some of the first ones.
LEMMA YieldedIs == ASSUME image \in ElfImages PROVE Yielded \in 0 .. SecCount
<1>1. PICK n \in Nat : n = SecCount
  BY ImageIs
<1>2. CASE \A i \in 1 .. n : CanMake(i)
  BY <1>1, <1>2 DEF Yielded
<1>3. CASE ~(\A i \in 1 .. n : CanMake(i))
  <2>1. PICK S : S = {i \in 1 .. n : ~CanMake(i)}
    OBVIOUS
  <2>2. Min(S) \in S /\ S \subseteq 1 .. n
    <3>1. S \subseteq Nat /\ S # {} /\ S \subseteq 1 .. n
      BY <1>3, <2>1
    <3>2. QED
      BY <3>1, MinIsLeast
  <2>3. Yielded = Min(S) - 1
    BY <1>1, <1>3, <2>1 DEF Yielded
  <2>4. PICK a \in 1 .. n : a = Min(S)
    BY <2>2
  <2>5. Yielded = a - 1
    BY <2>3, <2>4
  <2>6. QED
    BY <1>1, <2>5
<1>4. QED
  BY <1>2, <1>3

\* The map that a call finds or makes.
SectionMapSound == nameMap = NoMap \/ nameMap = MapOf(Yielded)

\* A call by name looks up the map of what iter_sections() yields.
LEMMA LooksUp ==
  ASSUME image \in ElfImages, SectionMapSound, NEW x
  PROVE  /\ MapNow = MapOf(Yielded) /\ MapNow.built
         /\ SecnumOf(x) = LedTo(Yielded, x)
         /\ nameMap.built => nameMap = MapOf(Yielded)
<1>1. PICK y \in Nat : y = Yielded /\ y <= SecCount
  BY YieldedIs, ImageIs
<1>2. MapOf(y).built = TRUE /\ NoMap.built = FALSE
  BY <1>1, MapLeads DEF NoMap
<1>3. MapNow = MapOf(y) /\ (nameMap.built => nameMap = MapOf(y))
  BY <1>1, <1>2 DEF MapNow, SectionMapSound
<1>4. (IF x \in DOMAIN MapNow.at THEN MapNow.at[x] ELSE NoSection) = LedTo(y, x)
  BY <1>1, <1>3, MapLeads
<1>5. QED
  BY <1>1, <1>2, <1>3, <1>4 DEF SecnumOf

\* The last section of that name, as the map has it, when it has what was yielded.
LEMMA LedToLast == ASSUME NEW x PROVE LedTo(Yielded, x) = LastNamed(x)
BY DEF LedTo, LastNamed, Named

\* The last section of a name is a number.
LEMMA LastNamedIs == ASSUME image \in ElfImages, NEW x PROVE LastNamed(x) \in Nat
<1>1. PICK y \in Nat : y = Yielded
  BY YieldedIs, ImageIs
<1>2. Named(x) \subseteq 1 .. y
  BY <1>1 DEF Named
<1>3. Named(x) # {} => Max(Named(x)) \in 1 .. y
  BY <1>1, <1>2, MaxIsOne
<1>4. QED
  BY <1>3 DEF LastNamed, NoSection

\* What get_section_by_name() answers for x.
AnswerSound(n, x) ==
  /\ n = Raised => Yielded < SecCount
  /\ n # Raised => n = LastNamed(x)

\* Entry e for the i-th debug section leaves nothing out.
EntryWhole(e, i) ==
  /\ e[1] = LastNamed(DebugNames[i])
  /\ e[1] # NoSection =>
       e[2] = IF RelocsFor(DebugNames[i]) = {} THEN NoSection ELSE Min(RelocsFor(DebugNames[i]))

\* What calls by name have left behind.
NamesSound ==
  /\ image \in ElfImages
  /\ SectionMapSound
  /\ asked # << >> => AnswerSound(answer, asked)

\* The debug sections found so far.
DebugSound ==
  /\ dwarf \in Seq(Int \X Int) /\ Len(dwarf) <= Len(DebugNames)
  /\ esPc # "dwarf" => dwarf = << >> \/ Len(dwarf) = Len(DebugNames)
  /\ \A i \in 1 .. Len(dwarf) : EntryWhole(dwarf[i], i)

\* The inductive invariant of the sections.
SecInv == NamesSound /\ DebugSound

\* What a call by name answers: the last section of the name, if it returns.
LEMMA FindsLast ==
  ASSUME SecInv, NEW x
  PROVE  /\ SecnumOf(x) = LastNamed(x) /\ SecnumOf(x) \in Nat
         /\ RaisesNow => Yielded < SecCount
<1>1. image \in ElfImages /\ SectionMapSound
  BY DEF SecInv, NamesSound
<1>2. SecnumOf(x) = LastNamed(x)
  BY <1>1, LooksUp, LedToLast
<1>3. QED
  BY <1>1, <1>2, LastNamedIs DEF RaisesNow

\* What is said of the file alone goes on being true of it.
LEMMA ImageStays ==
  ASSUME image' = image
  PROVE  /\ SecCount' = SecCount /\ Yielded' = Yielded
         /\ \A n : MapOf(n)' = MapOf(n)
         /\ \A n, x : AnswerSound(n, x)' <=> AnswerSound(n, x)
         /\ \A e, i : EntryWhole(e, i)' <=> EntryWhole(e, i)
<1>1. SecCount' = SecCount /\ \A n : SectionName(n)' = SectionName(n)
  BY DEF SecCount, SectionName, GetString
<1>2. \A n : (IsReloc(n)' <=> IsReloc(n)) /\ (IsSymtab(n)' <=> IsSymtab(n)) /\ (EntriesOk(n)' <=> EntriesOk(n))
  BY DEF IsReloc, IsSymtab, EntriesOk
<1>3. ASSUME NEW n, NEW i PROVE LinkAfter(n, i)' = LinkAfter(n, i)
  BY DEF LinkAfter, IsSymtab
<1>4. \A n : MadeWith(n)' = MadeWith(n)
  BY <1>3 DEF MadeWith
<1>5. \A n : CanMake(n)' <=> CanMake(n)
  BY <1>2, <1>4 DEF CanMake
<1>6. Yielded' = Yielded
  BY <1>1, <1>5 DEF Yielded
<1>7. \A n : MapOf(n)' = MapOf(n)
  BY <1>1 DEF MapOf
<1>8. \A x : Named(x)' = Named(x)
  BY <1>1, <1>6 DEF Named
<1>9. \A x : LastNamed(x)' = LastNamed(x)
  BY <1>8 DEF LastNamed
<1>10. \A n, x : AnswerSound(n, x)' <=> AnswerSound(n, x)
  BY <1>1, <1>6, <1>9 DEF AnswerSound
<1>11. \A x : RelocsFor(x)' = RelocsFor(x)
  BY <1>1, <1>2 DEF RelocsFor
<1>12. \A e, i : EntryWhole(e, i)' <=> EntryWhole(e, i)
  BY <1>9, <1>11 DEF EntryWhole
<1>13. QED
  BY <1>1, <1>6, <1>7, <1>10, <1>12

\* Before the file is read.
LEMMA SecInitInv == ASSUME SecInit PROVE SecInv
<1>1. image \in ElfImages /\ nameMap = NoMap /\ asked = << >> /\ dwarf = << >>
  BY DEF SecInit
<1>2. dwarf \in Seq(Int \X Int) /\ Len(dwarf) = 0 /\ Len(DebugNames) \in Nat
  BY <1>1, ElfSectionsAssumption
<1>3. 1 .. Len(dwarf) = {}
  BY <1>2
<1>4. NamesSound
  BY <1>1 DEF NamesSound, SectionMapSound
<1>5. DebugSound
  BY <1>1, <1>2, <1>3 DEF DebugSound
<1>6. QED
  BY <1>4, <1>5 DEF SecInv

\* A step that asks for no name.
LEMMA NamesStay ==
  ASSUME SecInv, UNCHANGED << image, nameMap, asked, answer >>
  PROVE  NamesSound'
<1>1. image' = image /\ nameMap' = nameMap /\ asked' = asked /\ answer' = answer
  OBVIOUS
<1>2. NamesSound
  BY DEF SecInv
<1>3. /\ Yielded' = Yielded
      /\ \A n : MapOf(n)' = MapOf(n)
      /\ \A n, x : AnswerSound(n, x)' <=> AnswerSound(n, x)
  BY <1>1, ImageStays
<1>4. SectionMapSound'
  BY <1>1, <1>2, <1>3 DEF SectionMapSound, NamesSound
<1>5. AnswerSound(answer, asked)' <=> AnswerSound(answer, asked)
  BY <1>1, <1>3
<1>6. QED
  BY <1>1, <1>2, <1>4, <1>5 DEF NamesSound

\* A step that asks for x, as GetSectionByName and DebugSection do.
LEMMA NamesAsked ==
  ASSUME SecInv, NEW x, image' = image, nameMap' = MapNow, asked' = x,
         answer' = (IF RaisesNow THEN Raised ELSE SecnumOf(x))
  PROVE  NamesSound'
<1>1. image \in ElfImages /\ SectionMapSound
  BY DEF SecInv, NamesSound
<1>2. /\ Yielded' = Yielded
      /\ \A n : MapOf(n)' = MapOf(n)
      /\ \A n, y : AnswerSound(n, y)' <=> AnswerSound(n, y)
  BY ImageStays
<1>3. nameMap' = MapOf(Yielded)
  BY <1>1, LooksUp
<1>4. SectionMapSound'
  BY <1>2, <1>3 DEF SectionMapSound
<1>5. PICK n : n = (IF RaisesNow THEN Raised ELSE SecnumOf(x))
  OBVIOUS
<1>6. AnswerSound(n, x)
  BY <1>5, FindsLast DEF AnswerSound, Raised
<1>7. AnswerSound(answer, asked)'
  BY <1>2, <1>5, <1>6
<1>8. QED
  BY <1>1, <1>4, <1>7 DEF NamesSound

\* A step that leaves the debug sections alone.
LEMMA DebugStays ==
  ASSUME SecInv, image' = image, dwarf' = dwarf,
         esPc' # "dwarf" => esPc # "dwarf" \/ Len(dwarf) = Len(DebugNames)
  PROVE  DebugSound'
<1>1. DebugSound
  BY DEF SecInv
<1>2. \A e, i : EntryWhole(e, i)' <=> EntryWhole(e, i)
  BY ImageStays
<1>3. \A i \in 1 .. Len(dwarf') : EntryWhole(dwarf'[i], i)
  BY <1>1 DEF DebugSound
<1>4. \A i \in 1 .. Len(dwarf') : EntryWhole(dwarf[i], i)'
  BY <1>2, <1>3
<1>5. QED
  BY <1>1, <1>4 DEF DebugSound

\* find_relocations_for_section() raises, or finds the first there are.
LEMMA RelocationsFound ==
  ASSUME image \in ElfImages, NEW x
  PROVE  /\ FindRelocations(x) \in Int
         /\ FindRelocations(x) # Raised =>
              FindRelocations(x) = IF RelocsFor(x) = {} THEN NoSection ELSE Min(RelocsFor(x))
<1>1. PICK n, R : n \in Nat /\ n = SecCount /\ R = RelocsFor(x) /\ R \subseteq 1 .. n
  BY ImageIs DEF RelocsFor
<1>2. PICK f : f = (IF R = {} THEN n + 1 ELSE Min(R))
  OBVIOUS
<1>3. R # {} => Min(R) \in R
  <2>1. R \subseteq Nat
    BY <1>1
  <2>2. QED
    BY <2>1, MinIsLeast
<1>4. f \in 1 .. n + 1 /\ (R = {} <=> f = n + 1) /\ (R # {} => f = Min(R))
  BY <1>1, <1>2, <1>3
<1>5. FindRelocations(x) = IF Yielded < Min({f, n}) THEN Raised ELSE IF f > n THEN NoSection ELSE f
  BY <1>1, <1>2 DEF FindRelocations
<1>6. FindRelocations(x) \in Int
  BY <1>1, <1>4, <1>5 DEF NoSection, Raised
<1>7. FindRelocations(x) # Raised => FindRelocations(x) = IF R = {} THEN NoSection ELSE Min(R)
  <2>1. f > n <=> R = {}
    BY <1>1, <1>4
  <2>2. QED
    BY <1>4, <1>5, <2>1
<1>8. QED
  BY <1>1, <1>6, <1>7

\* One debug section more.
LEMMA DebugFound ==
  ASSUME SecInv, DebugSection
  PROVE  DebugSound'
<1>1. PICK n, x, s, r :
        /\ n = Len(dwarf) + 1 /\ x = DebugNames[n]
        /\ s = (IF RaisesNow THEN Raised ELSE SecnumOf(x))
        /\ r = (IF s \in {Raised, NoSection} THEN NoSection ELSE FindRelocations(x))
        /\ image' = image /\ esPc = "dwarf" /\ Len(dwarf) < Len(DebugNames)
        /\ IF Raised \in {s, r}
             THEN esPc' = "open" /\ dwarf' = << >>
             ELSE dwarf' = Append(dwarf, << s, r >>) /\ esPc' = esPc
  BY DEF DebugSection
<1>2. /\ dwarf \in Seq(Int \X Int) /\ Len(dwarf) \in Nat /\ Len(DebugNames) \in Nat
      /\ \A i \in 1 .. Len(dwarf) : EntryWhole(dwarf[i], i)
      /\ image \in ElfImages
  BY ElfSectionsAssumption DEF SecInv, NamesSound, DebugSound
<1>3. CASE Raised \in {s, r}
  <2>1. dwarf' = << >>
    BY <1>1, <1>3
  <2>2. dwarf' \in Seq(Int \X Int) /\ Len(dwarf') = 0 /\ 1 .. Len(dwarf') = {}
    BY <2>1
  <2>3. QED
    BY <1>2, <2>1, <2>2 DEF DebugSound
<1>4. CASE Raised \notin {s, r}
  <2>1. dwarf' = Append(dwarf, << s, r >>) /\ esPc' = "dwarf"
    BY <1>1, <1>4
  <2>2. s = LastNamed(x) /\ s \in Nat
    BY <1>1, <1>4, FindsLast
  <2>3. r \in Int
    BY <1>1, <1>2, RelocationsFound DEF NoSection
  <2>4. s # NoSection => r = IF RelocsFor(x) = {} THEN NoSection ELSE Min(RelocsFor(x))
    BY <1>1, <1>2, <1>4, RelocationsFound
  <2>5. PICK e, d : e = << s, r >> /\ d = dwarf /\ e \in Int \X Int /\ dwarf' = Append(d, e)
    BY <2>1, <2>2, <2>3
  <2>6. EntryWhole(e, n)
    <3>1. e[1] = s /\ e[2] = r
      BY <2>5
    <3>2. QED
      BY <1>1, <2>2, <2>4, <3>1 DEF EntryWhole
  <2>7. /\ dwarf' \in Seq(Int \X Int) /\ Len(dwarf') = n /\ dwarf'[n] = e
        /\ \A i \in 1 .. n - 1 : dwarf'[i] = dwarf[i]
    <3>1. d \in Seq(Int \X Int) /\ n = Len(d) + 1 /\ n - 1 = Len(d)
      BY <1>1, <1>2, <2>5
    <3>2. /\ Append(d, e) \in Seq(Int \X Int) /\ Len(Append(d, e)) = Len(d) + 1
          /\ \A i \in 1 .. Len(d) : Append(d, e)[i] = d[i]
          /\ Append(d, e)[Len(d) + 1] = e
      BY <2>5, <3>1, AppendProperties
    <3>3. QED
      BY <2>5, <3>1, <3>2
  <2>8. ASSUME NEW i \in 1 .. n PROVE EntryWhole(dwarf'[i], i)
    <3>1. CASE i = n
      BY <2>6, <2>7, <3>1
    <3>2. CASE i # n
      <4>1. i \in 1 .. Len(dwarf) /\ i \in 1 .. n - 1
        BY <1>1, <1>2, <3>2
      <4>2. QED
        BY <1>2, <2>7, <4>1
    <3>3. QED
      BY <3>1, <3>2
  <2>9. \A y, i : EntryWhole(y, i)' <=> EntryWhole(y, i)
    BY <1>1, ImageStays
  <2>10. \A i \in 1 .. Len(dwarf') : EntryWhole(dwarf[i], i)'
    BY <2>7, <2>8, <2>9
  <2>11. Len(dwarf') <= Len(DebugNames)
    BY <1>1, <1>2, <2>7
  <2>12. QED
    BY <2>1, <2>7, <2>10, <2>11 DEF DebugSound
<1>5. QED
  BY <1>3, <1>4

\* Every step preserves the invariant.
LEMMA SecStepInv == ASSUME SecInv, [SecNext]_esVars PROVE SecInv'
<1>1. CASE UNCHANGED esVars
  <2>1. UNCHANGED << image, nameMap, asked, answer >> /\ dwarf' = dwarf /\ esPc' = esPc
    BY <1>1 DEF esVars
  <2>2. QED
    BY <2>1, NamesStay, DebugStays DEF SecInv
<1>2. CASE OpenFile
  <2>1. UNCHANGED << image, nameMap, asked, answer >> /\ dwarf' = dwarf /\ esPc # "dwarf"
    BY <1>2 DEF OpenFile
  <2>2. QED
    BY <2>1, NamesStay, DebugStays DEF SecInv
<1>3. ASSUME NEW x \in AskedNames, GetSectionByName(x) PROVE SecInv'
  <2>1. /\ image' = image /\ nameMap' = MapNow /\ asked' = x
        /\ answer' = (IF RaisesNow THEN Raised ELSE SecnumOf(x))
        /\ dwarf' = dwarf /\ esPc # "dwarf"
    BY <1>3 DEF GetSectionByName
  <2>2. NamesSound'
    BY <2>1, NamesAsked
  <2>3. DebugSound'
    BY <2>1, DebugStays
  <2>4. QED
    BY <2>2, <2>3 DEF SecInv
<1>4. CASE GetDwarfInfo
  <2>1. UNCHANGED << image, nameMap, asked, answer >> /\ dwarf' = << >> /\ esPc' = "dwarf"
    BY <1>4 DEF GetDwarfInfo
  <2>2. dwarf' \in Seq(Int \X Int) /\ Len(dwarf') = 0 /\ Len(DebugNames) \in Nat /\ 1 .. Len(dwarf') = {}
    BY <2>1, ElfSectionsAssumption
  <2>3. DebugSound'
    BY <2>1, <2>2 DEF DebugSound
  <2>4. QED
    BY <2>1, <2>3, NamesStay DEF SecInv
<1>5. CASE DebugSection
  <2>1. PICK x :
          /\ image' = image /\ nameMap' = MapNow /\ asked' = x
          /\ answer' = (IF RaisesNow THEN Raised ELSE SecnumOf(x))
    BY <1>5 DEF DebugSection
  <2>2. NamesSound'
    BY <2>1, NamesAsked
  <2>3. QED
    BY <1>5, <2>2, DebugFound DEF SecInv
<1>6. CASE DwarfReturns
  <2>1. UNCHANGED << image, nameMap, asked, answer >> /\ dwarf' = dwarf /\ Len(dwarf) = Len(DebugNames)
    BY <1>6 DEF DwarfReturns
  <2>2. QED
    BY <2>1, NamesStay, DebugStays DEF SecInv
<1>7. QED
  BY <1>1, <1>2, <1>3, <1>4, <1>5, <1>6 DEF SecNext

\* The invariant says what the properties say.
LEMMA SecInvMeans == ASSUME SecInv PROVE ByNameIsNamed /\ DwarfIsWhole
<1>1. ByNameIsNamed
  BY DEF SecInv, NamesSound, AnswerSound, ByNameIsNamed
<1>2. ASSUME esPc = "open", dwarf # << >>, NEW i \in DOMAIN DebugNames PROVE EntryWhole(dwarf[i], i)
  <2>1. DOMAIN DebugNames = 1 .. Len(DebugNames) /\ Len(dwarf) = Len(DebugNames)
    BY <1>2, ElfSectionsAssumption DEF SecInv, DebugSound
  <2>2. QED
    BY <1>2, <2>1 DEF SecInv, DebugSound
<1>3. DwarfIsWhole
  BY <1>2 DEF DwarfIsWhole, EntryWhole
<1>4. QED
  BY <1>1, <1>3

\* get_section_by_name() returns the last section of the name among those that
\* iter_sections() yields, whatever raised before; a get_dwarf_info() that returns
\* has left out no debug section and no relocations of one; a string is all that
\* stands before its end; segments that share no address share no section: for
\* every file, every size of chunks and every sequence of calls.
THEOREM SectionsAreFound ==
  SecSpec => [](ByNameIsNamed /\ DwarfIsWhole /\ StringsWhole /\ SegmentsShareNothing)
<1>1. SecInit => SecInv
  BY SecInitInv
<1>2. SecInv /\ [SecNext]_esVars => SecInv'
  BY SecStepInv
<1>3. SecInv => ByNameIsNamed /\ DwarfIsWhole /\ StringsWhole /\ SegmentsShareNothing
  <2>1. SecInv => image \in ElfImages
    BY DEF SecInv, NamesSound
  <2>2. QED
    BY <2>1, SecInvMeans, StringsAreWhole, SegmentsApart
<1>4. QED
  BY <1>1, <1>2, <1>3, PTL DEF SecSpec

\* Sections are found by name, whole, in the segments they lie in, and their
\* copies hold what the ABI says, overlapping relocations included, while both go on.
THEOREM SectionsStayExact == ElfSpec /\ SecSpec => []SectionsExact
<1>1. RelocatedAsSpecified /\ ByNameIsNamed /\ DwarfIsWhole /\ StringsWhole /\ SegmentsShareNothing => SectionsExact
  BY DEF SectionsExact
<1>2. QED
  BY <1>1, CopiesAreRelocated, SectionsAreFound, PTL
=============================================================================
