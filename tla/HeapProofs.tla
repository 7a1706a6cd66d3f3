----------------------------- MODULE HeapProofs -----------------------------
(***************************************************************************)
(* Theorems about the memory of the kernel: first, what the allocators     *)
(* below the heap do; then the slab cache, alone and in the heap.          *)
(***************************************************************************)
EXTENDS Heap, FiniteSetTheorems, WellFoundedInduction, TLAPS

-----------------------------------------------------------------------------
(***************************************************************************)
(* What the memory allocators do, for every size: the buddy allocator, the *)
(* zones of physical memory and the kernel's addresses.  They are pure     *)
(* operators, so the lemmas state what each takes and returns.             *)
(*                                                                         *)
(* A buddy allocator is sound when each page is in at most one free node,  *)
(* each node lies within the allocator, and the bit of a pair of buddies   *)
(* is set just when one of the two is free (SoundBuddy).  Halving a block  *)
(* and merging two keeps that, and changes which pages are free by just    *)
(* the block asked for or given back (AllocTakes, FreeGives): that holds   *)
(* only because free pages are in one node each, and a pair never has both *)
(* of its buddies free.  Loops of the code are recursive functions here;   *)
(* IteratesExist and IteratesStay are the inductions over them.            *)
(***************************************************************************)

-----------------------------------------------------------------------------
\* Numbers, and powers of two

\* A set of numbers has a least one.
LEMMA LeastNumber ==
  ASSUME NEW S \in SUBSET Nat, S # {} PROVE \E n \in S : \A i \in S : n <= i
<1> DEFINE R == OpToRel(<, Nat)
<1>1. IsWellFoundedOn(R, Nat)
  BY NatLessThanWellFounded
<1>2. \A i, j \in Nat : i < j => << i, j >> \in R
  BY DEF OpToRel
<1> HIDE DEF R
<1>3. PICK n \in S : \A i \in S : << i, n >> \notin R
  BY <1>1, WFMin
<1>4. ASSUME NEW i \in S PROVE n <= i
  <2>1. i \in Nat /\ n \in Nat /\ << i, n >> \notin R
    BY <1>3
  <2>2. ~(i < n)
    BY <1>2, <2>1
  <2>3. QED
    BY <2>1, <2>2
<1>5. QED
  BY <1>3, <1>4

\* Induction, for a set of numbers.
LEMMA NumbersFrom0 ==
  ASSUME NEW S, 0 \in S, \A n \in Nat : n \in S => n + 1 \in S PROVE Nat \subseteq S
<1> SUFFICES ASSUME Nat \ S # {} PROVE FALSE
  OBVIOUS
<1>1. PICK n \in Nat \ S : \A i \in Nat \ S : n <= i
  BY LeastNumber
<1>2. n # 0 /\ n - 1 \in Nat /\ ~(n <= n - 1)
  OBVIOUS
<1>3. n - 1 \in S
  BY <1>1, <1>2
<1>4. QED
  BY <1>1, <1>2, <1>3

\* A finite stretch of numbers has a greatest one.
LEMMA GreatestNumber ==
  ASSUME NEW m \in Nat, NEW S \in SUBSET (0 .. m), S # {} PROVE \E n \in S : \A i \in S : i <= n
<1> DEFINE T == { k \in Nat : \A i \in S : i <= k }
<1>1. m \in T
  OBVIOUS
<1>2. PICK k \in T : \A j \in T : k <= j
  BY <1>1, LeastNumber
<1>3. CASE k \in S
  BY <1>2, <1>3
<1>4. CASE k \notin S
  <2>1. k \in Nat /\ \A i \in S : i <= k /\ i # k /\ i \in Nat
    BY <1>2, <1>4
  <2>2. k # 0
    <3>1. PICK i : i \in S
      OBVIOUS
    <3>2. QED
      BY <2>1, <3>1
  <2>3. k - 1 \in Nat /\ ~(k <= k - 1) /\ \A i \in S : i <= k - 1
    BY <2>1, <2>2
  <2>4. k - 1 \in T
    BY <2>3
  <2>5. QED
    BY <1>2, <2>3, <2>4
<1>5. QED
  BY <1>3, <1>4

\* Powers of two.
LEMMA Power0 == 2^0 = 1
<1>1. SUBSET {} = {{}}
  OBVIOUS
<1>2. Cardinality(SUBSET {}) = 1
  BY <1>1, FS_Singleton
<1>3. IsFiniteSet({}) /\ Cardinality({}) = 0
  BY FS_EmptySet
<1>4. QED
  BY <1>2, <1>3, FS_SUBSET

\* One more order doubles the block.
LEMMA PowerNext == ASSUME NEW n \in Nat PROVE 2^(n + 1) = 2 * 2^n /\ 2^n \in Nat
<1> DEFINE A == SUBSET (1 .. n)
           B == { x \cup {n + 1} : x \in A }
<1>1. /\ IsFiniteSet(1 .. n) /\ Cardinality(1 .. n) = n
      /\ IsFiniteSet(1 .. n + 1) /\ Cardinality(1 .. n + 1) = n + 1
  BY FS_Interval
<1>2. /\ IsFiniteSet(A) /\ Cardinality(A) = 2^n
      /\ Cardinality(SUBSET (1 .. n + 1)) = 2^(n + 1)
  BY <1>1, FS_SUBSET
<1>3. SUBSET (1 .. n + 1) = A \cup B
  <2>1. ASSUME NEW y \in SUBSET (1 .. n + 1) PROVE y \in A \cup B
    <3>1. CASE n + 1 \in y
      <4>1. y \ {n + 1} \in A /\ y = (y \ {n + 1}) \cup {n + 1}
        BY <3>1
      <4>2. QED
        BY <4>1
    <3>2. CASE n + 1 \notin y
      BY <3>2
    <3>3. QED
      BY <3>1, <3>2
  <2>2. ASSUME NEW x \in A PROVE x \in SUBSET (1 .. n + 1) /\ x \cup {n + 1} \in SUBSET (1 .. n + 1)
    <3>1. \A i \in 1 .. n : i \in 1 .. n + 1
      OBVIOUS
    <3>2. n + 1 \in 1 .. n + 1
      OBVIOUS
    <3>3. \A i \in x : i \in 1 .. n
      OBVIOUS
    <3>4. QED
      BY <3>1, <3>2, <3>3
  <2>3. ASSUME NEW y \in A \cup B PROVE y \in SUBSET (1 .. n + 1)
    <3>1. CASE y \in A
      BY <2>2, <3>1
    <3>2. CASE y \in B
      <4>1. PICK x \in A : y = x \cup {n + 1}
        BY <3>2
      <4>2. QED
        BY <2>2, <4>1
    <3>3. QED
      BY <3>1, <3>2
  <2> HIDE DEF A, B
  <2>4. QED
    BY <2>1, <2>3
<1>4. A \cap B = {}
  <2>1. \A x \in A : n + 1 \notin x
    <3>1. \A i \in 1 .. n : i # n + 1
      OBVIOUS
    <3>2. n + 1 \notin 1 .. n
      BY <3>1
    <3> SUFFICES ASSUME NEW x \in A PROVE n + 1 \notin x
      OBVIOUS
    <3>3. x \subseteq 1 .. n
      OBVIOUS
    <3>4. QED
      BY <3>2, <3>3
  <2>2. \A y \in B : n + 1 \in y
    OBVIOUS
  <2>3. QED
    BY <2>1, <2>2
<1>5. IsFiniteSet(B) /\ Cardinality(B) = Cardinality(A)
  <2> DEFINE f == [x \in A |-> x \cup {n + 1}]
  <2>1. f \in [A -> B]
    OBVIOUS
  <2>2. ASSUME NEW x \in A, NEW y \in A, f[x] = f[y] PROVE x = y
    <3>1. x = f[x] \ {n + 1} /\ y = f[y] \ {n + 1}
      <4>1. \A i \in 1 .. n : i # n + 1
        OBVIOUS
      <4>3. n + 1 \notin x /\ n + 1 \notin y
        BY <4>1
      <4>2. QED
        BY <4>3
    <3>2. QED
      BY <2>2, <3>1
  <2>3. \A y \in B : \E x \in A : f[x] = y
    OBVIOUS
  <2>4. f \in Bijection(A, B)
    BY <2>1, <2>2, <2>3 DEF Bijection, Injection, Surjection, IsInjective
  <2>5. QED
    BY <1>2, <2>4, FS_Bijection DEF ExistsBijection
<1>6. Cardinality(A \cup B) = Cardinality(A) + Cardinality(B) - Cardinality(A \cap B)
  BY <1>2, <1>5, FS_Union
<1>7. Cardinality(A) \in Nat /\ Cardinality(A \cap B) = 0
  BY <1>2, <1>4, FS_CardinalityType, FS_EmptySet
<1>8. PICK c \in Nat : c = Cardinality(A)
  BY <1>7
<1>9. 2^(n + 1) = c + c - 0 /\ 2^n = c
  BY <1>2, <1>3, <1>5, <1>6, <1>7, <1>8
<1>10. QED
  BY <1>9

\* They are positive.
LEMMA PowersArePositive == \A n \in Nat : 2^n \in Nat \ {0}
<1> DEFINE S == { n \in Nat : 2^n \in Nat \ {0} }
<1>1. 0 \in S
  BY Power0
<1>2. \A n \in Nat : n \in S => n + 1 \in S
  BY PowerNext
<1>3. Nat \subseteq S
  BY <1>1, <1>2, NumbersFrom0
<1>4. QED
  BY <1>3

\* log2_roundup() is enough.
LEMMA RoundedUp == ASSUME NEW n \in Nat PROVE Log2Roundup(n) \in 0 .. n /\ 2^Log2Roundup(n) >= n
<1> DEFINE S == { k \in Nat : 2^k >= k }
           T == { k \in 0 .. n : 2^k >= n }
<1>1. 0 \in S
  BY Power0
<1>2. ASSUME NEW k \in Nat, k \in S PROVE k + 1 \in S
  <2>1. PICK x \in Nat \ {0} : x = 2^k
    BY PowersArePositive
  <2>2. 2^(k + 1) = 2 * x /\ x >= k
    BY <1>2, <2>1, PowerNext
  <2>3. 2 * x >= k + 1
    BY <2>1, <2>2
  <2>4. QED
    BY <2>2, <2>3
<1>3. Nat \subseteq S
  BY <1>1, <1>2, NumbersFrom0
<1>4. n \in T /\ T \in SUBSET Nat
  BY <1>3
<1>5. PICK o \in T : \A k \in T : o <= k
  BY <1>4, LeastNumber
<1>6. \E k \in 0 .. n : 2^k >= n /\ \A j \in 0 .. n : 2^j >= n => k <= j
  BY <1>5
<1>7. QED
  BY <1>6 DEF Log2Roundup

-----------------------------------------------------------------------------
\* Blocks and buddies

\* The node of order j that page p lies in.
Up(p, j) == p \div 2^j

\* p is the first page of its node of order j.
Aligned(p, j) == p = Up(p, j) * 2^j

\* The node above is half its number.
LEMMA UpNext ==
  ASSUME NEW p \in Nat, NEW j \in Nat
  PROVE  Up(p, j) \in Nat /\ Up(p, j + 1) = Up(p, j) \div 2 /\ Up(p, 0) = p
<1>1. 2^(j + 1) = 2 * 2^j /\ 2^j \in Nat \ {0} /\ 2^0 = 1
  BY PowerNext, PowersArePositive, Power0
<1>2. PICK x \in Nat \ {0} : x = 2^j
  BY <1>1
<1>3. p \div (2 * x) = (p \div x) \div 2 /\ p \div x \in Nat
  OBVIOUS
<1>4. p \div 1 = p
  OBVIOUS
<1>5. QED
  BY <1>1, <1>2, <1>3, <1>4 DEF Up

\* The first page of node i.
LEMMA FirstPage ==
  ASSUME NEW i \in Nat, NEW j \in Nat PROVE i * 2^j \in Nat /\ Up(i * 2^j, j) = i /\ Aligned(i * 2^j, j)
<1>1. PICK x \in Nat \ {0} : x = 2^j
  BY PowersArePositive
<1>2. i * x \in Nat /\ (i * x) \div x = i
  OBVIOUS
<1>3. QED
  BY <1>1, <1>2 DEF Up, Aligned

\* The pages of a block are those of its node.
LEMMA BlockIsNode ==
  ASSUME NEW a \in Nat, NEW o \in Nat, Aligned(a, o), NEW p \in Nat
  PROVE  p \in a .. a + 2^o - 1 <=> Up(p, o) = Up(a, o)
<1>1. PICK x \in Nat \ {0} : x = 2^o
  BY PowersArePositive
<1>2. PICK i \in Nat : i = Up(a, o)
  BY UpNext
<1>3. a = i * x
  BY <1>1, <1>2 DEF Aligned
<1>4. p \in i * x .. i * x + x - 1 <=> p \div x = i
  OBVIOUS
<1>5. QED
  BY <1>1, <1>2, <1>3, <1>4 DEF Up

\* A block that is aligned for an order is aligned for the orders below, and
\* is the first half of each node but the last.
LEMMA AlignedBelow ==
  ASSUME NEW a \in Nat, NEW k \in Nat, Aligned(a, k)
  PROVE  \A j \in 0 .. k : Aligned(a, j) /\ (j < k => Up(a, j) % 2 = 0)
<1> DEFINE S == { n \in Nat : n <= k => Aligned(a, k - n) /\ (n > 0 => Up(a, k - n) % 2 = 0) }
<1>1. 0 \in S
  OBVIOUS
<1>2. ASSUME NEW n \in Nat, n \in S PROVE n + 1 \in S
  <2> SUFFICES ASSUME n + 1 <= k PROVE Aligned(a, k - (n + 1)) /\ Up(a, k - (n + 1)) % 2 = 0
    OBVIOUS
  <2>1. PICK j \in Nat : j = k - (n + 1) /\ j + 1 = k - n
    OBVIOUS
  <2>2. Aligned(a, j + 1)
    BY <1>2, <2>1
  <2>3. PICK i \in Nat : i = Up(a, j + 1)
    BY UpNext
  <2>4. a = i * 2^(j + 1) /\ 2^(j + 1) = 2 * 2^j /\ 2^j \in Nat
    BY <2>2, <2>3, PowerNext DEF Aligned
  <2>5. a = (2 * i) * 2^j
    BY <2>4
  <2>6. PICK m \in Nat : m = 2 * i
    OBVIOUS
  <2>7. Up(a, j) = m /\ Aligned(a, j)
    BY <2>5, <2>6, FirstPage
  <2>8. m % 2 = 0
    BY <2>6
  <2>9. QED
    BY <2>1, <2>7, <2>8
<1>3. Nat \subseteq S
  BY <1>1, <1>2, NumbersFrom0
<1>4. ASSUME NEW j \in 0 .. k PROVE Aligned(a, j) /\ (j < k => Up(a, j) % 2 = 0)
  <2> HIDE DEF S
  <2>1. PICK n \in Nat : n = k - j
    OBVIOUS
  <2>4. n \in S
    BY <1>3
  <2>2. k - n = j /\ n <= k /\ (j < k => n > 0)
    BY <2>1
  <2>3. QED
    BY <2>2, <2>4 DEF S
<1>5. QED
  BY <1>4

\* Pages that share a node share the nodes above.
LEMMA SharedAbove ==
  ASSUME NEW p \in Nat, NEW q \in Nat, NEW j \in Nat, Up(p, j) = Up(q, j), NEW k \in Nat, j <= k
  PROVE  Up(p, k) = Up(q, k)
<1> DEFINE S == { n \in Nat : Up(p, j + n) = Up(q, j + n) }
<1>1. 0 \in S
  OBVIOUS
<1>2. ASSUME NEW n \in Nat, n \in S PROVE n + 1 \in S
  <2>1. PICK m \in Nat : m = j + n
    OBVIOUS
  <2>2. Up(p, m + 1) = Up(q, m + 1)
    BY <1>2, <2>1, UpNext
  <2>3. QED
    BY <2>1, <2>2
<1>3. Nat \subseteq S
  BY <1>1, <1>2, NumbersFrom0
<1>4. PICK n \in Nat : n = k - j /\ j + n = k
  OBVIOUS
<1>5. QED
  BY <1>3, <1>4

\* Buddies are two nodes under one.
LEMMA BuddiesMeet ==
  ASSUME NEW p \in Nat, NEW q \in Nat, NEW j \in Nat
  PROVE  Up(p, j) = BuddyOf(Up(q, j)) <=> Up(p, j) # Up(q, j) /\ Up(p, j + 1) = Up(q, j + 1)
<1>1. PICK x \in Nat, y \in Nat : x = Up(p, j) /\ y = Up(q, j)
  BY UpNext
<1>2. x = BuddyOf(y) <=> x # y /\ x \div 2 = y \div 2
  BY DEF BuddyOf
<1>3. Up(p, j + 1) = x \div 2 /\ Up(q, j + 1) = y \div 2
  BY <1>1, UpNext
<1>4. QED
  BY <1>1, <1>2, <1>3

\* Of the nodes of q of orders o to k - 1, exactly one has p in its buddy.
InOneBuddy(p, q, o, k) ==
  \E j \in o .. k - 1 : \A i \in o .. k - 1 : Up(p, i) = BuddyOf(Up(q, i)) <=> i = j

\* A page that shares a node of order k with another, but not that of order
\* o, lies in the buddy of exactly one of the nodes of the other between.
LEMMA OneBuddy ==
  ASSUME NEW p \in Nat, NEW q \in Nat, NEW o \in Nat, NEW k \in Nat, o <= k, 
         Up(p, k) = Up(q, k), Up(p, o) # Up(q, o)
  PROVE  InOneBuddy(p, q, o, k)
<1> DEFINE S == { i \in 0 .. k : Up(p, i) # Up(q, i) }
<1>1. o \in S
  OBVIOUS
<1>2. PICK j \in S : \A i \in S : i <= j
  BY <1>1, GreatestNumber
<1>3. j \in o .. k - 1 /\ j + 1 \in 0 .. k /\ j \in Nat
  BY <1>1, <1>2
<1>4. Up(p, j) # Up(q, j) /\ Up(p, j + 1) = Up(q, j + 1)
  BY <1>2, <1>3
<1>5. ASSUME NEW i \in o .. k - 1 PROVE Up(p, i) = BuddyOf(Up(q, i)) <=> i = j
  <2>1. i \in Nat /\ i + 1 \in Nat
    OBVIOUS
  <2>2. i < j => Up(p, i + 1) # Up(q, i + 1)
    BY <1>3, <1>4, <2>1, SharedAbove
  <2>3. i > j => Up(p, i) = Up(q, i)
    BY <1>3, <1>4, <2>1, SharedAbove
  <2>4. QED
    BY <1>3, <1>4, <2>1, <2>2, <2>3, BuddiesMeet
<1>6. QED
  BY <1>3, <1>5 DEF InOneBuddy

-----------------------------------------------------------------------------
\* buddy_alloc()

\* Page p is free.
IsFree(b, p) == \E j \in Orders : Up(p, j) \in b.orders[j]

\* The bitmaps of an allocator: free nodes lie in its memory, no page is in two
\* of them, and buddies are merged.
SoundBuddy(b) ==
  /\ b \in [size : Nat, orders : [Orders -> SUBSET Nat]]
  /\ \A p \in Nat, j \in Orders : Up(p, j) \in b.orders[j] => p < b.size
  /\ \A p \in Nat, j, k \in Orders : Up(p, j) \in b.orders[j] /\ Up(p, k) \in b.orders[k] => j = k
  /\ \A j \in Orders : j < MaxOrder => \A i \in b.orders[j] : BuddyOf(i) \notin b.orders[j]

\* The block of order k that buddy_alloc() finds.
LEMMA BlockFound ==
  ASSUME NEW b, SoundBuddy(b), NEW o \in Orders, CanAlloc(b, o)
  PROVE  \E k \in o .. MaxOrder, i \in Nat :
           /\ k = OrderTaken(b, o) /\ i = FirstSet(b, k) /\ i \in b.orders[k]
           /\ BuddyAddress(b, o) \in Nat /\ Aligned(BuddyAddress(b, o), k)
           /\ Up(BuddyAddress(b, o), k) = i
<1> DEFINE K == { k \in o .. MaxOrder : HasFirstSet(b, k) }
<1>1. MaxOrder \in Nat /\ o \in Nat
  BY BuddyAssumption DEF Orders
<1>2. K # {} /\ K \in SUBSET Nat
  BY <1>1 DEF CanAlloc
<1>3. PICK k0 \in K : \A j \in K : k0 <= j
  BY <1>2, LeastNumber
<1>4. \A j \in o .. k0 - 1 : ~HasFirstSet(b, j)
  BY <1>1, <1>3
<1>5. \E k \in o .. MaxOrder : HasFirstSet(b, k) /\ \A j \in o .. k - 1 : ~HasFirstSet(b, j)
  BY <1>3, <1>4
<1>6. PICK k : k = OrderTaken(b, o)
  OBVIOUS
<1>7. k \in o .. MaxOrder /\ HasFirstSet(b, k)
  BY <1>5, <1>6 DEF OrderTaken
<1>8. k \in Orders /\ k \in Nat
  BY <1>1, <1>7 DEF Orders
<1>9. b.orders[k] \in SUBSET Nat /\ b.orders[k] # {}
  BY <1>7, <1>8 DEF SoundBuddy, HasFirstSet
<1>10. \E i \in b.orders[k] : \A j \in b.orders[k] : i <= j
  BY <1>9, LeastNumber
<1>11. PICK i : i = FirstSet(b, k)
  OBVIOUS
<1>12. i \in b.orders[k] /\ i \in Nat
  BY <1>9, <1>10, <1>11 DEF FirstSet
<1>13. BuddyAddress(b, o) = i * 2^k
  BY <1>6, <1>11 DEF BuddyAddress
<1>14. PICK a : a = i * 2^k
  OBVIOUS
<1>15. a \in Nat /\ Up(a, k) = i /\ Aligned(a, k)
  BY <1>8, <1>12, <1>14, FirstPage
<1>16. QED
  BY <1>6, <1>7, <1>11, <1>12, <1>13, <1>14, <1>15

\* What buddy_alloc() does to the bit of each page's node.
LEMMA AllocNodes ==
  ASSUME NEW b, SoundBuddy(b), NEW o \in Orders, NEW k \in o .. MaxOrder, NEW a \in Nat,
         k = OrderTaken(b, o), a = BuddyAddress(b, o), Up(a, k) = FirstSet(b, k), Aligned(a, k)
  PROVE  /\ BuddyAlloc(b, o).size = b.size
         /\ BuddyAlloc(b, o) \in [size : Nat, orders : [Orders -> SUBSET Nat]]
         /\ \A j \in Orders, n \in Nat :
              n \in BuddyAlloc(b, o).orders[j] <=>
                IF j = k THEN n \in b.orders[j] /\ n # Up(a, k)
                ELSE n \in b.orders[j] \/ (j \in o .. k - 1 /\ n = BuddyOf(Up(a, j)))
<1>1. MaxOrder \in Nat /\ o \in Nat /\ k \in Nat
  BY BuddyAssumption DEF Orders
<1>2. \A j \in o .. k - 1 : Up(a, j) \in Nat /\ BuddyOf(Up(a, j)) = Up(a, j) + 1
  <2> SUFFICES ASSUME NEW j \in o .. k - 1 PROVE Up(a, j) \in Nat /\ BuddyOf(Up(a, j)) = Up(a, j) + 1
    OBVIOUS
  <2>1. j \in 0 .. k /\ j < k /\ j \in Nat
    BY <1>1
  <2>2. Up(a, j) % 2 = 0 /\ Up(a, j) \in Nat
    BY <1>1, <2>1, AlignedBelow, UpNext
  <2>3. QED
    BY <2>2 DEF BuddyOf
<1>3. b.orders \in [Orders -> SUBSET Nat] /\ b.size \in Nat
  BY DEF SoundBuddy
<1> DEFINE f == [j \in Orders |->
        IF j = k THEN b.orders[j] \ {Up(a, k)}
        ELSE IF j \in o .. k - 1 THEN b.orders[j] \cup {Up(a, j) + 1}
        ELSE b.orders[j]]
<1>4. BuddyAlloc(b, o) = [b EXCEPT !.orders = f]
  BY DEF BuddyAlloc, Up
<1>5. f \in [Orders -> SUBSET Nat]
  BY <1>2, <1>3
<1>6. BuddyAlloc(b, o) \in [size : Nat, orders : [Orders -> SUBSET Nat]] /\ BuddyAlloc(b, o).size = b.size
      /\ BuddyAlloc(b, o).orders = f
  <2> HIDE DEF f
  <2>1. b \in [size : Nat, orders : [Orders -> SUBSET Nat]]
    BY DEF SoundBuddy
  <2>2. QED
    BY <1>4, <1>5, <2>1
<1>7. QED
  BY <1>2, <1>3, <1>6

\* Buddies come in pairs.
LEMMA BuddyPairs ==
  ASSUME NEW i \in Nat PROVE BuddyOf(i) \in Nat /\ BuddyOf(i) # i /\ BuddyOf(BuddyOf(i)) = i
BY DEF BuddyOf

\* buddy_alloc() keeps the allocator sound, returns a block that was free, and
\* takes its pages and no others.
LEMMA AllocTakes ==
  ASSUME NEW b, SoundBuddy(b), NEW o \in Orders, CanAlloc(b, o)
  PROVE  /\ SoundBuddy(BuddyAlloc(b, o)) /\ BuddyAlloc(b, o).size = b.size
         /\ BuddyAddress(b, o) \in Nat /\ Aligned(BuddyAddress(b, o), o)
         /\ \A p \in Nat :
              /\ Up(p, o) = Up(BuddyAddress(b, o), o) => IsFree(b, p)
              /\ IsFree(BuddyAlloc(b, o), p)
                   <=> IsFree(b, p) /\ Up(p, o) # Up(BuddyAddress(b, o), o)
<1>1. PICK k \in o .. MaxOrder, i \in Nat :
           /\ k = OrderTaken(b, o) /\ i = FirstSet(b, k) /\ i \in b.orders[k]
           /\ BuddyAddress(b, o) \in Nat /\ Aligned(BuddyAddress(b, o), k)
           /\ Up(BuddyAddress(b, o), k) = i
  BY BlockFound
<1>2. PICK a \in Nat : a = BuddyAddress(b, o)
  BY <1>1
<1>3. PICK c : c = BuddyAlloc(b, o)
  OBVIOUS
<1>4. /\ c.size = b.size
      /\ c \in [size : Nat, orders : [Orders -> SUBSET Nat]]
      /\ \A j \in Orders, n \in Nat :
           n \in c.orders[j] <=>
             IF j = k THEN n \in b.orders[j] /\ n # Up(a, k)
             ELSE n \in b.orders[j] \/ (j \in o .. k - 1 /\ n = BuddyOf(Up(a, j)))
  BY <1>1, <1>2, <1>3, AllocNodes
<1>5. MaxOrder \in Nat /\ o \in Nat /\ k \in Nat /\ k \in Orders /\ o <= k /\ Orders \subseteq Nat
  BY <1>1, BuddyAssumption DEF Orders
<1>6. Aligned(a, k) /\ Aligned(a, o) /\ Up(a, k) \in b.orders[k]
  BY <1>1, <1>2, <1>5, AlignedBelow
<1>7. \A p \in Nat, j \in Orders : Up(p, j) \in c.orders[j] <=>
             IF j = k THEN Up(p, j) \in b.orders[j] /\ Up(p, k) # Up(a, k)
             ELSE Up(p, j) \in b.orders[j] \/ (j \in o .. k - 1 /\ Up(p, j) = BuddyOf(Up(a, j)))
  BY <1>4, <1>5, UpNext
<1>8. \A p \in Nat : Up(p, o) = Up(a, o) => Up(p, k) = Up(a, k)
  BY <1>5, SharedAbove
<1>9. ASSUME NEW p \in Nat, Up(p, k) = Up(a, k)
      PROVE  \A j \in Orders : Up(p, j) \in b.orders[j] <=> j = k
  BY <1>5, <1>6, <1>9 DEF SoundBuddy
<1>10. ASSUME NEW p \in Nat, Up(p, o) = Up(a, o) PROVE \A j \in Orders : Up(p, j) \notin c.orders[j]
  <2> SUFFICES ASSUME NEW j \in Orders PROVE Up(p, j) \notin c.orders[j]
    OBVIOUS
  <2>1. j \in o .. k - 1 => Up(p, j) = Up(a, j) /\ Up(a, j) # BuddyOf(Up(a, j))
    <3>1. j \in Nat
      BY <1>5
    <3>2. QED
      BY <1>5, <1>10, <3>1, SharedAbove, UpNext, BuddyPairs, SMTT(30)
  <2>2. QED
    BY <1>5, <1>7, <1>8, <1>9, <1>10, <2>1
<1>11. ASSUME NEW p \in Nat, Up(p, k) = Up(a, k), Up(p, o) # Up(a, o)
       PROVE  \E j \in Orders : \A n \in Orders : Up(p, n) \in c.orders[n] <=> n = j
  <2>1. PICK j \in o .. k - 1 : \A n \in o .. k - 1 : Up(p, n) = BuddyOf(Up(a, n)) <=> n = j
    <3>1. o \in Nat /\ k \in Nat /\ o <= k /\ Up(p, k) = Up(a, k) /\ Up(p, o) # Up(a, o)
      BY <1>5, <1>11
    <3>2. InOneBuddy(p, a, o, k)
      BY <3>1, OneBuddy
    <3>3. QED
      BY <3>2 DEF InOneBuddy
  <2>2. j \in Orders /\ j # k
    BY <1>1, <1>5, <2>1 DEF Orders
  <2>3. \A n \in Orders : Up(p, n) \in c.orders[n] <=> n = j
    BY <1>7, <1>9, <1>11, <2>1, <2>2
  <2>4. QED
    BY <2>2, <2>3
<1>12. ASSUME NEW p \in Nat, Up(p, k) # Up(a, k)
       PROVE  \A n \in Orders : Up(p, n) \in c.orders[n] <=> Up(p, n) \in b.orders[n]
  <2> SUFFICES ASSUME NEW n \in Orders, n \in o .. k - 1, Up(p, n) = BuddyOf(Up(a, n)) PROVE FALSE
    BY <1>7, <1>12
  <2>1. n \in Nat /\ n + 1 \in Nat /\ n + 1 <= k
    BY <1>5
  <2>2. Up(p, n + 1) = Up(a, n + 1)
    BY <2>1, BuddiesMeet
  <2>3. QED
    BY <1>5, <1>12, <2>1, <2>2, SharedAbove
<1>13. \A p \in Nat : /\ Up(p, o) = Up(a, o) => IsFree(b, p)
                      /\ IsFree(c, p) <=> IsFree(b, p) /\ Up(p, o) # Up(a, o)
  <2> SUFFICES ASSUME NEW p \in Nat
               PROVE  /\ Up(p, o) = Up(a, o) => IsFree(b, p)
                      /\ IsFree(c, p) <=> IsFree(b, p) /\ Up(p, o) # Up(a, o)
    OBVIOUS
  <2>1. CASE Up(p, o) = Up(a, o)
    BY <1>5, <1>8, <1>9, <1>10, <2>1 DEF IsFree
  <2>2. CASE Up(p, k) = Up(a, k) /\ Up(p, o) # Up(a, o)
    BY <1>5, <1>9, <1>11, <2>2 DEF IsFree
  <2>3. CASE Up(p, k) # Up(a, k)
    BY <1>8, <1>12, <2>3 DEF IsFree
  <2>4. QED
    BY <2>1, <2>2, <2>3
<1>14. \A p \in Nat, j \in Orders : Up(p, j) \in c.orders[j] => p < c.size
  BY <1>4, <1>13 DEF IsFree, SoundBuddy
<1>15. \A p \in Nat, j, n \in Orders : Up(p, j) \in c.orders[j] /\ Up(p, n) \in c.orders[n] => j = n
  <2> SUFFICES ASSUME NEW p \in Nat, NEW j \in Orders, NEW n \in Orders,
                      Up(p, j) \in c.orders[j], Up(p, n) \in c.orders[n]
               PROVE  j = n
    OBVIOUS
  <2>1. CASE Up(p, k) = Up(a, k)
    BY <1>10, <1>11, <2>1
  <2>2. CASE Up(p, k) # Up(a, k)
    BY <1>12, <2>2 DEF SoundBuddy
  <2>3. QED
    BY <2>1, <2>2
<1>16. ASSUME NEW j \in Orders, j < MaxOrder, NEW n \in c.orders[j], BuddyOf(n) \in c.orders[j] PROVE FALSE
  <2>1. n \in Nat /\ BuddyOf(n) \in Nat /\ BuddyOf(BuddyOf(n)) = n
    BY <1>4, BuddyPairs
  <2>2. ~(n \in b.orders[j] /\ BuddyOf(n) \in b.orders[j])
    BY <1>16 DEF SoundBuddy
  <2>3. j # k /\ j \in o .. k - 1 /\ (n = BuddyOf(Up(a, j)) \/ BuddyOf(n) = BuddyOf(Up(a, j)))
    BY <1>4, <1>16, <2>1, <2>2
  <2>4. j \in Nat /\ Up(a, j) \in Nat /\ BuddyOf(BuddyOf(Up(a, j))) = Up(a, j)
        /\ BuddyOf(Up(a, j)) # Up(a, j)
    BY <1>5, UpNext, BuddyPairs
  <2>5. Up(a, j) \in c.orders[j]
    BY <1>16, <2>1, <2>3, <2>4
  <2>6. Up(a, j) \in b.orders[j]
    BY <1>4, <2>3, <2>4, <2>5
  <2>7. QED
    BY <1>5, <1>6, <2>3, <2>6 DEF SoundBuddy
<1>17. SoundBuddy(c)
  BY <1>4, <1>14, <1>15, <1>16 DEF SoundBuddy
<1>18. QED
  BY <1>2, <1>3, <1>4, <1>6, <1>13, <1>17

-----------------------------------------------------------------------------
\* buddy_free()

\* The order at which buddy_free() stops to merge.
MergesUpTo(b, a, o, t) ==
  /\ t \in o .. MaxOrder
  /\ t < MaxOrder => BuddyOf(Up(a, t)) \notin b.orders[t]
  /\ \A j \in o .. t - 1 : BuddyOf(Up(a, j)) \in b.orders[j]

\* The bits buddy_free() changes.
FreeChanges(b, c, a, o, t) ==
  \A j \in Orders, n \in Nat :
    n \in c.orders[j] <=>
      IF j = t THEN n \in b.orders[j] \/ n = Up(a, t)
      ELSE n \in b.orders[j] /\ (j \in o .. t - 1 => n # Up(a, j) /\ n # BuddyOf(Up(a, j)))

\* What buddy_free() does to the bits.
LEMMA FreeNodesChange ==
  ASSUME NEW b, SoundBuddy(b), NEW o \in Orders, NEW a \in Nat
  PROVE  /\ BuddyFree(b, a, o).size = b.size
         /\ BuddyFree(b, a, o) \in [size : Nat, orders : [Orders -> SUBSET Nat]]
         /\ \E t \in Nat : MergesUpTo(b, a, o, t) /\ FreeChanges(b, BuddyFree(b, a, o), a, o, t)
<1> DEFINE stops(j) == j = MaxOrder \/ BuddyOf(Up(a, j)) \notin b.orders[j]
           J == { j \in o .. MaxOrder : stops(j) }
<1>1. MaxOrder \in Nat /\ o \in Nat /\ o <= MaxOrder
  BY BuddyAssumption DEF Orders
<1>2. J \in SUBSET Nat /\ MaxOrder \in J
  BY <1>1
<1>3. PICK t0 \in J : \A j \in J : t0 <= j
  BY <1>2, LeastNumber
<1>4. \E j \in o .. MaxOrder : stops(j) /\ \A k \in o .. j - 1 : ~stops(k)
  BY <1>1, <1>3
<1>5. PICK t : t = CHOOSE j \in o .. MaxOrder : stops(j) /\ \A k \in o .. j - 1 : ~stops(k)
  OBVIOUS
<1>6. t \in o .. MaxOrder /\ stops(t) /\ \A k \in o .. t - 1 : ~stops(k)
  BY <1>4, <1>5
<1>7. t \in Nat /\ t \in Orders
  BY <1>1, <1>6 DEF Orders
<1>8. MergesUpTo(b, a, o, t)
  BY <1>1, <1>6 DEF MergesUpTo
<1>9. b.orders \in [Orders -> SUBSET Nat] /\ b.size \in Nat
      /\ b \in [size : Nat, orders : [Orders -> SUBSET Nat]]
  BY DEF SoundBuddy
<1> DEFINE f == [j \in Orders |->
        IF j = t THEN b.orders[j] \cup {Up(a, j)}
        ELSE IF j \in o .. t - 1 THEN b.orders[j] \ {Up(a, j), BuddyOf(Up(a, j))}
        ELSE b.orders[j]]
<1>10. BuddyFree(b, a, o) = [b EXCEPT !.orders = f]
  BY <1>5 DEF BuddyFree, Up
<1>11. Up(a, t) \in Nat
  BY <1>7, UpNext
<1>12. f \in [Orders -> SUBSET Nat]
  BY <1>9, <1>11
<1>13. BuddyFree(b, a, o) \in [size : Nat, orders : [Orders -> SUBSET Nat]] /\ BuddyFree(b, a, o).size = b.size
      /\ BuddyFree(b, a, o).orders = f
  <2> HIDE DEF f
  <2>1. QED
    BY <1>9, <1>10, <1>12
<1>14. FreeChanges(b, BuddyFree(b, a, o), a, o, t)
  BY <1>9, <1>13 DEF FreeChanges
<1>15. QED
  BY <1>7, <1>8, <1>13, <1>14

\* buddy_free() of an aligned block none of whose pages is free keeps the
\* allocator sound and frees its pages and no others.
LEMMA FreeGives ==
  ASSUME NEW b, SoundBuddy(b), NEW o \in Orders, NEW a \in Nat, Aligned(a, o),
         \A p \in Nat : Up(p, o) = Up(a, o) => p < b.size /\ ~IsFree(b, p)
  PROVE  /\ SoundBuddy(BuddyFree(b, a, o)) /\ BuddyFree(b, a, o).size = b.size
         /\ \A p \in Nat : IsFree(BuddyFree(b, a, o), p) <=> IsFree(b, p) \/ Up(p, o) = Up(a, o)
<1>1. PICK c : c = BuddyFree(b, a, o)
  OBVIOUS
<1>2. /\ c.size = b.size
      /\ c \in [size : Nat, orders : [Orders -> SUBSET Nat]]
      /\ \E t \in Nat : MergesUpTo(b, a, o, t) /\ FreeChanges(b, c, a, o, t)
  BY <1>1, FreeNodesChange
<1>3. PICK t \in Nat : MergesUpTo(b, a, o, t) /\ FreeChanges(b, c, a, o, t)
  BY <1>2
<1>4. MaxOrder \in Nat /\ o \in Nat /\ t \in Orders /\ o <= t /\ t <= MaxOrder /\ Orders \subseteq Nat
  BY <1>3, BuddyAssumption DEF Orders, MergesUpTo
<1>5. \A p \in Nat, j \in Orders : Up(p, j) \in c.orders[j] <=>
      IF j = t THEN Up(p, j) \in b.orders[j] \/ Up(p, t) = Up(a, t)
      ELSE Up(p, j) \in b.orders[j] /\ (j \in o .. t - 1 => Up(p, j) # Up(a, j) /\ Up(p, j) # BuddyOf(Up(a, j)))
  BY <1>3, <1>4, UpNext DEF FreeChanges
<1>6. \A p \in Nat, j \in Nat : j <= t /\ Up(p, j) = Up(a, j) => Up(p, t) = Up(a, t)
  BY <1>4, SharedAbove
\* A page of the node that becomes free was in the block, or in one buddy.
<1>7. ASSUME NEW p \in Nat, Up(p, t) = Up(a, t)
      PROVE  /\ Up(p, o) # Up(a, o) => IsFree(b, p)
             /\ \A j \in Orders : Up(p, j) \in c.orders[j] <=> j = t
  <2>1. CASE Up(p, o) = Up(a, o)
    <3>1. \A j \in Orders : Up(p, j) \notin b.orders[j]
      BY <2>1 DEF IsFree
    <3>2. QED
      BY <1>4, <1>5, <1>7, <2>1, <3>1
  <2>2. CASE Up(p, o) # Up(a, o)
    <3>1. InOneBuddy(p, a, o, t)
      BY <1>4, <1>7, <2>2, OneBuddy
    <3>2. PICK j \in o .. t - 1 : \A n \in o .. t - 1 : Up(p, n) = BuddyOf(Up(a, n)) <=> n = j
      BY <3>1 DEF InOneBuddy
    <3>3. j \in Orders /\ j # t
      BY <1>4, <3>2 DEF Orders
    <3>4. Up(p, j) \in b.orders[j]
      BY <1>3, <3>2 DEF MergesUpTo
    <3>5. \A n \in Orders : Up(p, n) \in b.orders[n] <=> n = j
      BY <3>3, <3>4 DEF SoundBuddy
    <3>6. \A n \in Orders : Up(p, n) \in c.orders[n] <=> n = t
      BY <1>5, <1>7, <3>2, <3>3, <3>5
    <3>7. QED
      BY <3>3, <3>5, <3>6 DEF IsFree
  <2>3. QED
    BY <2>1, <2>2
<1>8. ASSUME NEW p \in Nat, Up(p, t) # Up(a, t)
      PROVE  \A n \in Orders : Up(p, n) \in c.orders[n] <=> Up(p, n) \in b.orders[n]
  <2>1. \A n \in Orders : n \in o .. t - 1 => Up(p, n) # Up(a, n)
    BY <1>4, <1>6, <1>8
  <2>2. ASSUME NEW n \in Orders, n \in o .. t - 1, Up(p, n) = BuddyOf(Up(a, n)) PROVE FALSE
    <3>1. n \in Nat /\ n + 1 \in Nat /\ n + 1 <= t
      BY <1>4, <2>2
    <3>2. Up(p, n + 1) = Up(a, n + 1)
      BY <2>2, <3>1, BuddiesMeet
    <3>3. QED
      BY <1>6, <1>8, <3>1, <3>2
  <2>3. QED
    BY <1>5, <1>8, <2>1, <2>2
<1>9. \A p \in Nat : IsFree(c, p) <=> IsFree(b, p) \/ Up(p, o) = Up(a, o)
  <2> SUFFICES ASSUME NEW p \in Nat PROVE IsFree(c, p) <=> IsFree(b, p) \/ Up(p, o) = Up(a, o)
    OBVIOUS
  <2>1. CASE Up(p, t) = Up(a, t)
    BY <1>4, <1>7, <2>1 DEF IsFree
  <2>2. CASE Up(p, t) # Up(a, t)
    BY <1>4, <1>6, <1>8, <2>2 DEF IsFree
  <2>3. QED
    BY <2>1, <2>2
<1>10. \A p \in Nat, j \in Orders : Up(p, j) \in c.orders[j] => p < c.size
  <2> SUFFICES ASSUME NEW p \in Nat, IsFree(c, p) PROVE p < c.size
    BY DEF IsFree
  <2>1. IsFree(b, p) => p < b.size
    BY DEF IsFree, SoundBuddy
  <2>2. QED
    BY <1>2, <1>9, <2>1
<1>11. \A p \in Nat, j, n \in Orders : Up(p, j) \in c.orders[j] /\ Up(p, n) \in c.orders[n] => j = n
  <2> SUFFICES ASSUME NEW p \in Nat, NEW j \in Orders, NEW n \in Orders,
                      Up(p, j) \in c.orders[j], Up(p, n) \in c.orders[n]
               PROVE  j = n
    OBVIOUS
  <2>1. CASE Up(p, t) = Up(a, t)
    BY <1>7, <2>1
  <2>2. CASE Up(p, t) # Up(a, t)
    BY <1>8, <2>2 DEF SoundBuddy
  <2>3. QED
    BY <2>1, <2>2
<1>12. ASSUME NEW j \in Orders, j < MaxOrder, NEW n \in c.orders[j], BuddyOf(n) \in c.orders[j] PROVE FALSE
  <2>1. n \in Nat /\ BuddyOf(n) \in Nat /\ BuddyOf(BuddyOf(n)) = n
    BY <1>2, BuddyPairs
  <2>2. ~(n \in b.orders[j] /\ BuddyOf(n) \in b.orders[j])
    BY <1>12 DEF SoundBuddy
  <2>3. j = t /\ (n = Up(a, t) \/ BuddyOf(n) = Up(a, t))
    BY <1>3, <1>12, <2>1, <2>2 DEF FreeChanges
  <2>4. Up(a, t) \in Nat /\ BuddyOf(Up(a, t)) \in c.orders[t] /\ BuddyOf(Up(a, t)) # Up(a, t)
        /\ BuddyOf(Up(a, t)) \in Nat
    BY <1>12, <2>1, <2>3, BuddyPairs
  <2>5. BuddyOf(Up(a, t)) \in b.orders[t]
    BY <1>3, <1>4, <2>4 DEF FreeChanges
  <2>6. QED
    BY <1>3, <1>12, <2>3, <2>5 DEF MergesUpTo
<1>13. SoundBuddy(c)
  BY <1>2, <1>10, <1>11, <1>12 DEF SoundBuddy
<1>14. QED
  BY <1>1, <1>2, <1>9, <1>13

-----------------------------------------------------------------------------
\* Enough free pages give a free block

\* If all pages of a node are free, they are in one free node, since buddies
\* are merged.
LEMMA FreePagesMerge ==
  ASSUME NEW b, SoundBuddy(b), NEW o \in Orders, NEW a \in Nat,
         \A p \in Nat : Up(p, o) = Up(a, o) => IsFree(b, p)
  PROVE  \E k \in Orders : o <= k /\ Up(a, k) \in b.orders[k]
<1> DEFINE Whole(n, x) == \A p \in Nat : Up(p, n) = Up(x, n) => IsFree(b, p)
           InNode(n, x) == \E k \in Orders : n <= k /\ Up(x, k) \in b.orders[k]
           S == { n \in Nat : n <= MaxOrder => \A x \in Nat : Whole(n, x) => InNode(n, x) }
<1>1. MaxOrder \in Nat /\ Orders \subseteq Nat /\ \A n \in Nat : n \in Orders <=> n <= MaxOrder
  BY BuddyAssumption DEF Orders
<1>2. 0 \in S
  BY <1>1 DEF IsFree
<1>3. ASSUME NEW n \in Nat, n \in S PROVE n + 1 \in S
  <2> SUFFICES ASSUME n + 1 <= MaxOrder, NEW x \in Nat, Whole(n + 1, x) PROVE InNode(n + 1, x)
    OBVIOUS
  <2>1. n \in Orders /\ n < MaxOrder
    BY <1>1
  <2>2. \A y \in Nat : Up(y, n + 1) = Up(x, n + 1) => Whole(n, y)
    <3> SUFFICES ASSUME NEW y \in Nat, Up(y, n + 1) = Up(x, n + 1), NEW p \in Nat, Up(p, n) = Up(y, n)
                 PROVE  IsFree(b, p)
      OBVIOUS
    <3>1. Up(p, n + 1) = Up(y, n + 1)
      BY SharedAbove
    <3>2. QED
      BY <3>1
  <2>3. \A y \in Nat : Up(y, n + 1) = Up(x, n + 1) => InNode(n, y)
    <3>1. n <= MaxOrder
      BY <1>1, <2>1
    <3>2. \A y \in Nat : Whole(n, y) => InNode(n, y)
      BY <1>3, <3>1
    <3> HIDE DEF Whole, InNode
    <3>3. QED
      BY <2>2, <3>2
  <2>4. PICK u \in Nat : u = Up(x, n)
    BY UpNext
  <2>5. PICK v \in Nat : v = BuddyOf(u) /\ BuddyOf(u) # u
    BY BuddyPairs
  <2>6. PICK y \in Nat : y = v * 2^n /\ Up(y, n) = v
    BY <2>5, FirstPage
  <2>7. Up(y, n + 1) = Up(x, n + 1)
    BY <2>4, <2>5, <2>6, BuddiesMeet
  <2>8. PICK k \in Orders : n <= k /\ Up(x, k) \in b.orders[k]
    BY <2>3
  <2>9. PICK l \in Orders : n <= l /\ Up(y, l) \in b.orders[l]
    BY <2>3, <2>7
  <2>10. ~(k = n /\ l = n)
    BY <2>1, <2>4, <2>5, <2>6, <2>8, <2>9 DEF SoundBuddy
  <2>11. CASE k >= n + 1
    BY <2>8, <2>11
  <2>12. CASE l >= n + 1
    <3>1. Up(x, l) = Up(y, l)
      BY <1>1, <2>7, <2>12, SharedAbove
    <3>2. QED
      BY <2>9, <2>12, <3>1
  <2>13. QED
    BY <1>1, <2>8, <2>9, <2>10, <2>11, <2>12
<1>4. Nat \subseteq S
  BY <1>2, <1>3, NumbersFrom0
<1>5. o \in S /\ o <= MaxOrder
  BY <1>1, <1>4
<1>6. QED
  BY <1>5

\* buddy_alloc() finds a free node of its order or above.
LEMMA NodeCanBeAllocated ==
  ASSUME NEW b, SoundBuddy(b), NEW o \in Orders, NEW k \in Orders, o <= k, b.orders[k] # {}
  PROVE  CanAlloc(b, o)
<1>1. MaxOrder \in Nat /\ Orders \subseteq Nat /\ k \in o .. MaxOrder
  BY BuddyAssumption DEF Orders
<1>2. b.orders[k] \in SUBSET Nat /\ b.size \in Nat
  BY DEF SoundBuddy
<1>3. \E i \in b.orders[k] : \A j \in b.orders[k] : i <= j
  BY <1>2, LeastNumber
<1>4. PICK i \in Nat : i = FirstSet(b, k) /\ i \in b.orders[k]
  BY <1>2, <1>3 DEF FirstSet
<1>5. PICK x \in Nat \ {0} : x = 2^k
  BY <1>1, PowersArePositive
<1>6. i * x \in Nat /\ Up(i * x, k) = i
  BY <1>1, <1>5, FirstPage
<1>7. i * x < b.size
  BY <1>4, <1>6 DEF SoundBuddy
<1>8. i <= b.size \div x
  <2>1. PICK s \in Nat : s = b.size
    BY <1>2
  <2>2. i * x < s => i <= s \div x
    OBVIOUS
  <2>3. QED
    BY <1>7, <2>1, <2>2
<1>9. QED
  BY <1>1, <1>4, <1>5, <1>8 DEF CanAlloc, HasFirstSet

\* A request fails only when there is no aligned room for it.
LEMMA RoomCanBeAllocated ==
  ASSUME NEW b, SoundBuddy(b), NEW o \in Orders, HasRoomFor(b, o) PROVE CanAlloc(b, o)
<1>1. PICK i \in 0 .. b.size \div 2^o : Pages(o, i) \subseteq FreePages(b)
  BY DEF HasRoomFor
<1>2. Orders \subseteq Nat /\ b.size \in Nat
  BY BuddyAssumption DEF Orders, SoundBuddy
<1>3. PICK x \in Nat \ {0} : x = 2^o
  BY <1>2, PowersArePositive
<1>4. i \in Nat
  <2>1. PICK s \in Nat : s = b.size
    BY <1>2
  <2>2. s \div x \in Nat
    OBVIOUS
  <2>3. i \in 0 .. s \div x
    BY <1>3, <2>1
  <2>4. QED
    BY <2>2, <2>3
<1>5. PICK a \in Nat : a = i * x /\ Up(a, o) = i /\ Aligned(a, o)
  BY <1>2, <1>3, <1>4, FirstPage
<1>6. (i + 1) * x - 1 = a + x - 1
  BY <1>4, <1>5
<1>7. Pages(o, i) = a .. a + 2^o - 1
  BY <1>3, <1>5, <1>6 DEF Pages
<1>8. \A p \in Nat : Up(p, o) = Up(a, o) => p \in FreePages(b)
  BY <1>1, <1>2, <1>5, <1>7, BlockIsNode
<1>9. \A p \in FreePages(b) : IsFree(b, p)
  BY DEF FreePages, FreeNodes, IsFree, Up
<1>10. PICK k \in Orders : o <= k /\ Up(a, k) \in b.orders[k]
  BY <1>8, <1>9, FreePagesMerge
<1>11. QED
  BY <1>10, NodeCanBeAllocated

-----------------------------------------------------------------------------
\* buddy_free_range()

\* The values of f are those of x under one function of F after the other, and
\* go through the sets I.
Iterated(f, x, n, F, I) ==
  /\ f[0] = x
  /\ \A k \in 1 .. n : f[k] = F[k][f[k - 1]]
  /\ \A k \in 0 .. n : f[k] \in I[k]

\* A function defined by repeating steps exists, if each step leads from one
\* set to the next.
LEMMA IteratesExist ==
  ASSUME NEW n \in Nat, NEW I, NEW x \in I[0], NEW F, \A k \in 1 .. n : \A y \in I[k - 1] : F[k][y] \in I[k]
  PROVE  \E f : f = [k \in 0 .. n |-> f[k]] /\ Iterated(f, x, n, F, I)
<1> DEFINE Upto(m, f) == /\ f = [k \in 0 .. m |-> f[k]] /\ f[0] = x
                         /\ \A k \in 1 .. m : f[k] = F[k][f[k - 1]]
                         /\ \A k \in 0 .. m : f[k] \in I[k]
           N == { m \in Nat : m <= n => \E f : Upto(m, f) }
<1>1. 0 \in N
  <2>1. Upto(0, [k \in 0 .. 0 |-> x])
    OBVIOUS
  <2>2. QED
    BY <2>1
<1>2. ASSUME NEW m \in Nat, m \in N PROVE m + 1 \in N
  <2> SUFFICES ASSUME m + 1 <= n PROVE \E f : Upto(m + 1, f)
    OBVIOUS
  <2>1. PICK f : Upto(m, f)
    BY <1>2
  <2> DEFINE g == [k \in 0 .. m + 1 |-> IF k = m + 1 THEN F[m + 1][f[m]] ELSE f[k]]
  <2>2. F[m + 1][f[m]] \in I[m + 1]
    <3>1. m \in 0 .. m /\ m + 1 \in 1 .. n /\ (m + 1) - 1 = m
      OBVIOUS
    <3>2. f[m] \in I[m]
      BY <2>1, <3>1
    <3>3. QED
      BY <3>1, <3>2
  <2>3. ASSUME NEW k \in 1 .. m + 1 PROVE g[k] = F[k][g[k - 1]]
    <3>1. CASE k = m + 1
      BY <3>1, SMTT(30)
    <3>2. CASE k # m + 1
      <4>1. k \in 1 .. m /\ k - 1 \in 0 .. m
        BY <3>2
      <4>2. g[k] = f[k] /\ g[k - 1] = f[k - 1]
        BY <4>1
      <4>3. QED
        BY <2>1, <4>1, <4>2
    <3>3. QED
      BY <3>1, <3>2
  <2>4. ASSUME NEW k \in 0 .. m + 1 PROVE g[k] \in I[k]
    <3>1. CASE k = m + 1
      BY <2>2, <3>1
    <3>2. CASE k # m + 1
      <4>1. k \in 0 .. m
        BY <3>2
      <4>2. QED
        BY <2>1, <4>1
    <3>3. QED
      BY <3>1, <3>2
  <2>5. g[0] = x
    BY <2>1
  <2>6. g = [k \in 0 .. m + 1 |-> g[k]]
    OBVIOUS
  <2> HIDE DEF g
  <2>7. Upto(m + 1, g)
    BY <2>3, <2>4, <2>5, <2>6
  <2>8. QED
    BY <2>7
<1>3. Nat \subseteq N
  BY <1>1, <1>2, NumbersFrom0
<1>4. PICK f : Upto(n, f)
  BY <1>3
<1>5. QED
  BY <1>4 DEF Iterated

\* Whoever takes these steps goes through these sets.
LEMMA IteratesStay ==
  ASSUME NEW n \in Nat, NEW I, NEW F, \A k \in 1 .. n : \A y \in I[k - 1] : F[k][y] \in I[k],
         NEW s, s[0] \in I[0], \A k \in 1 .. n : s[k - 1] \in I[k - 1] => s[k] = F[k][s[k - 1]]
  PROVE  s[n] \in I[n]
<1> DEFINE N == { k \in Nat : k <= n => s[k] \in I[k] }
<1>1. 0 \in N
  OBVIOUS
<1>2. ASSUME NEW k \in Nat, k \in N PROVE k + 1 \in N
  <2> SUFFICES ASSUME k + 1 <= n PROVE s[k + 1] \in I[k + 1]
    OBVIOUS
  <2>1. k + 1 \in 1 .. n /\ (k + 1) - 1 = k /\ k <= n
    OBVIOUS
  <2>2. s[k] \in I[k]
    BY <1>2, <2>1
  <2>3. s[k + 1] = F[k + 1][s[k]]
    BY <2>1, <2>2
  <2>4. QED
    BY <2>1, <2>2, <2>3
<1>3. Nat \subseteq N
  BY <1>1, <1>2, NumbersFrom0
<1>4. QED
  BY <1>3

\* Where the remainder is nought.
LEMMA ModAligned == ASSUME NEW p \in Nat, NEW o \in Nat PROVE p % 2^o = 0 <=> Aligned(p, o)
<1>1. PICK x \in Nat \ {0} : x = 2^o
  BY PowersArePositive
<1>2. p % x = 0 <=> p = (p \div x) * x
  OBVIOUS
<1>3. QED
  BY <1>1, <1>2 DEF Aligned, Up

\* buddy_free_range() frees the pages of the range and no others.
LEMMA FreeRangeGives ==
  ASSUME NEW b, SoundBuddy(b), NEW from \in Nat, NEW n \in Nat, from + n <= b.size,
         \A p \in from .. from + n - 1 : ~IsFree(b, p)
  PROVE  /\ SoundBuddy(BuddyFreeRange(b, from, n)) /\ BuddyFreeRange(b, from, n).size = b.size
         /\ \A p \in Nat : IsFree(BuddyFreeRange(b, from, n), p)
                             <=> IsFree(b, p) \/ p \in from .. from + n - 1
<1> DEFINE fits(p, o) == p + 2^o <= from + n /\ p % 2^o = 0
           largest(p) == CHOOSE o \in Orders : fits(p, o) /\ \A k \in Orders : fits(p, k) => k <= o
           Step(a) == IF a.at = from + n THEN a
                      ELSE [at |-> a.at + 2^largest(a.at), bd |-> BuddyFree(a.bd, a.at, largest(a.at))]
           S == { a \in [at : from .. from + n, bd : [size : Nat, orders : [Orders -> SUBSET Nat]]] :
                    /\ SoundBuddy(a.bd) /\ a.bd.size = b.size
                    /\ \A p \in Nat : IsFree(a.bd, p) <=> IsFree(b, p) \/ p \in from .. a.at - 1 }
           G(f) == [k \in 0 .. n |-> IF k = 0 THEN [at |-> from, bd |-> b]
                                     ELSE LET a == f[k - 1] IN Step(a)]
<1>1. MaxOrder \in Nat /\ Orders \subseteq Nat /\ 0 \in Orders /\ Orders = 0 .. MaxOrder
  BY BuddyAssumption DEF Orders
<1>2. ASSUME NEW p \in from .. from + n - 1
      PROVE  largest(p) \in Orders /\ fits(p, largest(p))
  <2> DEFINE O == { o \in 0 .. MaxOrder : fits(p, o) }
  <2>1. p \in Nat /\ p + 1 <= from + n /\ p % 1 = 0
    OBVIOUS
  <2>2. fits(p, 0)
    BY <2>1, Power0
  <2>3. PICK o \in O : \A k \in O : k <= o
    BY <1>1, <2>2, GreatestNumber
  <2>4. \E k \in Orders : fits(p, k) /\ \A j \in Orders : fits(p, j) => j <= k
    BY <1>1, <2>3
  <2> HIDE DEF fits
  <2>5. QED
    BY <2>4
<1>3. ASSUME NEW a \in S
      PROVE  Step(a) \in S /\ (a.at # from + n => Step(a).at >= a.at + 1) /\ (a.at = from + n => Step(a) = a)
  <2>1. CASE a.at = from + n
    BY <2>1
  <2>2. CASE a.at # from + n
    <3>1. PICK p \in from .. from + n - 1 : p = a.at
      BY <2>2
    <3>2. PICK o \in Orders : o = largest(p) /\ fits(p, o)
      BY <1>2
    <3>3. p \in Nat /\ o \in Nat
      BY <1>1
    <3>4. PICK x \in Nat \ {0} : x = 2^o
      BY <3>3, PowersArePositive
    <3>5. Aligned(p, o) /\ p + x <= from + n
      BY <3>2, <3>3, <3>4, ModAligned
    <3>6. \A q \in Nat : Up(q, o) = Up(p, o) <=> q \in p .. p + x - 1
      BY <3>3, <3>4, <3>5, BlockIsNode
    <3>7. PICK c : c = a.bd
      OBVIOUS
    <3>8. /\ SoundBuddy(c) /\ c.size = b.size /\ b.size \in Nat
          /\ \A q \in Nat : IsFree(c, q) <=> IsFree(b, q) \/ q \in from .. p - 1
      BY <3>1, <3>7 DEF SoundBuddy
    <3>9. ASSUME NEW q \in Nat, Up(q, o) = Up(p, o) PROVE q < c.size /\ ~IsFree(c, q)
      <4>1. q \in p .. p + x - 1
        BY <3>6, <3>9
      <4>2. q \in from .. from + n - 1 /\ q \notin from .. p - 1
        BY <3>5, <4>1
      <4>3. q < b.size
        BY <3>8, <4>2
      <4>4. QED
        BY <3>8, <4>2, <4>3
    <3>10. PICK d : d = BuddyFree(c, p, o)
      OBVIOUS
    <3>11. /\ SoundBuddy(d) /\ d.size = c.size
           /\ \A q \in Nat : IsFree(d, q) <=> IsFree(c, q) \/ Up(q, o) = Up(p, o)
      BY <3>3, <3>5, <3>8, <3>9, <3>10, FreeGives
    <3>12. Step(a) = [at |-> p + x, bd |-> d]
      BY <2>2, <3>1, <3>2, <3>4, <3>7, <3>10
    <3>13. \A q \in Nat : IsFree(d, q) <=> IsFree(b, q) \/ q \in from .. (p + x) - 1
      <4> SUFFICES ASSUME NEW q \in Nat PROVE IsFree(d, q) <=> IsFree(b, q) \/ q \in from .. (p + x) - 1
        OBVIOUS
      <4>1. IsFree(d, q) <=> (IsFree(b, q) \/ q \in from .. p - 1) \/ q \in p .. p + x - 1
        BY <3>6, <3>8, <3>11
      <4>2. q \in from .. (p + x) - 1 <=> q \in from .. p - 1 \/ q \in p .. p + x - 1
        BY <3>1
      <4>3. QED
        BY <4>1, <4>2
    <3>14. p + x \in from .. from + n /\ d \in [size : Nat, orders : [Orders -> SUBSET Nat]]
      BY <3>1, <3>5, <3>11 DEF SoundBuddy
    <3>15. PICK e : e = [at |-> p + x, bd |-> d]
      OBVIOUS
    <3>16. e.at = p + x /\ e.bd = d /\ e \in [at : from .. from + n, bd : [size : Nat, orders : [Orders -> SUBSET Nat]]]
      BY <3>14, <3>15
    <3>17. e \in S
      BY <3>8, <3>11, <3>13, <3>16
    <3> HIDE DEF Step, S
    <3>18. QED
      BY <2>2, <3>1, <3>12, <3>15, <3>16, <3>17
  <2>3. QED
    BY <2>1, <2>2
<1>4. [at |-> from, bd |-> b] \in S
  BY DEF SoundBuddy
<1>5. BuddyFreeRange(b, from, n) = (CHOOSE f : f = G(f))[n].bd
  BY DEF BuddyFreeRange
<1> HIDE DEF Step, fits, largest, S
<1>6. PICK s : s = CHOOSE f : f = G(f)
  OBVIOUS
<1> DEFINE I == [k \in 0 .. n |-> { a \in S : a.at = from + n \/ a.at >= from + k }]
           F == [k \in 1 .. n |-> [a \in S |-> Step(a)]]
<1>7. ASSUME NEW k \in 1 .. n, NEW a \in I[k - 1] PROVE F[k][a] = Step(a) /\ Step(a) \in I[k]
  <2>1. k - 1 \in 0 .. n /\ k \in 0 .. n
    OBVIOUS
  <2>2. a \in S /\ (a.at = from + n \/ a.at >= from + (k - 1))
    BY <2>1
  <2>3. /\ Step(a) \in S /\ (a.at # from + n => Step(a).at >= a.at + 1)
        /\ (a.at = from + n => Step(a) = a)
    BY <1>3, <2>2
  <2>4. a.at \in Nat /\ Step(a).at \in Nat
    BY <2>2, <2>3 DEF S
  <2>5. Step(a).at = from + n \/ Step(a).at >= from + k
    BY <2>2, <2>3, <2>4
  <2>6. QED
    BY <2>1, <2>2, <2>3, <2>5
<1>8. [at |-> from, bd |-> b] \in I[0]
  BY <1>4
<1>9. \A k \in 1 .. n : \A a \in I[k - 1] : F[k][a] = Step(a) /\ F[k][a] \in I[k]
  BY <1>7
<1> HIDE DEF I, F
<1>10. s = G(s)
  <2>1. PICK f : f = [k \in 0 .. n |-> f[k]] /\ Iterated(f, [at |-> from, bd |-> b], n, F, I)
    BY <1>8, <1>9, IteratesExist
  <2>2. ASSUME NEW k \in 1 .. n PROVE f[k] = Step(f[k - 1])
    <3>1. k - 1 \in 0 .. n
      OBVIOUS
    <3>2. f[k - 1] \in I[k - 1] /\ f[k] = F[k][f[k - 1]]
      BY <2>1, <3>1 DEF Iterated
    <3>3. QED
      BY <1>9, <3>2
  <2>3. \A k \in 0 .. n : f[k] = IF k = 0 THEN [at |-> from, bd |-> b] ELSE Step(f[k - 1])
    <3>1. \A k \in 0 .. n : k # 0 => k \in 1 .. n
      OBVIOUS
    <3>2. f[0] = [at |-> from, bd |-> b]
      BY <2>1 DEF Iterated
    <3>3. QED
      BY <2>2, <3>1, <3>2
  <2>4. f = G(f)
    BY <2>1, <2>3
  <2>5. QED
    BY <1>6, <2>4
<1>11. s[0] = [at |-> from, bd |-> b] /\ \A k \in 1 .. n : s[k] = Step(s[k - 1])
  <2>1. 0 \in 0 .. n /\ \A k \in 1 .. n : k \in 0 .. n /\ k # 0
    OBVIOUS
  <2>2. QED
    BY <1>10, <2>1
<1>12. s[n] \in I[n]
  <2>1. s[0] \in I[0] /\ \A k \in 1 .. n : s[k - 1] \in I[k - 1] => s[k] = F[k][s[k - 1]]
    BY <1>8, <1>9, <1>11
  <2>2. \A k \in 1 .. n : \A a \in I[k - 1] : F[k][a] \in I[k]
    BY <1>9
  <2>3. QED
    BY <2>1, <2>2, IteratesStay, ZenonT(60)
<1>13. s[n] \in S /\ s[n].at = from + n
  <2>1. n \in 0 .. n /\ I[n] = { a \in S : a.at = from + n \/ a.at >= from + n }
    BY DEF I
  <2>2. s[n] \in S /\ s[n].at >= from + n
    BY <1>12, <2>1
  <2>3. s[n].at \in from .. from + n
    BY <2>2 DEF S
  <2>4. QED
    BY <2>2, <2>3
<1>14. PICK c : c = s[n].bd
  OBVIOUS
<1>15. SoundBuddy(c) /\ c.size = b.size
       /\ \A p \in Nat : IsFree(c, p) <=> IsFree(b, p) \/ p \in from .. (from + n) - 1
  BY <1>13, <1>14 DEF S
<1>16. QED
  BY <1>5, <1>6, <1>14, <1>15

-----------------------------------------------------------------------------
\* The zones of physical memory: alloc_pages() and free_page()

\* The allocators of the zones.
SoundZones(zs) ==
  /\ zs = [z \in Zones |-> zs[z]]
  /\ \A z \in Zones : SoundBuddy(zs[z]) /\ zs[z].size = ZoneSize[z]

\* Frame f is free in its zone.
IsFreeFrame(zs, f) == IsFree(zs[ZoneOf(f)], f - ZoneStart[ZoneOf(f)])

\* The zones share out the frames.
LEMMA ZonesShareFrames ==
  /\ \A z \in Zones : ZoneStart[z] \in Nat /\ ZoneSize[z] \in Nat
  /\ \A f \in Frames : /\ f \in Nat /\ ZoneOf(f) \in Zones
                       /\ f - ZoneStart[ZoneOf(f)] \in Nat
                       /\ f - ZoneStart[ZoneOf(f)] < ZoneSize[ZoneOf(f)]
  /\ \A z \in Zones, p \in Nat : p < ZoneSize[z] =>
       ZoneStart[z] + p \in Frames /\ ZoneOf(ZoneStart[z] + p) = z
<1> USE PMMAssumption
<1>1. /\ Limit1MB \in Nat /\ Limit4GB \in Nat /\ MaxExtent \in Nat
      /\ Limit1MB < Limit4GB /\ Limit1MB <= MaxExtent
  BY DEF PMMAssumption
<1>2. /\ ZoneStart["UNDER1MB"] = 0 /\ ZoneStart["UNDER4GB"] = Limit1MB /\ ZoneStart["NONE"] = Limit4GB
      /\ ZoneSize["UNDER1MB"] = Limit1MB
      /\ ZoneSize["UNDER4GB"] = (IF MaxExtent < Limit4GB THEN MaxExtent ELSE Limit4GB) - Limit1MB
      /\ ZoneSize["NONE"] = IF MaxExtent > Limit4GB THEN MaxExtent - Limit4GB ELSE 0
  BY <1>1 DEF ZoneStart, ZoneSize, Lesser
<1>3. \A z \in Zones : z = "UNDER1MB" \/ z = "UNDER4GB" \/ z = "NONE"
  BY DEF Zones
<1>4. "UNDER1MB" \in Zones /\ "UNDER4GB" \in Zones /\ "NONE" \in Zones
  BY DEF Zones
<1>5. \A z \in Zones : ZoneStart[z] \in Nat /\ ZoneSize[z] \in Nat
  BY <1>1, <1>2, <1>3
<1>6. \A f \in Frames : /\ f \in Nat /\ ZoneOf(f) \in Zones
                        /\ f - ZoneStart[ZoneOf(f)] \in Nat
                        /\ f - ZoneStart[ZoneOf(f)] < ZoneSize[ZoneOf(f)]
  BY <1>1, <1>2, <1>4 DEF Frames, ZoneOf
<1>7. ASSUME NEW z \in Zones, NEW p \in Nat, p < ZoneSize[z]
      PROVE  ZoneStart[z] + p \in Frames /\ ZoneOf(ZoneStart[z] + p) = z
  <2>1. CASE z = "UNDER1MB"
    BY <1>1, <1>2, <1>7, <2>1 DEF Frames, ZoneOf
  <2>2. CASE z = "UNDER4GB"
    BY <1>1, <1>2, <1>7, <2>2 DEF Frames, ZoneOf
  <2>3. CASE z = "NONE"
    BY <1>1, <1>2, <1>7, <2>3 DEF Frames, ZoneOf
  <2>4. QED
    BY <1>3, <2>1, <2>2, <2>3
<1>8. QED
  BY <1>5, <1>6, <1>7

\* alloc_pages() returns frames that were free, and takes no others.
LEMMA FramesTaken ==
  ASSUME NEW zs, SoundZones(zs), NEW o \in Orders, CanAllocPages(zs, o)
  PROVE  /\ SoundZones(AllocPages(zs, o))
         /\ FirstFrame(zs, o) \in Nat
         /\ \A f \in FirstFrame(zs, o) .. FirstFrame(zs, o) + 2^o - 1 : f \in Frames /\ IsFreeFrame(zs, f)
         /\ \A f \in Frames : IsFreeFrame(AllocPages(zs, o), f)
              <=> IsFreeFrame(zs, f) /\ f \notin FirstFrame(zs, o) .. FirstFrame(zs, o) + 2^o - 1
<1>1. PICK z \in Zones : z = ZoneTaken(zs, o) /\ CanAlloc(zs[z], o)
  BY DEF CanAllocPages, ZoneTaken, Zones
<1>2. PICK b : b = zs[z] /\ SoundBuddy(b) /\ b.size = ZoneSize[z] /\ CanAlloc(b, o)
  BY <1>1 DEF SoundZones
<1>3. PICK c : c = BuddyAlloc(b, o)
  OBVIOUS
<1>4. o \in Nat
  BY BuddyAssumption DEF Orders
<1>5. PICK a \in Nat : a = BuddyAddress(b, o)
  BY <1>2, AllocTakes
<1>6. /\ SoundBuddy(c) /\ c.size = b.size /\ Aligned(a, o)
      /\ \A p \in Nat : /\ Up(p, o) = Up(a, o) => IsFree(b, p)
                        /\ IsFree(c, p) <=> IsFree(b, p) /\ Up(p, o) # Up(a, o)
  BY <1>2, <1>3, <1>5, AllocTakes
<1>7. PICK x \in Nat \ {0} : x = 2^o
  BY <1>4, PowersArePositive
<1>8. \A p \in Nat : p \in a .. a + x - 1 <=> Up(p, o) = Up(a, o)
  BY <1>4, <1>6, <1>7, BlockIsNode
<1>9. PICK s \in Nat : s = ZoneStart[z]
  BY ZonesShareFrames
<1>10. FirstFrame(zs, o) = s + a
  BY <1>1, <1>2, <1>5, <1>9 DEF FirstFrame
<1>11. AllocPages(zs, o) = [zs EXCEPT ![z] = c]
  BY <1>1, <1>2, <1>3 DEF AllocPages
<1>12. PICK ys : ys = [zs EXCEPT ![z] = c]
  OBVIOUS
<1>13. ys = [y \in Zones |-> ys[y]] /\ ys[z] = c /\ \A y \in Zones : y # z => ys[y] = zs[y]
  BY <1>1, <1>12 DEF SoundZones
<1>14. SoundZones(ys)
  BY <1>2, <1>6, <1>13 DEF SoundZones
<1>15. ASSUME NEW f \in s + a .. s + a + x - 1 PROVE f \in Frames /\ ZoneOf(f) = z /\ IsFreeFrame(zs, f)
  <2>1. PICK p \in Nat : p = f - s /\ p \in a .. a + x - 1 /\ f = s + p
    OBVIOUS
  <2>2. IsFree(b, p)
    BY <1>6, <1>8, <2>1
  <2>3. p < b.size
    BY <1>2, <2>2 DEF IsFree, SoundBuddy
  <2>4. f \in Frames /\ ZoneOf(f) = z
    BY <1>2, <1>9, <2>1, <2>3, ZonesShareFrames
  <2>5. QED
    BY <1>2, <1>9, <2>1, <2>2, <2>4 DEF IsFreeFrame
<1>16. ASSUME NEW f \in Frames
       PROVE  IsFreeFrame(ys, f) <=> IsFreeFrame(zs, f) /\ f \notin s + a .. s + a + x - 1
  <2>1. ZoneOf(f) \in Zones /\ f \in Nat /\ f - ZoneStart[ZoneOf(f)] \in Nat
    BY ZonesShareFrames
  <2>2. CASE ZoneOf(f) = z
    <3>1. PICK p \in Nat : p = f - s
      BY <1>9, <2>1, <2>2
    <3>2. IsFree(c, p) <=> IsFree(b, p) /\ p \notin a .. a + x - 1
      BY <1>6, <1>8
    <3>3. p \in a .. a + x - 1 <=> f \in s + a .. s + a + x - 1
      BY <2>1, <3>1
    <3>4. QED
      BY <1>2, <1>9, <1>13, <2>2, <3>1, <3>2, <3>3 DEF IsFreeFrame
  <2>3. CASE ZoneOf(f) # z
    BY <1>13, <1>15, <2>1, <2>3 DEF IsFreeFrame
  <2>4. QED
    BY <2>2, <2>3
<1>17. PICK g \in Nat : g = FirstFrame(zs, o) /\ g = s + a
  BY <1>10
<1>18. \A f \in g .. g + x - 1 : f \in Frames /\ IsFreeFrame(zs, f)
  BY <1>15, <1>17
<1>19. \A f \in Frames : IsFreeFrame(ys, f) <=> IsFreeFrame(zs, f) /\ f \notin g .. g + x - 1
  BY <1>16, <1>17
<1>20. ys = AllocPages(zs, o)
  BY <1>11, <1>12
<1>21. QED
  BY <1>7, <1>14, <1>17, <1>18, <1>19, <1>20

\* free_page() of a frame that is not free frees it and no other.
LEMMA FrameReturned ==
  ASSUME NEW zs, SoundZones(zs), NEW f \in Frames, ~IsFreeFrame(zs, f)
  PROVE  /\ SoundZones(FreePage(zs, f))
         /\ \A g \in Frames : IsFreeFrame(FreePage(zs, f), g) <=> IsFreeFrame(zs, g) \/ g = f
<1>1. PICK z \in Zones : z = ZoneOf(f)
  BY ZonesShareFrames
<1>2. PICK p \in Nat : p = f - ZoneStart[z] /\ p < ZoneSize[z]
  BY <1>1, ZonesShareFrames
<1>3. PICK b : b = zs[z] /\ SoundBuddy(b) /\ b.size = ZoneSize[z] /\ ~IsFree(b, p)
  BY <1>1, <1>2 DEF SoundZones, IsFreeFrame
<1>4. 0 \in Orders /\ \A q \in Nat : Up(q, 0) = q /\ Aligned(q, 0)
  <2>1. 0 \in Orders
    BY BuddyAssumption DEF Orders
  <2>2. QED
    BY <2>1, UpNext, Power0 DEF Aligned
<1>5. PICK c : c = BuddyFree(b, p, 0)
  OBVIOUS
<1>6. SoundBuddy(c) /\ c.size = b.size /\ \A q \in Nat : IsFree(c, q) <=> IsFree(b, q) \/ q = p
  BY <1>2, <1>3, <1>4, <1>5, FreeGives
<1>7. PICK ys : ys = [zs EXCEPT ![z] = c]
  OBVIOUS
<1>8. ys = FreePage(zs, f)
  BY <1>1, <1>2, <1>3, <1>5, <1>7 DEF FreePage
<1>9. ys = [y \in Zones |-> ys[y]] /\ ys[z] = c /\ \A y \in Zones : y # z => ys[y] = zs[y]
  BY <1>7 DEF SoundZones
<1>10. SoundZones(ys)
  BY <1>3, <1>6, <1>9 DEF SoundZones
<1>11. ASSUME NEW g \in Frames PROVE IsFreeFrame(ys, g) <=> IsFreeFrame(zs, g) \/ g = f
  <2>1. ZoneOf(g) \in Zones /\ g - ZoneStart[ZoneOf(g)] \in Nat /\ g \in Nat /\ f \in Nat
        /\ ZoneStart[z] \in Nat
    BY ZonesShareFrames
  <2>2. CASE ZoneOf(g) = z
    <3>1. PICK q \in Nat : q = g - ZoneStart[z]
      BY <2>1, <2>2
    <3>2. q = p <=> g = f
      BY <1>2, <2>1, <3>1
    <3>3. QED
      BY <1>3, <1>6, <1>9, <2>2, <3>1, <3>2 DEF IsFreeFrame
  <2>3. CASE ZoneOf(g) # z
    BY <1>1, <1>9, <2>1, <2>3 DEF IsFreeFrame
  <2>4. QED
    BY <2>2, <2>3
<1>12. QED
  BY <1>8, <1>10, <1>11

\* The frames alloc_page(PAGE_REQ_NONE) can choose from.
FreeCount(zs) == Cardinality(FreePages(zs["NONE"])) + Cardinality(FreePages(zs["UNDER4GB"]))

\* What is free of an allocator is a finite set.
LEMMA FreePagesFinite ==
  ASSUME NEW b, SoundBuddy(b)
  PROVE  /\ IsFiniteSet(FreePages(b)) /\ Cardinality(FreePages(b)) \in Nat
         /\ \A p : p \in FreePages(b) <=> p \in Nat /\ IsFree(b, p)
<1>1. b.size \in Nat
  BY DEF SoundBuddy
<1>2. \A p : p \in FreePages(b) <=> p \in Nat /\ IsFree(b, p)
  <2>1. \A p \in Nat : IsFree(b, p) => p < b.size
    BY DEF IsFree, SoundBuddy
  <2>2. \A p \in 0 .. b.size - 1 : p \in Nat
    BY <1>1
  <2>3. \A p \in 0 .. b.size - 1 : FreeNodes(b, p) # {} <=> IsFree(b, p)
    BY DEF FreeNodes, IsFree, Up
  <2>4. \A p \in Nat : p < b.size => p \in 0 .. b.size - 1
    BY <1>1
  <2>5. QED
    BY <2>1, <2>2, <2>3, <2>4 DEF FreePages
<1>3. FreePages(b) \subseteq 0 .. b.size - 1
  BY DEF FreePages
<1>4. IsFiniteSet(0 .. b.size - 1)
  BY <1>1, FS_Interval
<1>5. IsFiniteSet(FreePages(b)) /\ Cardinality(FreePages(b)) \in Nat
  BY <1>3, <1>4, FS_Subset, FS_CardinalityType
<1>6. QED
  BY <1>2, <1>5

\* An allocator with a free page has one for a block of a page.
LEMMA OneCanBeAllocated ==
  ASSUME NEW b, SoundBuddy(b), Cardinality(FreePages(b)) # 0 PROVE CanAlloc(b, 0)
<1>1. PICK p \in Nat : IsFree(b, p)
  BY FreePagesFinite, FS_EmptySet
<1>2. PICK k \in Orders : b.orders[k] # {}
  BY <1>1 DEF IsFree
<1>3. 0 \in Orders /\ 0 <= k
  BY BuddyAssumption DEF Orders
<1>4. QED
  BY <1>2, <1>3, NodeCanBeAllocated

\* And taking it leaves one less.
LEMMA OneLess ==
  ASSUME NEW b, SoundBuddy(b), CanAlloc(b, 0)
  PROVE  Cardinality(FreePages(BuddyAlloc(b, 0))) = Cardinality(FreePages(b)) - 1
<1>1. 0 \in Orders /\ \A q \in Nat : Up(q, 0) = q
  <2>1. 0 \in Orders
    BY BuddyAssumption DEF Orders
  <2>2. QED
    BY <2>1, UpNext
<1>2. PICK c : c = BuddyAlloc(b, 0)
  OBVIOUS
<1>3. PICK a \in Nat : a = BuddyAddress(b, 0)
  BY <1>1, AllocTakes
<1>4. /\ SoundBuddy(c)
      /\ \A p \in Nat : /\ p = a => IsFree(b, p)
                        /\ IsFree(c, p) <=> IsFree(b, p) /\ p # a
  BY <1>1, <1>2, <1>3, AllocTakes
<1>5. FreePages(c) = FreePages(b) \ {a} /\ a \in FreePages(b)
  BY <1>4, FreePagesFinite
<1>6. QED
  BY <1>2, <1>5, FreePagesFinite, FS_RemoveElement

\* As long as frames are left alloc_page() gets one, and then one less is left.
LEMMA FrameCanBeTaken ==
  ASSUME NEW zs, SoundZones(zs)
  PROVE  /\ FreeCount(zs) \in Nat
         /\ FreeCount(zs) > 0 => CanAllocPages(zs, 0) /\ FreeCount(AllocPages(zs, 0)) = FreeCount(zs) - 1
<1>1. PICK b, c : /\ b = zs["NONE"] /\ SoundBuddy(b) /\ c = zs["UNDER4GB"] /\ SoundBuddy(c)
  BY DEF SoundZones, Zones
<1>2. PICK m \in Nat, n \in Nat : m = Cardinality(FreePages(b)) /\ n = Cardinality(FreePages(c))
  BY <1>1, FreePagesFinite
<1>3. FreeCount(zs) = m + n
  BY <1>1, <1>2 DEF FreeCount
<1>4. ASSUME FreeCount(zs) > 0
      PROVE  CanAllocPages(zs, 0) /\ FreeCount(AllocPages(zs, 0)) = FreeCount(zs) - 1
  <2>1. CASE CanAlloc(b, 0)
    <3>1. AllocPages(zs, 0) = [zs EXCEPT !["NONE"] = BuddyAlloc(b, 0)] /\ CanAllocPages(zs, 0)
      BY <1>1, <2>1 DEF AllocPages, CanAllocPages, ZoneTaken
    <3>2. PICK ys : ys = AllocPages(zs, 0)
      OBVIOUS
    <3>3. ys["NONE"] = BuddyAlloc(b, 0) /\ ys["UNDER4GB"] = c
      BY <1>1, <3>1, <3>2 DEF SoundZones, Zones
    <3>4. Cardinality(FreePages(BuddyAlloc(b, 0))) = m - 1
      BY <1>1, <1>2, <2>1, OneLess
    <3>5. FreeCount(ys) = (m - 1) + n
      BY <1>2, <3>3, <3>4 DEF FreeCount
    <3>6. QED
      BY <1>3, <3>1, <3>2, <3>5
  <2>2. CASE ~CanAlloc(b, 0)
    <3>1. m = 0
      BY <1>1, <1>2, <2>2, OneCanBeAllocated
    <3>2. n # 0
      BY <1>3, <1>4, <3>1
    <3>3. CanAlloc(c, 0)
      BY <1>1, <1>2, <3>2, OneCanBeAllocated
    <3>4. AllocPages(zs, 0) = [zs EXCEPT !["UNDER4GB"] = BuddyAlloc(c, 0)] /\ CanAllocPages(zs, 0)
      BY <1>1, <2>2, <3>3 DEF AllocPages, CanAllocPages, ZoneTaken
    <3>5. PICK ys : ys = AllocPages(zs, 0)
      OBVIOUS
    <3>6. ys["UNDER4GB"] = BuddyAlloc(c, 0) /\ ys["NONE"] = b
      BY <1>1, <3>4, <3>5 DEF SoundZones, Zones
    <3>7. Cardinality(FreePages(BuddyAlloc(c, 0))) = n - 1
      BY <1>1, <1>2, <3>3, OneLess
    <3>8. FreeCount(ys) = m + (n - 1)
      BY <1>2, <3>6, <3>7 DEF FreeCount
    <3>9. QED
      BY <1>3, <3>4, <3>5, <3>8
  <2>3. QED
    BY <2>1, <2>2
<1>5. QED
  BY <1>3, <1>4

-----------------------------------------------------------------------------
\* map() and unmap() of one page

\* The frames that are free or mapped.
Tracked == Managed \ SpareFrames

\* Addresses, frames and page table fit together: free addresses are not
\* mapped, and each frame that is tracked is free or mapped once.
SoundMemory(m) ==
  /\ m = [vm |-> m.vm, zones |-> m.zones, map |-> m.map]
  /\ SoundBuddy(m.vm) /\ m.vm.size = VmSize
  /\ SoundZones(m.zones)
  /\ m.map \in [VPages -> Frames \cup {NoFrame}]
  /\ \A p \in VPages : IsFree(m.vm, p) => m.map[p] = NoFrame
  /\ \A p, q \in VPages : m.map[p] = m.map[q] /\ m.map[p] # NoFrame => p = q
  /\ \A p \in VPages : m.map[p] # NoFrame => m.map[p] \in Tracked /\ ~IsFreeFrame(m.zones, m.map[p])
  /\ \A f \in Frames : IsFreeFrame(m.zones, f) => f \in Tracked
  /\ \A f \in Frames \cap Tracked : IsFreeFrame(m.zones, f) \/ \E p \in VPages : m.map[p] = f

\* NoFrame is no frame.
LEMMA NoFrameIsNone == NoFrame \notin Frames /\ Frames \subseteq Nat
BY PMMAssumption DEF NoFrame, Frames

\* The blocks that go to a page of their own.
LEMMA PageZero == /\ 0 \in Orders /\ 2^0 = 1
                  /\ VPages \subseteq Nat /\ VmSize \in Nat /\ VmSize <= VmPages
BY BuddyAssumption, VmAssumption, Power0 DEF Orders, VPages, VmSize

\* map() of one page to a frame from alloc_page()
LEMMA MapOneKeeps ==
  ASSUME NEW m, SoundMemory(m), NEW page \in VPages, m.map[page] = NoFrame, ~IsFree(m.vm, page),
         CanAllocPages(m.zones, 0)
  PROVE  /\ SoundMemory(MapOne(m, page)) /\ MapOne(m, page).vm = m.vm
         /\ MapOne(m, page).zones = AllocPages(m.zones, 0)
         /\ MapOne(m, page).map[page] # NoFrame
         /\ \A q \in VPages : q # page => MapOne(m, page).map[q] = m.map[q]
<1>1. PICK zs, ys, g : zs = m.zones /\ ys = AllocPages(zs, 0) /\ g = FirstFrame(zs, 0)
  OBVIOUS
<1>2. /\ SoundZones(ys) /\ g \in Nat
      /\ \A f \in g .. g + 1 - 1 : f \in Frames /\ IsFreeFrame(zs, f)
      /\ \A f \in Frames : IsFreeFrame(ys, f) <=> IsFreeFrame(zs, f) /\ f \notin g .. g + 1 - 1
  BY <1>1, PageZero, FramesTaken DEF SoundMemory
<1>3. g \in Frames /\ IsFreeFrame(zs, g)
      /\ \A f \in Frames : IsFreeFrame(ys, f) <=> IsFreeFrame(zs, f) /\ f # g
  <2>1. \A f \in Nat : f \in g .. g + 1 - 1 <=> f = g
    BY <1>2
  <2>2. QED
    BY <1>2, <2>1, NoFrameIsNone
<1>4. PICK n : n = MapOne(m, page)
  OBVIOUS
<1>5. PICK mp : mp = [m.map EXCEPT ![page] = g]
  OBVIOUS
<1>6. n = [vm |-> m.vm, zones |-> ys, map |-> mp]
  BY <1>1, <1>4, <1>5 DEF MapOne, SoundMemory
<1>7. n.vm = m.vm /\ n.zones = ys /\ n.map = mp
  BY <1>6
<1>8. m.map \in [VPages -> Frames \cup {NoFrame}]
  BY DEF SoundMemory
<1>9. mp \in [VPages -> Frames \cup {NoFrame}] /\ mp[page] = g /\ \A q \in VPages : q # page => mp[q] = m.map[q]
  BY <1>3, <1>5, <1>8
<1>10. g # NoFrame /\ g \in Tracked /\ \A q \in VPages : m.map[q] # g
  BY <1>1, <1>3, NoFrameIsNone DEF SoundMemory
<1>11. \A p, q \in VPages : mp[p] = mp[q] /\ mp[p] # NoFrame => p = q
  BY <1>9, <1>10 DEF SoundMemory
<1>12. \A p \in VPages : mp[p] # NoFrame => mp[p] \in Tracked /\ ~IsFreeFrame(ys, mp[p])
  BY <1>1, <1>3, <1>8, <1>9, <1>10 DEF SoundMemory
<1>13. \A f \in Frames : IsFreeFrame(ys, f) => f \in Tracked
  BY <1>1, <1>3 DEF SoundMemory
<1>14. ASSUME NEW f \in Frames \cap Tracked PROVE IsFreeFrame(ys, f) \/ \E p \in VPages : mp[p] = f
  <2>1. CASE f = g
    BY <1>9, <2>1
  <2>2. CASE IsFreeFrame(zs, f) /\ f # g
    BY <1>3, <2>2
  <2>3. CASE ~IsFreeFrame(zs, f)
    <3>1. PICK p \in VPages : m.map[p] = f
      BY <1>1, <2>3 DEF SoundMemory
    <3>2. p # page
      BY <3>1, NoFrameIsNone
    <3>3. QED
      BY <1>9, <3>1, <3>2
  <2>4. QED
    BY <2>1, <2>2, <2>3
<1>15. \A p \in VPages : IsFree(m.vm, p) => mp[p] = NoFrame
  BY <1>9 DEF SoundMemory
<1>16. n = [vm |-> n.vm, zones |-> n.zones, map |-> n.map]
  BY <1>6
<1>17. SoundMemory(n)
  BY <1>2, <1>7, <1>9, <1>11, <1>12, <1>13, <1>14, <1>15, <1>16 DEF SoundMemory
<1>18. QED
  BY <1>1, <1>4, <1>7, <1>9, <1>10, <1>17

\* free_page() of the frame of one page, and unmap()
LEMMA UnmapOneKeeps ==
  ASSUME NEW m, SoundMemory(m), NEW page \in VPages, m.map[page] # NoFrame
  PROVE  /\ SoundMemory(UnmapOne(m, page)) /\ UnmapOne(m, page).vm = m.vm
         /\ UnmapOne(m, page).map[page] = NoFrame
         /\ \A q \in VPages : q # page => UnmapOne(m, page).map[q] = m.map[q]
<1>1. PICK zs, g : zs = m.zones /\ g = m.map[page]
  OBVIOUS
<1>2. m.map \in [VPages -> Frames \cup {NoFrame}] /\ SoundZones(zs)
  BY <1>1 DEF SoundMemory
<1>3. g \in Frames /\ g \in Tracked /\ ~IsFreeFrame(zs, g)
  BY <1>1, <1>2 DEF SoundMemory
<1>4. PICK ys : ys = FreePage(zs, g)
  OBVIOUS
<1>5. SoundZones(ys) /\ \A f \in Frames : IsFreeFrame(ys, f) <=> IsFreeFrame(zs, f) \/ f = g
  BY <1>2, <1>3, <1>4, FrameReturned
<1>6. PICK n : n = UnmapOne(m, page)
  OBVIOUS
<1>7. PICK mp : mp = [m.map EXCEPT ![page] = NoFrame]
  OBVIOUS
<1>8. n = [vm |-> m.vm, zones |-> ys, map |-> mp]
  BY <1>1, <1>4, <1>6, <1>7 DEF UnmapOne, SoundMemory
<1>9. n.vm = m.vm /\ n.zones = ys /\ n.map = mp
  BY <1>8
<1>10. mp \in [VPages -> Frames \cup {NoFrame}] /\ mp[page] = NoFrame
       /\ \A q \in VPages : q # page => mp[q] = m.map[q]
  BY <1>2, <1>7
<1>11. \A p, q \in VPages : mp[p] = mp[q] /\ mp[p] # NoFrame => p = q
  BY <1>10 DEF SoundMemory
<1>12. ASSUME NEW p \in VPages, mp[p] # NoFrame PROVE mp[p] \in Tracked /\ ~IsFreeFrame(ys, mp[p])
  <2>1. p # page /\ mp[p] = m.map[p]
    BY <1>10, <1>12
  <2>2. mp[p] \in Frames /\ mp[p] # g
    BY <1>1, <1>2, <1>12, <2>1 DEF SoundMemory
  <2>3. QED
    BY <1>1, <1>5, <1>12, <2>1, <2>2 DEF SoundMemory
<1>13. \A f \in Frames : IsFreeFrame(ys, f) => f \in Tracked
  BY <1>1, <1>3, <1>5 DEF SoundMemory
<1>14. ASSUME NEW f \in Frames \cap Tracked PROVE IsFreeFrame(ys, f) \/ \E p \in VPages : mp[p] = f
  <2>1. CASE f = g
    BY <1>5, <2>1
  <2>2. CASE f # g /\ ~IsFreeFrame(zs, f)
    <3>1. PICK p \in VPages : m.map[p] = f
      BY <1>1, <2>2 DEF SoundMemory
    <3>2. p # page
      BY <1>1, <2>2, <3>1
    <3>3. QED
      BY <1>10, <3>1, <3>2
  <2>3. QED
    BY <1>5, <2>1, <2>2
<1>15. \A p \in VPages : IsFree(m.vm, p) => mp[p] = NoFrame
  BY <1>10 DEF SoundMemory
<1>16. n = [vm |-> n.vm, zones |-> n.zones, map |-> n.map]
  BY <1>8
<1>17. SoundMemory(n)
  BY <1>5, <1>9, <1>10, <1>11, <1>12, <1>13, <1>14, <1>15, <1>16 DEF SoundMemory
<1>18. QED
  BY <1>6, <1>9, <1>10, <1>17

-----------------------------------------------------------------------------
\* Blocks of pages, one page after the other

\* The sets that the parts of the memory belong to.
Memories ==
  [vm    : [size : Nat, orders : [Orders -> SUBSET Nat]],
   zones : [Zones -> [size : Nat, orders : [Orders -> SUBSET Nat]]],
   map   : [VPages -> Frames \cup {NoFrame}]]

\* A sound memory is one the loops of map() and unmap() run through.
LEMMA MemoryType == ASSUME NEW m, SoundMemory(m) PROVE m \in Memories
<1>1. \A z \in Zones : m.zones[z] \in [size : Nat, orders : [Orders -> SUBSET Nat]]
  BY DEF SoundMemory, SoundZones, SoundBuddy
<1>2. m.zones \in [Zones -> [size : Nat, orders : [Orders -> SUBSET Nat]]]
  BY <1>1 DEF SoundMemory, SoundZones
<1>3. m.vm \in [size : Nat, orders : [Orders -> SUBSET Nat]] /\ m.map \in [VPages -> Frames \cup {NoFrame}]
  BY DEF SoundMemory, SoundBuddy
<1>4. m = [vm |-> m.vm, zones |-> m.zones, map |-> m.map]
  BY DEF SoundMemory
<1>5. QED
  BY <1>2, <1>3, <1>4 DEF Memories

\* unmap() of a block that is mapped
LEMMA UnmapPagesKeeps ==
  ASSUME NEW m, SoundMemory(m), NEW page \in Nat, NEW o \in Nat,
         \A p \in Block(page, o) : p \in VPages /\ m.map[p] # NoFrame
  PROVE  /\ SoundMemory(UnmapPages(m, page, o)) /\ UnmapPages(m, page, o).vm = m.vm
         /\ \A p \in VPages : UnmapPages(m, page, o).map[p] = IF p \in Block(page, o) THEN NoFrame ELSE m.map[p]
<1>1. PICK n \in Nat \ {0} : n = 2^o
  BY PowersArePositive
<1> DEFINE G(f) == [k \in 0 .. n |-> IF k = 0 THEN m ELSE UnmapOne(f[k - 1], page + k - 1)]
           Step(k, y) == UnmapOne(y, page + k - 1)
           I == [k \in 0 .. n |-> { y \in Memories :
                   /\ SoundMemory(y) /\ y.vm = m.vm
                   /\ \A p \in VPages : y.map[p] = IF p \in page .. page + k - 1 THEN NoFrame ELSE m.map[p] }]
           F == [k \in 1 .. n |-> [y \in I[k - 1] |-> Step(k, y)]]
<1>2. UnmapPages(m, page, o) = (CHOOSE f : f = G(f))[n]
  BY <1>1 DEF UnmapPages
<1>3. VPages \subseteq Nat
  BY PageZero
<1>4. m \in I[0]
  BY <1>3, MemoryType
<1>5. ASSUME NEW k \in 1 .. n, NEW y \in I[k - 1] PROVE F[k][y] = Step(k, y) /\ Step(k, y) \in I[k]
  <2>1. k - 1 \in 0 .. n /\ k \in 0 .. n
    OBVIOUS
  <2>2. /\ SoundMemory(y) /\ y.vm = m.vm
        /\ \A p \in VPages : y.map[p] = IF p \in page .. page + (k - 1) - 1 THEN NoFrame ELSE m.map[p]
    BY <2>1
  <2>3. PICK q \in VPages : q = page + k - 1 /\ y.map[q] # NoFrame
    <3>1. page + k - 1 \in page .. page + n - 1 /\ page + k - 1 \notin page .. page + (k - 1) - 1
      OBVIOUS
    <3>2. page + k - 1 \in VPages /\ m.map[page + k - 1] # NoFrame
      BY <1>1, <3>1 DEF Block
    <3>3. QED
      BY <2>2, <3>1, <3>2
  <2>4. PICK w : w = UnmapOne(y, q)
    OBVIOUS
  <2>5. SoundMemory(w) /\ w.vm = m.vm /\ w.map[q] = NoFrame /\ \A p \in VPages : p # q => w.map[p] = y.map[p]
    BY <2>2, <2>3, <2>4, UnmapOneKeeps
  <2>6. ASSUME NEW p \in VPages PROVE w.map[p] = IF p \in page .. page + k - 1 THEN NoFrame ELSE m.map[p]
    <3>1. p \in page .. page + k - 1 <=> p \in page .. page + (k - 1) - 1 \/ p = q
      BY <1>3, <2>3
    <3>2. QED
      BY <2>2, <2>5, <3>1
  <2>7. w \in I[k]
    BY <2>1, <2>5, <2>6, MemoryType
  <2>8. F[k][y] = Step(k, y)
    OBVIOUS
  <2>9. Step(k, y) = w
    BY <2>3, <2>4
  <2>10. QED
    BY <2>7, <2>8, <2>9
<1> HIDE DEF I, F, Step
<1>6. PICK s : s = CHOOSE f : f = G(f)
  OBVIOUS
<1>7. s = G(s)
  <2>0. \A k \in 1 .. n : \A y \in I[k - 1] : F[k][y] \in I[k]
    BY <1>5
  <2>1. PICK f : f = [k \in 0 .. n |-> f[k]] /\ Iterated(f, m, n, F, I)
    BY <1>4, <2>0, IteratesExist
  <2>2. ASSUME NEW k \in 1 .. n PROVE f[k] = UnmapOne(f[k - 1], page + k - 1)
    <3>1. k - 1 \in 0 .. n
      OBVIOUS
    <3>2. f[k - 1] \in I[k - 1] /\ f[k] = F[k][f[k - 1]]
      BY <2>1, <3>1 DEF Iterated
    <3>3. QED
      BY <1>5, <3>2 DEF Step
  <2>3. f[0] = m /\ \A k \in 0 .. n : k # 0 => k \in 1 .. n
    BY <2>1 DEF Iterated
  <2>4. f = G(f)
    BY <2>1, <2>2, <2>3
  <2>5. QED
    BY <1>6, <2>4
<1>8. s[0] = m /\ \A k \in 1 .. n : s[k] = Step(k, s[k - 1])
  <2>1. 0 \in 0 .. n /\ \A k \in 1 .. n : k \in 0 .. n /\ k # 0
    OBVIOUS
  <2>2. QED
    BY <1>7, <2>1 DEF Step
<1>9. s[n] \in I[n]
  <2>1. s[0] \in I[0] /\ \A k \in 1 .. n : s[k - 1] \in I[k - 1] => s[k] = F[k][s[k - 1]]
    BY <1>4, <1>5, <1>8
  <2>2. \A k \in 1 .. n : \A y \in I[k - 1] : F[k][y] \in I[k]
    BY <1>5
  <2>3. QED
    BY <2>1, <2>2, IteratesStay
<1>10. UnmapPages(m, page, o) \in I[n] /\ n \in 0 .. n
  BY <1>2, <1>6, <1>9
<1>11. QED
  BY <1>1, <1>10 DEF I, Block

\* map() of a block of addresses, page by page
LEMMA MapPagesKeeps ==
  ASSUME NEW m, SoundMemory(m), NEW page \in Nat, NEW o \in Nat, HasFrames(m, 2^o),
         \A p \in Block(page, o) : p \in VPages /\ m.map[p] = NoFrame /\ ~IsFree(m.vm, p)
  PROVE  /\ SoundMemory(MapPages(m, page, o)) /\ MapPages(m, page, o).vm = m.vm
         /\ \A p \in VPages : IF p \in Block(page, o) THEN MapPages(m, page, o).map[p] # NoFrame
                              ELSE MapPages(m, page, o).map[p] = m.map[p]
<1>1. PICK n \in Nat \ {0} : n = 2^o
  BY PowersArePositive
<1> DEFINE G(f) == [k \in 0 .. n |-> IF k = 0 THEN m ELSE MapOne(f[k - 1], page + k - 1)]
           Step(k, y) == MapOne(y, page + k - 1)
           I == [k \in 0 .. n |-> { y \in Memories :
                   /\ SoundMemory(y) /\ y.vm = m.vm /\ FreeCount(y.zones) + k >= n
                   /\ \A p \in VPages : IF p \in page .. page + k - 1 THEN y.map[p] # NoFrame
                                        ELSE y.map[p] = m.map[p] }]
           F == [k \in 1 .. n |-> [y \in I[k - 1] |-> Step(k, y)]]
<1>2. MapPages(m, page, o) = (CHOOSE f : f = G(f))[n]
  BY <1>1 DEF MapPages
<1>3. VPages \subseteq Nat
  BY PageZero
<1>4. m \in I[0]
  <2>1. FreeCount(m.zones) \in Nat /\ n <= FreeCount(m.zones)
    <3>1. PICK a, c : /\ a = Cardinality(FreePages(m.zones["NONE"])) /\ a = 0
                      /\ c = Cardinality(FreePages(m.zones["UNDER4GB"])) /\ n <= c
      BY <1>1, FS_EmptySet DEF HasFrames
    <3>2. FreeCount(m.zones) = a + c /\ FreeCount(m.zones) \in Nat
      BY <3>1, FrameCanBeTaken DEF SoundMemory, FreeCount
    <3>3. PICK s \in Nat : s = FreeCount(m.zones) /\ s = a + c
      BY <3>2
    <3>4. SoundBuddy(m.zones["UNDER4GB"])
      BY DEF SoundMemory, SoundZones, Zones
    <3>5. c \in Nat
      BY <3>1, <3>4, FreePagesFinite, FS_CardinalityType
    <3>6. QED
      BY <1>1, <3>1, <3>3, <3>5
  <2>2. FreeCount(m.zones) + 0 >= n
    BY <2>1
  <2>3. QED
    BY <1>3, <2>2, MemoryType
<1>5. ASSUME NEW k \in 1 .. n, NEW y \in I[k - 1] PROVE F[k][y] = Step(k, y) /\ Step(k, y) \in I[k]
  <2>1. k - 1 \in 0 .. n /\ k \in 0 .. n
    OBVIOUS
  <2>2. /\ SoundMemory(y) /\ y.vm = m.vm /\ FreeCount(y.zones) + (k - 1) >= n
        /\ \A p \in VPages : IF p \in page .. page + (k - 1) - 1 THEN y.map[p] # NoFrame
                             ELSE y.map[p] = m.map[p]
    BY <2>1
  <2>3. PICK q \in VPages : q = page + k - 1 /\ y.map[q] = NoFrame /\ ~IsFree(m.vm, q)
    <3>1. page + k - 1 \in page .. page + n - 1 /\ page + k - 1 \notin page .. page + (k - 1) - 1
      OBVIOUS
    <3>2. page + k - 1 \in VPages /\ m.map[page + k - 1] = NoFrame /\ ~IsFree(m.vm, page + k - 1)
      BY <1>1, <3>1 DEF Block
    <3>3. QED
      BY <2>2, <3>1, <3>2
  <2>4. PICK w, zs, ys : w = MapOne(y, q) /\ zs = y.zones /\ ys = AllocPages(zs, 0)
    OBVIOUS
  <2>5. SoundZones(zs) /\ FreeCount(zs) \in Nat
    BY <2>2, <2>4, FrameCanBeTaken DEF SoundMemory
  <2>6. FreeCount(zs) > 0
    BY <2>2, <2>4, <2>5
  <2>7. CanAllocPages(zs, 0) /\ FreeCount(ys) = FreeCount(zs) - 1
    BY <2>4, <2>5, <2>6, FrameCanBeTaken
  <2>8. /\ SoundMemory(w) /\ w.vm = m.vm /\ w.zones = ys /\ w.map[q] # NoFrame
        /\ \A p \in VPages : p # q => w.map[p] = y.map[p]
    BY <2>2, <2>3, <2>4, <2>7, MapOneKeeps
  <2>9. FreeCount(w.zones) + k >= n
    <3>1. PICK a \in Nat : a = FreeCount(zs)
      BY <2>5
    <3>2. a + (k - 1) >= n => (a - 1) + k >= n
      OBVIOUS
    <3>3. QED
      BY <2>2, <2>4, <2>7, <2>8, <3>1, <3>2
  <2>10. ASSUME NEW p \in VPages
         PROVE  IF p \in page .. page + k - 1 THEN w.map[p] # NoFrame ELSE w.map[p] = m.map[p]
    <3>1. p \in page .. page + k - 1 <=> p \in page .. page + (k - 1) - 1 \/ p = q
      BY <1>3, <2>3
    <3>2. QED
      BY <2>2, <2>8, <3>1
  <2>11. w \in I[k]
    BY <2>1, <2>8, <2>9, <2>10, MemoryType
  <2>12. F[k][y] = Step(k, y)
    OBVIOUS
  <2>13. Step(k, y) = w
    BY <2>3, <2>4
  <2>14. QED
    BY <2>11, <2>12, <2>13
<1> HIDE DEF I, F, Step
<1>6. PICK s : s = CHOOSE f : f = G(f)
  OBVIOUS
<1>7. s = G(s)
  <2>0. \A k \in 1 .. n : \A y \in I[k - 1] : F[k][y] \in I[k]
    BY <1>5
  <2>1. PICK f : f = [k \in 0 .. n |-> f[k]] /\ Iterated(f, m, n, F, I)
    BY <1>4, <2>0, IteratesExist
  <2>2. ASSUME NEW k \in 1 .. n PROVE f[k] = MapOne(f[k - 1], page + k - 1)
    <3>1. k - 1 \in 0 .. n
      OBVIOUS
    <3>2. f[k - 1] \in I[k - 1] /\ f[k] = F[k][f[k - 1]]
      BY <2>1, <3>1 DEF Iterated
    <3>3. QED
      BY <1>5, <3>2 DEF Step
  <2>3. f[0] = m /\ \A k \in 0 .. n : k # 0 => k \in 1 .. n
    BY <2>1 DEF Iterated
  <2>4. f = G(f)
    BY <2>1, <2>2, <2>3
  <2>5. QED
    BY <1>6, <2>4
<1>8. s[0] = m /\ \A k \in 1 .. n : s[k] = Step(k, s[k - 1])
  <2>1. 0 \in 0 .. n /\ \A k \in 1 .. n : k \in 0 .. n /\ k # 0
    OBVIOUS
  <2>2. QED
    BY <1>7, <2>1 DEF Step
<1>9. s[n] \in I[n]
  <2>1. s[0] \in I[0] /\ \A k \in 1 .. n : s[k - 1] \in I[k - 1] => s[k] = F[k][s[k - 1]]
    BY <1>4, <1>5, <1>8
  <2>2. \A k \in 1 .. n : \A y \in I[k - 1] : F[k][y] \in I[k]
    BY <1>5
  <2>3. QED
    BY <2>1, <2>2, IteratesStay, ZenonT(60)
<1>10. MapPages(m, page, o) \in I[n] /\ n \in 0 .. n
  BY <1>2, <1>6, <1>9
<1>11. QED
  BY <1>1, <1>10 DEF I, Block

-----------------------------------------------------------------------------
\* vmspace_alloc() and vmspace_free()

\* What an allocation takes out of the vmspace.
Takes(b, c, a, o) ==
  /\ a \in Nat /\ Aligned(a, o)
  /\ \A p \in Block(a, o) : p \in Nat /\ p < VmSize /\ IsFree(b, p)
  /\ \A p \in Nat : IsFree(c, p) <=> IsFree(b, p) /\ p \notin Block(a, o)

\* vmspace_alloc() takes the pages of its block out of the allocator of addresses.
LEMMA AddressTaken ==
  ASSUME NEW b, SoundBuddy(b), b.size = VmSize, NEW o \in Orders, CanAlloc(b, o)
  PROVE  /\ SoundBuddy(BuddyAlloc(b, o)) /\ BuddyAlloc(b, o).size = VmSize
         /\ Takes(b, BuddyAlloc(b, o), BuddyAddress(b, o), o)
<1>1. PICK c : c = BuddyAlloc(b, o)
  OBVIOUS
<1>2. PICK a \in Nat : a = BuddyAddress(b, o)
  BY AllocTakes
<1>3. /\ SoundBuddy(c) /\ c.size = VmSize /\ Aligned(a, o)
      /\ \A p \in Nat : /\ Up(p, o) = Up(a, o) => IsFree(b, p)
                        /\ IsFree(c, p) <=> IsFree(b, p) /\ Up(p, o) # Up(a, o)
  BY <1>1, <1>2, AllocTakes
<1>4. o \in Nat
  BY BuddyAssumption DEF Orders
<1>5. PICK x \in Nat \ {0} : x = 2^o
  BY <1>4, PowersArePositive
<1>6. \A p \in Nat : p \in Block(a, o) <=> Up(p, o) = Up(a, o)
  BY <1>3, <1>4, BlockIsNode DEF Block
<1>7. \A p \in Block(a, o) : p \in Nat
  BY <1>5 DEF Block
<1>8. \A p \in Nat : IsFree(b, p) => p < VmSize
  BY DEF IsFree, SoundBuddy
<1>9. QED
  BY <1>1, <1>2, <1>3, <1>6, <1>7, <1>8 DEF Takes

\* vmspace_alloc() with alloc_phys
LEMMA VmspaceAllocKeeps ==
  ASSUME NEW m, SoundMemory(m), NEW o \in Orders, HasMemory(m, o)
  PROVE  /\ SoundMemory(VmspaceAlloc(m, o)) /\ Takes(m.vm, VmspaceAlloc(m, o).vm, Address(m, o), o)
         /\ \A p \in VPages : IF p \in Block(Address(m, o), o) THEN VmspaceAlloc(m, o).map[p] # NoFrame
                              ELSE VmspaceAlloc(m, o).map[p] = m.map[p]
<1>1. PICK b, c, a : b = m.vm /\ c = BuddyAlloc(b, o) /\ a = Address(m, o)
  OBVIOUS
<1>2. SoundBuddy(b) /\ b.size = VmSize /\ CanAlloc(b, o) /\ a = BuddyAddress(b, o)
  BY <1>1 DEF SoundMemory, HasMemory, HasAddress, Address
<1>3. SoundBuddy(c) /\ c.size = VmSize /\ Takes(b, c, a, o)
  BY <1>1, <1>2, AddressTaken
<1>4. PICK zs, ys, g : zs = m.zones /\ ys = AllocPages(zs, o) /\ g = FirstFrame(zs, o)
  OBVIOUS
<1>5. PICK x \in Nat \ {0} : x = 2^o
  BY PowersArePositive, BuddyAssumption DEF Orders
<1>6. /\ SoundZones(ys) /\ g \in Nat
      /\ \A f \in g .. g + x - 1 : f \in Frames /\ IsFreeFrame(zs, f)
      /\ \A f \in Frames : IsFreeFrame(ys, f) <=> IsFreeFrame(zs, f) /\ f \notin g .. g + x - 1
  BY <1>4, <1>5, FramesTaken DEF SoundMemory, HasMemory
<1>7. PICK mp : mp = [p \in VPages |-> IF p \in Block(a, o) THEN g + (p - a) ELSE m.map[p]]
  OBVIOUS
<1>8. PICK n : n = VmspaceAlloc(m, o)
  OBVIOUS
<1>9. n = [vm |-> c, zones |-> ys, map |-> mp]
  BY <1>1, <1>4, <1>7, <1>8 DEF VmspaceAlloc
<1>10. n.vm = c /\ n.zones = ys /\ n.map = mp
  BY <1>9
<1>11. m.map \in [VPages -> Frames \cup {NoFrame}] /\ VPages \subseteq Nat
  BY PageZero DEF SoundMemory
<1>12. a \in Nat /\ \A p \in Block(a, o) : p \in Nat /\ p < VmSize /\ IsFree(b, p)
  BY <1>3 DEF Takes
<1>13. \A p \in Block(a, o) : g + (p - a) \in g .. g + x - 1
  BY <1>5, <1>6, <1>12 DEF Block
<1>14. \A p \in VPages : p \in Block(a, o) => mp[p] \in Frames /\ IsFreeFrame(zs, mp[p])
                                              /\ mp[p] = g + (p - a)
  BY <1>6, <1>7, <1>13
<1>15. \A p \in VPages : p \notin Block(a, o) => mp[p] = m.map[p]
  BY <1>7
<1>16. mp \in [VPages -> Frames \cup {NoFrame}]
  <2>1. \A p \in VPages : mp[p] \in Frames \cup {NoFrame}
    BY <1>11, <1>14, <1>15
  <2>2. mp = [p \in VPages |-> mp[p]]
    BY <1>7
  <2>3. QED
    BY <2>1, <2>2
<1>17. \A p \in VPages : m.map[p] # NoFrame => ~IsFreeFrame(zs, m.map[p]) /\ m.map[p] \in Tracked
  BY <1>4 DEF SoundMemory
<1>18. ASSUME NEW p \in VPages, NEW q \in VPages, mp[p] = mp[q], mp[p] # NoFrame PROVE p = q
  <2>1. CASE p \in Block(a, o) /\ q \in Block(a, o)
    <3>1. p \in Nat /\ q \in Nat /\ g + (p - a) = g + (q - a)
      BY <1>11, <1>14, <1>18, <2>1
    <3>2. QED
      BY <1>6, <1>12, <3>1
  <2>2. CASE p \notin Block(a, o) /\ q \notin Block(a, o)
    BY <1>15, <1>18, <2>2 DEF SoundMemory
  <2>3. CASE ~(p \in Block(a, o) <=> q \in Block(a, o))
    BY <1>14, <1>15, <1>17, <1>18, <2>3
  <2>4. QED
    BY <2>1, <2>2, <2>3
<1>19. ASSUME NEW p \in VPages, mp[p] # NoFrame PROVE mp[p] \in Tracked /\ ~IsFreeFrame(ys, mp[p])
  <2>1. CASE p \in Block(a, o)
    <3>1. mp[p] \in Frames /\ IsFreeFrame(zs, mp[p]) /\ mp[p] \in g .. g + x - 1
      BY <1>13, <1>14, <2>1
    <3>2. QED
      BY <1>4, <1>6, <3>1 DEF SoundMemory
  <2>2. CASE p \notin Block(a, o)
    <3>1. mp[p] = m.map[p] /\ mp[p] \in Frames
      BY <1>11, <1>15, <1>19, <2>2
    <3>2. QED
      BY <1>6, <1>17, <1>19, <3>1
  <2>3. QED
    BY <2>1, <2>2
<1>20. \A f \in Frames : IsFreeFrame(ys, f) => f \in Tracked
  BY <1>4, <1>6 DEF SoundMemory
<1>21. ASSUME NEW f \in Frames \cap Tracked PROVE IsFreeFrame(ys, f) \/ \E p \in VPages : mp[p] = f
  <2>1. CASE f \in g .. g + x - 1
    <3>1. PICK p \in Nat : p = a + (f - g) /\ p \in a .. a + x - 1 /\ f = g + (p - a)
      BY <1>6, <1>12, <2>1
    <3>2. p \in Block(a, o)
      BY <1>5, <3>1 DEF Block
    <3>3. p \in VPages
      BY <1>12, <3>2, VmAssumption DEF VPages, VmSize
    <3>4. QED
      BY <1>14, <3>1, <3>2, <3>3
  <2>2. CASE IsFreeFrame(zs, f) /\ f \notin g .. g + x - 1
    BY <1>6, <2>2
  <2>3. CASE ~IsFreeFrame(zs, f)
    <3>1. PICK p \in VPages : m.map[p] = f
      BY <1>4, <2>3 DEF SoundMemory
    <3>2. m.map[p] # NoFrame
      BY <3>1, NoFrameIsNone
    <3>3. p \notin Block(a, o)
      BY <1>1, <1>12, <3>2 DEF SoundMemory
    <3>4. QED
      BY <1>15, <3>1, <3>3
  <2>4. QED
    BY <2>1, <2>2, <2>3
<1>22. \A p \in VPages : IsFree(c, p) => mp[p] = NoFrame
  BY <1>1, <1>3, <1>11, <1>15 DEF SoundMemory, Takes
<1>23. n = [vm |-> n.vm, zones |-> n.zones, map |-> n.map]
  BY <1>9
<1>24. SoundMemory(n)
  BY <1>3, <1>6, <1>10, <1>16, <1>18, <1>19, <1>20, <1>21, <1>22, <1>23 DEF SoundMemory
<1>25. \A p \in VPages : IF p \in Block(a, o) THEN mp[p] # NoFrame ELSE mp[p] = m.map[p]
  BY <1>14, <1>15, NoFrameIsNone
<1>26. QED
  BY <1>1, <1>3, <1>8, <1>10, <1>24, <1>25

\* vmspace_alloc() without alloc_phys
LEMMA VmspaceReserveKeeps ==
  ASSUME NEW m, SoundMemory(m), NEW o \in Orders, HasAddress(m, o)
  PROVE  /\ SoundMemory(VmspaceReserve(m, o)) /\ Takes(m.vm, VmspaceReserve(m, o).vm, Address(m, o), o)
         /\ VmspaceReserve(m, o).map = m.map /\ VmspaceReserve(m, o).zones = m.zones
<1>1. PICK b, c, a : b = m.vm /\ c = BuddyAlloc(b, o) /\ a = Address(m, o)
  OBVIOUS
<1>2. SoundBuddy(b) /\ b.size = VmSize /\ CanAlloc(b, o) /\ a = BuddyAddress(b, o)
  BY <1>1 DEF SoundMemory, HasAddress, Address
<1>3. SoundBuddy(c) /\ c.size = VmSize /\ Takes(b, c, a, o)
  BY <1>1, <1>2, AddressTaken
<1>4. PICK n : n = VmspaceReserve(m, o)
  OBVIOUS
<1>5. n = [vm |-> c, zones |-> m.zones, map |-> m.map]
  BY <1>1, <1>4 DEF VmspaceReserve, SoundMemory
<1>6. n.vm = c /\ n.zones = m.zones /\ n.map = m.map /\ n = [vm |-> n.vm, zones |-> n.zones, map |-> n.map]
  BY <1>5
<1>7. \A p \in VPages : IsFree(c, p) => m.map[p] = NoFrame
  BY <1>1, <1>3, PageZero DEF SoundMemory, Takes
<1>8. SoundMemory(n)
  BY <1>3, <1>6, <1>7 DEF SoundMemory
<1>9. QED
  BY <1>1, <1>3, <1>4, <1>6, <1>8

\* vmspace_free() with free_phys, of a block that is mapped
LEMMA VmspaceFreeKeeps ==
  ASSUME NEW m, SoundMemory(m), NEW a \in Nat, NEW o \in Orders, Aligned(a, o),
         \A p \in Block(a, o) : p \in Nat /\ p < VmSize /\ m.map[p] # NoFrame
  PROVE  /\ SoundMemory(VmspaceFree(m, a, o))
         /\ \A p \in Nat : IsFree(VmspaceFree(m, a, o).vm, p) <=> IsFree(m.vm, p) \/ p \in Block(a, o)
         /\ \A p \in VPages : VmspaceFree(m, a, o).map[p] = IF p \in Block(a, o) THEN NoFrame ELSE m.map[p]
<1>1. o \in Nat
  BY BuddyAssumption DEF Orders
<1>2. \A p \in Block(a, o) : p \in VPages /\ m.map[p] # NoFrame
  <2>1. \A p \in Nat : p < VmSize => p \in VPages
    BY VmAssumption DEF VPages, VmSize
  <2>2. QED
    BY <2>1
<1>3. PICK u : u = UnmapPages(m, a, o)
  OBVIOUS
<1>4. /\ SoundMemory(u) /\ u.vm = m.vm
      /\ \A p \in VPages : u.map[p] = IF p \in Block(a, o) THEN NoFrame ELSE m.map[p]
  BY <1>1, <1>2, <1>3, UnmapPagesKeeps, SMTT(30)
<1>5. PICK b : b = m.vm /\ SoundBuddy(b) /\ b.size = VmSize
  BY DEF SoundMemory
<1>6. \A p \in Nat : p \in Block(a, o) <=> Up(p, o) = Up(a, o)
  BY <1>1, BlockIsNode DEF Block
<1>7. \A p \in Nat : Up(p, o) = Up(a, o) => p < b.size /\ ~IsFree(b, p)
  BY <1>2, <1>5, <1>6 DEF SoundMemory
<1>8. PICK c : c = BuddyFree(b, a, o)
  OBVIOUS
<1>9. /\ SoundBuddy(c) /\ c.size = VmSize
      /\ \A p \in Nat : IsFree(c, p) <=> IsFree(b, p) \/ p \in Block(a, o)
  BY <1>5, <1>6, <1>7, <1>8, FreeGives
<1>10. PICK n : n = VmspaceFree(m, a, o)
  OBVIOUS
<1>11. n = [u EXCEPT !.vm = c]
  BY <1>3, <1>4, <1>5, <1>8, <1>10 DEF VmspaceFree, SoundMemory
<1>12. n = [vm |-> c, zones |-> u.zones, map |-> u.map]
  BY <1>4, <1>11 DEF SoundMemory
<1>13. n.vm = c /\ n.zones = u.zones /\ n.map = u.map /\ n = [vm |-> n.vm, zones |-> n.zones, map |-> n.map]
  BY <1>12
<1>14. \A p \in VPages : IsFree(c, p) => u.map[p] = NoFrame
  BY <1>4, <1>5, <1>9, PageZero DEF SoundMemory
<1>15. SoundMemory(n)
  BY <1>4, <1>9, <1>13, <1>14 DEF SoundMemory
<1>16. QED
  BY <1>4, <1>5, <1>9, <1>10, <1>13, <1>15

-----------------------------------------------------------------------------
\* early_alloc_page()

\* Ranges of memory that lie apart.
SoundRanges(rs) ==
  /\ rs \in [DOMAIN Ranges -> [start : Nat, extent : Nat]]
  /\ \A i \in DOMAIN Ranges : rs[i].start + rs[i].extent <= MaxExtent
  /\ \A i, j \in DOMAIN Ranges : i < j => InRange(rs[i]) \cap InRange(rs[j]) = {}

\* early_alloc_page() leaves ranges of memory, still apart from each other.
LEMMA EarlyAllocKeeps ==
  ASSUME NEW rs, SoundRanges(rs), \E i \in DOMAIN rs : Usable(rs[i]) PROVE SoundRanges(EarlyAllocPage(rs))
<1> DEFINE D == DOMAIN Ranges
           U == { i \in D : Usable(rs[i]) }
<1>1. rs \in [D -> [start : Nat, extent : Nat]] /\ DOMAIN rs = D
  BY DEF SoundRanges
<1>2. Ranges \in Seq([start : Nat, extent : Nat])
  BY PMMAssumption DEF PMMAssumption
<1>3. D = 1 .. Len(Ranges) /\ Len(Ranges) \in Nat
  BY <1>2
<1>4. U \in SUBSET Nat /\ U # {}
  BY <1>1, <1>3
<1>5. PICK m \in U : \A i \in U : m <= i
  BY <1>4, LeastNumber
<1>6. \A j \in 1 .. m - 1 : ~Usable(rs[j])
  <2>1. \A j \in 1 .. m - 1 : j \in D /\ ~(m <= j)
    BY <1>3, <1>5
  <2>2. QED
    BY <1>5, <2>1
<1>7. \E i \in DOMAIN rs : Usable(rs[i]) /\ \A j \in 1 .. i - 1 : ~Usable(rs[j])
  BY <1>1, <1>5, <1>6
<1>8. PICK n : n = CHOOSE i \in DOMAIN rs : Usable(rs[i]) /\ \A j \in 1 .. i - 1 : ~Usable(rs[j])
  OBVIOUS
<1>9. n \in D /\ Usable(rs[n])
  BY <1>1, <1>7, <1>8
<1>10. PICK r : r = [start |-> rs[n].start + 1, extent |-> rs[n].extent - 1]
  OBVIOUS
<1>11. PICK qs : qs = [rs EXCEPT ![n] = r]
  OBVIOUS
<1>12. qs = EarlyAllocPage(rs)
  BY <1>8, <1>10, <1>11 DEF EarlyAllocPage
<1>13. PICK a \in Nat, e \in Nat : a = rs[n].start /\ e = rs[n].extent /\ e > 1 /\ a + e <= MaxExtent
  BY <1>1, <1>9 DEF Usable, SoundRanges
<1>14. r.start = a + 1 /\ r.extent = e - 1 /\ r \in [start : Nat, extent : Nat] /\ r.start + r.extent = a + e
  BY <1>10, <1>13
<1>15. qs \in [D -> [start : Nat, extent : Nat]] /\ qs[n] = r /\ \A i \in D : i # n => qs[i] = rs[i]
  BY <1>1, <1>9, <1>11, <1>14
<1>16. InRange(r) \subseteq InRange(rs[n])
  BY <1>13, <1>14 DEF InRange
<1>17. \A i \in D : InRange(qs[i]) \subseteq InRange(rs[i]) /\ qs[i].start + qs[i].extent <= MaxExtent
  BY <1>13, <1>14, <1>15, <1>16 DEF SoundRanges
<1>18. \A i, j \in D : i < j => InRange(qs[i]) \cap InRange(qs[j]) = {}
  BY <1>17 DEF SoundRanges
<1>19. QED
  BY <1>12, <1>15, <1>17, <1>18 DEF SoundRanges

\* What init_physical_memory() leaves of the ranges
LEMMA RangesLeftAreSound == SoundRanges(RangesLeft)
<1> DEFINE D == DOMAIN Ranges
           R == [D -> [start : Int, extent : Int]]
           n == BitmapFrames
           G(f) == [k \in 0 .. n |-> IF k = 0 THEN Ranges ELSE EarlyAllocPage(f[k - 1])]
           I == [k \in 0 .. n |-> R]
           F == [k \in 1 .. n |-> [y \in R |-> EarlyAllocPage(y)]]
<1>1. n \in Nat /\ Ranges \in Seq([start : Nat, extent : Nat])
  BY PMMAssumption DEF PMMAssumption
<1>2. Ranges \in [D -> [start : Nat, extent : Nat]]
  <2>1. PICK S : S = [start : Nat, extent : Nat]
    OBVIOUS
  <2>2. Ranges \in Seq(S)
    BY <1>1, <2>1
  <2>3. Ranges \in [1 .. Len(Ranges) -> S] /\ DOMAIN Ranges = 1 .. Len(Ranges)
    BY <2>2
  <2>4. QED
    BY <2>1, <2>3
<1>3. Ranges \in R
  BY <1>2
<1>4. ASSUME NEW y \in R PROVE EarlyAllocPage(y) \in R
  <2>1. PICK i : i = CHOOSE j \in DOMAIN y : Usable(y[j]) /\ \A l \in 1 .. j - 1 : ~Usable(y[l])
    OBVIOUS
  <2>2. EarlyAllocPage(y) = [y EXCEPT ![i] = [start |-> y[i].start + 1, extent |-> y[i].extent - 1]]
    BY <2>1 DEF EarlyAllocPage
  <2>3. CASE i \in D
    <3>1. y[i] \in [start : Int, extent : Int]
      BY <2>3
    <3>2. PICK r : r = [start |-> y[i].start + 1, extent |-> y[i].extent - 1]
      OBVIOUS
    <3>3. r \in [start : Int, extent : Int]
      BY <3>1, <3>2
    <3>4. [y EXCEPT ![i] = r] \in R
      BY <3>3
    <3>5. QED
      BY <2>2, <3>2, <3>4
  <2>4. CASE i \notin D
    <3>1. PICK r : r = [start |-> y[i].start + 1, extent |-> y[i].extent - 1]
      OBVIOUS
    <3>2. [y EXCEPT ![i] = r] = y
      BY <2>4
    <3>3. QED
      BY <2>2, <3>1, <3>2
  <2>5. QED
    BY <2>3, <2>4
<1> HIDE DEF R
<1>5. Ranges \in I[0] /\ \A k \in 1 .. n : \A y \in I[k - 1] : F[k][y] \in I[k] /\ F[k][y] = EarlyAllocPage(y)
  <2>1. \A k \in 1 .. n : k \in 0 .. n /\ k - 1 \in 0 .. n
    BY <1>1
  <2>2. 0 \in 0 .. n
    BY <1>1
  <2>3. QED
    BY <1>3, <1>4, <2>1, <2>2
<1> HIDE DEF I, F
<1>6. EarlyRanges = CHOOSE f : f = G(f)
  BY DEF EarlyRanges
<1>7. PICK s : s = EarlyRanges
  OBVIOUS
<1>8. s = G(s)
  <2>0. \A k \in 1 .. n : \A y \in I[k - 1] : F[k][y] \in I[k]
    BY <1>5
  <2>1. PICK f : f = [k \in 0 .. n |-> f[k]] /\ Iterated(f, Ranges, n, F, I)
    BY <1>1, <1>5, <2>0, IteratesExist
  <2>2. ASSUME NEW k \in 1 .. n PROVE f[k] = EarlyAllocPage(f[k - 1])
    <3>1. k - 1 \in 0 .. n
      BY <1>1
    <3>2. f[k - 1] \in I[k - 1] /\ f[k] = F[k][f[k - 1]]
      BY <2>1, <3>1 DEF Iterated
    <3>3. QED
      BY <1>5, <3>2
  <2>3. f[0] = Ranges /\ \A k \in 0 .. n : k # 0 => k \in 1 .. n
    BY <1>1, <2>1 DEF Iterated
  <2>4. f = G(f)
    BY <2>1, <2>2, <2>3
  <2>5. QED
    BY <1>6, <1>7, <2>4
<1>9. s[0] = Ranges /\ \A k \in 1 .. n : s[k] = EarlyAllocPage(s[k - 1])
  <2>1. 0 \in 0 .. n /\ \A k \in 1 .. n : k \in 0 .. n /\ k # 0
    BY <1>1
  <2>2. QED
    BY <1>8, <2>1
<1> DEFINE J == [k \in 0 .. n |-> { y \in [D -> [start : Nat, extent : Nat]] : SoundRanges(y) }]
           HasPage(y) == \E i \in DOMAIN y : Usable(y[i])
           E == [k \in 1 .. n |-> [y \in J[k - 1] |-> IF HasPage(y) THEN EarlyAllocPage(y) ELSE y]]
<1>10. \A k \in 1 .. n : k \in 0 .. n /\ k - 1 \in 0 .. n /\ k - 1 \in 0 .. BitmapFrames - 1
  BY <1>1
<1>11. \A k \in 1 .. n : HasPage(s[k - 1])
  BY <1>7, <1>10, EarlyAssumption DEF EarlyAssumption
<1>12. Ranges \in J[0]
  <2>1. SoundRanges(Ranges)
    BY <1>2, PMMAssumption DEF SoundRanges, PMMAssumption
  <2>2. 0 \in 0 .. n
    BY <1>1
  <2>3. QED
    BY <1>2, <2>1, <2>2
<1>13. ASSUME NEW k \in 1 .. n, NEW y \in J[k - 1] PROVE E[k][y] \in J[k] /\ (HasPage(y) => E[k][y] = EarlyAllocPage(y))
  <2>1. SoundRanges(y)
    BY <1>10
  <2>2. HasPage(y) => SoundRanges(EarlyAllocPage(y))
    BY <2>1, EarlyAllocKeeps
  <2> HIDE DEF HasPage
  <2>3. E[k][y] = IF HasPage(y) THEN EarlyAllocPage(y) ELSE y
    OBVIOUS
  <2>4. SoundRanges(E[k][y])
    BY <2>1, <2>2, <2>3, SMTT(30)
  <2>5. E[k][y] \in J[k]
    BY <1>10, <2>4 DEF SoundRanges
  <2>6. QED
    BY <2>3, <2>5
<1> HIDE DEF J, E, HasPage
<1>14. s[n] \in J[n]
  <2>1. s[0] \in J[0] /\ \A k \in 1 .. n : s[k - 1] \in J[k - 1] => s[k] = E[k][s[k - 1]]
    BY <1>9, <1>11, <1>12, <1>13
  <2>2. \A k \in 1 .. n : \A y \in J[k - 1] : E[k][y] \in J[k]
    BY <1>13
  <2>3. QED
    BY <1>1, <2>1, <2>2, IteratesStay
<1>15. n \in 0 .. n
  BY <1>1
<1>16. QED
  BY <1>7, <1>14, <1>15 DEF J, RangesLeft

-----------------------------------------------------------------------------
\* init_physical_memory()

\* An allocator that was just initialised
LEMMA InitIsSound ==
  ASSUME NEW n \in Nat
  PROVE  SoundBuddy(BuddyInit(n)) /\ BuddyInit(n).size = n /\ \A p \in Nat : ~IsFree(BuddyInit(n), p)
BY DEF BuddyInit, SoundBuddy, IsFree

\* A range that lies in a zone, or is empty
Fits(r, z) == r.extent = 0 \/ (ZoneStart[z] <= r.start /\ r.start + r.extent <= ZoneStart[z] + ZoneSize[z])

\* buddy_free_range() on a zone frees the frames of the range and no others.
LEMMA FreeInGives ==
  ASSUME NEW zs, SoundZones(zs), NEW z \in Zones, NEW r \in [start : Nat, extent : Nat], Fits(r, z),
         \A f \in Frames : f \in InRange(r) => ~IsFreeFrame(zs, f)
  PROVE  /\ SoundZones(FreeIn(zs, z, r))
         /\ \A f \in Frames : IsFreeFrame(FreeIn(zs, z, r), f) <=> IsFreeFrame(zs, f) \/ f \in InRange(r)
<1>1. CASE r.extent = 0
  <2>1. \A f \in Frames : f \notin InRange(r)
    <3>1. PICK s \in Nat : s = r.start
      OBVIOUS
    <3>2. \A f \in Nat : f \notin s .. s + 0 - 1
      OBVIOUS
    <3>3. Frames \subseteq Nat
      BY NoFrameIsNone
    <3>4. QED
      BY <1>1, <3>1, <3>2, <3>3 DEF InRange
  <2>2. FreeIn(zs, z, r) = zs
    BY <1>1 DEF FreeIn
  <2>3. QED
    BY <2>1, <2>2
<1>2. CASE r.extent # 0
  <2>1. PICK s \in Nat, n \in Nat : s = r.start /\ n = r.extent
    OBVIOUS
  <2>2. PICK t \in Nat, l \in Nat : t = ZoneStart[z] /\ l = ZoneSize[z]
    BY ZonesShareFrames
  <2>3. t <= s /\ s + n <= t + l
    BY <1>2, <2>1, <2>2 DEF Fits
  <2>4. PICK a \in Nat : a = s - t /\ a + n <= l /\ t + a = s
    BY <2>3
  <2>5. PICK b : b = zs[z] /\ SoundBuddy(b) /\ b.size = l
    BY <2>2 DEF SoundZones
  <2>6. \A p \in Nat : p < l => t + p \in Frames /\ ZoneOf(t + p) = z /\ (t + p) - t = p
    BY <2>2, ZonesShareFrames
  <2>7. \A p \in a .. a + n - 1 : ~IsFree(b, p)
    <3>1. ASSUME NEW p \in a .. a + n - 1 PROVE ~IsFree(b, p)
      <4>1. p \in Nat /\ p < l /\ t + p \in s .. s + n - 1
        BY <2>4
      <4>2. PICK f \in Frames : f = t + p /\ ZoneOf(f) = z /\ f - t = p
        BY <2>6, <4>1
      <4>3. ~IsFreeFrame(zs, f)
        BY <2>1, <4>1, <4>2 DEF InRange
      <4>4. QED
        BY <2>2, <2>5, <4>2, <4>3 DEF IsFreeFrame
    <3>2. QED
      BY <3>1
  <2>8. PICK c : c = BuddyFreeRange(b, a, n)
    OBVIOUS
  <2>9. /\ SoundBuddy(c) /\ c.size = l
        /\ \A p \in Nat : IsFree(c, p) <=> IsFree(b, p) \/ p \in a .. a + n - 1
    <3>1. a + n <= b.size
      BY <2>4, <2>5
    <3>2. SoundBuddy(b) /\ \A p \in a .. a + n - 1 : ~IsFree(b, p)
      BY <2>5, <2>7
    <3>3. SoundBuddy(BuddyFreeRange(b, a, n)) /\ BuddyFreeRange(b, a, n).size = b.size
      BY ONLY <3>1, <3>2, a \in Nat, n \in Nat, FreeRangeGives
    <3>4. \A p \in Nat : IsFree(BuddyFreeRange(b, a, n), p) <=> IsFree(b, p) \/ p \in a .. a + n - 1
      BY ONLY <3>1, <3>2, a \in Nat, n \in Nat, FreeRangeGives
    <3>5. QED
      BY <2>5, <2>8, <3>3, <3>4
  <2>10. PICK ys : ys = [zs EXCEPT ![z] = c]
    OBVIOUS
  <2>11. FreeIn(zs, z, r) = ys
    BY <1>2, <2>1, <2>2, <2>4, <2>5, <2>8, <2>10 DEF FreeIn
  <2>12. ys = [y \in Zones |-> ys[y]] /\ ys[z] = c /\ \A y \in Zones : y # z => ys[y] = zs[y]
    BY <2>10 DEF SoundZones
  <2>13. SoundZones(ys)
    BY <2>2, <2>9, <2>12 DEF SoundZones
  <2>14. ASSUME NEW f \in Frames PROVE IsFreeFrame(ys, f) <=> IsFreeFrame(zs, f) \/ f \in s .. s + n - 1
    <3>1. PICK y \in Zones : y = ZoneOf(f)
      BY ZonesShareFrames
    <3>2. PICK q \in Nat : q = f - ZoneStart[y] /\ q < ZoneSize[y] /\ f \in Nat /\ ZoneStart[y] \in Nat
      BY <3>1, ZonesShareFrames
    <3>3. CASE y = z
      <4>1. f = t + q
        BY <2>2, <3>2, <3>3
      <4>2. q \in a .. a + n - 1 <=> f \in s .. s + n - 1
        BY <2>4, <4>1
      <4>3. IsFreeFrame(ys, f) <=> IsFree(c, q)
        BY <2>12, <3>1, <3>2, <3>3 DEF IsFreeFrame
      <4>4. IsFreeFrame(zs, f) <=> IsFree(b, q)
        BY <2>5, <3>1, <3>2, <3>3 DEF IsFreeFrame
      <4>5. QED
        BY <2>9, <4>2, <4>3, <4>4
    <3>4. CASE y # z
      <4>1. f \notin s .. s + n - 1
        <5>1. ASSUME f \in s .. s + n - 1 PROVE FALSE
          <6>1. PICK p \in Nat : p = f - t /\ p < l /\ t + p = f
            BY <2>3, <2>4, <5>1
          <6>2. ZoneOf(f) = z
            BY <2>6, <6>1
          <6>3. QED
            BY <3>1, <3>4, <6>2
        <5>2. QED
          BY <5>1
      <4>2. QED
        BY <2>12, <3>1, <3>4, <4>1 DEF IsFreeFrame
    <3>5. QED
      BY <3>3, <3>4
  <2>15. QED
    BY <2>1, <2>11, <2>13, <2>14 DEF InRange
<1>3. QED
  BY <1>1, <1>2

\* split_range() shares out a range.
LEMMA SplitShares ==
  ASSUME NEW r \in [start : Nat, extent : Nat], NEW loc \in Nat
  PROVE  LET s == SplitRange(r, loc)
         IN  /\ s.below \in [start : Nat, extent : Nat] /\ s.rest \in [start : Nat, extent : Nat]
             /\ s.below.extent # 0 => /\ s.below.start = r.start
                                      /\ s.below.start + s.below.extent <= r.start + r.extent
                                      /\ s.below.start + s.below.extent <= loc
             /\ s.rest.extent # 0 => /\ s.rest.start >= loc /\ s.rest.start >= r.start
                                     /\ s.rest.start + s.rest.extent = r.start + r.extent
             /\ \A f \in Nat : f \in InRange(r) <=> f \in InRange(s.below) \/ f \in InRange(s.rest)
             /\ InRange(s.below) \cap InRange(s.rest) = {}
<1>1. PICK a \in Nat, e \in Nat : a = r.start /\ e = r.extent
  OBVIOUS
<1>2. PICK s : s = SplitRange(r, loc)
  OBVIOUS
<1>3. CASE a >= loc
  <2>1. PICK b : b = [start |-> a, extent |-> 0]
    OBVIOUS
  <2>2. b \in [start : Nat, extent : Nat] /\ b.start = a /\ b.extent = 0
    BY <2>1
  <2>3. s.below = b /\ s.rest = r
    BY <1>1, <1>2, <1>3, <2>1 DEF SplitRange
  <2>4. InRange(b) = {}
    BY <2>2 DEF InRange
  <2>5. QED
    BY <1>1, <1>2, <1>3, <2>2, <2>3, <2>4
<1>4. CASE ~(a >= loc) /\ a + e <= loc
  <2>1. PICK c : c = [r EXCEPT !.extent = 0]
    OBVIOUS
  <2>2. c \in [start : Nat, extent : Nat] /\ c.start = a /\ c.extent = 0
    BY <1>1, <2>1
  <2>3. s.below = r /\ s.rest = c
    BY <1>1, <1>2, <1>4, <2>1 DEF SplitRange
  <2>4. InRange(c) = {}
    BY <2>2 DEF InRange
  <2>5. QED
    BY <1>1, <1>2, <1>4, <2>2, <2>3, <2>4
<1>5. CASE ~(a >= loc) /\ ~(a + e <= loc)
  <2>1. PICK b, c : /\ b = [start |-> a, extent |-> loc - a]
                    /\ c = [start |-> loc, extent |-> a + e - loc]
    OBVIOUS
  <2>2. /\ b \in [start : Nat, extent : Nat] /\ b.start = a /\ b.extent = loc - a
        /\ c \in [start : Nat, extent : Nat] /\ c.start = loc /\ c.extent = a + e - loc
    BY <1>5, <2>1
  <2>3. s.below = b /\ s.rest = c
    BY <1>1, <1>2, <1>5, <2>1 DEF SplitRange
  <2>4. /\ InRange(b) = a .. loc - 1
        /\ InRange(c) = loc .. a + e - 1
        /\ InRange(r) = a .. a + e - 1
    <3>1. a + (loc - a) - 1 = loc - 1 /\ loc + (a + e - loc) - 1 = a + e - 1
      OBVIOUS
    <3>2. b.start + b.extent - 1 = loc - 1 /\ c.start + c.extent - 1 = a + e - 1
      BY <2>2, <3>1
    <3>3. QED
      BY <1>1, <2>2, <3>2 DEF InRange
  <2>5. \A f \in Nat : f \in InRange(r) <=> f \in InRange(b) \/ f \in InRange(c)
    BY <1>5, <2>4
  <2>6. InRange(b) \cap InRange(c) = {}
    BY <2>4
  <2>7. QED
    BY <1>1, <1>2, <1>5, <2>2, <2>3, <2>5, <2>6
<1>6. QED
  BY <1>3, <1>4, <1>5

\* The sets the allocators of the zones belong to.
ZoneSets == [Zones -> [size : Nat, orders : [Orders -> SUBSET Nat]]]

\* Sharing out a range that lies in memory and is not free yet.
LEMMA ShareGives ==
  ASSUME NEW zs, SoundZones(zs), NEW r \in [start : Nat, extent : Nat], r.start + r.extent <= MaxExtent,
         \A f \in Frames : f \in InRange(r) => ~IsFreeFrame(zs, f)
  PROVE  LET low == SplitRange(r, Limit1MB)
             mid == SplitRange(low.rest, Limit4GB)
             ys == FreeIn(FreeIn(FreeIn(zs, "UNDER1MB", low.below), "UNDER4GB", mid.below), "NONE", mid.rest)
         IN  SoundZones(ys) /\ \A f \in Frames : IsFreeFrame(ys, f) <=> IsFreeFrame(zs, f) \/ f \in InRange(r)
<1>1. /\ Limit1MB \in Nat /\ Limit4GB \in Nat /\ MaxExtent \in Nat
      /\ Limit1MB < Limit4GB /\ Limit1MB <= MaxExtent
  BY PMMAssumption DEF PMMAssumption
<1>2. PICK low : low = SplitRange(r, Limit1MB)
  OBVIOUS
<1>3. /\ low.below \in [start : Nat, extent : Nat] /\ low.rest \in [start : Nat, extent : Nat]
      /\ low.below.extent # 0 => /\ low.below.start = r.start
                                 /\ low.below.start + low.below.extent <= r.start + r.extent
                                 /\ low.below.start + low.below.extent <= Limit1MB
      /\ low.rest.extent # 0 => /\ low.rest.start >= Limit1MB /\ low.rest.start >= r.start
                                /\ low.rest.start + low.rest.extent = r.start + r.extent
      /\ \A f \in Nat : f \in InRange(r) <=> f \in InRange(low.below) \/ f \in InRange(low.rest)
      /\ InRange(low.below) \cap InRange(low.rest) = {}
  BY <1>1, <1>2, SplitShares
<1>4. PICK u, w : u = low.below /\ w = low.rest
  OBVIOUS
<1>5. PICK mid : mid = SplitRange(w, Limit4GB)
  OBVIOUS
<1>6. /\ mid.below \in [start : Nat, extent : Nat] /\ mid.rest \in [start : Nat, extent : Nat]
      /\ mid.below.extent # 0 => /\ mid.below.start = w.start
                                 /\ mid.below.start + mid.below.extent <= w.start + w.extent
                                 /\ mid.below.start + mid.below.extent <= Limit4GB
      /\ mid.rest.extent # 0 => /\ mid.rest.start >= Limit4GB /\ mid.rest.start >= w.start
                                /\ mid.rest.start + mid.rest.extent = w.start + w.extent
      /\ \A f \in Nat : f \in InRange(w) <=> f \in InRange(mid.below) \/ f \in InRange(mid.rest)
      /\ InRange(mid.below) \cap InRange(mid.rest) = {}
  BY <1>1, <1>3, <1>4, <1>5, SplitShares, ZenonT(60)
<1>7. PICK v, x : v = mid.below /\ x = mid.rest
  OBVIOUS
<1>8. /\ ZoneStart["UNDER1MB"] = 0 /\ ZoneStart["UNDER4GB"] = Limit1MB /\ ZoneStart["NONE"] = Limit4GB
      /\ ZoneSize["UNDER1MB"] = Limit1MB
      /\ ZoneSize["UNDER4GB"] = (IF MaxExtent < Limit4GB THEN MaxExtent ELSE Limit4GB) - Limit1MB
      /\ ZoneSize["NONE"] = IF MaxExtent > Limit4GB THEN MaxExtent - Limit4GB ELSE 0
  BY <1>1 DEF ZoneStart, ZoneSize, Lesser
<1>9. "UNDER1MB" \in Zones /\ "UNDER4GB" \in Zones /\ "NONE" \in Zones
  BY DEF Zones
<1>10. /\ u \in [start : Nat, extent : Nat] /\ v \in [start : Nat, extent : Nat] /\ w \in [start : Nat, extent : Nat]
       /\ x \in [start : Nat, extent : Nat]
  BY <1>3, <1>4, <1>6, <1>7
<1>11. Fits(u, "UNDER1MB")
  BY <1>1, <1>3, <1>4, <1>8, <1>10 DEF Fits
<1>12. w.extent = 0 => v.extent = 0 /\ x.extent = 0
  BY <1>1, <1>4, <1>5, <1>7, <1>10 DEF SplitRange
<1>13. w.extent # 0 => w.start >= Limit1MB /\ w.start + w.extent <= MaxExtent
  BY <1>3, <1>4
<1>14. Fits(v, "UNDER4GB")
  <2> SUFFICES ASSUME v.extent # 0 PROVE ZoneStart["UNDER4GB"] <= v.start /\ v.start + v.extent <= ZoneStart["UNDER4GB"] + ZoneSize["UNDER4GB"]
    BY DEF Fits
  <2>1. v.start >= Limit1MB /\ v.start + v.extent <= MaxExtent /\ v.start + v.extent <= Limit4GB
    BY <1>1, <1>6, <1>7, <1>10, <1>12, <1>13
  <2>2. QED
    BY <1>1, <1>8, <1>10, <2>1
<1>15. Fits(x, "NONE")
  <2> SUFFICES ASSUME x.extent # 0 PROVE ZoneStart["NONE"] <= x.start /\ x.start + x.extent <= ZoneStart["NONE"] + ZoneSize["NONE"]
    BY DEF Fits
  <2>1. x.start >= Limit4GB /\ x.start + x.extent <= MaxExtent
    BY <1>1, <1>6, <1>7, <1>10, <1>12, <1>13
  <2>2. QED
    BY <1>1, <1>8, <1>10, <2>1
<1>16. \A f \in Frames : f \in Nat
  BY NoFrameIsNone
<1>17. /\ \A f \in Frames : f \in InRange(r) <=> f \in InRange(u) \/ f \in InRange(v) \/ f \in InRange(x)
       /\ \A f \in Frames : f \in InRange(u) => f \notin InRange(v) /\ f \notin InRange(x)
       /\ \A f \in Frames : f \in InRange(v) => f \notin InRange(x)
  BY <1>3, <1>4, <1>6, <1>7, <1>16
<1>18. PICK z1 : z1 = FreeIn(zs, "UNDER1MB", u)
  OBVIOUS
<1>19. SoundZones(z1) /\ \A f \in Frames : IsFreeFrame(z1, f) <=> IsFreeFrame(zs, f) \/ f \in InRange(u)
  BY <1>9, <1>10, <1>11, <1>17, <1>18, FreeInGives
<1>20. PICK z2 : z2 = FreeIn(z1, "UNDER4GB", v)
  OBVIOUS
<1>21. SoundZones(z2) /\ \A f \in Frames : IsFreeFrame(z2, f) <=> IsFreeFrame(z1, f) \/ f \in InRange(v)
  <2>1. \A f \in Frames : f \in InRange(v) => ~IsFreeFrame(z1, f)
    BY <1>17, <1>19
  <2>2. QED
    BY <1>9, <1>10, <1>14, <1>19, <1>20, <2>1, FreeInGives
<1>22. PICK z3 : z3 = FreeIn(z2, "NONE", x)
  OBVIOUS
<1>23. SoundZones(z3) /\ \A f \in Frames : IsFreeFrame(z3, f) <=> IsFreeFrame(z2, f) \/ f \in InRange(x)
  <2>1. \A f \in Frames : f \in InRange(x) => ~IsFreeFrame(z2, f)
    BY <1>17, <1>19, <1>21
  <2>2. QED
    BY <1>9, <1>10, <1>15, <1>21, <1>22, <2>1, FreeInGives
<1>24. \A f \in Frames : IsFreeFrame(z3, f) <=> IsFreeFrame(zs, f) \/ f \in InRange(r)
  BY <1>17, <1>19, <1>21, <1>23
<1>25. QED
  BY <1>2, <1>4, <1>5, <1>7, <1>18, <1>20, <1>22, <1>23, <1>24

\* init_physical_memory() frees what is left of the ranges and nothing else.
LEMMA PhysicalMemoryIsSound ==
  /\ SoundZones(InitPhysicalMemory)
  /\ \A f \in Frames : IsFreeFrame(InitPhysicalMemory, f) <=> f \in Managed
<1> DEFINE share(zs, r) ==
             LET low == SplitRange(r, Limit1MB)
                 mid == SplitRange(low.rest, Limit4GB)
             IN  FreeIn(FreeIn(FreeIn(zs, "UNDER1MB", low.below), "UNDER4GB", mid.below), "NONE", mid.rest)
           none == [z \in Zones |-> BuddyInit(ZoneSize[z])]
           G(f) == [i \in 0 .. Len(RangesLeft) |-> IF i = 0 THEN none ELSE share(f[i - 1], RangesLeft[i])]
<1>1. PICK rs : rs = RangesLeft
  OBVIOUS
<1>2. SoundRanges(rs)
  BY <1>1, RangesLeftAreSound, SMTT(30)
<1>3. PICK n \in Nat : DOMAIN Ranges = 1 .. n
  <2>1. Ranges \in Seq([start : Nat, extent : Nat])
    BY PMMAssumption DEF PMMAssumption
  <2>2. Len(Ranges) \in Nat /\ DOMAIN Ranges = 1 .. Len(Ranges)
    BY <2>1
  <2>3. QED
    BY <2>2
<1>4. rs \in [1 .. n -> [start : Nat, extent : Nat]] /\ Len(rs) = n /\ DOMAIN rs = 1 .. n
  <2>1. PICK S : S = [start : Nat, extent : Nat]
    OBVIOUS
  <2>2. rs \in [1 .. n -> S]
    BY <1>2, <1>3, <2>1 DEF SoundRanges
  <2>3. rs \in Seq(S) /\ Len(rs) = n /\ DOMAIN rs = 1 .. n
    BY <2>2
  <2>4. QED
    BY <2>1, <2>2, <2>3
<1>5. /\ \A i \in 1 .. n : rs[i].start + rs[i].extent <= MaxExtent
      /\ \A i, j \in 1 .. n : i < j => InRange(rs[i]) \cap InRange(rs[j]) = {}
  BY <1>2, <1>3 DEF SoundRanges
<1>6. InitPhysicalMemory = (CHOOSE f : f = G(f))[n]
  BY <1>1, <1>4 DEF InitPhysicalMemory
<1> DEFINE FreesUpTo(zs, k) == \A f \in Frames : IsFreeFrame(zs, f) <=> \E i \in 1 .. k : f \in InRange(rs[i])
           I == [k \in 0 .. n |-> { zs \in ZoneSets : SoundZones(zs) /\ FreesUpTo(zs, k) }]
           F == [k \in 1 .. n |-> [zs \in I[k - 1] |-> share(zs, rs[k])]]
<1>7. \A zs : SoundZones(zs) => zs \in ZoneSets
  <2> SUFFICES ASSUME NEW zs, SoundZones(zs) PROVE zs \in ZoneSets
    OBVIOUS
  <2>1. \A z \in Zones : zs[z] \in [size : Nat, orders : [Orders -> SUBSET Nat]]
    BY DEF SoundZones, SoundBuddy
  <2>2. QED
    BY <2>1 DEF SoundZones, ZoneSets
<1>8. none \in I[0]
  <2>1. PICK zs : zs = none
    OBVIOUS
  <2>2. zs = [z \in Zones |-> zs[z]] /\ \A z \in Zones : zs[z] = BuddyInit(ZoneSize[z]) /\ ZoneSize[z] \in Nat
    BY <2>1, ZonesShareFrames
  <2>3. SoundZones(zs)
    BY <2>2, InitIsSound DEF SoundZones
  <2>4. \A f \in Frames : ~IsFreeFrame(zs, f)
    BY <2>2, InitIsSound, ZonesShareFrames DEF IsFreeFrame
  <2>5. FreesUpTo(zs, 0) /\ 0 \in 0 .. n
    BY <2>4
  <2> HIDE DEF FreesUpTo
  <2>6. QED
    BY <1>7, <2>1, <2>3, <2>5
<1>9. ASSUME NEW k \in 1 .. n, NEW zs \in I[k - 1] PROVE F[k][zs] = share(zs, rs[k]) /\ share(zs, rs[k]) \in I[k]
  <2>1. k - 1 \in 0 .. n /\ k \in 0 .. n
    OBVIOUS
  <2>2. SoundZones(zs) /\ FreesUpTo(zs, k - 1)
    BY <2>1
  <2>3. PICK r \in [start : Nat, extent : Nat] : r = rs[k]
    BY <1>4
  <2>4. r.start + r.extent <= MaxExtent
    BY <1>5, <2>3
  <2>5. \A f \in Frames : f \in InRange(r) => ~IsFreeFrame(zs, f)
    <3>1. \A i \in 1 .. k - 1 : InRange(rs[i]) \cap InRange(r) = {}
      <4>1. \A i \in 1 .. k - 1 : i \in 1 .. n /\ i < k
        OBVIOUS
      <4>2. QED
        BY <1>5, <2>3, <4>1
    <3>2. QED
      BY <2>2, <3>1
  <2>6. PICK ys : ys = share(zs, r)
    OBVIOUS
  <2>7. SoundZones(ys) /\ \A f \in Frames : IsFreeFrame(ys, f) <=> IsFreeFrame(zs, f) \/ f \in InRange(r)
    BY <2>2, <2>4, <2>5, <2>6, ShareGives
  <2>8. FreesUpTo(ys, k)
    <3>1. \A i : i \in 1 .. k <=> i \in 1 .. k - 1 \/ i = k
      OBVIOUS
    <3>2. QED
      BY <2>2, <2>3, <2>7, <3>1
  <2> HIDE DEF FreesUpTo, share
  <2>9. ys \in I[k]
    BY <1>7, <2>1, <2>7, <2>8
  <2>10. F[k][zs] = share(zs, rs[k])
    OBVIOUS
  <2>11. QED
    BY <2>3, <2>6, <2>9, <2>10
<1> HIDE DEF I, F, share, none, FreesUpTo
<1>10. \A k \in 1 .. n : \A zs \in I[k - 1] : F[k][zs] \in I[k]
  BY <1>9
<1>11. PICK s : s = CHOOSE f : f = G(f)
  OBVIOUS
<1>12. s = G(s)
  <2>1. PICK f : f = [k \in 0 .. n |-> f[k]] /\ Iterated(f, none, n, F, I)
    BY <1>8, <1>10, IteratesExist
  <2>2. ASSUME NEW k \in 1 .. n PROVE f[k] = share(f[k - 1], rs[k])
    <3>1. k - 1 \in 0 .. n
      OBVIOUS
    <3>2. f[k - 1] \in I[k - 1] /\ f[k] = F[k][f[k - 1]]
      BY <2>1, <3>1 DEF Iterated
    <3>3. QED
      BY <1>9, <3>2
  <2>3. f[0] = none /\ \A k \in 0 .. n : k # 0 => k \in 1 .. n
    BY <2>1 DEF Iterated
  <2>4. f = G(f)
    BY <1>1, <1>4, <2>1, <2>2, <2>3
  <2>5. QED
    BY <1>11, <2>4
<1>13. s[0] = none /\ \A k \in 1 .. n : s[k] = share(s[k - 1], rs[k])
  <2>1. 0 \in 0 .. n /\ \A k \in 1 .. n : k \in 0 .. n /\ k # 0
    OBVIOUS
  <2>2. QED
    BY <1>1, <1>4, <1>12, <2>1
<1>14. s[n] \in I[n]
  <2>1. s[0] \in I[0] /\ \A k \in 1 .. n : s[k - 1] \in I[k - 1] => s[k] = F[k][s[k - 1]]
    BY <1>8, <1>9, <1>13
  <2>2. QED
    BY <1>10, <2>1, IteratesStay
<1>15. PICK zs : zs = s[n] /\ SoundZones(zs) /\ FreesUpTo(zs, n)
  BY <1>14 DEF I
<1>16. zs = InitPhysicalMemory
  BY <1>6, <1>11, <1>15
<1>17. \A f : f \in Managed <=> \E i \in 1 .. n : f \in InRange(rs[i])
  BY <1>1, <1>4 DEF Managed
<1>18. QED
  BY <1>15, <1>16, <1>17 DEF FreesUpTo

-----------------------------------------------------------------------------
(***************************************************************************)
(* The slab cache implements the pool of objects, for every number of      *)
(* slabs and of objects in a slab; and the cache in the heap, over the     *)
(* buddy allocator and beside its other users, implements the slab cache.  *)
(*                                                                         *)
(* The inductive invariant knows of all the slabs the cache holds, also of *)
(* those it has lost when it set c->first to NULL: their links form chains *)
(* (Injective) that lead only to slabs held (LinksAreHeld), never back to  *)
(* the first slab (NoneBeforeFirst).  What is on the list is the smallest  *)
(* closed set, so to show that a set contains the list it is enough that   *)
(* the set is closed.                                                      *)
(***************************************************************************)


\* The list of slabs, from first along next, stays inside the cache's memory.
LinksAreHeld ==
  /\ first # NULL => first \in held
  /\ \A g \in held : next[g] # NULL => next[g] \in held

\* No slab of the cache points back at the first one.
NoneBeforeFirst == first # NULL => \A g \in held : next[g] # first

\* No two slabs have the same successor.
Injective ==
  \A g, h \in held : next[g] = next[h] /\ next[g] # NULL => g = h

\* A client's object is marked, and nobody else has it.
Marked ==
  \A f \in Slabs, i \in Idx : 
     out[<<f, i>>] # 0 => out[<<f, i>>] = 1 /\ f \in held /\ i \in used[f]

\* On the list, the other way round as well.
MarkedOnList ==
  \A f \in OnList, i \in Idx : i \in used[f] => out[<<f, i>>] # 0

\* A slab whose last object goes is given back in the same call.
SomeUsed == \A f \in held : used[f] # {}

\* The inductive invariant of the cache: the links form one list without cycles,
\* and its bitmaps agree with the clients.
IInv ==
  /\ TypeOK
  /\ LinksAreHeld
  /\ NoneBeforeFirst
  /\ Injective
  /\ Marked
  /\ MarkedOnList
  /\ SomeUsed

----------------------------------------------------------------------------
\* A closed set contains the list.
LEMMA ListInClosed ==
  ASSUME NEW S \in SUBSET Slabs, Closed(S, Slabs) PROVE OnList \subseteq S
BY DEF OnList, Met

\* The same of the list after a step.
LEMMA NextListInClosed ==
  ASSUME NEW S \in SUBSET Slabs,
         first' # NULL => first' \in S,
         \A g \in S : next'[g] # NULL => next'[g] \in S
  PROVE  OnList' \subseteq S
BY DEF OnList, Met, Closed

\* Without a first slab the list is empty.
LEMMA NextListEmpty == ASSUME first' = NULL PROVE OnList' = {}
<1>1. \A g \in {} : next'[g] # NULL => next'[g] \in {}
  OBVIOUS
<1>2. {} \in SUBSET Slabs /\ (first' # NULL => first' \in {})
  OBVIOUS
<1>3. OnList' \subseteq {}
  BY <1>1, <1>2, NextListInClosed
<1>4. QED
  BY <1>3

\* The list is closed.
LEMMA ListIsClosed == ASSUME TypeOK PROVE Closed(OnList, Slabs) /\ OnList \in SUBSET Slabs
BY DEF OnList, Met, Closed, TypeOK

\* The slabs of the list are held.
LEMMA ListIsHeld == ASSUME TypeOK, LinksAreHeld PROVE OnList \subseteq held
<1>1. held \in SUBSET Slabs /\ Closed(held, Slabs)
  BY DEF TypeOK, LinksAreHeld, Closed
<1>2. QED
  BY <1>1, ListInClosed

\* A slab of the list is the first or follows another one of the list, and no
\* slab off the list leads into it.
LEMMA Predecessor ==
  ASSUME TypeOK, LinksAreHeld, NoneBeforeFirst, Injective,
         NEW f \in OnList, f # first
  PROVE  \E g \in OnList : next[g] = f
<1>1. SUFFICES ASSUME \A g \in OnList : next[g] # f PROVE FALSE
  OBVIOUS
<1>2. Closed(OnList \ {f}, Slabs) /\ OnList \ {f} \in SUBSET Slabs
  BY <1>1, ListIsClosed DEF Closed
<1>3. QED
  BY <1>2, ListInClosed

\* The list is entered at first only: what a slab of the list follows is on it.
LEMMA NoWayIn ==
  ASSUME TypeOK, LinksAreHeld, NoneBeforeFirst, Injective,
         NEW g \in held, next[g] \in OnList
  PROVE  g \in OnList
<1>1. next[g] # NULL /\ next[g] # first
  BY ListIsClosed, SlabAssumption DEF NoneBeforeFirst
<1>2. PICK h \in OnList : next[h] = next[g]
  BY <1>1, Predecessor
<1>3. QED
  BY <1>1, <1>2, ListIsHeld DEF Injective

\* No slab of the list is its own successor.
LEMMA NoSelfLoop ==
  ASSUME TypeOK, LinksAreHeld, NoneBeforeFirst, Injective, NEW f \in OnList
  PROVE  next[f] # f
<1>1. SUFFICES ASSUME next[f] = f PROVE FALSE
  OBVIOUS
<1>2. f \in held /\ f # NULL /\ f # first
  BY <1>1, ListIsHeld, ListIsClosed, SlabAssumption DEF NoneBeforeFirst
<1>3. \A g \in OnList : next[g] = f => g = f
  BY <1>1, <1>2, ListIsHeld DEF Injective
<1>4. Closed(OnList \ {f}, Slabs) /\ OnList \ {f} \in SUBSET Slabs
  BY <1>2, <1>3, ListIsClosed DEF Closed
<1>5. QED
  BY <1>4, ListInClosed

\* find_empty_obj() returns a slab of the list.
LEMMA MetIsOnList == ASSUME NEW P PROVE Met(P) \subseteq OnList
BY DEF Met, OnList, Closed

\* A set of indices that is not empty has a lowest one.
LEMMA LowestIsMember == ASSUME NEW S \in SUBSET Nat, S # {} PROVE Lowest(S) \in S
<1> DEFINE R == OpToRel(<, Nat)
<1>1. IsWellFoundedOn(R, Nat)
  BY NatLessThanWellFounded
<1> HIDE DEF R
<1>2. PICK x \in S : \A y \in S : <<y, x>> \notin R
  BY <1>1, WFMin
<1>3. \A y \in S : ~(y < x)
  BY <1>2 DEF R, OpToRel
<1>4. \A y \in S : x <= y
  BY <1>3
<1>5. QED
  BY <1>4 DEF Lowest

----------------------------------------------------------------------------
\* The initial cache has no slab.
LEMMA InitIInv == Init => IInv
<1> SUFFICES ASSUME Init PROVE IInv
  OBVIOUS
<1>1. OnList = {}
  <2>1. Closed({}, Slabs)
    BY DEF Init, Closed
  <2>2. QED
    BY <2>1, ListInClosed
<1>2. QED
  BY <1>1 DEF Init, IInv, TypeOK, LinksAreHeld, NoneBeforeFirst, Injective, Marked,
              MarkedOnList, SomeUsed, Objects, Idx

\* An object handed out to the first client has one client.
LEMMA OneClient ==
  ASSUME TypeOK, NEW o \in Objects, out[o] = 0, out' = [out EXCEPT ![o] = @ + 1]
  PROVE  out' = [out EXCEPT ![o] = 1]
BY DEF TypeOK

\* Giving back an object that one client has leaves it with nobody.
LEMMA OneClientLess ==
  ASSUME TypeOK, NEW o \in Objects, out[o] = 1, out' = [out EXCEPT ![o] = @ - 1]
  PROVE  out' = [out EXCEPT ![o] = 0]
BY DEF TypeOK

\* Allocation from a slab with room marks an object nobody had.
LEMMA AllocFromSlabStep ==
  ASSUME IInv, NEW f \in Slabs, AllocFromSlab(f)
  PROVE  IInv' /\ \E i \in Idx : out[<<f, i>>] = 0 /\ out' = [out EXCEPT ![<<f, i>>] = 1]
<1> DEFINE i == Lowest(Idx \ used[f])
<1>1. i \in Idx /\ i \notin used[f]
  <2>1. Idx \in SUBSET Nat
    BY SlabAssumption DEF Idx
  <2>2. used[f] \in SUBSET Idx /\ used[f] # Idx
    BY DEF AllocFromSlab, FirstWithRoom, HasRoom, IInv, TypeOK
  <2>3. Idx \ used[f] # {}
    BY <2>2
  <2>4. QED
    BY <2>1, <2>3, LowestIsMember
<1> HIDE DEF i
<1>2. f \in OnList /\ f \in held
  BY MetIsOnList, ListIsHeld DEF AllocFromSlab, FirstWithRoom, IInv
<1>3. out[<<f, i>>] = 0
  BY <1>1 DEF IInv, Marked
<1>4. /\ used' = [used EXCEPT ![f] = @ \cup {i}]
      /\ out' = [out EXCEPT ![<<f, i>>] = 1]
  <2>1. <<f, i>> \in Objects
    BY <1>1 DEF Objects
  <2>2. used' = [used EXCEPT ![f] = @ \cup {i}] /\ out' = [out EXCEPT ![<<f, i>>] = @ + 1]
    BY DEF AllocFromSlab, HandOut, i
  <2>3. QED
    BY <1>3, <2>1, <2>2, OneClient DEF IInv
<1>5. UNCHANGED <<first, next, held, crashed>>
  BY DEF AllocFromSlab
<1>6. OnList' = OnList
  BY <1>5 DEF OnList, Met, Closed
<1>7. TypeOK'
  BY <1>1, <1>4, <1>5 DEF IInv, TypeOK, Objects
<1>8. Marked' /\ MarkedOnList' /\ SomeUsed'
  BY <1>1, <1>2, <1>4, <1>5, <1>6 DEF IInv, TypeOK, Marked, MarkedOnList, SomeUsed, Objects
<1>9. LinksAreHeld' /\ NoneBeforeFirst' /\ Injective'
  BY <1>5 DEF IInv, LinksAreHeld, NoneBeforeFirst, Injective
<1>10. QED
  BY <1>1, <1>3, <1>4, <1>7, <1>8, <1>9 DEF IInv

\* So does allocation from a new slab, which goes to the front of the list.
LEMMA AllocNewSlabStep ==
  ASSUME IInv, NEW f \in Slabs, AllocNewSlab(f)
  PROVE  IInv' /\ out[<<f, 0>>] = 0 /\ 0 \in Idx /\ out' = [out EXCEPT ![<<f, 0>>] = 1]
<1>1. f \notin held /\ f # NULL /\ 0 \in Idx
  BY SlabAssumption DEF AllocNewSlab, Idx
<1>2. \A i \in Idx : out[<<f, i>>] = 0
  BY <1>1 DEF IInv, Marked
<1>3. /\ used' = [used EXCEPT ![f] = {0}]
      /\ out' = [out EXCEPT ![<<f, 0>>] = 1]
      /\ held' = held \cup {f}
      /\ first' = f
      /\ next' = [next EXCEPT ![f] = first]
      /\ crashed' = crashed
  <2>1. used' = [[used EXCEPT ![f] = {}] EXCEPT ![f] = @ \cup {0}]
    BY DEF AllocNewSlab, HandOut
  <2>2. used' = [used EXCEPT ![f] = {0}]
    BY <2>1 DEF IInv, TypeOK
  <2>3. <<f, 0>> \in Objects /\ out[<<f, 0>>] = 0
    BY <1>1, <1>2 DEF Objects
  <2>4. out' = [out EXCEPT ![<<f, 0>>] = @ + 1]
    BY DEF AllocNewSlab, HandOut
  <2>5. out' = [out EXCEPT ![<<f, 0>>] = 1]
    BY <2>3, <2>4, OneClient DEF IInv
  <2>6. QED
    BY <2>2, <2>5 DEF AllocNewSlab
<1>4. TypeOK'
  BY <1>1, <1>3 DEF IInv, TypeOK, Objects
<1>5. LinksAreHeld' /\ NoneBeforeFirst' /\ Injective'
  BY <1>1, <1>3 DEF IInv, TypeOK, LinksAreHeld, NoneBeforeFirst, Injective
<1>6. OnList' \subseteq OnList \cup {f}
  <2>1. Closed(OnList, Slabs) /\ OnList \subseteq held /\ OnList \in SUBSET Slabs
    BY ListIsClosed, ListIsHeld DEF IInv
  <2>2. first' \in OnList \cup {f}
    BY <1>3
  <2>3. ASSUME NEW g \in OnList \cup {f}, next'[g] # NULL PROVE next'[g] \in OnList \cup {f}
    BY <1>1, <1>3, <2>1, <2>3 DEF Closed, IInv, TypeOK
  <2>4. QED
    BY <2>1, <2>2, <2>3, NextListInClosed
<1>7. Marked' /\ SomeUsed'
  BY <1>1, <1>2, <1>3, ZenonT(60) DEF IInv, TypeOK, Marked, SomeUsed, Objects
<1>8. MarkedOnList'
  BY <1>1, <1>3, <1>6, ListIsHeld DEF IInv, TypeOK, MarkedOnList, Objects, OnList, Met
<1>9. QED
  BY <1>1, <1>2, <1>3, <1>4, <1>5, <1>7, <1>8 DEF IInv

\* A client frees an object of a slab others of which are in use.
LEMMA FreeObjectStep ==
  ASSUME IInv, NEW f \in Slabs, NEW i \in Idx, FreeObject(f, i)
  PROVE  IInv' /\ out[<<f, i>>] = 1 /\ out' = [out EXCEPT ![<<f, i>>] = 0]
<1>1. out[<<f, i>>] = 1 /\ f \in held
  BY DEF FreeObject, IInv, Marked
<1>2. out' = [out EXCEPT ![<<f, i>>] = 0]
  BY <1>1, OneClientLess DEF FreeObject, IInv, Objects
<1>3. UNCHANGED <<first, next, held, crashed>> /\ used' = [used EXCEPT ![f] = @ \ {i}]
  BY DEF FreeObject
<1>4. OnList' = OnList
  BY <1>3 DEF OnList, Met, Closed
<1>5. TypeOK'
  BY <1>2, <1>3 DEF IInv, TypeOK, Objects
<1>6. Marked' /\ MarkedOnList'
  BY <1>2, <1>3, <1>4 DEF IInv, TypeOK, Marked, MarkedOnList, Objects, OnList, Met
<1>7. SomeUsed'
  BY <1>3 DEF FreeObject, IInv, TypeOK, SomeUsed
<1>8. LinksAreHeld' /\ NoneBeforeFirst' /\ Injective'
  BY <1>3 DEF IInv, LinksAreHeld, NoneBeforeFirst, Injective
<1>9. QED
  BY <1>1, <1>2, <1>5, <1>6, <1>7, <1>8 DEF IInv

\* The links after a slab has left the list: whatever the list was, it does not
\* lead to the slab that is given back, nor to anything that was not on it.
LEMMA FreeSlabLinks ==
  ASSUME IInv, NEW f \in Slabs, NEW i \in Idx, FreeSlab(f, i)
  PROVE  /\ (LinksAreHeld /\ NoneBeforeFirst /\ Injective)'
         /\ OnList' \subseteq OnList \ {f}
         /\ next' \in [Slabs -> Slabs \cup {NULL}]
<1>1. f \in OnList /\ held' = held \ {f} /\ f # NULL
  BY SlabAssumption DEF FreeSlab
<1>2. OnList \in SUBSET Slabs /\ OnList \subseteq held /\ Closed(OnList, Slabs)
  BY ListIsClosed, ListIsHeld DEF IInv
<1>3. CASE f = first
  <2>1. first' = NULL /\ next' = next
    BY <1>3 DEF FreeSlab
  <2>2. OnList' = {}
    BY <2>1, NextListEmpty
  <2>3. QED
    BY <1>1, <1>3, <2>1, <2>2 DEF IInv, TypeOK, LinksAreHeld, NoneBeforeFirst, Injective
<1>4. CASE f # first
  <2>1. /\ first' = first
        /\ next' = [g \in Slabs |-> IF g \in OnList /\ next[g] = f THEN next[f] ELSE next[g]]
    BY <1>4 DEF FreeSlab
  <2>2. PICK p \in OnList : next[p] = f
    BY <1>1, <1>4, Predecessor DEF IInv
  <2>3. p # f /\ p \in held
    BY <1>1, <1>2, <2>2, NoSelfLoop DEF IInv
  <2>4. \A g \in held : next[g] = f <=> g = p
    BY <1>1, <1>2, <2>2 DEF IInv, Injective
  <2>5. \A g \in held : next'[g] = IF g = p THEN next[f] ELSE next[g]
    BY <2>1, <2>2, <2>4 DEF IInv, TypeOK
  <2>6. next[f] # f
    BY <1>1, NoSelfLoop DEF IInv
  <2>7. LinksAreHeld'
    BY <1>1, <1>2, <1>4, <2>1, <2>4, <2>5, <2>6 DEF IInv, LinksAreHeld
  <2>8. NoneBeforeFirst'
    BY <1>1, <1>2, <2>1, <2>5 DEF IInv, NoneBeforeFirst
  <2>9. Injective'
    BY <1>1, <1>2, <2>5, <2>3 DEF IInv, Injective
  <2>10. OnList' \subseteq OnList \ {f}
    <3>1. first' # NULL => first' \in OnList \ {f}
      BY <1>2, <1>4, <2>1 DEF Closed
    <3>2. ASSUME NEW g \in OnList \ {f}, next'[g] # NULL PROVE next'[g] \in OnList \ {f}
      BY <1>1, <1>2, <2>4, <2>5, <2>6, <3>2 DEF Closed
    <3>3. QED
      BY <1>2, <3>1, <3>2, NextListInClosed
  <2>11. next' \in [Slabs -> Slabs \cup {NULL}]
    BY <2>1 DEF IInv, TypeOK
  <2>12. QED
    BY <2>7, <2>8, <2>9, <2>10, <2>11
<1>5. QED
  BY <1>3, <1>4

\* A client frees the last object in use of a slab.
LEMMA FreeSlabStep ==
  ASSUME IInv, NEW f \in Slabs, NEW i \in Idx, FreeSlab(f, i)
  PROVE  IInv' /\ out[<<f, i>>] = 1 /\ out' = [out EXCEPT ![<<f, i>>] = 0]
<1>1. out[<<f, i>>] = 1 /\ f \in held
  BY DEF FreeSlab, IInv, Marked
<1>2. out' = [out EXCEPT ![<<f, i>>] = 0]
  BY <1>1, OneClientLess DEF FreeSlab, IInv, Objects
<1>3. /\ held' = held \ {f}
      /\ used' = [used EXCEPT ![f] = @ \ {i}]
      /\ crashed' = crashed
      /\ first' \in {first, NULL}
  BY DEF FreeSlab
<1>4. TypeOK'
  BY <1>2, <1>3, FreeSlabLinks DEF IInv, TypeOK, Objects
<1>5. \A j \in Idx : j # i => out[<<f, j>>] = 0
  BY DEF FreeSlab, IInv, Marked
<1>6. Marked' /\ SomeUsed'
  BY <1>2, <1>3, <1>5 DEF IInv, TypeOK, Marked, SomeUsed, Objects
<1>7. MarkedOnList'
  <2>1. OnList' \subseteq OnList \ {f} /\ OnList \subseteq Slabs
    BY FreeSlabLinks DEF OnList, Met
  <2>2. QED
    BY <1>2, <1>3, <2>1 DEF IInv, TypeOK, MarkedOnList, Objects
<1>8. QED
  BY <1>1, <1>2, <1>4, <1>6, <1>7, FreeSlabLinks DEF IInv

\* The cache is destroyed; the slabs it had lost stay allocated for ever.
LEMMA DestroyStep == ASSUME IInv, Destroy PROVE IInv'
<1>1. /\ first' = NULL
      /\ held' = held \ OnList
      /\ out' = [o \in Objects |-> 0]
      /\ UNCHANGED <<next, used, crashed>>
  BY DEF Destroy
<1>2. OnList' = {}
  BY <1>1, NextListEmpty
<1>3. LinksAreHeld'
  BY <1>1, NoWayIn DEF IInv, LinksAreHeld
<1>4. QED
  BY <1>1, <1>2, <1>3 DEF IInv, TypeOK, NoneBeforeFirst, Injective, Marked, MarkedOnList,
                          SomeUsed, Objects

\* A slab_cache_free() that faults on its way down the list changes no object.
LEMMA CrashStep ==
  ASSUME IInv, NEW f \in Slabs, NEW i \in Idx, FreeCrashes(f, i)
  PROVE  IInv' /\ out' = out
<1>1. UNCHANGED <<first, next, used, held, out>> /\ crashed' = TRUE
  BY DEF FreeCrashes
<1>2. OnList' = OnList
  BY <1>1 DEF OnList, Met, Closed
<1>3. QED
  BY <1>1, <1>2 DEF IInv, TypeOK, LinksAreHeld, NoneBeforeFirst, Injective, Marked,
                    MarkedOnList, SomeUsed

\* Nothing else touches the cache.
LEMMA StutterStep == ASSUME IInv, UNCHANGED vars PROVE IInv'
<1>1. OnList' = OnList
  BY DEF OnList, Met, Closed, vars
<1>2. QED
  BY <1>1 DEF vars, IInv, TypeOK, LinksAreHeld, NoneBeforeFirst, Injective, Marked,
              MarkedOnList, SomeUsed

\* Every step of the cache keeps the inductive invariant.
LEMMA StepIInv == IInv /\ [Next]_vars => IInv'
BY AllocFromSlabStep, AllocNewSlabStep, FreeObjectStep, FreeSlabStep, CrashStep, DestroyStep,
   StutterStep DEF Next

\* The invariant holds in every reachable state.
LEMMA AlwaysIInv == Spec => []IInv
BY InitIInv, StepIInv, PTL DEF Spec

----------------------------------------------------------------------------
\* Type correctness of the cache.
THEOREM TypeCorrect == Spec => []TypeOK
BY AlwaysIInv, PTL DEF IInv

\* slab_cache_free() and slab_cache_destroy() give no memory back to the
\* vmspace that a client has, also when the cache has lost slabs.
THEOREM MemoryIsBacked == Spec => []ObjectsAreBacked
<1>1. IInv => ObjectsAreBacked
  BY DEF IInv, Marked, ObjectsAreBacked, Objects
<1>2. QED
  BY <1>1, AlwaysIInv, PTL

\* The list of slabs has only slabs of the cache, none of them empty, and
\* their bitmaps mark what the clients have.
THEOREM ListStaysExact == Spec => []ListIsExact
<1>1. IInv => ListIsExact
  <2> SUFFICES ASSUME IInv, NEW f \in OnList
               PROVE  f \in held /\ used[f] # {} /\ used[f] = {i \in Idx : out[<<f, i>>] # 0}
    BY DEF ListIsExact
  <2>1. f \in held /\ f \in Slabs
    BY ListIsHeld DEF IInv, OnList, Met
  <2>2. used[f] \in SUBSET Idx
    BY <2>1 DEF IInv, TypeOK
  <2>3. QED
    BY <2>1, <2>2 DEF IInv, SomeUsed, Marked, MarkedOnList
<1>2. QED
  BY <1>1, AlwaysIInv, PTL

\* The list and the bitmaps of a cache agree with what its clients have, also
\* when slab_cache_free() has lost slabs.
THEOREM CacheStaysExact == Spec => []CacheIsExact
BY MemoryIsBacked, ListStaysExact, PTL DEF CacheIsExact

\* Every step of the cache is a step of the pool: an object is handed out only
\* when nobody has it.
LEMMA StepPool == IInv /\ [Next]_vars => [Pool!Next]_out
<1> SUFFICES ASSUME IInv, [Next]_vars PROVE [Pool!Next]_out
  OBVIOUS
<1>1. ASSUME NEW f \in Slabs, AllocFromSlab(f) PROVE \E o \in Objects : Pool!Alloc(o)
  BY <1>1, AllocFromSlabStep DEF Pool!Alloc, Objects
<1>2. ASSUME NEW f \in Slabs, AllocNewSlab(f) PROVE \E o \in Objects : Pool!Alloc(o)
  BY <1>2, AllocNewSlabStep DEF Pool!Alloc, Objects
<1>3. ASSUME NEW f \in Slabs, NEW i \in Idx, FreeObject(f, i) \/ FreeSlab(f, i)
      PROVE  \E o \in Objects : Pool!Free(o)
  BY <1>3, FreeObjectStep, FreeSlabStep DEF Pool!Free, Objects
<1>4. ASSUME NEW f \in Slabs, NEW i \in Idx, FreeCrashes(f, i) PROVE out' = out
  BY <1>4 DEF FreeCrashes
<1>5. ASSUME Destroy PROVE Pool!Drop
  BY <1>5 DEF Destroy, Pool!Drop
<1>6. QED
  BY <1>1, <1>2, <1>3, <1>4, <1>5 DEF Next, Pool!Next, vars

\* slab_cache_alloc() never returns an object that a client has.
THEOREM ImplementsPool == Spec => PoolSpec
<1>1. Init => Pool!Init
  BY DEF Init, Pool!Init
<1>2. QED
  BY <1>1, StepPool, AlwaysIInv, PTL DEF Spec, PoolSpec, Pool!Spec

-----------------------------------------------------------------------------
\* The slab cache in the heap is the slab cache of module Slab: what is proved
\* above, for a vmspace that hands out any slab it has, holds when the slabs
\* come from the buddy allocator and share it with other users.

\* An operation of the heap is an operation of the cache, or leaves the cache
\* alone.
LEMMA StepOfCache == HeapNext => [Next]_vars
<1> SUFFICES ASSUME HeapNext PROVE Next \/ UNCHANGED vars
  OBVIOUS
<1>1. CASE CacheAlloc
  BY <1>1 DEF CacheAlloc, Next
<1>2. CASE CacheGrow
  <2>1. AllocNewSlab(Address(mem, SlabOrder)) /\ Address(mem, SlabOrder) \in Slabs
    BY <1>2 DEF CacheGrow, AllocNewSlab
  <2>2. QED
    BY <2>1 DEF Next
<1>3. CASE CacheFree
  BY <1>3 DEF CacheFree, Next
<1>4. CASE CacheShrink
  BY <1>4 DEF CacheShrink, Next
<1>5. CASE CacheDestroy
  BY <1>5 DEF CacheDestroy, Next
<1>6. CASE (\E o \in LargeOrders : KmallocLarge(o)) \/ KfreeLarge \/ StackAlloc \/ StackFree \/ OutOfMemory
  BY <1>6 DEF KmallocLarge, KfreeLarge, StackAlloc, StackFree, OutOfMemory
<1>7. QED
  BY <1>1, <1>2, <1>3, <1>4, <1>5, <1>6 DEF HeapNext

\* slab.c over vmspace.c behaves like module Slab.
THEOREM HeapImplementsCache == HeapSpec => Spec
<1>1. HeapInit => Init
  BY DEF HeapInit
<1>2. [HeapNext]_<<vars, heapVars>> => [Next]_vars
  BY StepOfCache
<1>3. QED
  BY <1>1, <1>2, PTL DEF HeapSpec, Spec

\* slab_cache_alloc() never hands out an object in use, whatever else is
\* allocated in the same vmspace.
THEOREM HeapImplementsPool == HeapSpec => PoolSpec
BY HeapImplementsCache, ImplementsPool, PTL

\* Memory that a client of the cache uses has not been given back to the
\* vmspace by slab_cache_free(), and list and bitmaps are exact.
THEOREM HeapCacheIsExact == HeapSpec => []CacheIsExact
BY HeapImplementsCache, CacheStaysExact, PTL

-----------------------------------------------------------------------------
\* The memory: who has which block

\* The blocks handed out, with who has them.
Owner(use, page, order) == [use |-> use, page |-> page, order |-> order]
\* All that have pages, of every kind.
Owners ==
  {Owner("slab", p, SlabOrder) : p \in held} \cup {Owner("large", b[1], b[2]) : b \in large}
    \cup {Owner("stack", p, StackOrder) : p \in stacks} \cup {Owner("lost", p, StackOrder) : p \in lost}

\* Page p belongs to w.
Has(w, p) == p \in Block(w.page, w.order)

\* The owners O have the pages that are not free, each page has one owner, and
\* it is mapped unless it is lost.
Accounts(O, m) ==
  /\ \A w \in O : /\ w.page \in Nat /\ w.order \in Orders /\ Aligned(w.page, w.order)
                  /\ \A p \in Block(w.page, w.order) : p \in Nat /\ p < VmSize
  /\ \A p \in Nat : p < VmSize => (IsFree(m.vm, p) <=> ~\E w \in O : Has(w, p))
  /\ \A v, w \in O, p \in Nat : Has(v, p) /\ Has(w, p) => v = w
  /\ \A p \in Nat : p < VmSize => (m.map[p] # NoFrame <=> \E w \in O : w.use # "lost" /\ Has(w, p))

\* A block has pages.
LEMMA BlockHasPages == ASSUME NEW a \in Nat, NEW o \in Nat PROVE a \in Block(a, o)
<1>1. PICK x \in Nat \ {0} : x = 2^o
  BY PowersArePositive
<1>2. a \in a .. a + x - 1
  OBVIOUS
<1>3. QED
  BY <1>1, <1>2 DEF Block

\* The pages of the vmspace that can be handed out.
LEMMA UsablePages == \A p \in Nat : p < VmSize => p \in VPages
BY VmAssumption DEF VPages, VmSize

\* An allocation adds an owner.
LEMMA OwnerComes ==
  ASSUME NEW O, NEW m, SoundMemory(m), Accounts(O, m), NEW n, NEW use, use # "lost",
         NEW a, NEW o \in Orders, Takes(m.vm, n.vm, a, o),
         \A p \in VPages : IF p \in Block(a, o) THEN n.map[p] # NoFrame ELSE n.map[p] = m.map[p]
  PROVE  Accounts(O \cup {Owner(use, a, o)}, n) /\ Owner(use, a, o) \notin O
<1>1. PICK w : w = Owner(use, a, o)
  OBVIOUS
<1>2. w.use = use /\ w.page = a /\ w.order = o
  BY <1>1 DEF Owner
<1>3. /\ a \in Nat /\ Aligned(a, o) /\ \A p \in Block(a, o) : p \in Nat /\ p < VmSize /\ IsFree(m.vm, p)
      /\ \A p \in Nat : IsFree(n.vm, p) <=> IsFree(m.vm, p) /\ p \notin Block(a, o)
  BY DEF Takes
<1>4. \A p : Has(w, p) <=> p \in Block(a, o)
  BY <1>2 DEF Has
<1>5. \A v \in O, p \in Nat : p < VmSize /\ Has(v, p) => ~Has(w, p)
  BY <1>3, <1>4 DEF Accounts
<1>6. \A v \in O, p \in Nat : Has(v, p) => p < VmSize
  BY DEF Accounts, Has
<1>7. PICK P : P = O \cup {w}
  OBVIOUS
<1>8. \A v \in P : /\ v.page \in Nat /\ v.order \in Orders /\ Aligned(v.page, v.order)
                   /\ \A p \in Block(v.page, v.order) : p \in Nat /\ p < VmSize
  BY <1>2, <1>3, <1>7 DEF Accounts
<1>9. \A p \in Nat : p < VmSize => (IsFree(n.vm, p) <=> ~\E v \in P : Has(v, p))
  BY <1>3, <1>4, <1>7 DEF Accounts
<1>10. \A u, v \in P, p \in Nat : Has(u, p) /\ Has(v, p) => u = v
  BY <1>5, <1>6, <1>7 DEF Accounts
<1>11. \A p \in Nat : p < VmSize => (n.map[p] # NoFrame <=> \E v \in P : v.use # "lost" /\ Has(v, p))
  <2> SUFFICES ASSUME NEW p \in Nat, p < VmSize
               PROVE  n.map[p] # NoFrame <=> \E v \in P : v.use # "lost" /\ Has(v, p)
    OBVIOUS
  <2>1. p \in VPages
    BY UsablePages
  <2>2. CASE Has(w, p)
    BY <1>2, <1>4, <1>7, <2>1, <2>2
  <2>3. CASE ~Has(w, p)
    BY <1>4, <1>7, <2>1, <2>3 DEF Accounts
  <2>4. QED
    BY <2>2, <2>3
<1>12. w \notin O
  <2>1. a \in Block(a, o)
    BY <1>3, BuddyAssumption, BlockHasPages DEF Orders
  <2>2. Has(w, a) /\ a \in Nat /\ a < VmSize
    BY <1>3, <1>4, <2>1
  <2>3. QED
    BY <1>5, <2>2
<1>13. QED
  BY <1>1, <1>7, <1>8, <1>9, <1>10, <1>11, <1>12 DEF Accounts

\* vmspace_free() takes one away.
LEMMA OwnerGoes ==
  ASSUME NEW O, NEW m, SoundMemory(m), Accounts(O, m), NEW w \in O, w.use # "lost"
  PROVE  SoundMemory(VmspaceFree(m, w.page, w.order)) /\ Accounts(O \ {w}, VmspaceFree(m, w.page, w.order))
<1>1. PICK a \in Nat, o \in Orders : a = w.page /\ o = w.order
  BY DEF Accounts
<1>2. Aligned(a, o) /\ \A p \in Block(a, o) : p \in Nat /\ p < VmSize
  BY <1>1 DEF Accounts
<1>3. \A p : Has(w, p) <=> p \in Block(a, o)
  BY <1>1 DEF Has
<1>4. \A p \in Block(a, o) : m.map[p] # NoFrame
  BY <1>2, <1>3 DEF Accounts
<1>5. PICK n : n = VmspaceFree(m, a, o)
  OBVIOUS
<1>6. /\ SoundMemory(n)
      /\ \A p \in Nat : IsFree(n.vm, p) <=> IsFree(m.vm, p) \/ p \in Block(a, o)
      /\ \A p \in VPages : n.map[p] = IF p \in Block(a, o) THEN NoFrame ELSE m.map[p]
  BY <1>2, <1>4, <1>5, VmspaceFreeKeeps
<1>7. \A v \in O \ {w}, p \in Nat : Has(v, p) => ~Has(w, p)
  BY DEF Accounts
<1>8. PICK P : P = O \ {w}
  OBVIOUS
<1>9. \A v \in P : /\ v.page \in Nat /\ v.order \in Orders /\ Aligned(v.page, v.order)
                   /\ \A p \in Block(v.page, v.order) : p \in Nat /\ p < VmSize
  BY <1>8 DEF Accounts
<1>10. \A p \in Nat : p < VmSize => (IsFree(n.vm, p) <=> ~\E v \in P : Has(v, p))
  BY <1>3, <1>6, <1>7, <1>8 DEF Accounts
<1>11. \A u, v \in P, p \in Nat : Has(u, p) /\ Has(v, p) => u = v
  BY <1>8 DEF Accounts
<1>12. \A p \in Nat : p < VmSize => (n.map[p] # NoFrame <=> \E v \in P : v.use # "lost" /\ Has(v, p))
  <2> SUFFICES ASSUME NEW p \in Nat, p < VmSize
               PROVE  n.map[p] # NoFrame <=> \E v \in P : v.use # "lost" /\ Has(v, p)
    OBVIOUS
  <2>1. p \in VPages
    BY UsablePages
  <2>2. CASE Has(w, p)
    BY <1>3, <1>6, <1>7, <1>8, <2>1, <2>2
  <2>3. CASE ~Has(w, p)
    BY <1>3, <1>6, <1>8, <2>1, <2>3 DEF Accounts
  <2>4. QED
    BY <2>2, <2>3
<1>13. Accounts(P, n)
  BY <1>9, <1>10, <1>11, <1>12 DEF Accounts
<1>14. QED
  BY <1>1, <1>5, <1>6, <1>8, <1>13

\* The frames of a block go and its addresses are lost.
LEMMA OwnerLost ==
  ASSUME NEW O, NEW m, SoundMemory(m), Accounts(O, m), NEW a, NEW o, Owner("stack", a, o) \in O
  PROVE  /\ SoundMemory(UnmapPages(m, a, o))
         /\ Accounts((O \ {Owner("stack", a, o)}) \cup {Owner("lost", a, o)}, UnmapPages(m, a, o))
<1>1. PICK w, l : w = Owner("stack", a, o) /\ l = Owner("lost", a, o)
  OBVIOUS
<1>2. w.use = "stack" /\ w.page = a /\ w.order = o /\ l.use = "lost" /\ l.page = a /\ l.order = o /\ w \in O
  BY <1>1 DEF Owner
<1>3. a \in Nat /\ o \in Orders /\ Aligned(a, o) /\ \A p \in Block(a, o) : p \in Nat /\ p < VmSize
  BY <1>2 DEF Accounts
<1>4. \A p : (Has(w, p) <=> p \in Block(a, o)) /\ (Has(l, p) <=> p \in Block(a, o))
  BY <1>2 DEF Has
<1>5. \A p \in Block(a, o) : p \in VPages /\ m.map[p] # NoFrame
  BY <1>2, <1>3, <1>4, UsablePages DEF Accounts
<1>6. PICK n : n = UnmapPages(m, a, o)
  OBVIOUS
<1>7. /\ SoundMemory(n) /\ n.vm = m.vm
      /\ \A p \in VPages : n.map[p] = IF p \in Block(a, o) THEN NoFrame ELSE m.map[p]
  BY <1>3, <1>5, <1>6, UnmapPagesKeeps, BuddyAssumption DEF Orders
<1>8. PICK P : P = (O \ {w}) \cup {l}
  OBVIOUS
<1>9. \A v \in O \ {w}, p \in Nat : Has(v, p) => p \notin Block(a, o)
  BY <1>2, <1>4 DEF Accounts
<1>10. \A v \in P : /\ v.page \in Nat /\ v.order \in Orders /\ Aligned(v.page, v.order)
                    /\ \A p \in Block(v.page, v.order) : p \in Nat /\ p < VmSize
  BY <1>2, <1>3, <1>8 DEF Accounts
<1>11. \A p \in Nat : p < VmSize => (IsFree(n.vm, p) <=> ~\E v \in P : Has(v, p))
  BY <1>2, <1>4, <1>7, <1>8 DEF Accounts
<1>12. \A u, v \in P, p \in Nat : Has(u, p) /\ Has(v, p) => u = v
  BY <1>4, <1>8, <1>9 DEF Accounts
<1>13. \A p \in Nat : p < VmSize => (n.map[p] # NoFrame <=> \E v \in P : v.use # "lost" /\ Has(v, p))
  <2> SUFFICES ASSUME NEW p \in Nat, p < VmSize
               PROVE  n.map[p] # NoFrame <=> \E v \in P : v.use # "lost" /\ Has(v, p)
    OBVIOUS
  <2>1. p \in VPages
    BY UsablePages
  <2>2. CASE p \in Block(a, o)
    BY <1>2, <1>7, <1>8, <1>9, <2>1, <2>2
  <2>3. CASE p \notin Block(a, o)
    BY <1>2, <1>4, <1>7, <1>8, <2>1, <2>3 DEF Accounts
  <2>4. QED
    BY <2>2, <2>3
<1>14. Accounts(P, n)
  BY <1>10, <1>11, <1>12, <1>13 DEF Accounts
<1>15. QED
  BY <1>1, <1>6, <1>7, <1>8, <1>14

\* The inductive invariant of the heap's memory.
MInv ==
  /\ SoundMemory(mem)
  /\ Accounts(Owners, mem)
  /\ large = {<<b[1], b[2]>> : b \in large} /\ \A b \in large : b[2] \in LargeOrders
  /\ oom \in BOOLEAN

\* Nothing happens to the memory.
LEMMA SameMemory == ASSUME MInv, UNCHANGED <<mem, held, large, stacks, lost>>, oom' \in BOOLEAN PROVE MInv'
BY DEF MInv, Owners, SoundMemory, Accounts

\* slab_cache_alloc() with a new slab: the cache gets a block.
LEMMA CacheGrowStep == ASSUME MInv, CacheGrow PROVE MInv'
<1>1. SlabOrder \in Orders
  BY HeapAssumption DEF HeapAssumption
<1>2. PICK a : a = Address(mem, SlabOrder)
  OBVIOUS
<1>3. HasMemory(mem, SlabOrder) /\ mem' = VmspaceAlloc(mem, SlabOrder) /\ held' = held \cup {a}
  BY <1>2 DEF CacheGrow, AllocNewSlab
<1>4. Owners' = Owners \cup {Owner("slab", a, SlabOrder)}
  BY <1>3 DEF CacheGrow, Owners
<1>5. PICK n : n = VmspaceAlloc(mem, SlabOrder)
  OBVIOUS
<1>6. /\ SoundMemory(n) /\ Takes(mem.vm, n.vm, a, SlabOrder)
      /\ \A p \in VPages : IF p \in Block(a, SlabOrder) THEN n.map[p] # NoFrame ELSE n.map[p] = mem.map[p]
  BY <1>1, <1>2, <1>3, <1>5, VmspaceAllocKeeps DEF MInv
<1>7. Accounts(Owners \cup {Owner("slab", a, SlabOrder)}, n)
  BY <1>1, <1>6, OwnerComes DEF MInv
<1>8. SoundMemory(mem') /\ Accounts(Owners', mem')
  BY <1>3, <1>4, <1>5, <1>6, <1>7
<1>9. large' = large /\ oom' = oom
  BY DEF CacheGrow
<1>10. QED
  BY <1>8, <1>9 DEF MInv, SoundMemory, Accounts

\* kmalloc() of a large object: its owner gets a block.
LEMMA KmallocLargeStep == ASSUME MInv, NEW o \in LargeOrders, KmallocLarge(o) PROVE MInv'
<1>1. o \in Orders
  BY HeapAssumption DEF HeapAssumption
<1>2. PICK a : a = Address(mem, o)
  OBVIOUS
<1>3. /\ HasMemory(mem, o) /\ mem' = VmspaceAlloc(mem, o) /\ large' = large \cup {<<a, o>>}
      /\ held' = held /\ stacks' = stacks /\ lost' = lost /\ oom' = oom
  BY <1>2 DEF KmallocLarge, vars
<1>4. Owners' = Owners \cup {Owner("large", a, o)}
  <2>1. PICK c : c = <<a, o>>
    OBVIOUS
  <2>2. c[1] = a /\ c[2] = o /\ large' = large \cup {c}
    BY <1>3, <2>1
  <2>3. QED
    BY <1>3, <2>2 DEF Owners
<1>5. PICK n : n = VmspaceAlloc(mem, o)
  OBVIOUS
<1>6. /\ SoundMemory(n) /\ Takes(mem.vm, n.vm, a, o)
      /\ \A p \in VPages : IF p \in Block(a, o) THEN n.map[p] # NoFrame ELSE n.map[p] = mem.map[p]
  BY <1>1, <1>2, <1>3, <1>5, VmspaceAllocKeeps DEF MInv
<1>7. Accounts(Owners \cup {Owner("large", a, o)}, n)
  BY <1>1, <1>6, OwnerComes DEF MInv
<1>8. SoundMemory(mem') /\ Accounts(Owners', mem')
  BY <1>3, <1>4, <1>5, <1>6, <1>7
<1>9. large' = {<<b[1], b[2]>> : b \in large'} /\ \A b \in large' : b[2] \in LargeOrders
  BY <1>3 DEF MInv
<1>10. QED
  BY <1>3, <1>8, <1>9 DEF MInv, SoundMemory, Accounts

\* kfree() of a large object: one owner less.
LEMMA KfreeLargeStep == ASSUME MInv, KfreeLarge PROVE MInv'
<1>1. PICK b \in large : mem' = VmspaceFree(mem, b[1], b[2]) /\ large' = large \ {b}
  BY DEF KfreeLarge
<1>2. held' = held /\ stacks' = stacks /\ lost' = lost /\ oom' = oom
  BY DEF KfreeLarge, vars
<1>3. PICK w : w = Owner("large", b[1], b[2])
  OBVIOUS
<1>4. w \in Owners /\ w.use # "lost" /\ w.page = b[1] /\ w.order = b[2]
  BY <1>3 DEF Owners, Owner
<1>5. \A c \in large : c = b <=> Owner("large", c[1], c[2]) = w
  BY <1>3 DEF MInv, Owner
<1>6. Owners' = Owners \ {w}
  BY <1>1, <1>2, <1>3, <1>5 DEF Owners, Owner
<1>7. SoundMemory(VmspaceFree(mem, w.page, w.order)) /\ Accounts(Owners \ {w}, VmspaceFree(mem, w.page, w.order))
  BY <1>4, OwnerGoes DEF MInv
<1>8. SoundMemory(mem') /\ Accounts(Owners', mem')
  BY <1>1, <1>4, <1>6, <1>7
<1>9. large' = {<<c[1], c[2]>> : c \in large'} /\ \A c \in large' : c[2] \in LargeOrders
  <2>1. \A c \in large : c = <<c[1], c[2]>>
    BY DEF MInv
  <2>2. QED
    BY <1>1, <2>1 DEF MInv
<1>10. QED
  BY <1>2, <1>8, <1>9 DEF MInv, SoundMemory, Accounts

\* slab_cache_free() of the last object of a slab: one owner less.
LEMMA CacheShrinkStep == ASSUME IInv, MInv, CacheShrink PROVE MInv'
<1>1. PICK f \in Slabs, i \in Idx : FreeSlab(f, i) /\ mem' = VmspaceFree(mem, f, SlabOrder)
  BY DEF CacheShrink
<1>2. f \in held /\ held' = held \ {f}
  BY <1>1, ListIsHeld DEF FreeSlab, IInv
<1>3. large' = large /\ stacks' = stacks /\ lost' = lost /\ oom' = oom
  BY DEF CacheShrink
<1>4. PICK w : w = Owner("slab", f, SlabOrder)
  OBVIOUS
<1>5. w \in Owners /\ w.use # "lost" /\ w.page = f /\ w.order = SlabOrder
  BY <1>2, <1>4 DEF Owners, Owner
<1>6. Owners' = Owners \ {w}
  BY <1>2, <1>3, <1>4 DEF Owners, Owner
<1>7. SoundMemory(VmspaceFree(mem, w.page, w.order)) /\ Accounts(Owners \ {w}, VmspaceFree(mem, w.page, w.order))
  BY <1>5, OwnerGoes DEF MInv
<1>8. SoundMemory(mem') /\ Accounts(Owners', mem')
  BY <1>1, <1>5, <1>6, <1>7
<1>9. QED
  BY <1>3, <1>8 DEF MInv, SoundMemory, Accounts

\* alloc_stack_and_tls(): the stack gets a block.
LEMMA StackAllocStep == ASSUME MInv, StackAlloc PROVE MInv'
<1>1. StackOrder \in Orders /\ StackOrder \in Nat
  BY HeapAssumption, BuddyAssumption DEF HeapAssumption, Orders
<1>2. PICK a : a = Address(mem, StackOrder)
  OBVIOUS
<1>3. PICK r, n : r = VmspaceReserve(mem, StackOrder) /\ n = MapPages(r, a, StackOrder)
  OBVIOUS
<1>4. /\ HasAddress(mem, StackOrder) /\ HasFrames(mem, 2^StackOrder) /\ mem' = n
      /\ stacks' = stacks \cup {a} /\ held' = held /\ large' = large /\ lost' = lost /\ oom' = oom
  BY <1>2, <1>3 DEF StackAlloc, vars
<1>5. SoundMemory(r) /\ Takes(mem.vm, r.vm, a, StackOrder) /\ r.map = mem.map /\ r.zones = mem.zones
  BY <1>1, <1>2, <1>3, <1>4, VmspaceReserveKeeps DEF MInv
<1>6. HasFrames(r, 2^StackOrder)
  BY <1>4, <1>5 DEF HasFrames
<1>7. a \in Nat /\ \A p \in Block(a, StackOrder) : p \in Nat /\ p < VmSize /\ IsFree(mem.vm, p) /\ ~IsFree(r.vm, p)
  BY <1>5 DEF Takes
<1>8. \A p \in Block(a, StackOrder) : p \in VPages /\ r.map[p] = NoFrame /\ ~IsFree(r.vm, p)
  BY <1>5, <1>7, UsablePages DEF MInv, SoundMemory
<1>9. /\ SoundMemory(n) /\ n.vm = r.vm
      /\ \A p \in VPages : IF p \in Block(a, StackOrder) THEN n.map[p] # NoFrame ELSE n.map[p] = r.map[p]
  BY <1>1, <1>3, <1>5, <1>6, <1>7, <1>8, MapPagesKeeps
<1>10. Accounts(Owners \cup {Owner("stack", a, StackOrder)}, n)
  BY <1>1, <1>5, <1>9, OwnerComes DEF MInv
<1>11. Owners' = Owners \cup {Owner("stack", a, StackOrder)}
  BY <1>4 DEF Owners
<1>12. SoundMemory(mem') /\ Accounts(Owners', mem')
  BY <1>4, <1>9, <1>10, <1>11
<1>13. QED
  BY <1>4, <1>12 DEF MInv, SoundMemory, Accounts

\* thread_destroy(): the frames of the stack go, its addresses are lost.
LEMMA StackFreeStep == ASSUME MInv, StackFree PROVE MInv'
<1>1. PICK a \in stacks : /\ mem' = UnmapPages(mem, a, StackOrder)
                          /\ stacks' = stacks \ {a} /\ lost' = lost \cup {a}
  BY DEF StackFree
<1>2. held' = held /\ large' = large /\ oom' = oom
  BY DEF StackFree, vars
<1>3. PICK w, l : w = Owner("stack", a, StackOrder) /\ l = Owner("lost", a, StackOrder)
  OBVIOUS
<1>4. w \in Owners
  BY <1>3 DEF Owners
<1>5. Owners' = (Owners \ {w}) \cup {l}
  BY <1>1, <1>2, <1>3 DEF Owners, Owner
<1>6. SoundMemory(UnmapPages(mem, a, StackOrder)) /\ Accounts((Owners \ {w}) \cup {l}, UnmapPages(mem, a, StackOrder))
  BY <1>3, <1>4, OwnerLost DEF MInv
<1>7. SoundMemory(mem') /\ Accounts(Owners', mem')
  BY <1>1, <1>5, <1>6
<1>8. QED
  BY <1>2, <1>7 DEF MInv, SoundMemory, Accounts

\* The sequence of a finite set has each member once.
LEMMA SeqOfSet ==
  ASSUME NEW S, IsFiniteSet(S), NEW s, s = SetToSeq(S)
  PROVE  /\ Len(s) \in Nat /\ \A k \in 1 .. Len(s) : s[k] \in S
         /\ \A j, k \in 1 .. Len(s) : s[j] = s[k] => j = k
         /\ \A x \in S : \E k \in 1 .. Len(s) : s[k] = x
<1>1. PICK n \in Nat : n = Cardinality(S)
  BY FS_CardinalityType
<1>2. \E f \in [1 .. n -> S] : IsInjective(f)
  BY <1>1, FS_CardinalityType DEF ExistsBijection, Bijection, Injection
<1>3. s \in [1 .. n -> S] /\ IsInjective(s)
  BY <1>1, <1>2 DEF SetToSeq
<1>4. s \in Injection(1 .. n, S)
  BY <1>3 DEF Injection
<1>5. Cardinality(1 .. n) = n
  BY FS_Interval
<1>6. s \in Surjection(1 .. n, S)
  BY <1>1, <1>4, <1>5, FS_Injection
<1>7. s \in Seq(S) /\ Len(s) = n
  BY <1>3
<1>8. \A x \in S : \E k \in 1 .. n : s[k] = x
  BY <1>6 DEF Surjection
<1>9. QED
  BY <1>3, <1>7, <1>8 DEF IsInjective

\* slab_cache_destroy() returns one slab after the other.
LEMMA CacheDestroyStep == ASSUME IInv, MInv, CacheDestroy PROVE MInv'
<1>1. /\ held' = held \ OnList /\ large' = large /\ stacks' = stacks /\ lost' = lost /\ oom' = oom
  BY DEF CacheDestroy, Destroy
<1>2. OnList \subseteq held /\ OnList \subseteq Slabs
  BY ListIsHeld, ListIsClosed DEF IInv
<1>3. IsFiniteSet(OnList)
  <2>1. SlabOrder \in Nat
    BY HeapAssumption, BuddyAssumption DEF HeapAssumption, Orders
  <2>2. PICK x \in Nat \ {0} : x = 2^SlabOrder
    BY <2>1, PowersArePositive
  <2>3. VmSize \in Nat
    BY PageZero
  <2>4. \A p \in 0 .. VmSize - x : p \in 0 .. VmSize
    BY <2>3
  <2>5. Slabs \subseteq 0 .. VmSize
    BY <2>2, <2>4, HeapAssumption DEF HeapAssumption
  <2>6. IsFiniteSet(0 .. VmSize)
    BY <2>3, FS_Interval
  <2>7. OnList \subseteq 0 .. VmSize
    BY <1>2, <2>5
  <2>8. QED
    BY <2>6, <2>7, FS_Subset
<1>4. PICK slabs : slabs = SetToSeq(OnList)
  OBVIOUS
<1>5. PICK n \in Nat : n = Len(slabs)
  BY <1>3, <1>4, SeqOfSet
<1>6. /\ \A k \in 1 .. n : slabs[k] \in OnList
      /\ \A j, k \in 1 .. n : slabs[j] = slabs[k] => j = k
      /\ \A f \in OnList : \E k \in 1 .. n : slabs[k] = f
  BY <1>3, <1>4, <1>5, SeqOfSet
<1> DEFINE Gone(k) == {Owner("slab", slabs[i], SlabOrder) : i \in 1 .. k}
           G(f) == [k \in 0 .. n |-> IF k = 0 THEN mem ELSE VmspaceFree(f[k - 1], slabs[k], SlabOrder)]
           Step(k, y) == VmspaceFree(y, slabs[k], SlabOrder)
           I == [k \in 0 .. n |-> { y \in Memories : SoundMemory(y) /\ Accounts(Owners \ Gone(k), y) }]
           F == [k \in 1 .. n |-> [y \in I[k - 1] |-> Step(k, y)]]
<1>7. mem' = (CHOOSE f : f = G(f))[n]
  BY <1>4, <1>5 DEF CacheDestroy
<1>8. mem \in I[0]
  <2>1. Gone(0) = {}
    OBVIOUS
  <2>2. Owners \ Gone(0) = Owners
    BY <2>1
  <2> HIDE DEF Gone
  <2>3. 0 \in 0 .. n /\ mem \in Memories
    BY MemoryType DEF MInv
  <2>4. QED
    BY <2>2, <2>3 DEF MInv
<1>9. ASSUME NEW k \in 1 .. n, NEW y \in I[k - 1] PROVE F[k][y] = Step(k, y) /\ Step(k, y) \in I[k]
  <2>1. k - 1 \in 0 .. n /\ k \in 0 .. n
    OBVIOUS
  <2>2. SoundMemory(y) /\ Accounts(Owners \ Gone(k - 1), y)
    BY <2>1
  <2>3. PICK w : w = Owner("slab", slabs[k], SlabOrder)
    OBVIOUS
  <2>4. w.use # "lost" /\ w.page = slabs[k] /\ w.order = SlabOrder
    BY <2>3 DEF Owner
  <2>5. w \in Owners
    BY <1>2, <1>6, <2>3 DEF Owners
  <2>6. w \notin Gone(k - 1)
    <3>1. ASSUME NEW i \in 1 .. k - 1 PROVE Owner("slab", slabs[i], SlabOrder) # w
      <4>1. i \in 1 .. n /\ i # k
        OBVIOUS
      <4>2. slabs[i] # slabs[k]
        BY <1>6, <4>1
      <4>3. QED
        BY <2>3, <4>2 DEF Owner
    <3>2. QED
      BY <3>1
  <2>7. Owners \ Gone(k) = (Owners \ Gone(k - 1)) \ {w}
    <3>1. \A i : i \in 1 .. k <=> i \in 1 .. k - 1 \/ i = k
      OBVIOUS
    <3>2. Gone(k) = Gone(k - 1) \cup {w}
      BY <2>3, <3>1
    <3> HIDE DEF Gone
    <3>3. QED
      BY <3>2
  <2> HIDE DEF Gone
  <2>8. PICK v : v = VmspaceFree(y, w.page, w.order)
    OBVIOUS
  <2>9. SoundMemory(v) /\ Accounts((Owners \ Gone(k - 1)) \ {w}, v)
    BY <2>2, <2>4, <2>5, <2>6, <2>8, OwnerGoes
  <2>10. v \in I[k]
    BY <2>1, <2>7, <2>9, MemoryType
  <2>11. F[k][y] = Step(k, y)
    OBVIOUS
  <2>12. Step(k, y) = v
    BY <2>4, <2>8
  <2>13. QED
    BY <2>10, <2>11, <2>12
<1> HIDE DEF I, F, Step, Gone
<1>10. \A k \in 1 .. n : \A y \in I[k - 1] : F[k][y] \in I[k]
  BY <1>9
<1>11. PICK s : s = CHOOSE f : f = G(f)
  OBVIOUS
<1>12. s = G(s)
  <2>1. PICK f : f = [k \in 0 .. n |-> f[k]] /\ Iterated(f, mem, n, F, I)
    BY <1>8, <1>10, IteratesExist
  <2>2. ASSUME NEW k \in 1 .. n PROVE f[k] = VmspaceFree(f[k - 1], slabs[k], SlabOrder)
    <3>1. k - 1 \in 0 .. n
      OBVIOUS
    <3>2. f[k - 1] \in I[k - 1] /\ f[k] = F[k][f[k - 1]]
      BY <2>1, <3>1 DEF Iterated
    <3>3. QED
      BY <1>9, <3>2 DEF Step
  <2>3. f[0] = mem /\ \A k \in 0 .. n : k # 0 => k \in 1 .. n
    BY <2>1 DEF Iterated
  <2>4. f = G(f)
    BY <2>1, <2>2, <2>3
  <2>5. QED
    BY <1>11, <2>4
<1>13. s[0] = mem /\ \A k \in 1 .. n : s[k] = Step(k, s[k - 1])
  <2>1. 0 \in 0 .. n /\ \A k \in 1 .. n : k \in 0 .. n /\ k # 0
    OBVIOUS
  <2>2. QED
    BY <1>12, <2>1 DEF Step
<1>14. s[n] \in I[n]
  <2>1. s[0] \in I[0] /\ \A k \in 1 .. n : s[k - 1] \in I[k - 1] => s[k] = F[k][s[k - 1]]
    BY <1>8, <1>9, <1>13
  <2>2. QED
    BY <1>10, <2>1, IteratesStay
<1>15. PICK y : y = s[n] /\ SoundMemory(y) /\ Accounts(Owners \ Gone(n), y)
  BY <1>14 DEF I
<1>16. mem' = y
  BY <1>7, <1>11, <1>15
<1>17. Owners' = Owners \ Gone(n)
  <2>1. \A w : w \in Gone(n) <=> \E f \in OnList : w = Owner("slab", f, SlabOrder)
    BY <1>6 DEF Gone
  <2>2. \A w : w \in Owners' <=> w \in Owners /\ ~\E f \in OnList : w = Owner("slab", f, SlabOrder)
    BY <1>1, <1>2 DEF Owners, Owner
  <2>3. QED
    BY <2>1, <2>2
<1>18. SoundMemory(mem') /\ Accounts(Owners', mem')
  BY <1>15, <1>16, <1>17
<1>19. QED
  BY <1>1, <1>18 DEF MInv, SoundMemory, Accounts

\* A page is in one free node if it is free, else in none.
LEMMA NodesOfPage ==
  ASSUME NEW b, SoundBuddy(b), NEW p \in Nat
  PROVE  Cardinality(FreeNodes(b, p)) = IF IsFree(b, p) THEN 1 ELSE 0
<1>1. CASE IsFree(b, p)
  <2>1. PICK o \in Orders : Up(p, o) \in b.orders[o]
    BY <1>1 DEF IsFree
  <2>2. FreeNodes(b, p) = {o}
    BY <2>1 DEF FreeNodes, SoundBuddy, Up
  <2>3. QED
    BY <1>1, <2>2, FS_Singleton
<1>2. CASE ~IsFree(b, p)
  <2>1. FreeNodes(b, p) = {}
    BY <1>2 DEF FreeNodes, IsFree, Up
  <2>2. QED
    BY <1>2, <2>1, FS_EmptySet
<1>3. QED
  BY <1>1, <1>2

\* What is given is what has an owner.
LEMMA GivenIsOwned ==
  ASSUME MInv
  PROVE  /\ \A b \in Given : \E w \in Owners : b = <<w.page, w.order>>
         /\ \A w \in Owners : <<w.page, w.order>> \in Given
<1>1. ASSUME NEW b \in Given PROVE \E w \in Owners : b = <<w.page, w.order>>
  <2>1. CASE \E p \in held : b = <<p, SlabOrder>>
    <3>1. PICK p \in held : b = <<p, SlabOrder>>
      BY <2>1
    <3>2. Owner("slab", p, SlabOrder) \in Owners
      BY <3>1 DEF Owners
    <3>3. QED
      BY <3>1, <3>2 DEF Owner
  <2>2. CASE b \in large
    <3>1. Owner("large", b[1], b[2]) \in Owners /\ b = <<b[1], b[2]>>
      BY <2>2 DEF Owners, MInv
    <3>2. QED
      BY <3>1 DEF Owner
  <2>3. CASE \E p \in stacks : b = <<p, StackOrder>>
    <3>1. PICK p \in stacks : b = <<p, StackOrder>>
      BY <2>3
    <3>2. Owner("stack", p, StackOrder) \in Owners
      BY <3>1 DEF Owners
    <3>3. QED
      BY <3>1, <3>2 DEF Owner
  <2>4. CASE \E p \in lost : b = <<p, StackOrder>>
    <3>1. PICK p \in lost : b = <<p, StackOrder>>
      BY <2>4
    <3>2. Owner("lost", p, StackOrder) \in Owners
      BY <3>1 DEF Owners
    <3>3. QED
      BY <3>1, <3>2 DEF Owner
  <2>5. QED
    BY <2>1, <2>2, <2>3, <2>4 DEF Given
<1>2. ASSUME NEW w \in Owners PROVE <<w.page, w.order>> \in Given
  <2>1. CASE \E p \in held : w = Owner("slab", p, SlabOrder)
    BY <2>1 DEF Owner, Given
  <2>2. CASE \E b \in large : w = Owner("large", b[1], b[2])
    <3>1. PICK b \in large : w = Owner("large", b[1], b[2])
      BY <2>2
    <3>2. b = <<b[1], b[2]>>
      BY DEF MInv
    <3>3. <<w.page, w.order>> = b
      BY <3>1, <3>2 DEF Owner
    <3>4. QED
      BY <3>3 DEF Given
  <2>3. CASE \E p \in stacks : w = Owner("stack", p, StackOrder)
    BY <2>3 DEF Owner, Given
  <2>4. CASE \E p \in lost : w = Owner("lost", p, StackOrder)
    BY <2>4 DEF Owner, Given
  <2>5. QED
    BY <2>1, <2>2, <2>3, <2>4 DEF Owners
<1>3. QED
  BY <1>1, <1>2

\* Each address is free or has one owner.
LEMMA EachAddressOnce == ASSUME MInv PROVE AddressesAccounted
<1> SUFFICES ASSUME NEW p \in 0 .. VmSize - 1
             PROVE  Cardinality(FreeNodes(mem.vm, p)) + Cardinality({b \in Given : p \in Block(b[1], b[2])}) = 1
  BY DEF AddressesAccounted
<1>1. p \in Nat /\ p < VmSize
  BY PageZero
<1>2. Cardinality(FreeNodes(mem.vm, p)) = IF IsFree(mem.vm, p) THEN 1 ELSE 0
  BY <1>1, NodesOfPage DEF MInv, SoundMemory
<1>3. IsFree(mem.vm, p) <=> ~\E w \in Owners : Has(w, p)
  BY <1>1 DEF MInv, Accounts
<1>4. CASE IsFree(mem.vm, p)
  <2>1. ASSUME NEW b \in Given, p \in Block(b[1], b[2]) PROVE FALSE
    <3>1. PICK w \in Owners : b = <<w.page, w.order>>
      BY GivenIsOwned
    <3>2. Has(w, p)
      BY <2>1, <3>1 DEF Has
    <3>3. QED
      BY <1>3, <1>4, <3>2
  <2>2. {b \in Given : p \in Block(b[1], b[2])} = {}
    BY <2>1
  <2>3. Cardinality({b \in Given : p \in Block(b[1], b[2])}) = 0
    BY <2>2, FS_EmptySet
  <2>4. QED
    BY <1>2, <1>4, <2>3
<1>5. CASE ~IsFree(mem.vm, p)
  <2>1. PICK w \in Owners : Has(w, p)
    BY <1>3, <1>5
  <2>2. PICK c : c = <<w.page, w.order>>
    OBVIOUS
  <2>3. c \in Given /\ p \in Block(c[1], c[2])
    BY <2>1, <2>2, GivenIsOwned DEF Has
  <2>4. ASSUME NEW b \in Given, p \in Block(b[1], b[2]) PROVE b = c
    <3>1. PICK v \in Owners : b = <<v.page, v.order>>
      BY GivenIsOwned
    <3>2. Has(v, p)
      BY <2>4, <3>1 DEF Has
    <3>3. v = w
      BY <1>1, <2>1, <3>2 DEF MInv, Accounts
    <3>4. QED
      BY <2>2, <3>1, <3>3
  <2>5. {b \in Given : p \in Block(b[1], b[2])} = {c}
    BY <2>3, <2>4
  <2>6. QED
    BY <1>2, <1>5, <2>5, FS_Singleton
<1>6. QED
  BY <1>4, <1>5

\* Mapped are the pages somebody uses.
LEMMA UsedPagesAreMapped == ASSUME MInv PROVE MappedIfUsed
<1> SUFFICES ASSUME NEW p \in 0 .. VmSize - 1
             PROVE  mem.map[p] # NoFrame <=>
                      \E b \in Given : p \in Block(b[1], b[2]) /\ b \notin {<<a, StackOrder>> : a \in lost}
  BY DEF MappedIfUsed
<1>1. p \in Nat /\ p < VmSize
  BY PageZero
<1>2. mem.map[p] # NoFrame <=> \E w \in Owners : w.use # "lost" /\ Has(w, p)
  BY <1>1 DEF MInv, Accounts
<1>3. ASSUME NEW w \in Owners, w.use # "lost", Has(w, p)
      PROVE  \E b \in Given : p \in Block(b[1], b[2]) /\ b \notin {<<a, StackOrder>> : a \in lost}
  <2>1. PICK b : b = <<w.page, w.order>>
    OBVIOUS
  <2>2. b \in Given /\ p \in Block(b[1], b[2])
    BY <1>3, <2>1, GivenIsOwned DEF Has
  <2>3. ASSUME NEW a \in lost, b = <<a, StackOrder>> PROVE FALSE
    <3>1. PICK l : l = Owner("lost", a, StackOrder)
      OBVIOUS
    <3>2. l \in Owners /\ l.use = "lost" /\ l.page = w.page /\ l.order = w.order
      BY <2>1, <2>3, <3>1 DEF Owners, Owner
    <3>3. Has(l, p)
      BY <1>3, <3>2 DEF Has
    <3>4. l = w
      BY <1>1, <1>3, <3>2, <3>3 DEF MInv, Accounts
    <3>5. QED
      BY <1>3, <3>2, <3>4
  <2>4. QED
    BY <2>2, <2>3
<1>4. ASSUME NEW b \in Given, p \in Block(b[1], b[2]), b \notin {<<a, StackOrder>> : a \in lost}
      PROVE  \E w \in Owners : w.use # "lost" /\ Has(w, p)
  <2>1. PICK w \in Owners : b = <<w.page, w.order>>
    BY GivenIsOwned
  <2>2. Has(w, p)
    BY <1>4, <2>1 DEF Has
  <2>3. w.use = "lost" => w.page \in lost /\ w.order = StackOrder
    BY DEF Owners, Owner
  <2>4. QED
    BY <1>4, <2>1, <2>2, <2>3
<1>5. QED
  BY <1>2, <1>3, <1>4

\* Each frame is free or backs one page.
LEMMA EachFrameOnce == ASSUME MInv PROVE FramesAccounted
<1> SUFFICES ASSUME NEW f \in Frames
             PROVE  Cardinality(FreeAt(f)) + Cardinality({p \in VPages : mem.map[p] = f})
                      = IF f \in Tracked THEN 1 ELSE 0
  BY DEF FramesAccounted, Tracked
<1>1. PICK zs : zs = mem.zones /\ SoundZones(zs)
  BY DEF MInv, SoundMemory
<1>2. PICK z \in Zones : z = ZoneOf(f)
  BY ZonesShareFrames
<1>3. PICK q \in Nat : q = f - ZoneStart[z] /\ q < ZoneSize[z]
  BY <1>2, ZonesShareFrames
<1>4. PICK b : b = zs[z] /\ SoundBuddy(b)
  BY <1>1 DEF SoundZones
<1>5. ASSUME NEW y \in Zones PROVE f \in ZoneStart[y] .. ZoneStart[y] + ZoneSize[y] - 1 <=> y = z
  <2>1. ZoneStart[y] \in Nat /\ ZoneSize[y] \in Nat /\ f \in Nat /\ ZoneStart[z] \in Nat /\ ZoneSize[z] \in Nat
    BY ZonesShareFrames
  <2>2. CASE y = z
    BY <1>3, <2>1, <2>2
  <2>3. CASE y # z
    <3>1. ASSUME f \in ZoneStart[y] .. ZoneStart[y] + ZoneSize[y] - 1 PROVE FALSE
      <4>1. PICK p \in Nat : p = f - ZoneStart[y] /\ p < ZoneSize[y] /\ ZoneStart[y] + p = f
        BY <2>1, <3>1
      <4>2. ZoneOf(f) = y
        BY <4>1, ZonesShareFrames
      <4>3. QED
        BY <1>2, <2>3, <4>2
    <3>2. QED
      BY <2>3, <3>1
  <2>4. QED
    BY <2>2, <2>3
<1>6. \A n \in Zones \X Orders : n \in FreeAt(f) <=> n[1] = z /\ Up(q, n[2]) \in b.orders[n[2]]
  BY <1>1, <1>3, <1>4, <1>5 DEF FreeAt, Up
<1>7. FreeAt(f) \subseteq Zones \X Orders
  BY DEF FreeAt
<1>8. IsFreeFrame(zs, f) <=> IsFree(b, q)
  BY <1>2, <1>3, <1>4 DEF IsFreeFrame
<1>9. f # NoFrame
  BY NoFrameIsNone
<1>10. CASE IsFreeFrame(zs, f)
  <2>1. PICK o \in Orders : Up(q, o) \in b.orders[o]
    BY <1>8, <1>10 DEF IsFree
  <2>2. PICK m : m = <<z, o>>
    OBVIOUS
  <2>3. m \in FreeAt(f)
    BY <1>6, <2>1, <2>2
  <2>4. ASSUME NEW n \in FreeAt(f) PROVE n = m
    <3>1. n \in Zones \X Orders
      BY <1>7
    <3>2. n = <<n[1], n[2]>> /\ n[1] = z /\ n[2] \in Orders /\ Up(q, n[2]) \in b.orders[n[2]]
      BY <1>6, <3>1
    <3>3. n[2] = o
      BY <1>4, <2>1, <3>2 DEF SoundBuddy
    <3>4. QED
      BY <2>2, <3>2, <3>3
  <2>5. FreeAt(f) = {m}
    BY <2>3, <2>4
  <2>6. {p \in VPages : mem.map[p] = f} = {}
    BY <1>1, <1>9, <1>10 DEF MInv, SoundMemory
  <2>7. f \in Tracked
    BY <1>1, <1>10 DEF MInv, SoundMemory
  <2>8. Cardinality(FreeAt(f)) = 1
    BY <2>5, FS_Singleton
  <2>9. Cardinality({p \in VPages : mem.map[p] = f}) = 0
    BY <2>6, FS_EmptySet
  <2>10. QED
    BY <2>7, <2>8, <2>9
<1>11. CASE ~IsFreeFrame(zs, f)
  <2>1. FreeAt(f) = {}
    BY <1>6, <1>7, <1>8, <1>11 DEF IsFree
  <2>2. CASE f \in Tracked
    <3>1. PICK p \in VPages : mem.map[p] = f
      BY <1>1, <1>11, <2>2 DEF MInv, SoundMemory
    <3>2. \A r \in VPages : mem.map[r] = f => r = p
      BY <1>9, <3>1 DEF MInv, SoundMemory
    <3>3. {r \in VPages : mem.map[r] = f} = {p}
      BY <3>1, <3>2
    <3>4. Cardinality(FreeAt(f)) = 0
      BY <2>1, FS_EmptySet
    <3>5. Cardinality({r \in VPages : mem.map[r] = f}) = 1
      BY <3>3, FS_Singleton
    <3>6. QED
      BY <2>2, <3>4, <3>5
  <2>3. CASE f \notin Tracked
    <3>1. {r \in VPages : mem.map[r] = f} = {}
      BY <1>9, <2>3 DEF MInv, SoundMemory
    <3>2. Cardinality(FreeAt(f)) = 0 /\ Cardinality({r \in VPages : mem.map[r] = f}) = 0
      BY <2>1, <3>1, FS_EmptySet
    <3>3. QED
      BY <2>3, <3>2
  <2>4. QED
    BY <2>2, <2>3
<1>12. QED
  BY <1>10, <1>11

\* vmspace_alloc() finds a block whenever one is free.
LEMMA RoomCanBeHad == ASSUME MInv PROVE RoomIsFound
<1>1. \A b \in {mem.vm} \cup {mem.zones[z] : z \in Zones} : SoundBuddy(b)
  BY DEF MInv, SoundMemory, SoundZones
<1>2. QED
  BY <1>1, RoomCanBeAllocated DEF RoomIsFound

\* The numbers of free nodes are less than the size.
LEMMA NodesAreFew ==
  ASSUME NEW b, SoundBuddy(b), NEW j \in Orders, NEW i \in b.orders[j] PROVE i \in Nat /\ i < b.size
<1>1. i \in Nat /\ j \in Nat /\ b.size \in Nat
  BY BuddyAssumption DEF SoundBuddy, Orders
<1>2. PICK x \in Nat \ {0} : x = 2^j
  BY <1>1, PowersArePositive
<1>3. PICK p \in Nat : p = i * x /\ Up(p, j) = i
  BY <1>1, <1>2, FirstPage
<1>4. p < b.size
  BY <1>3 DEF SoundBuddy
<1>5. i <= i * x
  BY <1>1
<1>6. QED
  BY <1>1, <1>3, <1>4, <1>5

\* The memory has its type.
LEMMA TypesAreRight == ASSUME IInv, MInv PROVE HeapTypeOK
<1>1. mem.vm.orders \in [Orders -> SUBSET VPages]
  <2>1. PICK b : b = mem.vm /\ SoundBuddy(b) /\ b.size = VmSize
    BY DEF MInv, SoundMemory
  <2>2. b.orders \in [Orders -> SUBSET Nat]
    BY <2>1 DEF SoundBuddy
  <2>3. \A j \in Orders : b.orders[j] \in SUBSET VPages
    BY <2>1, NodesAreFew, UsablePages
  <2>4. QED
    BY <2>1, <2>2, <2>3
<1>2. ASSUME NEW z \in Zones PROVE mem.zones[z].orders \in [Orders -> SUBSET Frames]
  <2>1. PICK b : b = mem.zones[z] /\ SoundBuddy(b) /\ b.size = ZoneSize[z]
    BY DEF MInv, SoundMemory, SoundZones
  <2>2. b.orders \in [Orders -> SUBSET Nat]
    BY <2>1 DEF SoundBuddy
  <2>3. \A i \in Nat : i < ZoneSize[z] => i \in Frames
    <3>1. ASSUME NEW i \in Nat, i < ZoneSize[z] PROVE i \in Frames
      <4>1. PICK s \in Nat : s = ZoneStart[z] /\ s + i \in Frames
        BY <3>1, ZonesShareFrames
      <4>2. MaxExtent \in Nat
        BY PMMAssumption DEF PMMAssumption
      <4>3. QED
        BY <4>1, <4>2 DEF Frames
    <3>2. QED
      BY <3>1
  <2>4. \A j \in Orders : b.orders[j] \in SUBSET Frames
    BY <2>1, <2>3, NodesAreFew
  <2>5. QED
    BY <2>1, <2>2, <2>4
<1>3. \A w \in Owners : w.page \in VPages
  <2>1. ASSUME NEW w \in Owners PROVE w.page \in VPages
    <3>1. w.page \in Nat /\ w.order \in Nat /\ \A p \in Block(w.page, w.order) : p \in Nat /\ p < VmSize
      BY BuddyAssumption DEF MInv, Accounts, Orders
    <3>2. w.page < VmSize
      BY <3>1, BlockHasPages
    <3>3. QED
      BY <3>1, <3>2, UsablePages
  <2>2. QED
    BY <2>1
<1>4. stacks \subseteq VPages /\ lost \subseteq VPages
  <2>1. \A p \in stacks : Owner("stack", p, StackOrder) \in Owners /\ Owner("stack", p, StackOrder).page = p
    BY DEF Owners, Owner
  <2>2. \A p \in lost : Owner("lost", p, StackOrder) \in Owners /\ Owner("lost", p, StackOrder).page = p
    BY DEF Owners, Owner
  <2>3. QED
    BY <1>3, <2>1, <2>2
<1>5. large \subseteq VPages \X LargeOrders
  <2>1. \A b \in large : b = <<b[1], b[2]>> /\ b[2] \in LargeOrders
    BY DEF MInv
  <2>2. \A b \in large : b[1] \in VPages
    <3>1. \A b \in large : Owner("large", b[1], b[2]) \in Owners /\ Owner("large", b[1], b[2]).page = b[1]
      BY DEF Owners, Owner
    <3>2. QED
      BY <1>3, <3>1
  <2>3. QED
    BY <2>1, <2>2
<1>6. mem.map \in [VPages -> Frames \cup {NoFrame}] /\ oom \in BOOLEAN /\ TypeOK
  BY DEF MInv, SoundMemory, IInv
<1>7. QED
  BY <1>1, <1>2, <1>4, <1>5, <1>6 DEF HeapTypeOK

\* What the runs check follows.
LEMMA InvariantAccounts == ASSUME IInv, MInv PROVE MemoryAccounted
BY TypesAreRight, EachAddressOnce, EachFrameOnce, UsedPagesAreMapped,
   RoomCanBeHad DEF MemoryAccounted

\* Every step of the heap keeps it.
LEMMA StepMInv == ASSUME IInv, MInv, [HeapNext]_<<vars, heapVars>> PROVE MInv'
<1>1. CASE CacheAlloc
  BY <1>1, SameMemory DEF CacheAlloc, AllocFromSlab, heapVars, MInv
<1>2. CASE CacheGrow
  BY <1>2, CacheGrowStep
<1>3. CASE CacheFree
  BY <1>3, SameMemory DEF CacheFree, FreeObject, FreeCrashes, heapVars, MInv
<1>4. CASE CacheShrink
  BY <1>4, CacheShrinkStep
<1>5. CASE CacheDestroy
  BY <1>5, CacheDestroyStep
<1>6. CASE \E o \in LargeOrders : KmallocLarge(o)
  BY <1>6, KmallocLargeStep
<1>7. CASE KfreeLarge
  BY <1>7, KfreeLargeStep
<1>8. CASE StackAlloc
  BY <1>8, StackAllocStep
<1>9. CASE StackFree
  BY <1>9, StackFreeStep
<1>10. CASE OutOfMemory
  BY <1>10, SameMemory DEF OutOfMemory, vars
<1>11. CASE UNCHANGED <<vars, heapVars>>
  BY <1>11, SameMemory DEF vars, heapVars, MInv
<1>12. QED
  BY <1>1, <1>2, <1>3, <1>4, <1>5, <1>6, <1>7, <1>8, <1>9, <1>10, <1>11 DEF HeapNext

\* The memory vmspace_init() leaves: each address and each frame of the memory
\* map is free, but for the frames of the bitmaps.
LEMMA VmspaceInitIsSound == SoundMemory(VmspaceInit) /\ Accounts({}, VmspaceInit)
<1>1. PICK o \in Orders : o = InitOrder /\ CanAllocPages(InitPhysicalMemory, o)
  BY BootAssumption DEF BootAssumption
<1>2. o \in Nat /\ VmOverhead \in Nat /\ VmSize \in Nat /\ VmPages \in Nat /\ VmSize + VmOverhead = VmPages
  BY BuddyAssumption, VmAssumption DEF Orders, VmSize, VmAssumption
<1>3. PICK x \in Nat \ {0} : x = 2^o /\ x >= VmOverhead
  BY <1>1, <1>2, PowersArePositive, RoundedUp DEF InitOrder
<1>4. PICK zs, ys, g : zs = InitPhysicalMemory /\ ys = AllocPages(zs, o) /\ g = FirstFrame(zs, o)
  OBVIOUS
<1>5. SoundZones(zs) /\ \A f \in Frames : IsFreeFrame(zs, f) <=> f \in Managed
  BY <1>4, PhysicalMemoryIsSound
<1>6. /\ SoundZones(ys) /\ g \in Nat
      /\ \A f \in g .. g + x - 1 : f \in Frames /\ IsFreeFrame(zs, f)
      /\ \A f \in Frames : IsFreeFrame(ys, f) <=> IsFreeFrame(zs, f) /\ f \notin g .. g + x - 1
  BY <1>1, <1>3, <1>4, <1>5, FramesTaken
<1>7. g = InitFrame
  BY <1>1, <1>4 DEF InitFrame
<1>8. PICK b : b = BuddyFreeRange(BuddyInit(VmSize), 0, VmSize)
  OBVIOUS
<1>9. SoundBuddy(b) /\ b.size = VmSize /\ \A p \in Nat : IsFree(b, p) <=> p < VmSize
  <2>1. PICK c : c = BuddyInit(VmSize)
    OBVIOUS
  <2>2. SoundBuddy(c) /\ c.size = VmSize /\ \A p \in Nat : ~IsFree(c, p)
    BY <1>2, <2>1, InitIsSound
  <2>3. 0 \in Nat /\ 0 + VmSize <= c.size /\ \A p \in 0 .. 0 + VmSize - 1 : ~IsFree(c, p)
    BY <1>2, <2>2
  <2>4. /\ SoundBuddy(b) /\ b.size = c.size
        /\ \A p \in Nat : IsFree(b, p) <=> IsFree(c, p) \/ p \in 0 .. 0 + VmSize - 1
    BY <1>2, <1>8, <2>1, <2>2, <2>3, FreeRangeGives
  <2>5. \A p \in Nat : p \in 0 .. 0 + VmSize - 1 <=> p < VmSize
    BY <1>2
  <2>6. QED
    BY <2>2, <2>4, <2>5
<1>10. PICK mp : mp = [p \in VPages |-> IF p < VmSize THEN NoFrame ELSE g + (p - VmSize)]
  OBVIOUS
<1>11. PICK n : n = VmspaceInit
  OBVIOUS
<1>12. n = [vm |-> b, zones |-> ys, map |-> mp]
  BY <1>1, <1>4, <1>7, <1>8, <1>10, <1>11 DEF VmspaceInit
<1>13. n.vm = b /\ n.zones = ys /\ n.map = mp /\ n = [vm |-> n.vm, zones |-> n.zones, map |-> n.map]
  BY <1>12
<1>14. \A p : p \in VPages <=> p \in Nat /\ p < VmPages
  BY <1>2 DEF VPages
<1>15. \A p \in VPages : p < VmSize => mp[p] = NoFrame
  BY <1>10
<1>16. ASSUME NEW p \in VPages, ~(p < VmSize)
       PROVE  mp[p] = g + (p - VmSize) /\ mp[p] \in g .. g + VmOverhead - 1 /\ mp[p] \in g .. g + x - 1
  BY <1>2, <1>3, <1>6, <1>10, <1>14, <1>16
<1>17. \A f : f \in SpareFrames <=> f \in g + VmOverhead .. g + x - 1
  BY <1>1, <1>3, <1>7 DEF SpareFrames
<1>18. \A p \in VPages : ~(p < VmSize) => mp[p] \in Frames /\ mp[p] \in Tracked /\ ~IsFreeFrame(ys, mp[p])
  <2>1. ASSUME NEW p \in VPages, ~(p < VmSize) PROVE mp[p] \in Frames /\ mp[p] \in Tracked /\ ~IsFreeFrame(ys, mp[p])
    <3>1. PICK f \in Nat : f = mp[p] /\ f \in g .. g + VmOverhead - 1 /\ f \in g .. g + x - 1
      BY <1>2, <1>6, <1>16, <2>1
    <3>2. f \in Frames /\ f \in Managed /\ ~IsFreeFrame(ys, f)
      BY <1>5, <1>6, <3>1
    <3>3. f \notin g + VmOverhead .. g + x - 1
      BY <1>2, <1>6, <3>1
    <3>4. QED
      BY <1>17, <3>1, <3>2, <3>3 DEF Tracked
  <2>2. QED
    BY <2>1
<1>19. mp \in [VPages -> Frames \cup {NoFrame}]
  <2>1. \A p \in VPages : mp[p] \in Frames \cup {NoFrame}
    BY <1>15, <1>18
  <2>2. QED
    BY <1>10, <2>1
<1>20. ASSUME NEW p \in VPages, NEW q \in VPages, mp[p] = mp[q], mp[p] # NoFrame PROVE p = q
  <2>1. ~(p < VmSize) /\ ~(q < VmSize)
    BY <1>15, <1>20
  <2>2. g + (p - VmSize) = g + (q - VmSize) /\ p \in Nat /\ q \in Nat
    BY <1>14, <1>16, <1>20, <2>1
  <2>3. QED
    BY <1>2, <1>6, <2>2
<1>21. \A p \in VPages : mp[p] # NoFrame => mp[p] \in Tracked /\ ~IsFreeFrame(ys, mp[p])
  BY <1>15, <1>18
<1>22. \A f \in Frames : IsFreeFrame(ys, f) => f \in Tracked
  <2>1. ASSUME NEW f \in Frames, IsFreeFrame(ys, f) PROVE f \in Tracked
    <3>1. f \in Managed /\ f \notin g .. g + x - 1 /\ f \in Nat
      BY <1>5, <1>6, <2>1, NoFrameIsNone
    <3>2. f \notin g + VmOverhead .. g + x - 1
      BY <1>2, <1>6, <3>1
    <3>3. QED
      BY <1>17, <3>1, <3>2 DEF Tracked
  <2>2. QED
    BY <2>1
<1>23. ASSUME NEW f \in Frames \cap Tracked PROVE IsFreeFrame(ys, f) \/ \E p \in VPages : mp[p] = f
  <2>1. f \in Nat /\ IsFreeFrame(zs, f) /\ f \notin g + VmOverhead .. g + x - 1
    BY <1>5, <1>17, NoFrameIsNone DEF Tracked
  <2>2. CASE f \notin g .. g + x - 1
    BY <1>6, <2>1, <2>2
  <2>3. CASE f \in g .. g + x - 1
    <3>1. PICK p \in Nat : p = VmSize + (f - g) /\ p < VmPages /\ ~(p < VmSize) /\ g + (p - VmSize) = f
      BY <1>2, <1>6, <2>1, <2>3
    <3>2. QED
      BY <1>14, <1>16, <3>1
  <2>4. QED
    BY <2>2, <2>3
<1>24. \A p \in VPages : IsFree(b, p) => mp[p] = NoFrame
  BY <1>9, <1>14, <1>15
<1>25. SoundMemory(n)
  BY <1>6, <1>9, <1>13, <1>19, <1>20, <1>21, <1>22, <1>23, <1>24 DEF SoundMemory
<1>26. Accounts({}, n)
  BY <1>9, <1>13, <1>15, UsablePages DEF Accounts
<1>27. QED
  BY <1>11, <1>25, <1>26

\* It holds at the start.
LEMMA InitMInv == HeapInit => MInv
<1> SUFFICES ASSUME HeapInit PROVE MInv
  OBVIOUS
<1>1. Owners = {}
  BY DEF HeapInit, Init, Owners
<1>2. mem = VmspaceInit /\ large = {} /\ oom = FALSE
  BY DEF HeapInit
<1>3. SoundMemory(mem) /\ Accounts(Owners, mem)
  BY <1>1, <1>2, VmspaceInitIsSound
<1>4. QED
  BY <1>2, <1>3 DEF MInv

\* Whatever the slab cache, kmalloc() and thread.c ask of vmspace.c, in any
\* order: each kernel address is free once or handed out once, each frame of
\* the memory map is free once in its zone or backs one page, mapped are just
\* the pages in use, and an allocation fails only when there is no room.
THEOREM MemoryStaysAccounted == HeapSpec => []MemoryAccounted
<1>1. HeapInit => IInv /\ MInv
  BY InitMInv, InitIInv DEF HeapInit
<1>2. IInv /\ MInv /\ [HeapNext]_<<vars, heapVars>> => IInv' /\ MInv'
  BY StepIInv, StepMInv, StepOfCache DEF vars
<1>3. IInv /\ MInv => MemoryAccounted
  BY InvariantAccounts
<1>4. QED
  BY <1>1, <1>2, <1>3, PTL DEF HeapSpec
=============================================================================
