------------------------------- MODULE Buddy -------------------------------
(***************************************************************************)
(* adt/buddy.c and adt/bitmap.c: the buddy allocator, as operators that    *)
(* take an allocator and return it changed.                                *)
(*                                                                         *)
(* Lengths and offsets are counted in blocks of the smallest size, that is *)
(* in pages; a request is given by its order, log2_roundup(sz) less        *)
(* MIN_BUDDY_SZ_LOG2.  A bitmap is the set of its set bits.                *)
(***************************************************************************)
EXTENDS Naturals, Sequences

CONSTANT MaxOrder  \* NUM_BUDDY_BUCKETS - 1

ASSUME BuddyAssumption == MaxOrder \in Nat

Orders == 0 .. MaxOrder

\* The pages of node i of order o.
Pages(o, i) == i * 2^o .. (i + 1) * 2^o - 1

\* log2_roundup(), in pages
Log2Roundup(n) == CHOOSE o \in 0 .. n : 2^o >= n /\ \A k \in 0 .. n : 2^k >= n => o <= k

\* BUDDY(x)
BuddyOf(i) == IF i % 2 = 0 THEN i + 1 ELSE i - 1

\* buddy_init() with start_freed = 0: "size" pages, none of them free
BuddyInit(size) == [size |-> size, orders |-> [o \in Orders |-> {}]]

\* bitmap_first_set() on the bitmap of order o; it gives up when the bit found
\* is past the end of the bitmap.
FirstSet(b, o) == CHOOSE i \in b.orders[o] : \A j \in b.orders[o] : i <= j
HasFirstSet(b, o) == b.orders[o] # {} /\ FirstSet(b, o) <= b.size \div 2^o

\* buddy_alloc() finds a block of order o.
CanAlloc(b, o) == \E k \in o .. MaxOrder : HasFirstSet(b, k)

\* The order of the block it takes.
OrderTaken(b, o) ==
  CHOOSE k \in o .. MaxOrder :
    HasFirstSet(b, k) /\ \A j \in o .. k - 1 : ~HasFirstSet(b, j)

\* The offset it returns.
BuddyAddress(b, o) == LET k == OrderTaken(b, o) IN FirstSet(b, k) * 2^k

\* Mutant: both halves are left free.
AllocLeavesHalves(b, o) ==
  LET k == OrderTaken(b, o)
      half(j) == BuddyAddress(b, o) \div 2^j + 1
  IN  [b EXCEPT !.orders = [j \in Orders |->
        IF j = k THEN @[j] \ {FirstSet(b, k)}
        ELSE IF j \in o .. k - 1 THEN @[j] \cup {half(j), half(j) - 1}
        ELSE @[j]]]

\* The allocator afterwards: the block is taken out of its bitmap and halved
\* down to order o, and each time the second half remains free.
BuddyAlloc(b, o) ==
  LET k == OrderTaken(b, o)
      half(j) == BuddyAddress(b, o) \div 2^j + 1
  IN  [b EXCEPT !.orders = [j \in Orders |->
        IF j = k THEN @[j] \ {FirstSet(b, k)}
        ELSE IF j \in o .. k - 1 THEN @[j] \cup {half(j)}
        ELSE @[j]]]

\* buddy_free() of the block of order o at a page: as long as the buddy is
\* free too, both are taken out and their parent is freed in their place.
BuddyFree(b, page, o) ==
  LET node(j) == page \div 2^j
      stops(j) == j = MaxOrder \/ BuddyOf(node(j)) \notin b.orders[j]
      top == CHOOSE j \in o .. MaxOrder : stops(j) /\ \A k \in o .. j - 1 : ~stops(k)
  IN  [b EXCEPT !.orders = [j \in Orders |->
        IF j = top THEN @[j] \cup {node(j)}
        ELSE IF j \in o .. top - 1 THEN @[j] \ {node(j), BuddyOf(node(j))}
        ELSE @[j]]]

\* buddy_free_range() of n pages from "first" on frees the largest aligned
\* block that fits, again and again.
BuddyFreeRange(b, first, n) ==
  LET fits(p, o) == p + 2^o <= first + n /\ p % 2^o = 0
      largest(p) == CHOOSE o \in Orders : fits(p, o) /\ \A k \in Orders : fits(p, k) => k <= o
      freed[k \in 0 .. n] ==
        IF k = 0 THEN [at |-> first, bd |-> b]
        ELSE LET a == freed[k - 1]
             IN  IF a.at = first + n THEN a
                 ELSE [at |-> a.at + 2^largest(a.at), bd |-> BuddyFree(a.bd, a.at, largest(a.at))]
  IN  freed[n].bd

\* The free nodes that contain a page, and the pages that are free.
FreeNodes(b, page) == {o \in Orders : page \div 2^o \in b.orders[o]}
FreePages(b) == {p \in 0 .. b.size - 1 : FreeNodes(b, p) # {}}

\* There are aligned free pages for a block of order o.
HasRoomFor(b, o) == \E i \in 0 .. b.size \div 2^o : Pages(o, i) \subseteq FreePages(b)
=============================================================================
