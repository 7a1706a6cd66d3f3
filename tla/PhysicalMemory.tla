--------------------------- MODULE PhysicalMemory ---------------------------
(***************************************************************************)
(* pmm.c and early_pmm.c: three buddy allocators for the page frames below *)
(* 1MB, from there to 4GB, and above.  As in module Buddy, operators take  *)
(* the allocators and return them changed; addresses are frame numbers.    *)
(***************************************************************************)
EXTENDS Buddy, FiniteSets

CONSTANTS Limit1MB, Limit4GB,  \* the frames at which the zones end
          MaxExtent,           \* early_max_extent
          Ranges,              \* early_ranges: a sequence of [start, extent]
          BitmapFrames         \* frames init_physical_memory() needs for bitmaps

\* The frames of a range.
InRange(r) == r.start .. r.start + r.extent - 1

\* The memory map has ranges that lie apart.
ASSUME PMMAssumption ==
  /\ Limit1MB \in Nat /\ Limit4GB \in Nat /\ MaxExtent \in Nat /\ BitmapFrames \in Nat
  /\ Limit1MB < Limit4GB /\ Limit1MB <= MaxExtent
  /\ Ranges \in Seq([start : Nat, extent : Nat])
  /\ \A i \in DOMAIN Ranges : Ranges[i].start + Ranges[i].extent <= MaxExtent
  /\ \A i, j \in DOMAIN Ranges : i < j => InRange(Ranges[i]) \cap InRange(Ranges[j]) = {}

Frames == 0 .. MaxExtent - 1

Lesser(x, y) == IF x < y THEN x ELSE y

\* Where each of the allocators starts and ends.
Zones == {"UNDER1MB", "UNDER4GB", "NONE"}
ZoneStart == [UNDER1MB |-> 0, UNDER4GB |-> Limit1MB, NONE |-> Limit4GB]
ZoneSize ==
  [UNDER1MB |-> Lesser(MaxExtent, Limit1MB),
   UNDER4GB |-> Lesser(MaxExtent, Limit4GB) - Limit1MB,
   NONE     |-> IF MaxExtent > Limit4GB THEN MaxExtent - Limit4GB ELSE 0]

\* split_range(): the part below loc, and what remains of the range.
SplitRange(r, loc) ==
  IF r.start >= loc
    THEN [below |-> [start |-> r.start, extent |-> 0], rest |-> r]
  ELSE IF r.start + r.extent <= loc
    THEN [below |-> r, rest |-> [r EXCEPT !.extent = 0]]
  ELSE [below |-> [start |-> r.start, extent |-> loc - r.start],
        rest  |-> [start |-> loc, extent |-> r.start + r.extent - loc]]

\* early_alloc_page() takes the first frame of the first range that is longer
\* than a page and starts between the two limits.
Usable(r) == r.extent > 1 /\ r.start \in Limit1MB .. Limit4GB - 1
EarlyAllocPage(rs) ==
  LET n == CHOOSE i \in DOMAIN rs : Usable(rs[i]) /\ \A j \in 1 .. i - 1 : ~Usable(rs[j])
  IN  [rs EXCEPT ![n] = [start |-> @.start + 1, extent |-> @.extent - 1]]

\* The ranges once k frames are taken, and what is left of them when the
\* bitmaps have theirs.
EarlyRanges[k \in 0 .. BitmapFrames] == IF k = 0 THEN Ranges ELSE EarlyAllocPage(EarlyRanges[k - 1])
RangesLeft == EarlyRanges[BitmapFrames]

\* early_alloc_page() finds a frame each time; it would panic.
ASSUME EarlyAssumption ==
  \A k \in 0 .. BitmapFrames - 1 : \E i \in DOMAIN EarlyRanges[k] : Usable(EarlyRanges[k][i])

\* The frames that init_physical_memory() hands to the allocators.
Managed == UNION {InRange(RangesLeft[i]) : i \in DOMAIN RangesLeft}

FreeIn(zs, z, r) ==
  IF r.extent = 0 THEN zs
  ELSE [zs EXCEPT ![z] = BuddyFreeRange(@, r.start - ZoneStart[z], r.extent)]

\* init_physical_memory(): each range is shared out among the zones.
InitPhysicalMemory ==
  LET share(zs, r) ==
        LET low == SplitRange(r, Limit1MB)
            mid == SplitRange(low.rest, Limit4GB)
        IN  FreeIn(FreeIn(FreeIn(zs, "UNDER1MB", low.below), "UNDER4GB", mid.below), "NONE", mid.rest)
      shared[i \in 0 .. Len(RangesLeft)] ==
        IF i = 0 THEN [z \in Zones |-> BuddyInit(ZoneSize[z])]
        ELSE share(shared[i - 1], RangesLeft[i])
  IN  shared[Len(RangesLeft)]

\* alloc_pages(PAGE_REQ_NONE, 2^o): above 4GB if possible, else below.
ZoneTaken(zs, o) == IF CanAlloc(zs["NONE"], o) THEN "NONE" ELSE "UNDER4GB"
CanAllocPages(zs, o) == CanAlloc(zs[ZoneTaken(zs, o)], o)
FirstFrame(zs, o) == LET z == ZoneTaken(zs, o) IN ZoneStart[z] + BuddyAddress(zs[z], o)
AllocPages(zs, o) == [zs EXCEPT ![ZoneTaken(zs, o)] = BuddyAlloc(@, o)]

\* free_page(): the frame's address tells its zone.
ZoneOf(frame) ==
  IF frame < Limit1MB THEN "UNDER1MB" ELSE IF frame < Limit4GB THEN "UNDER4GB" ELSE "NONE"
FreePage(zs, frame) ==
  [zs EXCEPT ![ZoneOf(frame)] = BuddyFree(@, frame - ZoneStart[ZoneOf(frame)], 0)]
=============================================================================
