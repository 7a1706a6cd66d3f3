------------------------------ MODULE Vmspace ------------------------------
(***************************************************************************)
(* vmspace.c: kernel addresses from a buddy allocator, backed by frames of *)
(* the physical memory manager through the page table.  map(), unmap() and *)
(* get_mapping() are those of hosted/vmm.c: its entries have 32 bits, and  *)
(* it panics at a frame above 4GB.                                         *)
(*                                                                         *)
(* m is the memory: m.vm the buddy allocator of the addresses, m.zones the *)
(* physical memory, m.map the page table.                                  *)
(***************************************************************************)
EXTENDS PhysicalMemory

CONSTANTS VmPages,    \* pages of the vmspace
          VmOverhead  \* of these, the last ones hold the allocator's bitmaps

ASSUME VmAssumption == VmPages \in Nat /\ VmOverhead \in 1 .. VmPages - 1

VPages == 0 .. VmPages - 1
VmSize == VmPages - VmOverhead

\* get_mapping() of a page that is not mapped: ~0ULL
NoFrame == MaxExtent

\* map() takes the frame; above 4GB it panics.
Mappable(frame) == frame < Limit4GB

\* The pages of a block.
Block(page, o) == page .. page + 2^o - 1

\* vmspace_init(), on the physical memory init_physical_memory() leaves: a
\* block of frames for the bitmaps, mapped as far as it is needed.
InitOrder == Log2Roundup(VmOverhead)
InitFrame == FirstFrame(InitPhysicalMemory, InitOrder)
VmspaceInit ==
  [vm    |-> BuddyFreeRange(BuddyInit(VmSize), 0, VmSize),
   zones |-> AllocPages(InitPhysicalMemory, InitOrder),
   map   |-> [p \in VPages |-> IF p < VmSize THEN NoFrame ELSE InitFrame + (p - VmSize)]]

\* What the rounding of that request leaves over is never mapped, nor freed.
SpareFrames == InitFrame + VmOverhead .. InitFrame + 2^InitOrder - 1

\* There is such a block of frames, below 4GB; the kernel panics otherwise.
ASSUME BootAssumption ==
  InitOrder \in Orders /\ CanAllocPages(InitPhysicalMemory, InitOrder) /\ Mappable(InitFrame)

\* vmspace_alloc() of 2^o pages returns an address, ...
HasAddress(m, o) == CanAlloc(m.vm, o)
Address(m, o) == BuddyAddress(m.vm, o)

\* ... and with alloc_phys maps it to contiguous frames, or fails the
\* assertion "Out of memory!", or panics in map().
HasMemory(m, o) ==
  HasAddress(m, o) /\ CanAllocPages(m.zones, o) /\ Mappable(FirstFrame(m.zones, o))
VmspaceAlloc(m, o) ==
  LET a == Address(m, o)
      frame == FirstFrame(m.zones, o)
  IN  [vm    |-> BuddyAlloc(m.vm, o),
       zones |-> AllocPages(m.zones, o),
       map   |-> [p \in VPages |-> IF p \in Block(a, o) THEN frame + (p - a) ELSE m.map[p]]]

\* Without alloc_phys the caller maps the addresses.
VmspaceReserve(m, o) == [m EXCEPT !.vm = BuddyAlloc(@, o)]

\* map(page, alloc_page(PAGE_REQ_NONE), 1, ...)
MapOne(m, page) ==
  [m EXCEPT !.zones = AllocPages(@, 0), !.map[page] = FirstFrame(m.zones, 0)]

\* free_page(get_mapping(page)), and unmap(page, 1)
UnmapOne(m, page) ==
  [m EXCEPT !.zones = FreePage(@, m.map[page]), !.map[page] = NoFrame]

\* alloc_page() succeeds n times, with frames that map() takes: as long as one
\* above 4GB is free, alloc_page() returns that.
HasFrames(m, n) ==
  FreePages(m.zones["NONE"]) = {} /\ n <= Cardinality(FreePages(m.zones["UNDER4GB"]))

\* The pages of a block one after the other.
MapPages(m, page, o) ==
  LET after[k \in 0 .. 2^o] == IF k = 0 THEN m ELSE MapOne(after[k - 1], page + k - 1)
  IN  after[2^o]
UnmapPages(m, page, o) ==
  LET after[k \in 0 .. 2^o] == IF k = 0 THEN m ELSE UnmapOne(after[k - 1], page + k - 1)
  IN  after[2^o]

\* vmspace_free() with free_phys
VmspaceFree(m, page, o) ==
  [UnmapPages(m, page, o) EXCEPT !.vm = BuddyFree(@, page, o)]
=============================================================================
