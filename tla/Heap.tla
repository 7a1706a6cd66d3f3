-------------------------------- MODULE Heap --------------------------------
(***************************************************************************)
(* The kernel heap: a slab cache, kmalloc() of large objects (kmalloc.c)   *)
(* and thread stacks (thread.c), all in one vmspace over the physical      *)
(* memory manager.                                                         *)
(*                                                                         *)
(* Every operation runs under spinlocks or belongs to one thread, and the  *)
(* memory is shared only through the locked allocators, so each is a step. *)
(***************************************************************************)
EXTENDS Slab, Vmspace, SequencesExt

CONSTANTS SlabOrder,     \* the order of SLAB_SIZE
          LargeOrders,   \* orders of the large objects kmalloc() is asked for
          StackOrder     \* the order of THREAD_STACK_SZ

ASSUME HeapAssumption ==
  /\ SlabOrder \in Orders /\ StackOrder \in Orders /\ LargeOrders \subseteq Orders
  /\ Slabs = {p \in 0 .. VmSize - 2^SlabOrder : p % 2^SlabOrder = 0}

VARIABLES mem,     \* addresses, frames and page table, see module Vmspace
          large,   \* large objects in use: pairs of page and order in the header
          stacks,  \* the stacks of threads
          lost,    \* history: addresses of the stacks of destroyed threads
          oom      \* memory ran out, or is above 4GB, and the kernel stopped

heapVars == <<mem, large, stacks, lost, oom>>

HeapInit ==
  /\ Init
  /\ mem = VmspaceInit
  /\ large = {}
  /\ stacks = {}
  /\ lost = {}
  /\ oom = FALSE

Running == ~oom /\ ~crashed

\* slab_cache_alloc() from a slab that has room
CacheAlloc == Running /\ (\E f \in Slabs : AllocFromSlab(f)) /\ UNCHANGED heapVars

\* slab_cache_alloc() with a new slab
CacheGrow ==
  /\ Running
  /\ HasMemory(mem, SlabOrder)
  /\ AllocNewSlab(Address(mem, SlabOrder))
  /\ mem' = VmspaceAlloc(mem, SlabOrder)
  /\ UNCHANGED <<large, stacks, lost, oom>>

\* slab_cache_free() of an object whose slab stays, or that fails
CacheFree ==
  /\ Running
  /\ \E f \in Slabs, i \in Idx : FreeObject(f, i) \/ FreeCrashes(f, i)
  /\ UNCHANGED heapVars

\* slab_cache_free() of the last object of a slab
CacheShrink ==
  /\ Running
  /\ \E f \in Slabs, i \in Idx :
       FreeSlab(f, i) /\ mem' = VmspaceFree(mem, f, SlabOrder)
  /\ UNCHANGED <<large, stacks, lost, oom>>

\* slab_cache_destroy()
CacheDestroy ==
  /\ Running
  /\ Destroy
  /\ LET slabs == SetToSeq(OnList)
         after[k \in 0 .. Len(slabs)] ==
           IF k = 0 THEN mem ELSE VmspaceFree(after[k - 1], slabs[k], SlabOrder)
     IN  mem' = after[Len(slabs)]
  /\ UNCHANGED <<large, stacks, lost, oom>>

\* kmalloc() of an object larger than the size caches hold
KmallocLarge(o) ==
  /\ Running
  /\ HasMemory(mem, o)
  /\ mem' = VmspaceAlloc(mem, o)
  /\ large' = large \cup {<<Address(mem, o), o>>}
  /\ UNCHANGED <<vars, stacks, lost, oom>>

\* kfree() of it; the order is in the header
KfreeLarge ==
  /\ Running
  /\ \E b \in large :
       /\ mem' = VmspaceFree(mem, b[1], b[2])
       /\ large' = large \ {b}
  /\ UNCHANGED <<vars, stacks, lost, oom>>

\* alloc_stack_and_tls()
StackAlloc ==
  /\ Running
  /\ HasAddress(mem, StackOrder) /\ HasFrames(mem, 2^StackOrder)
  /\ LET a == Address(mem, StackOrder)
     IN  /\ mem' = MapPages(VmspaceReserve(mem, StackOrder), a, StackOrder)
         /\ stacks' = stacks \cup {a}
  /\ UNCHANGED <<vars, large, lost, oom>>

\* free_stack_and_tls(): the frames are freed, the addresses are not.
StackFree ==
  /\ Running
  /\ \E a \in stacks :
       /\ mem' = UnmapPages(mem, a, StackOrder)
       /\ stacks' = stacks \ {a}
       /\ lost' = lost \cup {a}
  /\ UNCHANGED <<vars, large, oom>>

\* Memory runs out: vmspace_alloc() fails its assertion or returns ~0, and its
\* caller writes there; or map() fails its assertion on the frame of a stack, or
\* panics at one above 4GB.
OutOfMemory ==
  /\ Running
  /\ \/ (\A g \in OnList : ~HasRoom(g)) /\ ~HasMemory(mem, SlabOrder)
     \/ \E o \in LargeOrders : ~HasMemory(mem, o)
     \/ ~(HasAddress(mem, StackOrder) /\ HasFrames(mem, 2^StackOrder))
  /\ oom' = TRUE
  /\ UNCHANGED <<vars, mem, large, stacks, lost>>

HeapNext ==
  \/ CacheAlloc \/ CacheGrow \/ CacheFree \/ CacheShrink \/ CacheDestroy
  \/ \E o \in LargeOrders : KmallocLarge(o)
  \/ KfreeLarge \/ StackAlloc \/ StackFree \/ OutOfMemory

HeapSpec == HeapInit /\ [][HeapNext]_<<vars, heapVars>>
----------------------------------------------------------------------------
HeapTypeOK ==
  /\ TypeOK
  /\ mem.vm.orders \in [Orders -> SUBSET VPages]
  /\ \A z \in Zones : mem.zones[z].orders \in [Orders -> SUBSET Frames]
  /\ mem.map \in [VPages -> Frames \cup {NoFrame}]
  /\ large \subseteq VPages \X LargeOrders
  /\ stacks \subseteq VPages /\ lost \subseteq VPages
  /\ oom \in BOOLEAN

\* The blocks handed out and not returned.
Given == {<<p, SlabOrder>> : p \in held} \cup large \cup {<<p, StackOrder>> : p \in stacks \cup lost}

\* Each page of the vmspace is either in one free block of the buddy allocator
\* or in one block that was handed out and not returned: blocks never overlap and
\* splitting and merging loses none of them.  (What the callers forget to return,
\* the addresses of stacks and the slabs behind c->first, counts as handed out.)
AddressesAccounted ==
  \A p \in 0 .. VmSize - 1 :
    Cardinality(FreeNodes(mem.vm, p)) + Cardinality({b \in Given : p \in Block(b[1], b[2])}) = 1

\* The free blocks that contain frame f, of the zone f lies in.
FreeAt(f) ==
  {n \in Zones \X Orders :
     /\ f \in ZoneStart[n[1]] .. ZoneStart[n[1]] + ZoneSize[n[1]] - 1
     /\ (f - ZoneStart[n[1]]) \div 2^n[2] \in mem.zones[n[1]].orders[n[2]]}

\* Each frame is either free, in one block of its zone, or backs one page; one
\* that is not memory, or was left over by vmspace_init(), is neither.
FramesAccounted ==
  LET usual == Managed \ SpareFrames
  IN  \A f \in Frames :
        Cardinality(FreeAt(f)) + Cardinality({p \in VPages : mem.map[p] = f}) = IF f \in usual THEN 1 ELSE 0

\* Mapped are the pages that someone uses and no others.  So map() never finds
\* a page mapped already, nor vmspace_free() one that is not: both would panic.
MappedIfUsed ==
  \A p \in 0 .. VmSize - 1 :
    mem.map[p] # NoFrame <=>
      \E b \in Given : p \in Block(b[1], b[2]) /\ b \notin {<<a, StackOrder>> : a \in lost}

\* Blocks are merged so well that a request fails only if there is no aligned
\* room for it.
RoomIsFound ==
  \A b \in {mem.vm} \cup {mem.zones[z] : z \in Zones}, o \in Orders :
    HasRoomFor(b, o) => CanAlloc(b, o)

\* Whatever is allocated and freed, in whatever order, every address and every
\* frame has one owner, pages are mapped while they are used, and room that is
\* there can be had, until the kernel stops for want of memory below 4GB.
MemoryAccounted ==
  HeapTypeOK /\ AddressesAccounted /\ FramesAccounted /\ MappedIfUsed /\ RoomIsFound
=============================================================================
