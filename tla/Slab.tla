-------------------------------- MODULE Slab --------------------------------
(***************************************************************************)
(* slab.c: a cache of objects of one size, carved out of slabs that come   *)
(* from a vmspace.                                                         *)
(*                                                                         *)
(* A slab has PerSlab objects, numbered from 0, and a bitmap of those in   *)
(* use; its footer links it to the next slab of the cache.  The vmspace is *)
(* seen from here as the set of slab addresses it may hand out.  Every     *)
(* function runs under the cache's spinlock, so each is one step.          *)
(***************************************************************************)
EXTENDS Naturals, FiniteSets

CONSTANTS Slabs,    \* the addresses of slabs vmspace_alloc() may return
          PerSlab,  \* num_objs_per_slab()
          NULL

ASSUME SlabAssumption ==
  /\ NULL \notin Slabs
  /\ PerSlab \in Nat \ {0}

VARIABLES first,    \* slab_cache_t.first
          next,     \* slab_footer_t.next
          used,     \* the bitmap: used[f] is the set of indices marked
          held,     \* slabs taken from the vmspace and not given back
          out,      \* history: how many clients have each object
          crashed   \* an assertion failed, or NULL was dereferenced

vars == <<first, next, used, held, out, crashed>>

Idx == 0 .. PerSlab - 1
Objects == Slabs \X Idx

\* slab_cache_create()
Init ==
  /\ first = NULL
  /\ next = [f \in Slabs |-> NULL]
  /\ used = [f \in Slabs |-> {}]
  /\ held = {}
  /\ out = [o \in Objects |-> 0]
  /\ crashed = FALSE

\* S has the first slab, and with each of its members in P the next one.
Closed(S, P) ==
  /\ first # NULL => first \in S
  /\ \A g \in S \cap P : next[g] # NULL => next[g] \in S

\* The slabs met on a walk that starts at c->first and goes on from the slabs
\* of P: the smallest closed set.
Met(P) == {f \in Slabs : \A S \in SUBSET Slabs : Closed(S, P) => f \in S}

OnList == Met(Slabs)

HasRoom(f) == used[f] # Idx

Lowest(S) == CHOOSE i \in S : \A j \in S : i <= j

\* find_empty_obj() goes on to the next slab while the slab is full: it finds
\* the first slab of the list with an unused object, and in it the object with
\* the lowest index.
FirstWithRoom(f) == HasRoom(f) /\ f \in Met({g \in Slabs : ~HasRoom(g)})

\* mark() the object as used and return it.
HandOut(f, i, bitmap) ==
  /\ used' = [bitmap EXCEPT ![f] = @ \cup {i}]
  /\ out' = [out EXCEPT ![<<f, i>>] = @ + 1]

\* Mutant: the first object of the slab is handed out, used or not.
AllocFirstObject(f) ==
  /\ ~crashed
  /\ FirstWithRoom(f)
  /\ HandOut(f, 0, used)
  /\ UNCHANGED <<first, next, held, crashed>>

\* slab_cache_alloc(), from a slab that has room
AllocFromSlab(f) ==
  /\ ~crashed
  /\ FirstWithRoom(f)
  /\ HandOut(f, Lowest(Idx \ used[f]), used)
  /\ UNCHANGED <<first, next, held, crashed>>

\* slab_cache_alloc(), when every slab of the list is full: a new slab, with
\* a cleared bitmap, becomes the first.
AllocNewSlab(f) ==
  /\ ~crashed
  /\ \A g \in OnList : ~HasRoom(g)
  /\ f \in Slabs \ held
  /\ held' = held \cup {f}
  /\ first' = f
  /\ next' = [next EXCEPT ![f] = first]
  /\ HandOut(f, 0, [used EXCEPT ![f] = {}])
  /\ UNCHANGED crashed

\* slab_cache_free() of an object that a client has, when others of its
\* slab are in use
FreeObject(f, i) ==
  /\ ~crashed
  /\ out[<<f, i>>] # 0
  /\ first # NULL
  /\ used[f] \ {i} # {}
  /\ used' = [used EXCEPT ![f] = @ \ {i}]
  /\ out' = [out EXCEPT ![<<f, i>>] = @ - 1]
  /\ UNCHANGED <<first, next, held, crashed>>

\* Mutant: the slab that goes back to the vmspace stays on the list.
FreeSlabStaysOnList(f, i) ==
  /\ ~crashed
  /\ out[<<f, i>>] # 0
  /\ used[f] \ {i} = {}
  /\ f \in OnList
  /\ used' = [used EXCEPT ![f] = @ \ {i}]
  /\ held' = held \ {f}
  /\ out' = [out EXCEPT ![<<f, i>>] = @ - 1]
  /\ UNCHANGED <<first, next, crashed>>

\* slab_cache_free() of the last object in use of its slab: the slab leaves
\* the list and goes back to the vmspace.  If it is the first of the list,
\* the code sets c->first to NULL, whatever follows.
FreeSlab(f, i) ==
  /\ ~crashed
  /\ out[<<f, i>>] # 0
  /\ used[f] \ {i} = {}
  /\ f \in OnList
  /\ IF f = first
       THEN first' = NULL /\ UNCHANGED next
       ELSE /\ next' = [g \in Slabs |-> IF g \in OnList /\ next[g] = f THEN next[f] ELSE next[g]]
            /\ UNCHANGED first
  /\ used' = [used EXCEPT ![f] = @ \ {i}]
  /\ held' = held \ {f}
  /\ out' = [out EXCEPT ![<<f, i>>] = @ - 1]
  /\ UNCHANGED crashed

\* slab_cache_free() when the cache has no slab: the assertion "Trying to
\* free from an empty cache!" fails; and when the slab to unlink is not on
\* the list: the walk runs off its end.
FreeCrashes(f, i) ==
  /\ ~crashed
  /\ out[<<f, i>>] # 0
  /\ \/ first = NULL
     \/ used[f] \ {i} = {} /\ f \notin OnList
  /\ crashed' = TRUE
  /\ UNCHANGED <<first, next, used, held, out>>

\* slab_cache_destroy(). It takes no spinlock, so it is for its caller to see
\* that no other operation on the cache runs meanwhile and that the clients use
\* none of the objects any more: the walk is one step under that assumption only.
Destroy ==
  /\ ~crashed
  /\ first' = NULL
  /\ held' = held \ OnList
  /\ out' = [o \in Objects |-> 0]
  /\ UNCHANGED <<next, used, crashed>>

Next ==
  \/ \E f \in Slabs : AllocFromSlab(f) \/ AllocNewSlab(f)
  \/ \E f \in Slabs, i \in Idx : FreeObject(f, i) \/ FreeSlab(f, i) \/ FreeCrashes(f, i)
  \/ Destroy

Spec == Init /\ [][Next]_vars
----------------------------------------------------------------------------
TypeOK ==
  /\ first \in Slabs \cup {NULL}
  /\ next \in [Slabs -> Slabs \cup {NULL}]
  /\ used \in [Slabs -> SUBSET Idx]
  /\ held \subseteq Slabs
  /\ out \in [Objects -> Nat]
  /\ crashed \in BOOLEAN

\* Memory a client uses belongs to the cache: a slab is given back to the
\* vmspace only when none of its objects is in use, also when the cache has
\* lost track of it.
ObjectsAreBacked == \A o \in Objects : out[o] # 0 => o[1] \in held

\* The slabs of the list are the cache's, are "full or partially full", and
\* their bitmaps mark the objects clients have and no others.
ListIsExact ==
  \A f \in OnList :
    /\ f \in held
    /\ used[f] # {}
    /\ used[f] = {i \in Idx : out[<<f, i>>] # 0}

\* A cache implements a pool: no object is handed out while it is in use.
Pool == INSTANCE ObjectPool WITH Objects <- Objects, out <- out
PoolSpec == Pool!Spec

\* Freeing an object that was allocated never reaches the assertion "Trying
\* to free from an empty cache!", nor runs off the list of slabs.
FreeNeverCrashes == ~crashed

\* What the cache keeps of its slabs and what clients hold agree, also for
\* the slabs slab_cache_free() has lost.
CacheIsExact == ObjectsAreBacked /\ ListIsExact
=============================================================================
