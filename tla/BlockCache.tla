----------------------------- MODULE BlockCache -----------------------------
(***************************************************************************)
(* block_cache.c: the caches of a group share a list of pages in the order *)
(* of their last use, under the group's mutex.  disk_cache_get() reads the *)
(* device, or maps the page it found, after it has released the mutex.     *)
(*                                                                         *)
(* A block is an offset in the device of one of the caches.  The hash      *)
(* tables have at most one page_t for a block, so a page is named by its   *)
(* block.  A section under the mutex is one step, but for the loop of      *)
(* disk_cache_group_evict(), which others see the middle of.  A user holds *)
(* one handle at a time, as fs_vfat.c does.                                *)
(***************************************************************************)
EXTENDS Naturals, FiniteSets

CONSTANTS
  Users,       \* threads that call disk_cache_get() and disk_cache_release()
  Blocks,
  PageFrames,  \* physical pages
  NoPage,      \* NULL
  Wild,        \* any other pointer that is no page of the cache
  MaxEvict     \* bound: pages asked of one disk_cache_group_evict()

ASSUME BlockCacheAssumption ==
  NoPage \notin Blocks \cup PageFrames /\ Wild \notin Blocks \cup {NoPage} /\ MaxEvict \in Nat /\ IsFiniteSet(Users)

VARIABLES
  cached,      \* the blocks that have a page in their cache's hash table
  mru_page, lru_page, pgNext, pgPrev, use_count, phys_addr,
  frameData,   \* the block whose data a frame has
  user,        \* what each user does: "idle", "reading", "mapping" or "holding"
  handle,      \* the block each user has a handle of
  mapped,      \* the frame mapped at each user's map_at
  evictor,     \* disk_cache_group_evict(): [pg, npages] while it holds the mutex
  newer,       \* history: << b, c >> for cached pages, if b was used after c
  bottom       \* history: what mru_page was when the group was made

bcVars == << cached, mru_page, lru_page, pgNext, pgPrev, use_count, phys_addr,
             frameData, user, handle, mapped, evictor, newer, bottom >>
links == << mru_page, lru_page, pgNext, pgPrev >>

NotEvicting == [pg |-> NoPage, npages |-> 0, on |-> FALSE]
Unlocked == ~evictor.on

(* disk_cache_group_new() leaves mru_page and lru_page as kmalloc() returned *)
(* them: zero, if nobody has used the memory before, or anything else.       *)
BcInit ==
  /\ cached = {} /\ bottom \in {NoPage, Wild} /\ mru_page = bottom
  /\ lru_page \in {NoPage, Wild}
  /\ pgNext = [b \in Blocks |-> NoPage] /\ pgPrev = [b \in Blocks |-> NoPage]
  /\ use_count = [b \in Blocks |-> 0] /\ phys_addr = [b \in Blocks |-> NoPage]
  /\ frameData = [f \in PageFrames |-> NoPage]
  /\ user = [u \in Users |-> "idle"] /\ handle = [u \in Users |-> NoPage]
  /\ mapped = [u \in Users |-> NoPage]
  /\ evictor = NotEvicting /\ newer = {}

FreeFrames == PageFrames \ { phys_addr[b] : b \in cached }

InsertLeavesPrev(b) ==            \* mutant: the old first page does not point back
  /\ pgNext' = [pgNext EXCEPT ![b] = mru_page]
  /\ pgPrev' = [pgPrev EXCEPT ![b] = NoPage]
  /\ mru_page' = b
  /\ lru_page' = IF lru_page = NoPage THEN b ELSE lru_page
(* A new page goes to the front of the list, and becomes its end only if     *)
(* lru_page was zero.  A store through a wild pointer is not in the list.    *)
Insert(b) ==
  /\ pgNext' = [pgNext EXCEPT ![b] = mru_page]
  /\ pgPrev' = [p \in Blocks |-> IF p = b THEN NoPage ELSE IF p = mru_page THEN b ELSE pgPrev[p]]
  /\ mru_page' = b
  /\ lru_page' = IF lru_page = NoPage THEN b ELSE lru_page

FirstUseLater == 0                \* mutant: the page is not in use until it has been read
FirstUse == 1

(* disk_cache_get() of a block with no page.  Without a free frame the       *)
(* assertion stops the kernel.                                               *)
GetMiss(u, b, f) ==
  /\ user[u] = "idle" /\ Unlocked /\ b \notin cached /\ f \in FreeFrames
  /\ cached' = cached \cup {b}
  /\ phys_addr' = [phys_addr EXCEPT ![b] = f]
  /\ use_count' = [use_count EXCEPT ![b] = FirstUse]
  /\ mapped' = [mapped EXCEPT ![u] = f]
  /\ Insert(b)
  /\ newer' = newer \cup { << b, c >> : c \in cached }
  /\ user' = [user EXCEPT ![u] = "reading"]
  /\ handle' = [handle EXCEPT ![u] = b]
  /\ UNCHANGED << frameData, evictor, bottom >>

(* The device's read, which may sleep, with the mutex released. *)
DeviceRead(u) ==
  /\ user[u] = "reading"
  /\ frameData' = [frameData EXCEPT ![mapped[u]] = handle[u]]
  /\ user' = [user EXCEPT ![u] = "holding"]
  /\ UNCHANGED << cached, links, use_count, phys_addr, handle, mapped, evictor, newer, bottom >>

(* The history without a page. *)
Without(b) == { e \in newer : e[1] # b /\ e[2] # b }

(* touch(): the page is unlinked and put in front. *)
Touch(b) ==
  IF b = mru_page THEN UNCHANGED links
  ELSE /\ pgNext' = [p \in Blocks |-> IF p = b THEN mru_page
                                      ELSE IF p = pgPrev[b] THEN pgNext[b] ELSE pgNext[p]]
       /\ pgPrev' = [p \in Blocks |-> IF p = b THEN NoPage ELSE IF p = mru_page THEN b
                                      ELSE IF p = pgNext[b] THEN pgPrev[b] ELSE pgPrev[p]]
       /\ lru_page' = IF b = lru_page THEN pgPrev[b] ELSE lru_page
       /\ mru_page' = b

(* disk_cache_get() of a block that has a page. *)
GetHit(u, b) ==
  /\ user[u] = "idle" /\ Unlocked /\ b \in cached
  /\ use_count' = [use_count EXCEPT ![b] = @ + 1]
  /\ Touch(b)
  /\ newer' = Without(b) \cup { << b, c >> : c \in cached \ {b} }
  /\ user' = [user EXCEPT ![u] = "mapping"]
  /\ handle' = [handle EXCEPT ![u] = b]
  /\ UNCHANGED << cached, phys_addr, frameData, mapped, evictor, bottom >>

(* map() with the mutex released. *)
MapHit(u) ==
  /\ user[u] = "mapping"
  /\ mapped' = [mapped EXCEPT ![u] = phys_addr[handle[u]]]
  /\ user' = [user EXCEPT ![u] = "holding"]
  /\ UNCHANGED << cached, links, use_count, phys_addr, frameData, handle, evictor, newer, bottom >>

(* disk_cache_release() by a user that has a handle. *)
ReleasePage(u) ==
  /\ user[u] = "holding" /\ Unlocked
  /\ use_count' = [use_count EXCEPT ![handle[u]] = @ - 1]
  /\ user' = [user EXCEPT ![u] = "idle"]
  /\ handle' = [handle EXCEPT ![u] = NoPage]
  /\ mapped' = [mapped EXCEPT ![u] = NoPage]
  /\ UNCHANGED << cached, links, phys_addr, frameData, evictor, newer, bottom >>

-----------------------------------------------------------------------------
(* disk_cache_group_evict() *)
EvictBegin(n) ==
  /\ Unlocked
  /\ evictor' = [pg |-> lru_page, npages |-> n, on |-> TRUE]
  /\ UNCHANGED << cached, links, use_count, phys_addr, frameData, user, handle, mapped, newer, bottom >>

Unfinished == evictor.on /\ evictor.npages > 0 /\ evictor.pg # NoPage

(* Of a wild lru_page the loop reads a use_count and a prev that are no      *)
(* page's: what it does then is anything, and the model stops there.         *)
Walking == Unfinished /\ evictor.pg # Wild

(* The page_t is freed: its own links are gone. *)
Unlink(b) ==
  /\ pgNext' = [p \in Blocks |-> IF p = b THEN NoPage ELSE IF p = pgPrev[b] THEN pgNext[b] ELSE pgNext[p]]
  /\ pgPrev' = [p \in Blocks |-> IF p = b THEN NoPage ELSE IF p = pgNext[b] THEN pgPrev[b] ELSE pgPrev[p]]
  /\ lru_page' = IF b = lru_page THEN pgPrev[b] ELSE lru_page
  /\ mru_page' = IF b = mru_page THEN pgNext[b] ELSE mru_page

Evictable(b) == use_count[b] = 0

(* evict(): the page, its frame and its entry in the hash table go. *)
EvictPage ==
  /\ Walking /\ Evictable(evictor.pg)
  /\ Unlink(evictor.pg)
  /\ cached' = cached \ {evictor.pg}
  /\ newer' = Without(evictor.pg)
  /\ phys_addr' = [phys_addr EXCEPT ![evictor.pg] = NoPage]
  /\ evictor' = [evictor EXCEPT !.pg = pgPrev[evictor.pg], !.npages = @ - 1]
  /\ UNCHANGED << use_count, frameData, user, handle, mapped, bottom >>

EvictSkip ==
  /\ Walking /\ ~Evictable(evictor.pg)
  /\ evictor' = [evictor EXCEPT !.pg = pgPrev[evictor.pg]]
  /\ UNCHANGED << cached, links, use_count, phys_addr, frameData, user, handle, mapped, newer, bottom >>

EvictEnd ==
  /\ evictor.on /\ ~Unfinished
  /\ evictor' = NotEvicting
  /\ UNCHANGED << cached, links, use_count, phys_addr, frameData, user, handle, mapped, newer, bottom >>

BcNext ==
  \/ \E u \in Users : DeviceRead(u) \/ MapHit(u) \/ ReleasePage(u)
  \/ \E u \in Users, b \in Blocks : GetHit(u, b) \/ \E f \in PageFrames : GetMiss(u, b, f)
  \/ \E n \in 0 .. MaxEvict : EvictBegin(n)
  \/ EvictPage \/ EvictSkip \/ EvictEnd
BcSpec == BcInit /\ [][BcNext]_bcVars

-----------------------------------------------------------------------------
(* From mru_page along next lie exactly the pages of the hash tables, in the *)
(* order of their last use, and then what mru_page was when the group was    *)
(* made; along prev the same pages in the other order.  lru_page is the last *)
(* of them, unless it was not zero when the group was made.                  *)
Newer(b, c) == << b, c >> \in newer
JustAfter(b, c) == Newer(b, c) /\ \A d \in cached : ~(Newer(b, d) /\ Newer(d, c))
Oldest(b) == \A c \in cached \ {b} : Newer(c, b)

RecencyOrders ==
  /\ newer \subseteq cached \X cached
  /\ \A b, c \in cached : b # c <=> Newer(b, c) \/ Newer(c, b)
  /\ \A b, c, d \in cached : Newer(b, c) /\ Newer(c, d) => Newer(b, d) /\ ~Newer(c, b)

ListIsRecency ==
  /\ RecencyOrders
  /\ IF cached = {} THEN mru_page = bottom /\ lru_page \in {NoPage, Wild}
     ELSE /\ mru_page \in cached /\ \A c \in cached \ {mru_page} : Newer(mru_page, c)
          /\ lru_page = Wild \/ (lru_page \in cached /\ Oldest(lru_page))
  /\ \A b \in cached : IF Oldest(b) THEN pgNext[b] = bottom
                       ELSE pgNext[b] \in cached /\ JustAfter(b, pgNext[b])
  /\ \A b \in cached : IF b = mru_page THEN pgPrev[b] = NoPage
                       ELSE pgPrev[b] \in cached /\ JustAfter(pgPrev[b], b)

(* Every user has its frame to itself and the other users of its block: no   *)
(* eviction takes it between disk_cache_get()'s release of the mutex and the *)
(* device's read or the mapping, nor until disk_cache_release().             *)
HandlesArePinned ==
  /\ \A u \in Users : user[u] # "idle" =>
       /\ handle[u] \in cached
       /\ user[u] \in {"reading", "holding"} => mapped[u] = phys_addr[handle[u]]
  /\ \A b, c \in cached : phys_addr[b] = phys_addr[c] => b = c

(* disk_cache_get() gives a second user a page that the first is still       *)
(* reading, with whatever the frame held.  Only then: once the read is over  *)
(* the page has its block's data until it is evicted.                        *)
UnreadOnlyWhileReading ==
  \A b \in cached : frameData[phys_addr[b]] # b =>
    \E u \in Users : user[u] = "reading" /\ handle[u] = b

(* Eviction takes only pages nobody holds, and takes them in the order of    *)
(* their last use: no page that stays was idle, and older, all the time.     *)
(* (From a wild lru_page it takes no page of the cache in any order.)        *)
EvictsOldestIdle ==
  [][\A b \in cached \ cached' :
       /\ \A u \in Users : handle[u] # b
       /\ \A c \in cached' : Newer(b, c) => \E u \in Users : handle[u] = c]_bcVars

(* The list, the hash tables, the frames and the handles of the users agree  *)
(* at every step, the ones between two sections under the mutex included,    *)
(* and whatever the memory of the group held when it was made.               *)
CacheSound == ListIsRecency /\ HandlesArePinned /\ UnreadOnlyWhileReading
=============================================================================
