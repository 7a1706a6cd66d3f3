# Specifications of JMTK

JMTK is a small teaching kernel in C, built for x86 and, hosted, as a Linux
process, with the Python tools that build, run and document it.  The modules here
model the concurrent core of the kernel (the ready list, threads, semaphores and
locks), its memory from page frames to slab objects, its start-up, keyboard ring and
block cache; and the tools: the emulator runner, the scan table compiler, the ELF and
DWARF readers with the parsing library under them, and the smaller scripts.  TLC
checks all of them on small instances, and TLAPS proves the central theorems about
the kernel and most of the tools for all instances.  Paths below are relative to the repository.

## 1. The system

### The kernel

One processor runs kernel threads.  There is no preemption: a thread runs until
it calls `thread_yield()` or `thread_sleep()`, or returns.  Interrupt handlers
run between any two instructions of a thread, except in a spinlock section:
`spinlock_acquire()` disables interrupts, so a section under a spinlock is
atomic.  The debugger knows of several processors, but no code starts one.

| Component | Source | State | Operations | What makes it correct |
|---|---|---|---|---|
| scheduler | `src/scheduler.c` | `ready_s`, `ready_e`, `scheduler_next` in each thread | ready, next | FIFO; each ready thread on the list once |
| threads | `src/thread.c` | `thread_list`, per thread: state, `request_kill`, stack, jump buffer | spawn, yield, sleep, wake, kill, exit, destroy | runnable threads are on the list, no others; nobody runs after death |
| semaphores, mutexes | `src/locking.c`, `hal.h` | value, wait queue through `semaphore_next` | wait, signal | exclusion, no lost wakeup, sound queue |
| readers-writers lock | `src/locking.c` | two semaphores, two counters, a spinlock | acquire and release, to read and to write | one writer or readers |
| slab cache | `src/slab.c` | list of slabs, their bitmaps | create, alloc, free, destroy | no object handed out twice, no memory in use given back |
| modules | `src/main.c` | init state per module | init, fini over `required`/`load_after` | order of start and stop |
| bitmap, buddy | `src/adt/` | bitmaps per order | alloc, free, free_range | no overlap, coalescing |
| physical memory | `src/pmm.c`, `src/early_pmm.c` | two buddies, early ranges | alloc, free pages | no page twice |
| virtual memory | `src/vmspace.c`, `src/kmalloc.c` | a buddy per space, size caches | alloc, free | header and canary, sizes |
| page tables, copy on write | `src/x86/vmm.c`, `src/x86/cow.c`, `src/hosted/vmm.c` | page tables, reference counts | map, unmap, clone, fault | no page shared writable |
| block cache | `src/block_cache.c` | hash of pages, lru per group | get, release, destroy | a page's content is the device's |
| VFS | `src/vfs.c`, `src/directory_cache.c` | mounts, inodes, directory cache | mount, open, traverse | lock order, references |
| FAT | `src/fs_vfat.c` | cluster chains, FAT page | read, write, mknod | chains disjoint |
| devices, partitions | `src/dev.c`, `src/partition.c` | device table | register, read, write | bounds |
| IDE | `src/x86/ide.c` | channel, pending request | read, write, interrupt | completion reaches the requester |
| interrupts, debugger | `src/x86/interrupts.c`, `src/debugger.c` | handler tables | register, dispatch, stop cores | handlers see each interrupt |
| consoles, keyboard | `src/console.c`, `src/readline.c`, `src/adt/ringbuf.c`, `src/x86/keyboard.c` | ring buffer, edited line | read, write | no input lost |
| containers | `src/adt/vector.c`, `src/adt/hashtable.c` | arrays, buckets | add, remove, get | sequential |
| C library, bring-up, ports | the rest | | | not of interest here |

They interact so: `locking.c` calls `thread_sleep()` and `thread_wake()`, which
call the scheduler; interrupt handlers (IDE) call `semaphore_signal()`; threads
are slab objects; the VFS and the block cache lock with the rwlock and mutexes;
slabs come from the vmspace, which is made of buddies over physical pages.

The hard behaviours are the interrupts that come between two steps of
`thread_sleep()` or `semaphore_wait()`, the intrusive lists whose links and
stale pointers every state change reuses, killing a thread wherever it waits,
long sequences of calls on the allocators, and device reads outside the mutex of
the block cache.

### The tools

| Component | Source, under `scripts/` | State | Operations | What makes it correct |
|---|---|---|---|---|
| emulator runner | `run.py` | timer thread, stop flag, child process, two ptys | run, poll, ask the monitor, kill, drain, reap | the run ends, output and crashes are reported, no process or terminal is left behind |
| scan table compiler | `scantable.py` | tokens, line, tables, flags | lex with includes, parse, pack, generate the look-up | the kernel finds what the file says |
| construct | `elftools/construct/` | stream, mutable context, lazy containers, bit buffers | parse, build, sizeof of each class | building undoes parsing, sizes are what is consumed |
| ELF and DWARF structures | `elftools/{elf,dwarf}/structs.py`, `common/` | none | header constructs | headers read as written, cut ones refused |
| ELF files | `elftools/elf/` | lazy map of section names, copies of sections | open, section by number and name, segments, relocate | the right section, relocated as the ABI says |
| compile units | `elftools/dwarf/{dwarfinfo,compileunit,die}.py` | generator, lazy entry lists, tree links, shared stream | iterate, parse on demand, unflatten, line program | all units and entries, in order |
| call frames | `elftools/dwarf/callframe.py` | entry cache, stream, decoded tables made of shared dictionaries | parse entries and instructions, decode | tables mean what the instructions say |
| line programs | `elftools/dwarf/lineprogram.py` | registers, entries | one step per instruction | rows are those of the program |
| expressions, lists | `dwarf_expr.py`, `locationlists.py`, `ranges.py` | cached dumper, shared stream | visit, look up, iterate | independent of earlier calls |
| descriptions | `elftools/dwarf/descriptions.py` | machine, dumper cache | describe values, instructions, expressions | the text agrees with the table |
| ordered dictionary | `elftools/common/ordereddict.py` | dictionary, circular list | set, delete, pop, clear, iterate | insertion order |
| readelf | `pyelftools-0.20/scripts/readelf.py` | display, position in a dump | the displays of `main()` | what is shown is what the file has |
| chapter graph | `graph.py`, `chapters.py` | nodes, edges, recursion | read, find paths | all paths, and an end |
| documentation generator | `docs.py` | fragments | cut, reorder, embed | no line lost or doubled |
| file system test | `fstest.py` | tree, loop device, mount | make, mount, walk, compare | a pass means the same tree, mounts are undone |

Each tool is a process of its own; what they share is the library.  `run.py`,
`readelf.py` and the scripts that look for symbols use `elftools`, whose files are
read through `construct`.  Their hard behaviours are of another kind than the
kernel's: three parties and two pseudo terminals in the emulator runner, and
everywhere in `elftools` lazily filled caches, generators that stop half way, and
one stream position that everybody moves.

`PROJECT.json` lists the hazards of both, line by line.

## 2. The modules

| Module | Models |
|---|---|
| `ReadyQueue` | abstract FIFO queue of threads |
| `ReadyList` | `scheduler.c`: the state, `scheduler_ready()`, `scheduler_next()` |
| `Scheduler` | any sequence of these calls; implements `ReadyQueue` |
| `Threads` | `thread.c` over `ReadyList`, with interrupt handlers that wake threads |
| `Semaphore` | `semaphore_wait()`/`signal()` and mutexes over `Threads` |
| `MCSemaphore` | symmetry, and the property of a kernel with a single thread |
| `RWLock` | the readers-writers lock over `Semaphore` |
| `ObjectPool` | abstract pool of objects |
| `Slab` | `slab.c`; implements `ObjectPool` |
| `Buddy` | `adt/buddy.c`, `adt/bitmap.c`, as operators |
| `PhysicalMemory` | `pmm.c`, `early_pmm.c` over `Buddy` |
| `Vmspace` | `vmspace.c` over both, with `map()` and `unmap()` |
| `Heap` | `Slab`, large `kmalloc.c` objects and the stacks of `thread.c` in one `Vmspace` |
| `MCHeap` | the memory map of its run |
| `Keyboard` | the ring of `adt/ringbuf.c` between the interrupt of `x86/keyboard.c` and `read()`, which polls the controller as well |
| `Modules` | `main.c`: the start and stop of the modules |
| `BlockCache` | `block_cache.c` |
| `MCThreads` | two kernels with the same threads, one with an idle thread |
| `MCKernelParts` | `Scheduler`, `Keyboard`, `Modules`, `BlockCache`, and `Semaphore` with a single thread, one at a time |
| `Emulator` | `run.py` against a timer, an emulator and a user |
| `ScanTable` | `scantable.py`: parsing, packing and look-up; lexing with includes |
| `Construct` | `construct/`: `_parse()`, `_build()` and `_sizeof()` of every class, as recursive operators |
| `ConstructStreams` | `construct/`: fields read on demand; `BitStreamReader` and `BitStreamWriter` |
| `DwarfStructs` | the headers of `elf/structs.py` and `dwarf/structs.py`, over `Construct` |
| `CallFrame` | `callframe.py`, `descriptions.py`: the entries, their cache, and the decoded tables; instructions taken from the bytes and described |
| `Operands` | the operands of DWARF instructions, in bytes |
| `LineProgram` | `lineprogram.py` |
| `DebugInfo` | `dwarfinfo.py`, `compileunit.py`, `die.py` |
| `DwarfExpr`, `DwarfLists` | `dwarf_expr.py` with its dumper; `locationlists.py`, `ranges.py` |
| `AttrValues` | `descriptions.py`: the text of an attribute |
| `ElfFile` | `elffile.py`, `relocation.py`: copies of sections, relocated; with `sections.py`, `segments.py`: sections by number, name and segment |
| `OrderedMap`, `OrderedDict` | an abstract map with an order; `ordereddict.py`, which implements it |
| `Readelf` | `readelf.py` |
| `PathSearch` | `graph.py` |
| `Docs` | `docs.py` |
| `FsTest` | `fstest.py` |
| `MCTools` | all the tools, one at a time, and their instances |
| `SemaphoreProofs`, `RWLockProofs`, `HeapProofs`, `KernelPartsProofs`, `ToolsProofs`, `ElftoolsProofs`, `StreamsProofs` | lemmas and theorems; `SemaphoreProofs` also about `Threads`, `HeapProofs` also about `Slab`, `Buddy`, `PhysicalMemory` and `Vmspace`, `KernelPartsProofs` about `Scheduler`, `Keyboard`, `Modules` and `BlockCache`, `ToolsProofs` about `Emulator`, `OrderedDict`, `FsTest`, `PathSearch` and `ScanTable`, `ElftoolsProofs` about `LineProgram`, `DebugInfo` and `ElfFile`, `StreamsProofs` about `ConstructStreams` and `CallFrame`; the few lemmas on the ready list are in `ReadyList` |

**ReadyList.** The three pointers are those of the code.  `queue` is a history
variable, the threads readied and not yet taken; it influences nothing.  The
invariant `ListMatchesQueue` says that the pointers describe it.  `ready_e` is
not cleared when the list becomes empty, and the next call writes through it.

**Threads.** `cpu` is the program counter of the processor.  `thread_sleep()` is
two steps, since an interrupt may come after its first assignment, and `yield()`
is steps of its own: `SwitchTo` (the `longjmp`), `BuryKilled` (the thread taken
from the list had been killed: `yield()` calls itself, and that inner call must
not return) and `YieldReturns` (nobody ready).  `live` is the content of
`thread_list`.  `Kill`, `Wake` and `Destroy` are calls any running thread may
make; `Destroy` is called on a dead thread, as the tests do.  Links of the
thread list, stacks and thread local storage are left out: no decision depends
on them.  `auto_free` is left out because the code never reads it, although
`thread.h:60` promises that such a thread frees its resources.

*Constants* describe the callers: `Killable` the threads that may be killed,
`IrqWakes` those an interrupt handler wakes, `Idle` those that never sleep nor
return, `SleepAlone` whether a thread may call `thread_sleep()` when nobody else
is ready (the code permits it: the call returns at once).

**Semaphore.** `pc[t]` is the point thread `t` has reached in the two functions,
cut where an interrupt can come in between.  The compare-and-swap of
`semaphore_wait()` is one step.  A section under `queue_lock` is one step, and so
is a whole interrupt handler.  Threads use a mutex as a mutex: they release what
they hold and do not acquire it twice.  The boot thread spawns the others and is
idle, except in the part of `kernel_parts` that has a single thread.

**RWLock.** `rw[t]` is the point in the rwlock functions.  Their calls of the
semaphore functions are the steps of `Semaphore`.  `spinlock_acquire(&l->lock)`
is explicit here, because `rwlock_read_acquire()` may sleep while it holds that
lock: `ReadLock` waits for it, and nothing else runs meanwhile.

**Slab.** The list of slabs and the bitmaps.  A slab is a member of `Slabs`, an
object a pair of slab and index, and `vmspace_alloc()` hands out any slab not
held.  Every function runs under the cache's spinlock and is one step, but for
`slab_cache_destroy()`: it takes no lock, and is one step only because its caller
sees to it that nobody uses the cache any more.  The
copy of the initial state and the address arithmetic are left out.

**Buddy, PhysicalMemory, Vmspace.** These have no variables: an operator takes an
allocator (or the whole memory: addresses, zones, page table) and returns it
changed, so that one step of `Heap` can make the calls the code makes under its
locks.  Lengths are counted in pages.  A bitmap is the set of its bits; the search
for the first one is the code's, with its comparison at the end of the map.
`buddy_alloc()` and `buddy_free()` are stated by their effect on each order:
the block found loses its bit and each order below gets one half; a block climbs
while its buddy is free.  The page table is that of the hosted port; on x86,
`map()` may take a frame for a page table besides.  The hosted `map()` panics
for a frame above 4GB (`Mappable`), and the kernel stops there; that x86 keeps the
lower 32 bits of such a frame instead (`vmspace.c:50`, `x86/vmm.c:273` and `401`)
is not modelled.  What the code relies on at the
start are assumptions on the constants, which TLC evaluates: the ranges of the
memory map lie apart, memory reaches to 1MB at least, `early_alloc_page()` finds a
frame for each page of the bitmaps (it would panic), and `vmspace_init()` gets its
frames (it does not look at the result).  `alloc_pages()` rounds up to a power of two,
but `vmspace_init()` maps no more than it needs: the frames left over (`SpareFrames`)
are never used, and the properties except them.

**Heap.** One slab cache, large objects and stacks compete for the addresses and
frames.  The slabs of `Slab` are the addresses `vmspace_alloc()` really returns.
Frames of a slab or object come as one block and return page by page, those of a
stack come one by one.  `lost` records the addresses of the stacks of destroyed
threads: `free_stack_and_tls()` frees their frames and forgets the addresses.
When memory runs out the kernel stops (`OutOfMemory`): `vmspace_alloc()` fails its
assertion, its callers write to the address ~0, or `map()` is given a frame above 4GB
and panics.

**Keyboard.** Two parties take scan codes from the controller and write the ring:
the interrupt handler, and `read()`, which polls the controller when it finds the
ring empty.  A single character it polls goes past the ring to the caller, a string
goes through it, and `read()` then takes from the ring what fits.  `read()` is called
by `read_console()` alone (`console.c:124-142`), which loops over the consoles inside
a spinlock, so with interrupts off: the handler runs between two calls of
`read_console()` only.  But the interrupt of a code that `read()` has polled stays
requested, and its handler then finds no code and spins in `get_scancode_block()` until
the next key.  `read()` is one step per access of the ring all the same.  `OtherConsole`
lets `read_console()` leave with what another console had.  `lost` records that a writer
has caught up with the reader, after which the ring looks empty.

**Modules.** `calls` is the stack of the recursion of `init_module()` and
`fini_module()`.  The lists of prerequisites are arbitrary, cyclic ones and names
that no module has included.  What a module depends on is the smallest set closed
under prerequisites.

**BlockCache.** A section under the group's mutex is a step, but for the eviction
loop, which takes the mutex for the whole loop and is cut so that its middle can be
looked at.  The device is read, and a page mapped, outside the mutex.
`disk_cache_group_new()` sets neither `mru_page` nor `lru_page` and `kmalloc()` does
not clear, so both start as `NoPage` or as a pointer to anything (`Wild`); the first
page of the cache keeps the wild `mru_page` as its `next`.  What an eviction
does that follows a wild pointer is undefined: the model stops there, and nothing is
claimed of what comes after.  `newer` is a
history variable: which page was used after which; `bottom` keeps what `mru_page` was
at the start.

**Emulator.** `phase` is the place in `Bochs.run()` or `Qemu.run()`.  The timer
thread sets `stop` and signals the child on its own; the emulator prints, halts,
crashes, hangs, answers the monitor late or ends at any time.  `phase = "blocked"`
is `sys.stdin.read(128)` waiting for the rest of what a user types.  A read of the
monitor may return several register dumps at once (`Dumps`: of a guest that is busy,
busy with interrupts off, idle, or halted), over which `run.py:117-120` makes its two
tests separately.  Bochs's log `/tmp/x` is among the files, and nobody removes it.  The
exit code -9 counts as a good end, whoever sent the signal (`EmuKilled`).  An emulator
that never answers its monitor and ignores the signal too is left out.

**ScanTable.** The file is chosen a token at a time while the parser reads it.
`LookUp` is the C function that the script emits.  The lexer knows the word ALT
and the parser ignores it.  The lexer is a part of its own:
a stack of the calls of `_lex()`, which refuses a file that is not found, holds what is
no token or includes without a name (`Unreadable`).

**Construct.** A construct is a record, a stream a sequence of bytes of `ByteBits`
bits.  Position and context are part of a result, also of a failed one, since
`Select`, `Range` and `Peek` catch exceptions and go on.  An embedded construct gets the
object of the one around it by reference, under a key of the context that stays there
(`TakenObj`, `Self`), and `Select` merges the context of the alternative that matched into
its own.  `Select`'s `include_name` is left out.  The run chooses a grammar
and a stream and parses, builds and measures.  `DwarfStructs` adds a reference
writer that writes headers byte by byte from the formats.

**CallFrame.** An entry takes one unit of the section.  The lines of a decoded
table are dictionaries that the code passes by reference: a line is a place in
`heap`, and copying is explicit, because the hazards are where the code does not
copy.  All five instructions that set the CFA rule are there, and in a section an FDE may
point at any CIE, before or after it (an FDE that points at an FDE is left out).
The states that `restore`, `remember` and `recall` share with the current line are in
the model: in the code, as in it, they change nothing.  A second part of the module goes
down to the bytes of the instructions.

**LineProgram.** One action per kind of instruction.  `operand` is the local
variable of that name, which two kinds of entry show although they did not set it.
`DefaultIsStmt` is the header's `default_is_stmt`.

**DebugInfo.** The generator of units, the lists of entries and the trees are read
in any order the caller chooses, all through one stream.  Reading the entries of a
unit may raise half way, which leaves a partial list that the next call takes for a
complete one.  The line program of a unit is found through its first entry.

**ElfFile.** Two parts: one keeps the data of a section as words, which
relocations change in a copy, also where they overlap, and looks up each symbol; the
other keeps names as bytes and reads strings in
chunks, as the code does.  A section that cannot be made raises, which leaves the map of
names partial.

**Operands, DwarfExpr, DwarfLists, AttrValues.** Operands of fixed size are converted
to signed numbers where the code does so.  A walk over the lists of a section and
look-ups by offset move one stream between them.

**DwarfStructs.** The headers in both classes of ELF: a symbol and a program header have
their fields in another order in 64 bits, and the two parts of `r_info` other widths.

**Readelf.** One action per step of a display; the sequence of displays is that of
`main()`, and one that raises is the last.  The list of files of a line program has grown
by those the program defines before the rows are shown; a register without a name and
a line without a CFA rule raise.

**OrderedDict.** Links are objects, so that a generator may stand on one that was
removed.  `OrderedMap` is what the dictionary promises; the links are mapped to it
by walking the list.

**PathSearch, Docs, FsTest.** The recursion of `_recurse()` is a stack.  A line of a
source is what the regular expressions of `docs.py` see in it: what stands behind a `*/`
is lost, a line `;;; #cut` is one of its comment, and an embedded part that is not found
fails the assertion.  Each command that
`fstest.py` runs may fail; the image, the native file system and the tools that make
it are external.

## 3. The runs

| Run | Shows | Bounds |
|---|---|---|
| `kernel_parts` | the ready list implements the FIFO queue; typed keys are read in order; modules start after and stop like their prerequisites, and the loader ends; the block cache keeps its order and never evicts a page in use; at boot one thread alone, waiting for interrupts, gets out | 4 threads; a ring of 4, strings of 0, 1 and 3, reads of 1 and 3; 3 modules with every kind of list; 2 users, 3 blocks, 3 frames; 1 thread and three semaphores |
| `threads` | ready list complete, assertions fail only when nobody is runnable, the stale tail never dangles; with an idle thread nobody who is not runnable runs and the dead stay dead; ready threads run, killed threads die | boot thread and 3 others, two killable, one woken by interrupts; the boot thread idle or not |
| `semaphore` | mutual exclusion, every sleeper on the queue, no lost wakeup | 3 workers, so that one holds, one sleeps and one comes in between; a mutex and a counting semaphore up to 2 |
| `semaphore_irq` | wait queue sound, a signal wakes whom it pops, the killed acquire nothing | the same, with an interrupt handler and a kill, values up to 1 |
| `rwlock` | counters in bounds, no reader comes in beside a writer, readers do not keep each other out | 2 readers, 2 writers, 3 reads |
| `rwlock_writers` | one writer at a time; some writer always gets in | 3 writers |
| `heap` | the cache implements the pool, list and bitmaps are exact; addresses and frames have one user each and none is lost; what is used is mapped and nothing else; requests fail only for want of aligned room | 7 pages, so that the end is not aligned; up to 3 slabs of 2 objects and stacks in blocks of 2, an object of 4; 7 frames, taken and returned in blocks of 1, 2 and 4, in two zones, with a hole and a range across each limit |
| `tools` | see below | see below |
| `semaphore_lost_wakeup` | violated: `SleepsOnlyAtZero` | 2 threads |
| `rwlock_exclusion` | violated: `OneWriterOrReaders` | 1 reader, 1 writer |
| `slab_free_crash` | violated: `FreeNeverCrashes` | 3 slabs of 2 objects |
| `tls_sections` | violated: `TlsSectionsWhereSaid` | 2 sections, 2 segments, of every type |

The violated ones are disagreements between the code and its comments or
assertions:

* `semaphore_lost_wakeup`: `semaphore_wait()` does not look at the value again
  under `queue_lock`.  An interrupt that signals in between finds nobody queued,
  and the thread sleeps although the semaphore is available.  (With threads as
  the only signallers this cannot happen, which `NoLostWakeup` shows.)
* `rwlock_exclusion`: the first reader signals `w` where it should wait for it.
* `slab_free_crash`: when the first slab of the list becomes empty,
  `c->first = NULL` forgets the slabs behind it.  What the run `heap` shows all
  the same: the objects in those slabs stay valid and no object is given out
  twice.
* `tls_sections`: `section_in_segment()` refuses a section of `SHF_TLS` in the three
  types of segment that may hold one (it compares with them where it means to exclude
  the others) and goes on for `PT_PHDR`, so such a section lies in the one type
  that, by the comments there, holds no sections at all.

The run `tools` is one run of one of 21 tools, chosen at the start.  Most of its
properties are conjunctions of named parts, one for each thing said below, defined
and explained just above the conjunction in the module of the tool; the same holds
of `ThreadsSound`, `MemoryAccounted` and the like in the kernel.

| Tool | Shows | Bounds |
|---|---|---|
| `construct` | `ParseBuildAgree`: of the grammars of the run: building undoes parsing; `sizeof()` is what is consumed; what is consumed decides the value | a grammar for each class and for nestings, `Select` and `Peek` over embedded ones among them (an embedded alternative that fails late does not survive building), all streams up to 4 bytes of 2 bits |
| `structs` | `HeadersExact`: headers are read as written, cut ones refused | 32 and 64 bit formats, both classes and byte orders, every cut, lists up to 2 |
| `callframe`, `instructions` | `CallFramesExact`: entries in order, and the one that is repeated for ever when a CIE follows its FDE; tables are what the instructions come to, and instructions and addresses of the text what is written; `FramesSettle`: a line handed out is never written again, reading ends unless such a CIE is there | sections of up to 3 entries, CIE before and after, all rules for the CFA, remember and restore |
| `lineprogram` | `LineTableExact`: rows belong to their sequence; entries in order | programs with every instruction, two sequences |
| `debuginfo` | `UnitsExact`: all units and entries in order however calls are mixed; the tree is the nesting; line programs meet end to end | two units, failures at each entry |
| `elffile`, `sections` | `SectionsExact`: relocation as the ABI says, each time, overlaps included; the last section of that name among those that could be made, or none; strings independent of chunks; segments that share no address share no section | both machines and other ones, words below 4, symbols that are not there; chunks of 2 |
| `expr`, `lists`, `attrs` | `DwarfValuesExact`: descriptions show the operands written and nothing of earlier calls; look-ups are exact; a generator gives the list behind the one read last, by it or by a look-up; an import names the entry it means, or is unknown in the last bytes of a unit | every operand kind, signs, cuts inside an instruction, 2 calls |
| `dict` | `IsOrderedMap`: implements `OrderedMap`; a generator gives the keys that stay | 3 keys, 3 links |
| `lazy`, `bits` | `StreamsFaithful`: reading on demand is reading at once; bits in order, closed on a byte | 2 lazy fields, 3 fields of bits, several widths |
| `run` | `RunReports`: output that had come as far as the pty is returned, crashes are reported; a run that returns has reaped the emulator and leaves no file but Bochs's log, one that raises leaves its files (`LeavesBehind`); `RunEnds`: a timeout and a halt end the run, and a halt is real, unless two dumps of a live guest are read at once (`TwoMixed`) | 3 pieces of output, a pty of 2 |
| `lexer`, `scantable` | `ScanTablesExact`: accepted files are complete and refused ones unreadable or faulty; tables are what the last lines say, and the packed bytes give them back, flags too, up to as many as a `char` has bits | 3 files with 2 includes; 4 tokens, tables of 6 cells |
| `graph` | `GraphSearched`: the graph is the file's; every path without a repeated chapter is found, and the search ends | 4 chapters, cycles, self-edges |
| `docs` | `DocsWhole`: no line lost or doubled, but for the tails named above; the order is stable; an embedded part is a range | chapters of 1 or 2 files |
| `fstest` | `FsTestSound`: the record is what is on the image; a pass means the same tree; mount and loop device are undone unless the command that mounts, unmounts or detaches fails, and then stay as said (`LeftMounted`) | 3 nodes, 1 failing command |
| `readelf` | `ReadelfExact`: dumps show each byte once; entries at their depth; rows under their file; columns once | one file per display, lines of few bytes |

The run `tools` has some 630 000 states, `kernel_parts` 590 000.

The bounds are the smallest at which each branch of the code is taken; every
action and disjunct of the next-state relations fires in some run.

### Observations without a run of their own

They are properties' exceptions, stated where the property is, or facts met while
reading.

Kernel: `thread_destroy()` never gives back the addresses of the stack.
`thread_sleep()` returns at once when nobody else is ready, so a thread may run on
in state SLEEP; in a kernel whose last runnable thread returns, the assertion
"Unreachable!" fails (`PanicOnlyWhenAlone` says when); a reader that sleeps on `r`
holds the spinlock of the lock with interrupts off, and the next reader spins for
ever; a full keyboard ring looks empty.

`run.py`: silence of the monitor is taken for the end of its answer;
`sys.stdin.read(128)` blocks, and no timeout gets past it; `t.cancel()` raises when
there is no timeout.

`scantable.py`: a file included twice is refused as cyclic; the assertion admits 31
flags, an `unsigned char` has 8.

`construct`: a swapped bit field that is not a whole number of bytes, and flags
with overlapping masks, do not survive building; `LazyContainer.read()` leaves the
stream where it read, two containers not yet read compare equal, and `OnDemand`
never sets `FLAG_COPY_CONTEXT`; the `pos` of `BitStreamWriter` never advances.

`elftools`: reading call frames does not end when a CIE follows its FDE; a
remembered state is shared with the line it was taken from; a 64 bit CIE is taken
for an FDE; the last instruction of an entry may be read from behind it;
`DW_CFA_def_cfa_sf` is scaled by the code alignment in the table
and by the data alignment in the text; `negate_stmt` and
`set_basic_block` show an operand of an earlier instruction; a list of entries that
was cut short by an exception is taken for the whole one, and a null entry too many
pops an empty stack; `line_program_for_CU()` raises without a `.debug_line`; the
docstrings of `location_lists()` and `range_lists()` promise None where the code
raises; the generators over lists go on from wherever a look-up left the stream;
`preserve_stream_pos()` does not restore after an exception; the map of section
names stays partial when a section raises; `section_in_segment()` compares with the
name PT_GNU_RELR0, which no segment has (see `tls_sections`); an import in the last bytes of a unit is `[unknown]`, and
`DW_FORM_ref_addr` adds the section's place in the file; location attributes with a
constant form raise.

`readelf.py`: a negative number names a section from the end; a directory index of
`define_file` is not decremented; file register 0 shows the last file; a symbol of
a special section without name raises.

`docs.py`: `#0` is no number, the number of a file's last fragment carries over to
the next file, an end mark before the start mark ends the embedded part, and the mode
without a graph calls with other arguments.  `fstest.py`: the loop device stays
attached when `mount` or `umount` fails, and the file system mounted when `umount` does, and the contents of files are not compared with the
model.  `graph.py`: an edge from a chapter to itself overflows the recursion; files
of a chapter before its first edge raise `KeyError`.

Deadlock is not checked in `kernel_parts` and `tools` (the loader and most tools
end), in the runs of `RWLock` (the number of reads is bounded, and readers that sleep
with the spinlock held block the processor) and in those of `Slab` and `Heap` (after
a failed assertion nothing happens).  In `threads` it is: the one state in which a
kernel stops, the failed assertion without an idle thread, is the step `Stopped`.

**Bounds.** `MaxVal` bounds the value up to which clients and interrupt handlers
signal, `MaxReads` the number of reads (each adds a unit to `w`, see above, so
that the values are unbounded without it), `MaxTyped` the keys, `MaxEvict` the pages
asked of one eviction.  Those of the tools are named where they are declared, each
with "bound:" or the value the code has.

**Fairness.** In `Threads`, weak fairness of the steps of `yield()` and
`thread_sleep()` (the processor does not stop) and of `GiveUpCpu`: a running
thread yields, sleeps or returns after a while.  The latter is what a kernel
without preemption asks of its threads; nothing in the scheduler could make up
for it.  In `Semaphore`, the functions go on once called, and a thread that comes
back to client code again and again yields at some time (strong fairness, as
it leaves that code in between).  In `RWLock` moreover whoever holds the lock
releases it.  No fairness is assumed of interrupts, of calls and of kills.
`Modules`: the loader goes on (`LoaderStep`), `kmain()` need not return.
`CallFrame`: `_parse_entries()` is a loop that nothing interrupts.  `Emulator`: the
thread of `run()` goes on wherever it is not blocked in a read, the timer fires once
it is started (unless cancelled), a signalled emulator dies, and the monitor answers
a running one.  The last two are asked of the external process; nothing is assumed
of the guest or of the user.

## 4. The theorems

`ReadyList` itself proves of its two operations that they preserve the agreement
of pointers and history (`ListInit`, `ReadyKeepsList`, `NextKeepsList`);
everything about threads and the scheduler cites these lemmas.

`SemaphoreProofs`, its first part: for every set of threads and of callers that satisfies `Callers`
(threads that may be killed are not among those interrupts wake; and either the
boot thread is idle and not killable, or nobody sleeps alone).  Without the first
condition, an interrupt that wakes a killed thread between the two steps of
`thread_sleep()` leaves a dead thread on the ready list; without the second, a
thread runs while asleep and may be readied twice.

* `ReadyListIsComplete`: on the ready list are exactly the runnable threads
  but the running one.
* `TailNeverDangles`: `ready_e` never refers to a destroyed thread.
* `PanicsOnlyAlone`, `IdleBootIsEnough`: the two assertions fail only when no
  thread is runnable; with an idle boot thread never, and the running thread is
  runnable.
* `ThreadsStaySound`: the first three together, as the run checks them.
* `DeadThreadsStayDead`; with `IdleBootIsEnough` it is `IdleBootKeepsPromises`, stated
  of the two kernels of `MCThreads` as the run has it.

`ReadyListComplete` is not inductive.  `IInv` adds where the running thread
can be in state SLEEP or DEAD (`RunsOrKilled`, `KilledSleeps`), that a `yield()`
that must not return finds somebody as long as anyone is runnable
(`YieldFindsOne`, `BootRuns`), and, for the tail pointer, that when the list is
empty `ready_e` is the thread that runs, which no one can destroy (`StaleTail`).
TLC checked `IInv` on both kernels of `threads` before it was proved.

`SemaphoreProofs`, its second part: for every set of threads, semaphores, interrupt handlers and
threads that may be killed.

* `MutexesExclude`: a mutex has one holder at most.  `MutualExclusion` alone does
  not say why: `IInv` adds that the value of a mutex is 0 or 1 (`MutexIsBinary`)
  and that it is 0 while someone holds it (`HeldByOne`).  The argument uses the
  value only, and no fact about the wait queue: whoever is woken competes for the
  value like any other thread.
* `KilledAcquireNothing`: if the boot thread is never killed (`BootSurvives`), no
  thread acquires a semaphore after it was killed.  It rests on `RunnerNotKilled`: a
  killed thread has the processor only inside a `yield()` that must not return.

The other four are about the wait queue, and rest on one invariant, `WaitInv`.  They
assume `BootIdles`, an idle boot thread that is not killed (as `kmain()` waits for
interrupts in a loop), and finitely many threads.

* `QueuesStaySound`: interrupts and kills included, the queue of a semaphore ends,
  holds each waiter once and nobody else.  It is held by nothing but the pointers
  of the waiters, so `IsQueue` says that a sequence without repetitions exists
  whose members are linked as the pointers are; joining puts a thread in front,
  leaving takes the first off.  The property itself is stated with the walk
  `WalkQueue`; `WalkFollows` shows that the walk goes along such a sequence.
* `SignalsWake`: whom a signal takes from the queue, it wakes.  `PoppedSleeps` says that
  between the two steps of `semaphore_signal()` the thread taken stays asleep.
* `SleepersSawZero`: without interrupt handlers that signal (`IrqSems = {}`) a thread
  goes to sleep only while the value is zero.  The violation that the run
  `semaphore_lost_wakeup` finds therefore needs an interrupt.
* `NobodyIsForgotten`: without such handlers and without kills (`Killable = {}`), each
  sleeper is on the queue and no unit is unannounced while somebody sleeps.  Beside
  `WaitInv` this needs `NoLostWakeup` to be inductive: a unit is covered by a thread
  that is ready to take it (`Covered`).  Both conditions are needed: an interrupt
  may lose a wakeup, and a killed thread may take one with it.

What `WaitInv` adds is that without preemption a thread gives up the processor at two
places only (`NotPreempted`), and what the value is until a thread that has seen zero
sleeps (`ZeroUntilAsleep`).

`RWLockProofs`: for every number of readers and writers, under `BootIdles`.
The steps of the lock are steps of `Semaphore`, so `WaitInv` holds.  `RWInv` adds
where each thread of the lock may be when it waits, signals or is off the processor
(`Roles`, `CallsReturn`, `OthersSettled`), who holds the spinlock (`LockIsHeld`), that the
counters count the threads that are in (`CountersAreExact`), and when `r` may be
taken (`ReadersGate`).  TLC checked it on the configurations of all three runs.

* `ReadersWait`: no reader comes in while a writer is in.
* `ReadersStaySound`: the counters are exact, and (without kills) no reader sleeps
  while there is no writer.
* `WritersExclude`: without readers, one writer at a time (`WritersGate`).  With readers
  it is false, see `rwlock_exclusion`.

`HeapProofs`: for every set of slabs and every number of objects in a slab.
`ImplementsPool` is the refinement of `ObjectPool`; with it come `MemoryIsBacked`
and `ListStaysExact`, together `CacheStaysExact`.  All of them hold although `slab_cache_free()` may lose
slabs, so `IInv` is about all slabs the cache holds and not only those on its list:
their links form chains (`Injective`, `NoneBeforeFirst`) that lead to held slabs
(`LinksAreHeld`), clients' objects are marked (`Marked`), and on the list only
they are (`MarkedOnList`).  The list is the smallest set that contains the first
slab and the successor of each member (`Met`): no recursion, and so no induction,
is needed to reason about it.

Every operation of the heap is an operation of the cache or leaves it
alone (`HeapImplementsCache`), so the theorems about `Slab`, whose vmspace hands out
any slab it has, hold of the cache in the heap (`HeapImplementsPool`,
`HeapCacheIsExact`).

Its first part says what the memory operators do, for all sizes, orders and memory
maps that satisfy the assumptions above; the heap rests on it.

* `MemoryStaysAccounted`: `MemoryAccounted`, whole.  Each address is free in one block
  of the buddy allocator or handed out once; each frame is free in one block of its
  zone or backs one page; mapped are the pages in use and no others, so that `map()`
  and `unmap()` never find what they would panic about; and an allocation fails only
  when no aligned block is free.

The invariant of an allocator is `SoundBuddy`: a page lies in one free node at most,
nodes lie before the end of the region, and no two buddies are both free.  The last
is why a free block is found whenever one can be: two nodes that `buddy_free()` should
have merged would hide a larger block.  `AllocTakes` and `FreeGives` say that
`buddy_alloc()` takes just the pages of the block returned, all of them free before,
and `buddy_free()` gives back just those: the nodes that a block is halved into or
merged with change, the pages that are free do not.  `FreeRangeGives` is the same of
`buddy_free_range()`, whose blocks end exactly at the end of the range.  All of it
rests on a few facts about powers of two: two blocks either lie apart or one contains
the other (`AlignedBelow`, `SharedAbove`, `BuddiesMeet`).  Over frames and the page
table, `SoundMemory` says that each frame of the memory map is free, spare or mapped
from one page.  `MInv` relates the memory to those who use it: the owners' blocks are
aligned and disjoint, a page is free if and only if nobody owns it, and mapped if and
only if it has an owner who has not lost it.  `VmspaceInitIsSound` is where it starts:
the frames that the two initialisations hand to the zones are those of the memory map,
once each.  Loops of the code (over ranges, blocks, pages and slabs) are recursive
functions, and `IteratesExist` and `IteratesStay` the inductions over them.

`KernelPartsProofs`: four small models.

* Scheduler: `TypeCorrect`, `SoundList`, and `ImplementsFifo`, the
  refinement of `ReadyQueue`: steps map to `Enqueue`, `Dequeue`, `DequeueEmpty`.
* `SoundKeyboard`: for every length of the ring and of the strings, with both writers.
  The two never meet: while `read()` polls or takes, no handler runs, and it polls
  only when the ring is empty (`OneTaker`).  Until a writer
  catches up with the reader, the characters processed and not yet returned lie in the
  ring from `start` on, in order, and `end` points behind them (`PointersCount`), also
  while `read()` has not yet wrapped `start`; that what is typed does not overwrite
  what is unread is arithmetic of remainders.  What is polled past the ring is
  next in order because nothing is in the ring.  The pointers stay inside the ring even
  after an overflow.
* `SoundModules`: for every number of modules and all lists of prerequisites, cyclic
  ones included.  `ModInv` says of the stack of `init_module()` that each module
  on it depends on those above, so one that is entered while a
  prerequisite is still on the stack is on a cycle with that prerequisite, which is
  the exception the property makes (`StackDepends`).
* `SoundCache`, the three parts of `CacheSound`, and `OldestIdleGo`, the order of
  eviction: for every number of users, blocks and frames.  The list is compared with
  the history `newer`, an order and not a sequence: the neighbours of a page in the
  list are its neighbours in that order, so a step that relinks three pages is
  followed at these three.  Whatever the two pointers were at the start:
  the oldest page has behind it what `mru_page` was (`bottom`), and `lru_page` is that page
  or, if it was not zero, what it was for ever; the order is of the pages between.  `BcInv` adds that `use_count` is the number of users with a
  handle (`CountsAreExact`) and that the pages an eviction has passed are held
  (`PassedAreHeld`), which nothing can change while it has the mutex.

`ToolsProofs`: five of the tools.

* `RunsReport` and `HaltsAreReal`, about `run.py`, for every amount of output: a run
  that returns has waited for the child, returned what had reached the pty and
  reported a crash, unless the timer fired; which files and which process each way out leaves is
  `LeavesBehind`, Bochs's log included.  And when the loop
  ends on an answer of the monitor, the guest has halted or ended, unless two
  dumps were read together of which the two tests each take one (`TwoMixed`).  `EmInv` adds what the timer can be at each point of `run()`
  (`TimerSound`), where the child may be (`ChildSound`), and where each piece of serial
  output is: some may be lost when the emulator ends, none is counted twice
  (`SerialCounts`).
* `DictIsOrderedMap`: `ordereddict.py` implements `OrderedMap`, for all keys and values
  and any number of links.  That a list exists is part of the invariant: a sequence of
  links, in the order in which they were made, along which `linkNext` leads forth and
  `linkPrev` back (`IsList`); `WalkMeets` shows that the walk from the root goes along
  it.  A deletion takes one link out of the sequence, which `RemoveKey` does with its key
  (`UnlinkedAt`, `RemovedAt`).  For generators, `IterSound` says that a set of links
  exists, perhaps some that have left the list, in which the one the generator stands on
  leads to the links of all keys that were there from its start and that it has not
  given (`Leads`).  Deleting the key it stands on keeps this, since the link that
  has left still points into the set; `clear()` empties links, but then no such key is
  left.
* `FsTestIsSound`: the verdict of `fstest.py` and what it leaves mounted, for trees of any
  size and depth and whichever commands fail.
  `walk()` compares a node only when it comes to it, so `FsInv` says of each node that the
  driver sees it as it is on the image or that `walk()` will still come to it or to a
  directory above it (`WalkCovers`); that everything above a node is a directory, and so
  leads on to it, is `TreeIsClosed`.  `ErrorsPass` and `MountsEnd` follow the exceptions.
* `SimplePathsAreFound`: when `find_paths()` ends, it has found every path that repeats
  no chapter, on every graph.  `_recurse()` gives up where a round was made twice or a
  path was tried before, so `PathInv` says of each path tried and each node after it
  that the longer path was tried, or that some call still has the node before it, or
  that the path has a round in it twice (`TriedGoOn`).  At the end no call is left, and
  a path that repeats no chapter has no round in it (`NoDoubleCycle`), so one follows
  it from the root node by node.  That the search ends (`SearchEnds`) depends on
  Python's recursion limit and is only model-checked.
* `ScanTablesStayExact`: `scantable.py` from the files to the look-up, for any files, tokens
  and sizes of a table.  `ScanInv` says that while the parser reads, the tables are what the
  lines ended so far say, the line at hand is what its tokens say, and nothing so
  far contradicts itself; a refused file does.  What a file means is stated of its tokens alone,
  by the places of its line ends, so a token more moves no earlier line.  For the
  lexer, the files read and those still to be included from a call on the stack are all that
  can be reached, so an accepted file has no cycle below it and has each file it
  reaches once.  Packing is arithmetic: distinct keys have distinct places and each
  flag has a bit of its own, up to as many as a `char` has (`FlagsAreFound`).

`ElftoolsProofs` and `StreamsProofs`: elftools, for every file.

* `LineTablesAreExact`: the line table of any line program, with any header.  The
  property compares the rows with sums over all instructions of a sequence, so
  `LineInv` says what the registers are between two instructions (`StateAt`): what the
  instructions of the open sequence give, the flags since the last row only, and the
  address since it was last set.  `StateGoesOn` takes this over one more instruction
  (`TotalAdds` of the sums, `LastSetIs` and `ParityFlips` of the registers), `StateMoves`
  shows that the code does the same, and `RowAdded` that the row added is the table's.
  A special opcode means the one pair of advances that encodes it, which is what the
  code's quotient and remainder are (`PartsAre`).  That operands are numbers and
  addresses and their advances unsigned, as the code reads them, is the assumption
  (`WellFormed`); programs may end anywhere and hold invalid instructions.
* `UnitsStayExact`, about the units, entries and trees of `.debug_info`.  Offsets are
  partial sums of sizes (`PartialSumsExist`, `PartialSumsAgree`), so `InfoInv` can say
  that the generator's offset is the start of the unit after those it has given
  (`UnitsGiven`), and that the offset at which entries are read is as far into the unit
  as the list of entries is long (`EntriesRead`).  The tree of a unit is compared with
  the nesting of its null entries, a count of lists opened and ended: while the tree is
  linked, the stack of `_unflatten_tree()` holds, the outermost first, the entries whose
  lists are still open (`StackOf`), and what is linked is the part of the tree up to the
  next entry (`TreeTo`).  `DepthSplits` and `DepthNext` take the count over one more
  entry.
* `SectionsStayExact`, from `CopiesAreRelocated` and `SectionsAreFound`.  The two parts of
  `ElfFile` share no state; the theorem is about both side by side.  For copies,
  `RelocInv` says of each word what the relocations before the next one have made of
  it (`WordThen`), also where their places overlap: on x86 the file's plus all that was
  added, on x64 what the last one wrote; a word in none of their places is the file's.
  The next one takes this one step on (`OneMoreDone`), because what it writes is read
  back from the same words (`Stored`); one whose symbol is not there raises.  For sections, `SecInv` says that the map of names leads to the
  last section of a name among those `iter_sections()` gives now (`NamesSound`), which are all
  of them unless a call raised: then the map stays partial, a section behind is reported
  as missing, and the property says just that, and that what `get_dwarf_info()` has collected leaves
  nothing out (`DebugSound`).  The bytes of a string are whole chunks joined
  (`ChunkIs`, `FlattenIs`), of which the last is the first that holds a zero
  (`CStringIs`), so chunks of any size give the same string.  That segments are apart is
  arithmetic (`SegmentsApart`).  Assumed of a file is that its sizes, addresses and offsets
  are unsigned, as they are read.
* `StreamsStayFaithful`, `StreamsFaithful` whole, for every content of the streams, every
  number and widths of fields and every order of demands, disposals and seeks.  For lazy
  containers, `LazyInv` says that a value is what lies at the field's place, with the size
  that was bound first (`RightWith`), and that a container without one either was never
  asked, or was disposed of, or cannot be read: so no later answer can differ from an
  earlier one.  Until a size is bound there is no value to go with it, which is why a
  changed binding harms nothing (`RightStays`).  In the build, every field before the next
  one lies at its place (`BuiltWith`), and one that is written over another writes the same
  bytes (`BuiltStays`).  For bits, `BitInv` says that the buffer holds just what was taken
  from the stream below and not given out, less than a byte (`ReadInv`): `BytesForEnough`
  is the rounding in `read()`, and `WholeIsNone` why closing on a whole number of bytes
  leaves nothing behind.  What the fields hold together is `FlattenSeq` of them
  (`FlattenBack` while they are read, `FlattenFront` while they are written).
* `CallFramesStayExact`, from `TablesStayExact` and `InstructionsStayWritten`; and
  `LinesStayFinal`, the half of `FramesSettle` that is not liveness.  The lines of a table
  are places in a heap that the decoder writes through aliases, and what they should be is
  a program over values, so `CfiInv` ties the two: as far as the entry being decoded has
  got, the lines in its table and the current line hold what the program has put out and
  its line (`Follows`), different lines are different places (`LinesApart`), the stack
  holds nothing but the current line, so that to recall it changes nothing, and
  no line of a table, finished or not, is the current one.  The last part is what makes
  `LinesStayFinal` inductive, and rests on `CopyLast`: an FDE starts at a new place.
  Entries are returned in order up to the first CIE that an FDE before it points at, and
  that CIE over and over from there on (`IsNth`): the cache has it already, and the
  stream no longer moves.  For the instructions, `InstInv` says that those read are
  a front of those written and that the offset is where the next begins (`StartAt`).
  `Inside` says that the bytes of an instruction lie in the section at a place;
  operands read there are those read of the bytes alone (`TakenInside`, from `LebInside`,
  `BytesInside` and `BlockInside`), even of the instruction that the length cuts.  Assumed
  is that the arguments an instruction was written with are those its own bytes give
  (`Written`), that an FDE points at a CIE or nowhere, and that no register is called
  like the two other columns of a line.

Properties of sequences, walks and remainders of any length are proved
by induction over a set of numbers (the least number for which a statement fails, by
the library's `WFMin`); the induction theorems themselves take an operator as a
parameter, which no prover here can instantiate.  What a RECURSIVE operator computes
cannot be reasoned about at all.

Only model-checked are:

* the liveness properties (`ReadyRuns`, `KillTakesEffect`,
  `LoneWaitReturns`, `SomeWriterGetsIn`, `LoaderEnds`, and those of the tools), since
  fairness and ENABLED are beyond the prover;
* the parsing tools, whose library is recursive over grammars (`Construct` and
  `DwarfStructs` declare RECURSIVE operators); that reading the entries of
  `.debug_frame` ends (`FramesAreRead`); the parts of
  `DwarfValuesExact`, `Docs`, `Readelf` and the rest of
  `GraphSearched`, which compare a program with what a whole sequence of inputs means,
  mostly by sequences flattened, folded or filtered with operators that take an
  operator, whose laws are facts by induction.

## 5. What is done and what is left

Done: scheduler, threads, semaphores, rwlock, slab cache, memory managers, heap,
module start-up, keyboard ring, block cache; all the tools named above; proofs of the
scheduler, of threads, of semaphores and their queues, of the rwlock, of the slab
cache alone and in the heap, of the buddy allocator, physical memory and the kernel's
addresses, of the block cache, the keyboard ring and the modules, of the safety of `run.py`,
of the ordered dictionary, of the scan tables, of `fstest.py`, of the search for paths in `graph.py`, of
the line programs, of the compile units, of the sections of ELF files, of the
streams of `construct` and of call frames.

Left, in this order:

1. Files: the VFS (mount and unmount, the directory walk and its locks), FAT cluster
   chains, the IDE request and its interrupt under the block cache.
2. What memory lacks: the arithmetic of a slab's layout, kmalloc's sizes and canary,
   ranges that do not begin on a page boundary, copy on write.
3. Proofs: of the tools, `Docs` and the rest of `GraphSearched`, each with
   laws of flattened and filtered sequences first.

### Not modelled

* The page tables of x86 and copy on write, the VFS, FAT, devices and partitions,
  IDE, interrupts and debugger, and the containers in C: not done yet; `PROJECT.json`
  keeps what can go wrong in them as far as it is known.
* `scripts/pyelftools-0.20/elftools/` is file by file the text of
  `scripts/elftools/`: what is shown of one holds of the other.
* Tables of names and enumerations, column widths and texts of descriptions: no
  behaviour.  Character encodings, hex dumps and debugging aids of `construct`.
* Printing and parsing in C (`snprintf`, `stdio`, `string`), port I/O and descriptor
  tables, start-up assembly: sequential, or without state of their own.
* The vendored regular expressions (`slre`), coverage support, the vendored test
  runner `lit`, the Sphinx configuration and its extensions, tests and examples.
