--------------------------- MODULE SemaphoreProofs ---------------------------
(***************************************************************************)
(* Theorems about thread.c and, below them, about the semaphores and       *)
(* mutexes of locking.c.                                                   *)
(***************************************************************************)
EXTENDS Semaphore, MCThreads, FiniteSetTheorems, WellFoundedInduction

----------------------------------------------------------------------------
(***************************************************************************)
(* Theorems about thread.c, for every set of threads.  They rest on what   *)
(* the callers of thread.c must respect:                                   *)
(*   - nobody calls thread_kill() on a thread an interrupt handler wakes;  *)
(*   - thread_sleep() is called while somebody is ready, unless the boot   *)
(*     thread is an idle loop that is never killed.                        *)
(***************************************************************************)

\* Interrupt handlers wake no thread that thread_kill() may be called on.
KillsSpareIrqWakes == Killable \cap IrqWakes = {}

\* The boot thread waits for interrupts in a loop, and nobody kills it.
BootIdles == Boot \in Idle \ Killable

\* What the callers of thread.c must respect.
Callers == KillsSpareIrqWakes /\ (BootIdles \/ ~SleepAlone)

----------------------------------------------------------------------------
\* The inductive invariant, in named parts.

\* The ready list holds the runnable threads that are not on the processor.
ReadyAreQueued == \A t \in Threads : Queued(t) <=> Runnable(t) /\ ~OnCpu(t)

\* A running thread that is not runnable has been killed: it found nobody to
\* give the processor to.
RunsOrKilled == cpu = "run" => Runnable(current) \/ request_kill[current]

\* An interrupt may wake a thread in the middle of thread_sleep(), but not a
\* killed one.
KilledSleeps == cpu = "sleep" /\ request_kill[current] => state[current] = "SLEEP"

\* yield() finds nobody only for a thread that is dying.
YieldFindsOne == cpu \in {"sleep", "yield"} => request_kill[current] \/ ready_s # NULL

\* A boot thread that idles is always runnable.
BootRuns == BootIdles => Runnable(Boot)

\* The stale tail pointer refers to the thread that was taken last.
StaleTail == cpu \in {"run", "sleep", "yield"} /\ ready_s = NULL => ready_e \in {NULL, current}

\* The inductive invariant of the threads.
IInv ==
  /\ ListOK
  /\ TypeOK
  /\ current \in live
  /\ \A t \in Threads : request_kill[t] => t \in Killable
  /\ ReadyAreQueued
  /\ RunsOrKilled
  /\ KilledSleeps
  /\ YieldFindsOne
  /\ BootRuns
  /\ PanicOnlyWhenAlone
  /\ StaleTail
  /\ TailIsLive

\* What the pointers of a well formed list say about its contents.
LEMMA ListEnds ==
  ASSUME ListOK
  PROVE  /\ ready_s = NULL <=> \A t \in Threads : ~Queued(t)
         /\ ready_s # NULL => ready_e \in Threads /\ Queued(ready_e)
<1>1. /\ queue \in Seq(Threads) /\ Len(queue) \in Nat /\ DOMAIN queue = 1 .. Len(queue)
      /\ \A i \in 1 .. Len(queue) : queue[i] \in Threads
      /\ queue = << >> <=> Len(queue) = 0
  BY DEF ListOK, SchedTypeOK
<1>2. CASE queue = << >>
  BY <1>1, <1>2 DEF ListOK, ListMatchesQueue, Queued
<1>3. CASE queue # << >>
  BY <1>1, <1>3, NullAssumption DEF ListOK, ListMatchesQueue, Queued
<1>4. QED
  BY <1>2, <1>3

\* A step that leaves the scheduler alone leaves the list as it is.
LEMMA SameList ==
  ASSUME ListOK, UNCHANGED schedVars
  PROVE  ListOK' /\ \A u \in Threads : Queued(u)' <=> Queued(u)
BY DEF schedVars, ListOK, SchedTypeOK, ListMatchesQueue, NoDuplicates, Queued

\* scheduler_ready(t), as its callers in thread.c use it.
LEMMA ReadyStep ==
  ASSUME ListOK, NEW t \in Threads, ~Queued(t), SchedulerReady(t)
  PROVE  /\ ListOK'
         /\ \A u \in Threads : Queued(u)' <=> (Queued(u) \/ u = t)
         /\ ready_s' # NULL /\ ready_e' = t
<1>1. ready_s' # NULL /\ ready_e' = t
  BY NullAssumption DEF SchedulerReady
<1>2. QED
  BY <1>1, ReadyKeepsList

\* scheduler_next(), as yield() uses it.
LEMMA NextStep ==
  ASSUME ListOK, SchedulerNext
  PROVE  /\ ListOK'
         /\ ready_s \in Threads /\ Queued(ready_s)
         /\ \A u \in Threads : Queued(u)' <=> (Queued(u) /\ u # ready_s)
         /\ ready_e' = ready_e
         /\ ready_s' = NULL => ready_e = ready_s
<1>1. /\ ListOK'
      /\ ready_s \in Threads /\ Queued(ready_s)
      /\ \A u \in Threads : Queued(u)' <=> (Queued(u) /\ u # ready_s)
  BY NextKeepsList
<1>2. /\ queue \in Seq(Threads) /\ Len(queue) \in Nat \ {0} /\ DOMAIN queue = 1 .. Len(queue)
      /\ ready_s = queue[1] /\ ready_e = queue[Len(queue)] /\ ready_e' = ready_e
  BY DEF SchedulerNext, ListOK, SchedTypeOK, ListMatchesQueue
<1>3. Len(queue) # 1 => ready_s' = queue[2] /\ queue[2] \in Threads
  BY <1>2 DEF SchedulerNext, ListOK, ListMatchesQueue
<1>4. ready_s' = NULL => ready_e = ready_s
  BY <1>2, <1>3, NullAssumption
<1>5. QED
  BY <1>1, <1>2, <1>4

----------------------------------------------------------------------------
\* threading_init()
LEMMA InitIInv == Init => IInv
<1> SUFFICES ASSUME Init PROVE IInv
  OBVIOUS
<1>1. ListOK /\ \A t \in Threads : ~Queued(t)
  BY ListInit DEF Init
<1>2. TypeOK
  BY <1>1, ThreadsAssumption DEF Init, TypeOK, ListOK, State, Cpu
<1>3. Runnable(Boot) /\ \A t \in Threads : Runnable(t) => t = Boot
  BY ThreadsAssumption DEF Init, Runnable
<1>4. ReadyAreQueued
  BY <1>1, <1>3 DEF Init, ReadyAreQueued, OnCpu
<1>5. RunsOrKilled /\ KilledSleeps /\ YieldFindsOne /\ BootRuns /\ PanicOnlyWhenAlone
  BY <1>3 DEF Init, RunsOrKilled, KilledSleeps, YieldFindsOne, BootRuns, PanicOnlyWhenAlone
<1>6. StaleTail /\ TailIsLive
  BY DEF Init, SchedInit, StaleTail, TailIsLive
<1>7. QED
  BY <1>1, <1>2, <1>4, <1>5, <1>6 DEF Init, IInv

\* thread_spawn()
LEMMA SpawnIInv == ASSUME IInv, NEW t \in Threads, Spawn(t) PROVE IInv'
<1>1. ~Queued(t) /\ t # current
  BY DEF IInv, ReadyAreQueued, Runnable, Spawn
<1>2. /\ ListOK' /\ ready_s' # NULL /\ ready_e' = t
      /\ \A u \in Threads : Queued(u)' <=> (Queued(u) \/ u = t)
  BY <1>1, ReadyStep DEF IInv, Spawn
<1>3. TypeOK'
  BY <1>2 DEF IInv, Spawn, TypeOK, ListOK, State
<1>4. \A u \in Threads : Runnable(u)' <=> (Runnable(u) \/ u = t)
  BY DEF IInv, Spawn, TypeOK, Runnable
<1>5. \A u \in Threads : OnCpu(u)' <=> OnCpu(u)
  BY DEF Spawn, OnCpu
<1>6. ReadyAreQueued'
  BY <1>1, <1>2, <1>4, <1>5 DEF IInv, ReadyAreQueued, OnCpu
<1>7. RunsOrKilled' /\ KilledSleeps' /\ YieldFindsOne' /\ BootRuns' /\ PanicOnlyWhenAlone'
  BY <1>1, <1>4, ThreadsAssumption
     DEF IInv, Spawn, TypeOK, RunsOrKilled, KilledSleeps, YieldFindsOne, BootRuns, PanicOnlyWhenAlone
<1>8. StaleTail' /\ TailIsLive'
  BY <1>2 DEF Spawn, StaleTail, TailIsLive
<1>9. current' \in live' /\ \A u \in Threads : request_kill'[u] => u \in Killable
  BY DEF IInv, Spawn, TypeOK
<1>10. QED
  BY <1>2, <1>3, <1>6, <1>7, <1>8, <1>9 DEF IInv

\* The calls that leave the scheduler alone: thread_destroy(), the first parts
\* of thread_sleep(), the end of trampoline() and thread_kill().
LEMMA QuietIInv ==
  ASSUME IInv, BootIdles \/ ~SleepAlone,
         \/ \E t \in Threads : Destroy(t) \/ Kill(t)
         \/ Sleep \/ SleepCheckKill \/ Exit
  PROVE  IInv'
<1>1. UNCHANGED schedVars
  BY DEF Destroy, Kill, Sleep, SleepCheckKill, Exit
<1>2. /\ ListOK' /\ ready_s' = ready_s /\ ready_e' = ready_e
      /\ \A u \in Threads : Queued(u)' <=> Queued(u)
  BY <1>1, SameList DEF IInv, schedVars
<1>3. /\ ready_s = NULL <=> \A t \in Threads : ~Queued(t)
      /\ ready_s # NULL => ready_e \in Threads /\ Queued(ready_e)
  BY ListEnds DEF IInv
<1>4. TypeOK'
  BY <1>2 DEF IInv, TypeOK, ListOK, State, Cpu, Destroy, Kill, Sleep, SleepCheckKill, Exit
<1>5. ASSUME NEW t \in Threads, Destroy(t) PROVE IInv'
  <2>1. \A u \in Threads : Runnable(u)' <=> Runnable(u)
    BY <1>5 DEF Destroy, Runnable
  <2>2. \A u \in Threads : OnCpu(u)' <=> OnCpu(u)
    BY <1>5 DEF Destroy, OnCpu
  <2>3. ready_e # t
    BY <1>3, <1>5, NullAssumption DEF IInv, Destroy, StaleTail, ReadyAreQueued, Runnable
  <2>4. StaleTail' /\ TailIsLive'
    BY <1>2, <1>5, <2>3 DEF IInv, Destroy, StaleTail, TailIsLive
  <2>5. ReadyAreQueued' /\ RunsOrKilled' /\ KilledSleeps' /\ YieldFindsOne' /\ BootRuns'
        /\ PanicOnlyWhenAlone' /\ current' \in live'
        /\ \A u \in Threads : request_kill'[u] => u \in Killable
    BY <1>2, <1>5, <2>1, <2>2, ThreadsAssumption
       DEF IInv, Destroy, ReadyAreQueued, RunsOrKilled, KilledSleeps, YieldFindsOne, BootRuns,
           PanicOnlyWhenAlone, TypeOK
  <2>6. QED
    BY <1>2, <1>4, <2>4, <2>5 DEF IInv
<1>6. ASSUME NEW t \in Threads, Kill(t) PROVE IInv'
  <2>1. \A u \in Threads : Runnable(u)' <=> Runnable(u)
    BY <1>6 DEF Kill, Runnable
  <2>2. \A u \in Threads : OnCpu(u)' <=> OnCpu(u)
    BY <1>6 DEF Kill, OnCpu
  <2>3. request_kill'[current] <=> request_kill[current] \/ t = current
    BY <1>6 DEF Kill, IInv, TypeOK
  <2>4. \A u \in Threads : request_kill'[u] => u \in Killable
    BY <1>6 DEF Kill, IInv, TypeOK
  <2>5. ReadyAreQueued' /\ RunsOrKilled' /\ KilledSleeps' /\ YieldFindsOne' /\ BootRuns'
        /\ PanicOnlyWhenAlone' /\ current' \in live' /\ StaleTail' /\ TailIsLive'
    BY <1>2, <1>6, <2>1, <2>2, <2>3, ThreadsAssumption
       DEF IInv, Kill, ReadyAreQueued, RunsOrKilled, KilledSleeps, YieldFindsOne, BootRuns,
           PanicOnlyWhenAlone, TypeOK, StaleTail, TailIsLive
  <2>6. QED
    BY <1>2, <1>4, <2>4, <2>5 DEF IInv
<1>7. CASE Sleep
  <2>1. ~Queued(current) /\ ~Runnable(current)' /\ current' = current
    BY <1>7 DEF IInv, Sleep, ReadyAreQueued, OnCpu, Runnable, TypeOK
  <2>2. \A u \in Threads \ {current} : Runnable(u)' <=> Runnable(u)
    BY <1>7 DEF IInv, Sleep, Runnable, TypeOK
  <2>3. \A u \in Threads \ {current} : ~OnCpu(u) /\ ~OnCpu(u)'
    BY <1>7 DEF Sleep, OnCpu
  <2>4. ReadyAreQueued'
    BY <1>2, <2>1, <2>2, <2>3 DEF IInv, ReadyAreQueued
  <2>5. BootIdles => Boot # current /\ Queued(Boot)
    BY <1>7, <2>3, ThreadsAssumption DEF BootIdles, Sleep, IInv, BootRuns, ReadyAreQueued
  <2>6. ready_s # NULL
    BY <1>3, <1>7, <2>5, ThreadsAssumption DEF Sleep
  <2>7. RunsOrKilled' /\ KilledSleeps' /\ YieldFindsOne' /\ BootRuns' /\ PanicOnlyWhenAlone'
    BY <1>2, <1>7, <2>2, <2>5, <2>6, ThreadsAssumption
       DEF IInv, Sleep, TypeOK, RunsOrKilled, KilledSleeps, YieldFindsOne, BootRuns, PanicOnlyWhenAlone
  <2>8. StaleTail' /\ TailIsLive' /\ current' \in live'
        /\ \A u \in Threads : request_kill'[u] => u \in Killable
    BY <1>2, <1>7, <2>6 DEF IInv, Sleep, StaleTail, TailIsLive
  <2>9. QED
    BY <1>2, <1>4, <2>4, <2>7, <2>8 DEF IInv
<1>8. CASE SleepCheckKill
  <2>1. \A u \in Threads : Runnable(u)' <=> Runnable(u)
    BY <1>8 DEF IInv, SleepCheckKill, Runnable, KilledSleeps, TypeOK
  <2>2. \A u \in Threads : ~OnCpu(u) /\ ~OnCpu(u)'
    BY <1>8 DEF SleepCheckKill, OnCpu
  <2>3. ReadyAreQueued' /\ RunsOrKilled' /\ KilledSleeps' /\ YieldFindsOne' /\ BootRuns'
        /\ PanicOnlyWhenAlone' /\ current' \in live' /\ StaleTail' /\ TailIsLive'
        /\ \A u \in Threads : request_kill'[u] => u \in Killable
    BY <1>2, <1>8, <2>1, <2>2, ThreadsAssumption
       DEF IInv, SleepCheckKill, ReadyAreQueued, RunsOrKilled, KilledSleeps, YieldFindsOne, BootRuns,
           PanicOnlyWhenAlone, StaleTail, TailIsLive
  <2>4. QED
    BY <1>2, <1>4, <2>3 DEF IInv
<1>9. CASE Exit
  <2>1. ~Queued(current) /\ ~Runnable(current)' /\ current' = current
    BY <1>9 DEF IInv, Exit, ReadyAreQueued, OnCpu, Runnable, TypeOK
  <2>2. \A u \in Threads \ {current} : Runnable(u)' <=> Runnable(u)
    BY <1>9 DEF IInv, Exit, Runnable, TypeOK
  <2>3. \A u \in Threads \ {current} : ~OnCpu(u) /\ ~OnCpu(u)'
    BY <1>9 DEF Exit, OnCpu
  <2>4. ReadyAreQueued'
    BY <1>2, <2>1, <2>2, <2>3 DEF IInv, ReadyAreQueued
  <2>5. BootIdles => Boot # current
    BY <1>9 DEF BootIdles, Exit
  <2>6. RunsOrKilled' /\ KilledSleeps' /\ YieldFindsOne' /\ BootRuns' /\ PanicOnlyWhenAlone'
    BY <1>9, <2>2, <2>5, ThreadsAssumption
       DEF IInv, Exit, TypeOK, RunsOrKilled, KilledSleeps, YieldFindsOne, BootRuns, PanicOnlyWhenAlone
  <2>7. StaleTail' /\ TailIsLive' /\ current' \in live'
        /\ \A u \in Threads : request_kill'[u] => u \in Killable
    BY <1>2, <1>9 DEF IInv, Exit, StaleTail, TailIsLive
  <2>8. QED
    BY <1>2, <1>4, <2>4, <2>6, <2>7 DEF IInv
<1>10. QED
  BY <1>5, <1>6, <1>7, <1>8, <1>9

\* thread_yield(), up to its call of yield()
LEMMA YieldIInv == ASSUME IInv, Yield PROVE IInv'
<1>1. ~Queued(current) /\ current \in Threads /\ current' = current
  BY DEF IInv, TypeOK, ReadyAreQueued, OnCpu, Yield
<1>2. \A u \in Threads \ {current} : ~OnCpu(u) /\ ~OnCpu(u)'
  BY DEF Yield, OnCpu
<1>3. \A u \in Threads \ {current} : Runnable(u)' <=> Runnable(u)
  BY DEF IInv, Yield, Runnable, TypeOK
<1>4. ~OnCpu(current)'
  BY DEF Yield, OnCpu
<1>5. CASE request_kill[current]
  <2>1. /\ ListOK' /\ ready_s' = ready_s /\ ready_e' = ready_e
        /\ \A u \in Threads : Queued(u)' <=> Queued(u)
    BY <1>5, SameList DEF IInv, Yield, schedVars
  <2>2. ~Runnable(current)'
    BY <1>5 DEF Yield, Runnable, IInv, TypeOK
  <2>3. TypeOK'
    BY <1>5, <2>1 DEF IInv, Yield, TypeOK, ListOK, State, Cpu
  <2>4. ReadyAreQueued'
    BY <1>1, <1>2, <1>3, <1>4, <2>1, <2>2 DEF IInv, ReadyAreQueued
  <2>5. BootRuns'
    BY <1>3, <1>5, ThreadsAssumption DEF IInv, BootRuns, BootIdles
  <2>6. RunsOrKilled' /\ KilledSleeps' /\ YieldFindsOne' /\ PanicOnlyWhenAlone'
        /\ StaleTail' /\ TailIsLive' /\ current' \in live'
        /\ \A u \in Threads : request_kill'[u] => u \in Killable
    BY <1>5, <2>1 DEF IInv, Yield, RunsOrKilled, KilledSleeps, YieldFindsOne, PanicOnlyWhenAlone,
       StaleTail, TailIsLive
  <2>7. QED
    BY <2>1, <2>3, <2>4, <2>5, <2>6 DEF IInv
<1>6. CASE ~request_kill[current]
  <2>1. /\ ListOK' /\ ready_s' # NULL /\ ready_e' = current
        /\ \A u \in Threads : Queued(u)' <=> (Queued(u) \/ u = current)
    BY <1>1, <1>6, ReadyStep DEF IInv, Yield
  <2>2. Runnable(current)'
    BY <1>6 DEF IInv, Yield, RunsOrKilled, Runnable
  <2>3. TypeOK'
    BY <1>6, <2>1 DEF IInv, Yield, TypeOK, ListOK, State, Cpu
  <2>4. ReadyAreQueued'
    BY <1>1, <1>2, <1>3, <1>4, <2>1, <2>2 DEF IInv, ReadyAreQueued
  <2>5. BootRuns'
    BY <1>1, <1>3, <2>2, ThreadsAssumption DEF IInv, BootRuns, BootIdles, Runnable
  <2>6. RunsOrKilled' /\ KilledSleeps' /\ YieldFindsOne' /\ PanicOnlyWhenAlone'
        /\ StaleTail' /\ TailIsLive' /\ current' \in live'
        /\ \A u \in Threads : request_kill'[u] => u \in Killable
    BY <1>6, <2>1 DEF IInv, Yield, RunsOrKilled, KilledSleeps, YieldFindsOne, PanicOnlyWhenAlone,
       StaleTail, TailIsLive
  <2>7. QED
    BY <2>1, <2>3, <2>4, <2>5, <2>6 DEF IInv
<1>7. QED
  BY <1>5, <1>6

\* A thread that sleeps is made ready: somebody else's, or the thread's own on
\* its way into yield(), unless it is killed there.
LEMMA WokenIInv ==
  ASSUME IInv, NEW t \in live, ThreadWake(t), UNCHANGED <<live, request_kill, current, cpu>>,
         cpu # "panic", ~OnCpu(t), t # current \/ ~request_kill[current]
  PROVE  IInv'
<1>1. /\ state[t] = "SLEEP" /\ SchedulerReady(t) /\ t \in Threads
      /\ state' = [state EXCEPT ![t] = "READY"]
  BY DEF ThreadWake, IInv, TypeOK
<1>2. ~Queued(t)
  BY <1>1 DEF IInv, ReadyAreQueued, Runnable
<1>3. /\ ListOK' /\ ready_s' # NULL /\ ready_e' = t
      /\ \A u \in Threads : Queued(u)' <=> (Queued(u) \/ u = t)
  BY <1>1, <1>2, ReadyStep DEF IInv
<1>4. \A u \in Threads : Runnable(u)' <=> (Runnable(u) \/ u = t)
  BY <1>1 DEF IInv, TypeOK, Runnable
<1>5. \A u \in Threads : OnCpu(u)' <=> OnCpu(u)
  BY DEF OnCpu
<1>6. ReadyAreQueued'
  BY <1>3, <1>4, <1>5 DEF IInv, ReadyAreQueued
<1>7. TypeOK'
  BY <1>1, <1>3 DEF IInv, TypeOK, ListOK, State
<1>8. RunsOrKilled' /\ KilledSleeps' /\ YieldFindsOne' /\ BootRuns' /\ PanicOnlyWhenAlone'
  BY <1>1, <1>3, <1>4, ThreadsAssumption
     DEF IInv, TypeOK, RunsOrKilled, KilledSleeps, YieldFindsOne, BootRuns, PanicOnlyWhenAlone
<1>9. StaleTail' /\ TailIsLive' /\ current' \in live'
      /\ \A u \in Threads : request_kill'[u] => u \in Killable
  BY <1>1, <1>3 DEF IInv, StaleTail, TailIsLive
<1>10. QED
  BY <1>3, <1>6, <1>7, <1>8, <1>9 DEF IInv

\* thread_wake(t), from another thread or from an interrupt handler.
LEMMA WakeIInv ==
  ASSUME IInv, Callers, NEW t \in Threads, Wake(t) \/ IrqWake(t)
  PROVE  IInv'
<1>1. /\ t \in live /\ state[t] = "SLEEP" /\ ThreadWake(t) /\ cpu # "panic"
      /\ UNCHANGED <<live, request_kill, current, cpu>>
  BY DEF Wake, IrqWake, ThreadWake
<1>2. ~OnCpu(t)
  BY <1>1 DEF Wake, IrqWake, OnCpu, IInv, RunsOrKilled, Runnable, Callers, KillsSpareIrqWakes,
     TypeOK, Cpu
<1>3. t # current \/ ~request_kill[current]
  BY DEF Wake, IrqWake, IInv, Callers, KillsSpareIrqWakes
<1>4. QED
  BY <1>1, <1>2, <1>3, WokenIInv

\* yield() finds a thread: it switches to it, or buries it and goes on.
LEMMA TakeIInv == ASSUME IInv, SwitchTo \/ BuryKilled PROVE IInv'
<1>1. /\ ListOK'
      /\ ready_s \in Threads /\ Queued(ready_s)
      /\ \A u \in Threads : Queued(u)' <=> (Queued(u) /\ u # ready_s)
      /\ ready_e' = ready_e
      /\ ready_s' = NULL => ready_e = ready_s
  BY NextStep DEF IInv, SwitchTo, BuryKilled
<1>2. /\ cpu \in {"yield", "last"} /\ Runnable(ready_s)
      /\ \A u \in Threads : Queued(u) <=> Runnable(u)
  BY <1>1 DEF SwitchTo, BuryKilled, InYield, OnCpu, IInv, ReadyAreQueued
<1>3. TypeOK'
  BY <1>1 DEF IInv, TypeOK, ListOK, State, Cpu, SwitchTo, BuryKilled
<1>4. \A u \in Threads \ {ready_s} : Runnable(u)' <=> Runnable(u)
  BY DEF SwitchTo, BuryKilled, IInv, TypeOK, Runnable
<1>5. CASE SwitchTo
  <2>1. \A u \in Threads : Runnable(u)' <=> Runnable(u)
    BY <1>1, <1>2, <1>4, <1>5 DEF SwitchTo, IInv, TypeOK, Runnable
  <2>2. \A u \in Threads : OnCpu(u)' <=> u = ready_s
    BY <1>5 DEF SwitchTo, OnCpu
  <2>3. ReadyAreQueued'
    BY <1>1, <1>2, <1>4, <2>1, <2>2 DEF ReadyAreQueued
  <2>4. /\ BootRuns'
        /\ RunsOrKilled' /\ KilledSleeps' /\ YieldFindsOne' /\ PanicOnlyWhenAlone'
    <3>1. BootRuns'
      BY <2>1, ThreadsAssumption DEF IInv, BootRuns, BootIdles
    <3>2. RunsOrKilled'
      BY <1>1, <1>2, <1>5 DEF IInv, TypeOK, SwitchTo, RunsOrKilled, Runnable
    <3>3. KilledSleeps' /\ YieldFindsOne' /\ PanicOnlyWhenAlone'
      BY <1>5 DEF SwitchTo, KilledSleeps, YieldFindsOne, PanicOnlyWhenAlone
    <3>4. QED
      BY <3>1, <3>2, <3>3
  <2>5. StaleTail' /\ TailIsLive' /\ current' \in live'
        /\ \A u \in Threads : request_kill'[u] => u \in Killable
    BY <1>1, <1>2, <1>5 DEF IInv, SwitchTo, StaleTail, TailIsLive, Runnable
  <2>6. QED
    BY <1>1, <1>3, <2>3, <2>4, <2>5 DEF IInv
<1>6. CASE BuryKilled
  <2>1. \A u \in Threads : Runnable(u)' <=> Runnable(u) /\ u # ready_s
    BY <1>1, <1>4, <1>6 DEF BuryKilled, IInv, TypeOK, Runnable
  <2>2. \A u \in Threads : ~OnCpu(u)'
    BY <1>6 DEF BuryKilled, OnCpu
  <2>3. ReadyAreQueued'
    BY <1>1, <1>2, <1>4, <2>1, <2>2 DEF ReadyAreQueued
  <2>4. ready_s \in Killable
    BY <1>1, <1>6 DEF BuryKilled, IInv
  <2>5. RunsOrKilled' /\ KilledSleeps' /\ YieldFindsOne' /\ BootRuns' /\ PanicOnlyWhenAlone'
    BY <1>4, <1>6, <2>4, ThreadsAssumption
       DEF IInv, BuryKilled, RunsOrKilled, KilledSleeps, YieldFindsOne, BootRuns, BootIdles,
           PanicOnlyWhenAlone
  <2>6. StaleTail' /\ TailIsLive' /\ current' \in live'
        /\ \A u \in Threads : request_kill'[u] => u \in Killable
    BY <1>1, <1>6 DEF IInv, BuryKilled, StaleTail, TailIsLive
  <2>7. QED
    BY <1>1, <1>3, <2>3, <2>5, <2>6 DEF IInv
<1>7. QED
  BY <1>5, <1>6

\* yield() finds nobody.
LEMMA NobodyIInv ==
  ASSUME IInv, YieldReturns
  PROVE  IInv' /\ \A t \in Threads : ~Runnable(t)
<1>1. /\ ListOK' /\ ready_s' = ready_s /\ ready_e' = ready_e
      /\ \A u \in Threads : Queued(u)' <=> Queued(u)
  BY SameList DEF IInv, YieldReturns, schedVars
<1>2. \A u \in Threads : ~Queued(u)
  BY ListEnds DEF IInv, YieldReturns
<1>3. \A u \in Threads : ~Runnable(u)
  BY <1>2 DEF YieldReturns, InYield, OnCpu, IInv, ReadyAreQueued
<1>4. \A u \in Threads : ~Runnable(u)'
  BY <1>3 DEF YieldReturns, Runnable
<1>5. TypeOK'
  BY <1>1 DEF IInv, TypeOK, ListOK, Cpu, YieldReturns, InYield
<1>6. ReadyAreQueued'
  BY <1>1, <1>2, <1>4 DEF ReadyAreQueued
<1>7. RunsOrKilled' /\ KilledSleeps' /\ YieldFindsOne' /\ BootRuns' /\ PanicOnlyWhenAlone'
  BY <1>3, <1>4, ThreadsAssumption
     DEF IInv, YieldReturns, InYield, RunsOrKilled, KilledSleeps, YieldFindsOne, BootRuns, BootIdles,
         PanicOnlyWhenAlone
<1>8. StaleTail' /\ TailIsLive' /\ current' \in live'
      /\ \A u \in Threads : request_kill'[u] => u \in Killable
  BY <1>1 DEF IInv, YieldReturns, InYield, StaleTail, TailIsLive
<1>9. QED
  BY <1>1, <1>3, <1>5, <1>6, <1>7, <1>8 DEF IInv

\* Nothing happens.
LEMMA StutterIInv == ASSUME IInv, UNCHANGED vars PROVE IInv'
<1>1. UNCHANGED schedVars /\ UNCHANGED threadVars
  BY DEF vars
<1>2. ListOK' /\ \A u \in Threads : Queued(u)' <=> Queued(u)
  BY <1>1, SameList DEF IInv
<1>3. \A u \in Threads : (Runnable(u)' <=> Runnable(u)) /\ (OnCpu(u)' <=> OnCpu(u))
  BY <1>1 DEF threadVars, Runnable, OnCpu
<1>4. TypeOK'
  BY <1>1, <1>2 DEF threadVars, IInv, TypeOK, ListOK
<1>5. ReadyAreQueued' /\ RunsOrKilled' /\ BootRuns' /\ PanicOnlyWhenAlone'
  BY <1>1, <1>2, <1>3, ThreadsAssumption
     DEF threadVars, IInv, TypeOK, ReadyAreQueued, RunsOrKilled, BootRuns, BootIdles, PanicOnlyWhenAlone
<1>6. KilledSleeps' /\ YieldFindsOne' /\ StaleTail' /\ TailIsLive' /\ current' \in live'
      /\ \A u \in Threads : request_kill'[u] => u \in Killable
  BY <1>1 DEF schedVars, threadVars, IInv, KilledSleeps, YieldFindsOne, StaleTail, TailIsLive
<1>7. QED
  BY <1>2, <1>4, <1>5, <1>6 DEF IInv

----------------------------------------------------------------------------
\* Every step of thread.c keeps the invariant.
LEMMA StepIInv == Callers /\ IInv /\ [Next]_vars => IInv'
<1> SUFFICES ASSUME Callers, IInv, [Next]_vars PROVE IInv'
  OBVIOUS
<1>1. ASSUME NEW t \in Threads, Spawn(t) PROVE IInv'
  BY <1>1, SpawnIInv
<1>2. ASSUME NEW t \in Threads, Destroy(t) \/ Kill(t) PROVE IInv'
  BY <1>2, QuietIInv DEF Callers
<1>3. ASSUME NEW t \in Threads, Wake(t) \/ IrqWake(t) PROVE IInv'
  BY <1>3, WakeIInv
<1>4. CASE Yield
  BY <1>4, YieldIInv
<1>5. CASE Sleep \/ SleepCheckKill \/ Exit
  BY <1>5, QuietIInv DEF Callers
<1>6. CASE SwitchTo \/ BuryKilled
  BY <1>6, TakeIInv
<1>7. CASE YieldReturns
  BY <1>7, NobodyIInv
<1>8. CASE UNCHANGED vars
  BY <1>8, StutterIInv
<1>9. QED
  BY <1>1, <1>2, <1>3, <1>4, <1>5, <1>6, <1>7, <1>8 DEF Next

\* The invariant holds in every reachable state.
LEMMA AlwaysIInv == ASSUME Callers PROVE Spec => []IInv
<1>1. IInv /\ [Next]_vars => IInv'
  BY StepIInv
<1>2. QED
  BY <1>1, InitIInv, PTL DEF Spec

----------------------------------------------------------------------------
\* Type correctness of thread.c's and scheduler.c's state.
THEOREM TypeCorrect == ASSUME Callers PROVE Spec => []TypeOK
BY AlwaysIInv, PTL DEF IInv

\* Whatever the threads and interrupt handlers do, the ready list holds
\* exactly the runnable threads other than the running one, once each.
THEOREM ReadyListIsComplete == ASSUME Callers PROVE Spec => []ReadyListComplete
<1>1. IInv => ReadyListComplete
  BY DEF IInv, ListOK, ReadyAreQueued, ReadyListComplete
<1>2. QED
  BY <1>1, AlwaysIInv, PTL

\* The pointer scheduler_next() leaves in ready_e never dangles: no thread is
\* destroyed before another one has been readied.
THEOREM TailNeverDangles == ASSUME Callers PROVE Spec => []TailIsLive
BY AlwaysIInv, PTL DEF IInv

\* "Unreachable!" is reached only by the last runnable thread.
THEOREM PanicsOnlyAlone == ASSUME Callers PROVE Spec => []PanicOnlyWhenAlone
BY AlwaysIInv, PTL DEF IInv

\* All of it together: whatever threads and interrupt handlers do, list, states
\* and stale tail of scheduler.c and thread.c agree.
THEOREM ThreadsStaySound == ASSUME Callers PROVE Spec => []ThreadsSound
BY TypeCorrect, ReadyListIsComplete, TailNeverDangles, PanicsOnlyAlone, PTL DEF ThreadsSound

\* With an idle boot thread, yield() always finds somebody to switch to.
LEMMA SomebodyIsReady == ASSUME BootIdles, IInv PROVE ~YieldReturns
BY NobodyIInv, ThreadsAssumption DEF IInv, BootRuns

\* Whom the processor runs with an idle boot thread.
RunsOnlyRunnable == RunningIsRunnable /\ UnreachableIsUnreachable

\* The boot thread runs first.
LEMMA InitRuns == Init => RunsOnlyRunnable
BY ThreadsAssumption DEF Init, RunsOnlyRunnable, RunningIsRunnable, UnreachableIsUnreachable, Runnable

\* With an idle boot thread, only a runnable thread is switched to, and
\* yield() does not return.
LEMMA StepRuns ==
  ASSUME Callers, BootIdles, IInv, RunsOnlyRunnable, [Next]_vars
  PROVE  RunsOnlyRunnable'
<1>1. IInv' /\ ~YieldReturns
  BY StepIInv, SomebodyIsReady
<1>2. CASE SwitchTo
  <2>1. ready_s \in Threads /\ Runnable(ready_s)
    BY <1>2, NextStep DEF SwitchTo, InYield, OnCpu, IInv, ReadyAreQueued
  <2>2. QED
    BY <1>1, <1>2, <2>1 DEF SwitchTo, IInv, TypeOK, RunsOnlyRunnable, RunningIsRunnable,
                            UnreachableIsUnreachable, Runnable
<1>3. CASE UNCHANGED vars
  BY <1>1, <1>3 DEF vars, threadVars, RunsOnlyRunnable, RunningIsRunnable,
                    UnreachableIsUnreachable, Runnable
<1>4. ASSUME NEW t \in Threads, \/ Spawn(t)
                                \/ Destroy(t)
                                \/ Kill(t)
                                \/ Wake(t)
                                \/ IrqWake(t)
      PROVE  RunsOnlyRunnable'
  BY <1>4 DEF Spawn, Destroy, Kill, Wake, IrqWake, ThreadWake, IInv, TypeOK,
              RunsOnlyRunnable, RunningIsRunnable, UnreachableIsUnreachable, Runnable
<1>5. CASE Yield \/ Sleep \/ SleepCheckKill \/ Exit \/ BuryKilled
  BY <1>1, <1>5 DEF Yield, Sleep, SleepCheckKill, Exit, BuryKilled,
                    RunsOnlyRunnable, RunningIsRunnable, UnreachableIsUnreachable
<1>6. QED
  BY <1>1, <1>2, <1>3, <1>4, <1>5 DEF Next

\* With an idle boot thread, the processor never runs a thread that sleeps, is
\* dead or has been freed, and never gets past a yield() that must not return.
THEOREM IdleBootIsEnough ==
  ASSUME Callers, BootIdles
  PROVE  Spec => [](RunningIsRunnable /\ UnreachableIsUnreachable)
<1>1. Init => IInv /\ RunsOnlyRunnable
  BY InitIInv, InitRuns
<1>2. IInv /\ RunsOnlyRunnable /\ [Next]_vars => (IInv /\ RunsOnlyRunnable)'
  BY StepIInv, StepRuns
<1>3. RunsOnlyRunnable => RunningIsRunnable /\ UnreachableIsUnreachable
  BY DEF RunsOnlyRunnable
<1>4. QED
  BY <1>1, <1>2, <1>3, PTL DEF Spec

\* A step leaves a dead thread dead and off the processor, or destroys it.
LEMMA StepDead ==
  ASSUME IInv, RunningIsRunnable, RunningIsRunnable', Next
  PROVE  DeadStep
<1> SUFFICES ASSUME NEW t \in live, state[t] = "DEAD", t \in live'
             PROVE  state'[t] = "DEAD" /\ (cpu' = "run" => current' # t)
  BY DEF DeadStep
<1>1. ~Runnable(t) /\ t \in Threads
  BY DEF Runnable, IInv, TypeOK
<1>2. ASSUME SchedulerNext, InYield PROVE ready_s # t
  BY <1>1, <1>2, NextStep DEF InYield, OnCpu, IInv, ReadyAreQueued
<1>3. state'[t] = "DEAD"
  <2>1. CASE \E u \in Threads : Spawn(u) \/ Destroy(u) \/ Kill(u) \/ Wake(u) \/ IrqWake(u)
    BY <2>1, <1>1 DEF Spawn, Destroy, Kill, Wake, IrqWake, ThreadWake, IInv, TypeOK
  <2>2. CASE Yield \/ Sleep \/ SleepCheckKill \/ Exit
    BY <2>2, <1>1 DEF Yield, Sleep, SleepCheckKill, Exit, IInv, TypeOK, RunningIsRunnable
  <2>3. CASE SwitchTo \/ BuryKilled \/ YieldReturns
    BY <2>3, <1>1, <1>2 DEF SwitchTo, BuryKilled, YieldReturns, IInv, TypeOK
  <2>4. QED
    BY <2>1, <2>2, <2>3 DEF Next
<1>4. QED
  BY <1>3 DEF RunningIsRunnable, Runnable

\* With an idle boot thread, a dead thread stays dead and off the processor
\* until it is destroyed.
THEOREM DeadThreadsStayDead == ASSUME Callers, BootIdles PROVE Spec => DeadStaysDead
<1>1. IInv /\ RunningIsRunnable /\ RunningIsRunnable' /\ [Next]_vars => DeadStep \/ UNCHANGED vars
  BY StepDead
<1>2. QED
  BY <1>1, AlwaysIInv, IdleBootIsEnough, PTL DEF Spec, DeadStaysDead

\* Both, as the two kernels of MCThreads have them: whichever of the kernels
\* runs, the one with an idle boot thread keeps its promises.
THEOREM IdleBootKeepsPromises ==
  ASSUME Callers, BootIdles
  PROVE  MCSpec => IdleBootSuffices
<1> DEFINE J == withIdle => IInv /\ RunsOnlyRunnable
<1>1. MCInit => J
  BY InitIInv, InitRuns DEF MCInit
<1>2. withIdle /\ [MCNext]_mcVars => withIdle' /\ [Next]_vars
  BY DEF MCNext, mcVars, Stopped
<1>3. ASSUME J, [MCNext]_mcVars PROVE J'
  <2>1. withIdle' => withIdle
    BY <1>3 DEF MCNext, mcVars
  <2>2. CASE withIdle
    BY <1>2, <1>3, <2>2, StepIInv, StepRuns
  <2>3. QED
    BY <2>1, <2>2
<1>4. J => (withIdle => RunningIsRunnable /\ UnreachableIsUnreachable)
  BY DEF RunsOnlyRunnable
<1>5. J /\ J' /\ [MCNext]_mcVars => [withIdle => DeadStep]_mcVars
  <2> SUFFICES ASSUME J, J', MCNext, withIdle PROVE DeadStep
    OBVIOUS
  <2>1. Next /\ withIdle'
    BY DEF MCNext, Stopped
  <2>2. QED
    BY <2>1, StepDead DEF RunsOnlyRunnable
<1>6. QED
  BY <1>1, <1>3, <1>4, <1>5, PTL DEF MCSpec, IdleBootSuffices

----------------------------------------------------------------------------
(***************************************************************************)
(* Theorems about locking.c, for every set of threads and semaphores, with *)
(* threads and interrupt handlers as signallers and threads that may be    *)
(* killed: mutual exclusion; that a killed thread acquires nothing; that the *)
(* wait queues stay lists of waiters and a signal wakes the thread it takes *)
(* from one; and, without interrupts and kills, that nobody is forgotten.  *)
(*                                                                         *)
(* Mutexes need nothing of the queues: MutexInv says that the value of a   *)
(* mutex and its holder agree.  The wait queues are the hard part, because *)
(* the pointers of thread_t are all that holds them: the invariant WaitInv *)
(* says that each queue, read through the pointers, is some sequence without *)
(* repetitions (IsQueue), and joining or leaving it puts its head on or takes *)
(* it off.  That a popped thread is still asleep when it is woken, and that a *)
(* value seen to be zero is zero when its waiter goes to sleep, holds because *)
(* a thread gives up the processor at two places only (NotPreempted).      *)
(***************************************************************************)

\* The boot thread spawns and kills the others, and is not killed itself.
BootSurvives == Boot \notin Killable

\* A mutex is free and nobody holds it, or taken by exactly one thread.
HeldByOne ==
  \A m \in Mutexes, t \in Threads :
    m \in holding[t] => val[m] = 0 /\ \A u \in Threads : m \in holding[u] => u = t

\* A mutex is signalled only by its holder, so its value is 0 or 1.
MutexIsBinary == \A m \in Mutexes : val[m] \in {0, 1}

\* The inductive invariant of the mutexes.
MutexInv == SemTypeOK /\ HeldByOne /\ MutexIsBinary

\* The processor is not with a killed thread.
RunnerNotKilled == ~request_kill[current]

----------------------------------------------------------------------------
(***************************************************************************)
(* Type correctness of the thread module under any caller                  *)
(***************************************************************************)

\* scheduler_ready() keeps the types of the ready list.
LEMMA ReadyTypes ==
  ASSUME SchedTypeOK, NEW t \in Threads, SchedulerReady(t) PROVE SchedTypeOK'
<1>1. queue' \in Seq(Threads)
  <2>1. CASE Queued(t)
    <3> DEFINE n == CHOOSE i \in DOMAIN queue : queue[i] = t
    <3>1. n \in 1 .. Len(queue)
      BY <2>1 DEF Queued, SchedTypeOK
    <3>2. queue' = SubSeq(queue, 1, n)
      BY <2>1 DEF SchedulerReady, PutLast
    <3> HIDE DEF n
    <3>3. QED
      BY <3>1, <3>2 DEF SchedTypeOK
  <2>2. CASE ~Queued(t)
    BY <2>2 DEF SchedulerReady, PutLast, SchedTypeOK
  <2>3. QED
    BY <2>1, <2>2
<1>2. QED
  BY <1>1 DEF SchedTypeOK, SchedulerReady, ThreadOrNull

\* So does scheduler_next().
LEMMA NextTypes ==
  ASSUME SchedTypeOK, SchedulerNext PROVE SchedTypeOK' /\ ready_s \in Threads
<1>1. queue' \in Seq(Threads)
  BY DEF SchedTypeOK, SchedulerNext
<1>2. ready_s \in Threads
  BY DEF SchedTypeOK, SchedulerNext, ThreadOrNull
<1>3. QED
  BY <1>1, <1>2 DEF SchedTypeOK, SchedulerNext

\* thread_wake() on any thread keeps the types.
LEMMA WakeTypes == ASSUME TypeOK, NEW u, TryWake(u) PROVE TypeOK'
<1>1. CASE u \in Threads /\ state[u] = "SLEEP"
  <2>1. SchedulerReady(u) /\ state' = [state EXCEPT ![u] = "READY"]
        /\ UNCHANGED <<live, request_kill, current, cpu>>
    BY <1>1 DEF TryWake, ThreadWake
  <2>2. QED
    BY <1>1, <2>1, ReadyTypes DEF TypeOK, State
<1>2. CASE ~(u \in Threads /\ state[u] = "SLEEP")
  BY <1>2 DEF TryWake, vars, schedVars, threadVars, TypeOK, SchedTypeOK
<1>3. QED
  BY <1>1, <1>2

\* The steps of thread.c that the threads of this module take.
ThreadStep ==
  \/ \E t \in Threads : Spawn(t) \/ Kill(t)
  \/ Yield \/ Sleep \/ SleepCheckKill
  \/ SwitchTo \/ BuryKilled \/ YieldReturns

\* Every step of thread.c, whoever makes it, keeps its types.
LEMMA StepTypes == ASSUME TypeOK, ThreadStep PROVE TypeOK'
<1>1. ASSUME NEW t \in Threads, Spawn(t) PROVE TypeOK'
  BY <1>1, ReadyTypes DEF Spawn, TypeOK, State
<1>2. ASSUME NEW t \in Threads, Kill(t) PROVE TypeOK'
  BY <1>2 DEF Kill, TypeOK, schedVars, SchedTypeOK
<1>3. CASE Yield
  BY <1>3, ReadyTypes DEF Yield, TypeOK, State, Cpu, schedVars, SchedTypeOK
<1>4. CASE Sleep \/ SleepCheckKill \/ YieldReturns
  BY <1>4 DEF Sleep, SleepCheckKill, YieldReturns, TypeOK, State, Cpu, schedVars, SchedTypeOK
<1>5. CASE SwitchTo \/ BuryKilled
  BY <1>5, NextTypes DEF SwitchTo, BuryKilled, TypeOK, State, Cpu
<1>6. QED
  BY <1>1, <1>2, <1>3, <1>4, <1>5 DEF ThreadStep

----------------------------------------------------------------------------
(***************************************************************************)
(* Mutual exclusion                                                        *)
(***************************************************************************)

\* The types of the semaphores' variables.
SemTypes ==
  /\ val \in [Sems -> 0 .. MaxVal]
  /\ queue_head \in [Sems -> ThreadOrNull]
  /\ semaphore_next \in [Threads -> ThreadOrNull]
  /\ pc \in [Threads -> Pc]
  /\ sem \in [Threads -> Sems]
  /\ popped \in ThreadOrNull
  /\ holding \in [Threads -> SUBSET Mutexes]

\* The type invariant, in its two parts.
LEMMA SemTypeSplits == (SemTypeOK <=> TypeOK /\ SemTypes) /\ (SemTypeOK' <=> TypeOK' /\ SemTypes')
BY DEF SemTypeOK, SemTypes

\* Initially mutex_init() has signalled each mutex once.
LEMMA MutexInit == SemInit => MutexInv
<1> SUFFICES ASSUME SemInit PROVE MutexInv
  OBVIOUS
<1>1. TypeOK
  BY ThreadsAssumption
     DEF SemInit, SemInitWith, Init, SchedInit, TypeOK, SchedTypeOK, ThreadOrNull, State, Cpu
<1>2. (CHOOSE s \in Sems : TRUE) \in Sems
  BY SemAssumption
<1>3. SemTypes /\ HeldByOne /\ MutexIsBinary
  BY <1>2, SemAssumption DEF MutexIsBinary, SemInit, SemInitWith, SemTypes, HeldByOne,
     ThreadOrNull, Pc
<1>4. QED
  BY <1>1, <1>3, SemTypeSplits DEF MutexInv

\* A step of thread.c that leaves the semaphores alone.
LEMMA ThreadStepMutex == ASSUME MutexInv, ThreadStep, UNCHANGED semVars PROVE MutexInv'
<1>1. TypeOK'
  BY StepTypes, SemTypeSplits DEF MutexInv
<1>2. SemTypes' /\ HeldByOne' /\ MutexIsBinary'
  BY SemTypeSplits DEF MutexInv, semVars, SemTypes, HeldByOne, MutexIsBinary
<1>3. QED
  BY <1>1, <1>2, SemTypeSplits DEF MutexInv

\* semaphore_wait() up to its end: the decrement takes the mutex from nobody.
LEMMA DecrementMutex == ASSUME MutexInv, NEW t \in Threads, WaitDecrement(t) PROVE MutexInv'
<1>1. TypeOK'
  BY SemTypeSplits DEF MutexInv, WaitDecrement, vars, schedVars, threadVars, TypeOK, SchedTypeOK
<1>2. sem[t] \in Sems /\ val[sem[t]] \in 1 .. MaxVal
  BY SemTypeSplits, SemAssumption DEF MutexInv, SemTypes, WaitDecrement
<1>3. SemTypes'
  BY <1>2, SemTypeSplits, SemAssumption DEF MutexInv, SemTypes, WaitDecrement, Goto, Pc
<1>4. \A u \in Threads : sem[t] \in Mutexes => sem[t] \notin holding[u]
  BY <1>2, SemTypeSplits DEF MutexInv, HeldByOne
<1>5. HeldByOne'
  <2> SUFFICES ASSUME NEW m \in Mutexes, NEW u \in Threads, m \in holding'[u]
               PROVE  val'[m] = 0 /\ \A v \in Threads : m \in holding'[v] => v = u
    BY DEF HeldByOne
  <2>1. m \in Sems
    BY SemAssumption
  <2>2. CASE m = sem[t]
    <3>1. u = t /\ \A v \in Threads : m \in holding'[v] => v = t
      BY <1>4, <2>2, SemTypeSplits DEF MutexInv, SemTypes, WaitDecrement
    <3>2. val[m] = 1
      BY <2>2 DEF MutexInv, WaitDecrement, MutexIsBinary
    <3>3. QED
      BY <2>1, <2>2, <3>1, <3>2, SemTypeSplits DEF MutexInv, SemTypes, WaitDecrement
  <2>3. CASE m # sem[t]
    <3>1. val'[m] = val[m] /\ \A v \in Threads : m \in holding'[v] <=> m \in holding[v]
      BY <2>1, <2>3, SemTypeSplits DEF MutexInv, SemTypes, WaitDecrement
    <3>2. QED
      BY <3>1 DEF MutexInv, HeldByOne
  <2>4. QED
    BY <2>2, <2>3
<1>6. MutexIsBinary'
  BY <1>2, SemTypeSplits, SemAssumption DEF MutexInv, SemTypes, MutexIsBinary, WaitDecrement
<1>7. QED
  BY <1>1, <1>3, <1>5, <1>6, SemTypeSplits DEF MutexInv

\* The other steps of semaphore_wait() do not touch the value.
LEMMA WaitMutex ==
  ASSUME MutexInv, NEW t \in Threads,
         \/ \E s \in Sems : WaitCall(t, s)
         \/ WaitSeesZero(t)
         \/ WaitEnqueue(t)
         \/ WaitSleep(t)
  PROVE  MutexInv'
<1>1. UNCHANGED vars \/ Sleep
  BY DEF WaitCall, WaitSeesZero, WaitEnqueue, WaitSleep
<1>2. TypeOK'
  <2>1. CASE UNCHANGED vars
    BY <2>1, SemTypeSplits DEF MutexInv, vars, schedVars, threadVars, TypeOK, SchedTypeOK
  <2>2. CASE Sleep
    BY <2>2, StepTypes, SemTypeSplits DEF MutexInv, ThreadStep
  <2>3. QED
    BY <1>1, <2>1, <2>2
<1>3. UNCHANGED <<val, popped, holding>>
  BY DEF WaitCall, WaitSeesZero, WaitEnqueue, WaitSleep
<1>4. SemTypes'
  BY SemTypeSplits
     DEF MutexInv, SemTypes, WaitCall, WaitSeesZero, WaitEnqueue, WaitSleep, Goto, Pc, ThreadOrNull
<1>5. QED
  BY <1>2, <1>3, <1>4, SemTypeSplits DEF MutexInv, HeldByOne, MutexIsBinary

\* semaphore_signal(), its increment: who signals a mutex holds it.
LEMMA IncrementMutex ==
  ASSUME MutexInv, NEW t \in Threads, NEW s \in Sems, ClientSignal(t, s) PROVE MutexInv'
<1>1. SignalIncrement(t, s)
  BY DEF ClientSignal
<1>2. TypeOK'
  BY <1>1, SemTypeSplits DEF MutexInv, SignalIncrement, vars, schedVars, threadVars, TypeOK,
     SchedTypeOK
<1>3. s \in Mutexes => val[s] = 0
  BY DEF ClientSignal, MutexInv, HeldByOne
<1>4. val[s] + 1 \in 0 .. MaxVal
  BY <1>3, SemTypeSplits, SemAssumption DEF ClientSignal, MutexInv, SemTypes
<1>5. SemTypes'
  BY <1>1, <1>4, SemTypeSplits DEF MutexInv, SemTypes, SignalIncrement, Goto, Pc
<1>6. \A u \in Threads : s \in Mutexes => s \notin holding'[u]
  BY <1>1, SemTypeSplits DEF ClientSignal, MutexInv, SemTypes, HeldByOne, SignalIncrement
<1>7. HeldByOne'
  <2> SUFFICES ASSUME NEW m \in Mutexes, NEW u \in Threads, m \in holding'[u]
               PROVE  val'[m] = 0 /\ \A v \in Threads : m \in holding'[v] => v = u
    BY DEF HeldByOne
  <2>1. m # s /\ m \in Sems
    BY <1>6, SemAssumption
  <2>2. val'[m] = val[m] /\ \A v \in Threads : m \in holding'[v] <=> m \in holding[v]
    BY <1>1, <2>1, SemTypeSplits DEF MutexInv, SemTypes, SignalIncrement
  <2>3. QED
    BY <2>2 DEF MutexInv, HeldByOne
<1>8. MutexIsBinary'
  BY <1>1, <1>3, SemTypeSplits, SemAssumption DEF MutexInv, SemTypes, MutexIsBinary, SignalIncrement
<1>9. QED
  BY <1>2, <1>5, <1>7, <1>8, SemTypeSplits DEF MutexInv

\* A wait queue without its first thread is well typed.
LEMMA PopTypes ==
  ASSUME SemTypes, NEW s \in Sems, PopQueue(s)
  PROVE  queue_head' \in [Sems -> ThreadOrNull] /\ queue_head[s] \in ThreadOrNull
BY DEF SemTypes, PopQueue, ThreadOrNull

\* semaphore_signal(), the rest
LEMMA SignalMutex ==
  ASSUME MutexInv, NEW t \in Threads, SignalPop(t) \/ SignalWake(t) PROVE MutexInv'
<1>1. CASE SignalPop(t)
  <2>1. sem[t] \in Sems
    BY SemTypeSplits DEF MutexInv, SemTypes
  <2>2. queue_head' \in [Sems -> ThreadOrNull] /\ queue_head[sem[t]] \in ThreadOrNull
    BY <1>1, <2>1, PopTypes, SemTypeSplits DEF MutexInv, SignalPop
  <2>3. SemTypes'
    BY <1>1, <2>2, SemTypeSplits DEF MutexInv, SemTypes, SignalPop, Goto, Pc
  <2>4. TypeOK'
    BY <1>1, SemTypeSplits DEF MutexInv, SignalPop, vars, schedVars, threadVars, TypeOK, SchedTypeOK
  <2>5. QED
    BY <1>1, <2>3, <2>4, SemTypeSplits DEF MutexInv, SignalPop, HeldByOne, MutexIsBinary
<1>2. CASE SignalWake(t)
  <2>1. TypeOK'
    BY <1>2, WakeTypes, SemTypeSplits DEF MutexInv, SignalWake
  <2>2. SemTypes'
    BY <1>2, SemTypeSplits DEF MutexInv, SemTypes, SignalWake, Goto, Pc, ThreadOrNull
  <2>3. QED
    BY <1>2, <2>1, <2>2, SemTypeSplits DEF MutexInv, SignalWake, HeldByOne, MutexIsBinary
<1>3. QED
  BY <1>1, <1>2

\* semaphore_signal() in an interrupt handler: mutexes are not signalled there.
LEMMA IrqMutex == ASSUME MutexInv, NEW s \in Sems, IrqSignal(s) PROVE MutexInv'
<1>1. TypeOK'
  BY WakeTypes, SemTypeSplits DEF MutexInv, IrqSignal
<1>2. queue_head' \in [Sems -> ThreadOrNull]
  BY PopTypes, SemTypeSplits DEF MutexInv, IrqSignal
<1>3. val[s] + 1 \in 0 .. MaxVal
  BY SemTypeSplits, SemAssumption DEF MutexInv, SemTypes, IrqSignal
<1>4. SemTypes'
  BY <1>2, <1>3, SemTypeSplits DEF MutexInv, SemTypes, IrqSignal
<1>5. \A m \in Mutexes : m \in Sems /\ m # s /\ val'[m] = val[m]
  BY SemTypeSplits, SemAssumption DEF MutexInv, SemTypes, IrqSignal
<1>6. QED
  BY <1>1, <1>4, <1>5, SemTypeSplits DEF MutexInv, IrqSignal, HeldByOne, MutexIsBinary

\* Every step of SemNext is one of those above.
LEMMA StepCases ==
  ASSUME SemNext
  PROVE  \/ \E t \in Threads, s \in Sems : WaitCall(t, s) \/ ClientSignal(t, s)
         \/ \E t \in Threads : \/ WaitDecrement(t) \/ WaitSeesZero(t) \/ WaitEnqueue(t)
                               \/ WaitSleep(t) \/ SignalPop(t) \/ SignalWake(t)
         \/ \E s \in Sems : IrqSignal(s)
         \/ ThreadStep /\ UNCHANGED semVars
BY DEF SemNext, ClientWait, InSemaphore, InKernel, SemSpawn, SemYield, SemKill, SemSleepCheckKill,
       SemRunYield, RunYield, ThreadStep

\* Every step keeps the invariant of the mutexes.
LEMMA MutexStep == MutexInv /\ [SemNext]_allVars => MutexInv'
<1>1. ASSUME MutexInv, UNCHANGED allVars PROVE MutexInv'
  <2>1. TypeOK' /\ SemTypes'
    BY <1>1, SemTypeSplits
       DEF MutexInv, allVars, vars, schedVars, threadVars, semVars, TypeOK, SchedTypeOK, SemTypes
  <2>2. QED
    BY <1>1, <2>1, SemTypeSplits DEF MutexInv, allVars, semVars, HeldByOne, MutexIsBinary
<1>2. QED
  BY <1>1, StepCases, WaitMutex, DecrementMutex, IncrementMutex, SignalMutex, IrqMutex,
     ThreadStepMutex

\* It holds in every state.
LEMMA MutexAlways == SemSpec => []MutexInv
BY MutexInit, MutexStep, PTL DEF SemSpec

\* Type correctness of threads and semaphores.
THEOREM SemTypesCorrect == SemSpec => []SemTypeOK
BY MutexAlways, PTL DEF MutexInv

\* mutex_acquire() returns to one thread at a time, whatever yields, sleeps,
\* interrupts and kills come between its steps.
THEOREM MutexesExclude == SemSpec => []MutualExclusion
<1>1. MutexInv => MutualExclusion
  BY SemTypeSplits DEF MutexInv, HeldByOne, MutualExclusion, SemTypes
<1>2. QED
  BY <1>1, MutexAlways, PTL

----------------------------------------------------------------------------
\* A killed thread does not run.
LEMMA StepRunner ==
  ASSUME BootSurvives, MutexInv, RunnerNotKilled, [SemNext]_allVars PROVE RunnerNotKilled'
<1>1. TypeOK
  BY SemTypeSplits DEF MutexInv
<1>2. ASSUME NEW u, TryWake(u) PROVE UNCHANGED <<request_kill, current, cpu>>
  BY <1>2 DEF TryWake, vars, threadVars
<1>3. CASE UNCHANGED vars
  BY <1>3 DEF RunnerNotKilled, vars, threadVars
<1>4. ASSUME NEW t \in Threads, WaitSleep(t) PROVE RunnerNotKilled'
  BY <1>4 DEF RunnerNotKilled, WaitSleep, Sleep
<1>5. ASSUME NEW t \in Threads, SignalWake(t) PROVE RunnerNotKilled'
  BY <1>2, <1>5 DEF RunnerNotKilled, SignalWake
<1>6. ASSUME NEW s \in Sems, IrqSignal(s) PROVE RunnerNotKilled'
  BY <1>2, <1>6 DEF RunnerNotKilled, IrqSignal
<1>7. ASSUME NEW t \in Threads, SemKill(t) PROVE RunnerNotKilled'
  BY <1>1, <1>7 DEF BootSurvives, RunnerNotKilled, SemKill, Kill, At, TypeOK
<1>8. ASSUME NEW t \in Threads, SemSpawn(t) PROVE RunnerNotKilled'
  BY <1>1, <1>8 DEF RunnerNotKilled, SemSpawn, Spawn, TypeOK
<1>9. ASSUME NEW t \in Threads, SemYield(t) PROVE RunnerNotKilled'
  BY <1>9 DEF RunnerNotKilled, SemYield, Yield
<1>10. ASSUME InKernel PROVE RunnerNotKilled'
  BY <1>10 DEF RunnerNotKilled, InKernel, SemSleepCheckKill, SemRunYield, RunYield,
               SleepCheckKill, SwitchTo, BuryKilled, YieldReturns, InYield
<1>11. QED
  BY <1>3, <1>4, <1>5, <1>6, <1>7, <1>8, <1>9, <1>10
     DEF SemNext, ClientWait, ClientSignal, WaitCall, SignalIncrement, InSemaphore, WaitDecrement,
         WaitSeesZero, WaitEnqueue, SignalPop, allVars

\* A thread killed while it sleeps in semaphore_wait(), or waits to run, never
\* comes back to take the semaphore.
THEOREM KilledAcquireNothing == ASSUME BootSurvives PROVE SemSpec => KilledNeverAcquires
<1>1. SemInit => RunnerNotKilled
  BY ThreadsAssumption DEF SemInit, SemInitWith, Init, RunnerNotKilled
<1>2. SemSpec => [](MutexInv /\ RunnerNotKilled)
  <2>1. (MutexInv /\ RunnerNotKilled) /\ [SemNext]_allVars => (MutexInv /\ RunnerNotKilled)'
    BY MutexStep, StepRunner
  <2>2. QED
    BY <1>1, <2>1, MutexInit, PTL DEF SemSpec
<1>3. RunnerNotKilled => \A t \in Threads : request_kill[t] => ~WaitDecrement(t)
  BY DEF RunnerNotKilled, WaitDecrement, At
<1>4. QED
  BY <1>2, <1>3, PTL DEF KilledNeverAcquires

----------------------------------------------------------------------------
(***************************************************************************)
(* thread.c under the semaphores: the invariant IInv of thread.c alone,    *)
(* when the boot thread is always runnable                                 *)
(***************************************************************************)

\* A thread_t that has not been handed out is as the slab's template has it.
UnbornAreReady == \A t \in Threads \ live : state[t] = "READY"

\* thread.c under the semaphores, with an idle boot thread.
KernelInv ==
  /\ IInv
  /\ RunningIsRunnable
  /\ UnreachableIsUnreachable
  /\ RunnerNotKilled
  /\ UnbornAreReady

\* threading_init()
LEMMA KernelInit == ASSUME Init PROVE KernelInv
BY InitIInv, ThreadsAssumption
   DEF Init, KernelInv, RunningIsRunnable, UnreachableIsUnreachable, Runnable, RunnerNotKilled,
       UnbornAreReady

\* Nothing happens in thread.c.
LEMMA KernelStutter == ASSUME KernelInv, UNCHANGED vars PROVE KernelInv'
<1>1. IInv'
  BY StutterIInv DEF KernelInv
<1>2. QED
  BY <1>1 DEF KernelInv, vars, threadVars, RunningIsRunnable, UnreachableIsUnreachable, Runnable,
              RunnerNotKilled, UnbornAreReady

\* thread_wake(), whoever calls it for whomever.
LEMMA KernelWake == ASSUME KernelInv, NEW u, TryWake(u) PROVE KernelInv'
<1>1. CASE u \in Threads /\ state[u] = "SLEEP"
  <2>1. ThreadWake(u) /\ UNCHANGED <<live, request_kill, current, cpu>>
    BY <1>1 DEF TryWake
  <2>2. u \in live
    BY <1>1 DEF KernelInv, UnbornAreReady
  <2>3. ~OnCpu(u) /\ cpu # "panic" /\ ~request_kill[current]
    BY <1>1 DEF KernelInv, OnCpu, RunningIsRunnable, UnreachableIsUnreachable, Runnable,
                RunnerNotKilled, IInv, TypeOK, Cpu
  <2>4. IInv'
    BY <2>1, <2>2, <2>3, WokenIInv DEF KernelInv
  <2>5. QED
    BY <1>1, <2>1, <2>2, <2>4
       DEF KernelInv, ThreadWake, RunningIsRunnable, UnreachableIsUnreachable, Runnable,
           RunnerNotKilled, UnbornAreReady, IInv, TypeOK
<1>2. CASE ~(u \in Threads /\ state[u] = "SLEEP")
  BY <1>2, KernelStutter DEF TryWake
<1>3. QED
  BY <1>1, <1>2

\* The steps of thread.c that threads take, when only the boot thread kills.
LEMMA KernelStep ==
  ASSUME BootIdles, KernelInv, ThreadStep, \A t \in Threads : Kill(t) => current = Boot
  PROVE  KernelInv'
<1> USE DEF KernelInv
<1>1. IInv' /\ ~YieldReturns
  BY SpawnIInv, QuietIInv, YieldIInv, TakeIInv, SomebodyIsReady DEF ThreadStep
<1>2. ASSUME NEW t \in Threads, Spawn(t) \/ Kill(t) PROVE KernelInv'
  BY <1>1, <1>2 DEF BootIdles, Spawn, Kill, RunningIsRunnable, UnreachableIsUnreachable, Runnable,
              RunnerNotKilled, UnbornAreReady, IInv, TypeOK
<1>3. CASE Yield \/ Sleep \/ SleepCheckKill
  BY <1>1, <1>3 DEF Yield, Sleep, SleepCheckKill, RunningIsRunnable, UnreachableIsUnreachable,
              Runnable, RunnerNotKilled, UnbornAreReady, IInv, TypeOK
<1>4. CASE SwitchTo \/ BuryKilled
  <2>1. ready_s \in Threads /\ Runnable(ready_s)
    BY <1>4, NextStep DEF SwitchTo, BuryKilled, InYield, OnCpu, IInv, ReadyAreQueued
  <2>2. QED
    BY <1>1, <1>4, <2>1
       DEF SwitchTo, BuryKilled, IInv, TypeOK, RunningIsRunnable, UnreachableIsUnreachable,
       Runnable,
           RunnerNotKilled, UnbornAreReady
<1>5. QED
  BY <1>1, <1>2, <1>3, <1>4 DEF ThreadStep

----------------------------------------------------------------------------
(***************************************************************************)
(* The invariant of the wait queues                                        *)
(***************************************************************************)

\* The types of the semaphores, whose values nothing bounds.
WaitTypes ==
  /\ val \in [Sems -> Nat]
  /\ queue_head \in [Sems -> ThreadOrNull]
  /\ semaphore_next \in [Threads -> ThreadOrNull]
  /\ pc \in [Threads -> Pc]
  /\ sem \in [Threads -> Sems]
  /\ popped \in ThreadOrNull

\* A thread gives up the processor outside the two functions, or in
\* thread_sleep(), which returns to the loop of semaphore_wait().
NotPreempted ==
  /\ \A t \in Threads : t # current \/ cpu # "run" => pc[t] \in {"client", "test"}
  /\ \A t \in Threads \ live : pc[t] = "client"

\* The thread a signaller has taken from the queue sleeps until it is woken.
PoppedSleeps ==
  /\ cpu = "run" /\ pc[current] = "wake" => popped # NULL
  /\ popped # NULL => cpu = "run" /\ pc[current] = "wake" /\ Asleep(popped, sem[current])

\* The queue of s, read through the pointers, is q.
Spells(q, s) ==
  /\ queue_head[s] = IF q = << >> THEN NULL ELSE q[1]
  /\ \A i \in DOMAIN q : semaphore_next[q[i]] = IF i < Len(q) THEN q[i + 1] ELSE NULL
  /\ \A i, j \in DOMAIN q : q[i] = q[j] => i = j

\* Who is on it waits; and who waits is on it, if there are no interrupts.
IsQueue(q, s) ==
  /\ Spells(q, s)
  /\ \A i \in DOMAIN q : InLine(q[i], s) /\ q[i] # popped
  /\ IrqSems = {} =>
       \A t \in Threads : InLine(t, s) => t = popped \/ \E i \in DOMAIN q : q[i] = t

\* Every wait queue is a list of its waiters.
QueuesAreLists == \A s \in Sems : \E q \in Seq(Threads) : IsQueue(q, s)

\* Without interrupts the value stays zero from the test to the sleep.
ZeroUntilAsleep ==
  IrqSems = {} /\ cpu = "run" /\ pc[current] \in {"enqueue", "sleep"} => val[sem[current]] = 0

\* The inductive invariant, up to lost wakeups.
WaitInv ==
  /\ KernelInv
  /\ WaitTypes
  /\ NotPreempted
  /\ PoppedSleeps
  /\ QueuesAreLists
  /\ ZeroUntilAsleep

\* What the callers of the two functions, and thread.c, do.
ThreadMove == (\E t \in Threads : SemSpawn(t) \/ SemYield(t) \/ SemKill(t)) \/ InKernel

\* Every step of semaphores, whatever calls the two functions.
SemMove ==
  \/ \E t \in Threads, s \in Sems : WaitCall(t, s) \/ SignalIncrement(t, s)
  \/ \E t \in Threads : InSemaphore(t)
  \/ \E s \in Sems : IrqSignal(s)
  \/ ThreadMove
  \/ UNCHANGED allVars

\* semaphore_init()
LEMMA WaitInit == ASSUME NEW v \in [Sems -> Nat], SemInitWith(v) PROVE WaitInv
<1>1. KernelInv
  BY KernelInit DEF SemInitWith
<1>2. (CHOOSE s \in Sems : TRUE) \in Sems
  BY SemAssumption
<1>3. WaitTypes
  BY <1>2 DEF SemInitWith, WaitTypes, ThreadOrNull, Pc
<1>4. \A t \in Threads, s \in Sems : ~InLine(t, s)
  BY DEF SemInitWith, Init, InLine, Asleep, At
<1>5. \A s \in Sems : IsQueue(<< >>, s)
  BY <1>4 DEF IsQueue, Spells, SemInitWith
<1>6. QueuesAreLists
  <2>1. << >> \in Seq(Threads)
    OBVIOUS
  <2>2. QED
    BY <1>5, <2>1 DEF QueuesAreLists
<1>7. NotPreempted /\ PoppedSleeps /\ ZeroUntilAsleep
  BY ThreadsAssumption DEF SemInitWith, Init, NotPreempted, PoppedSleeps, ZeroUntilAsleep, TypeOK
<1>8. QED
  BY <1>1, <1>3, <1>6, <1>7 DEF WaitInv

\* A step that takes nobody to a wait queue or from one.
LEMMA SameQueues ==
  ASSUME QueuesAreLists, UNCHANGED << queue_head, semaphore_next >>,
         popped' \in {popped, NULL},
         \A u \in Threads, s \in Sems :
           InLine(u, s)' <=> InLine(u, s) /\ (u = popped => popped' = popped)
  PROVE  QueuesAreLists'
<1> SUFFICES ASSUME NEW s \in Sems PROVE (\E q \in Seq(Threads) : IsQueue(q, s))'
  BY DEF QueuesAreLists
<1>1. PICK q \in Seq(Threads) : IsQueue(q, s)
  BY DEF QueuesAreLists
<1>2. Spells(q, s)'
  BY <1>1 DEF IsQueue, Spells
<1>3. \A i \in DOMAIN q : q[i] \in Threads
  OBVIOUS
<1>4. \A i \in DOMAIN q : InLine(q[i], s)' /\ q[i] # popped'
  BY <1>1, <1>3, NullAssumption DEF IsQueue
<1>5. ASSUME IrqSems = {}, NEW t \in Threads, InLine(t, s)'
      PROVE  t = popped' \/ \E i \in DOMAIN q : q[i] = t
  BY <1>1, <1>5 DEF IsQueue
<1>6. IsQueue(q, s)'
  BY <1>2, <1>4, <1>5 DEF IsQueue
<1>7. QED
  BY <1>6

\* While thread t runs, it does not sleep.
LEMMA RunnerAwake ==
  ASSUME WaitInv, NEW t, NEW p, At(t, p)
  PROVE  t \in Threads /\ t \in live /\ state[t] \in {"READY", "RUN"} /\ current = t /\ pc[t] = p
         /\ cpu = "run"
BY DEF WaitInv, KernelInv, IInv, TypeOK, RunningIsRunnable, Runnable, At

\* The calls, and the test of the value.
LEMMA CallStep ==
  ASSUME WaitInv, NEW t \in Threads,
         \/ \E s \in Sems : WaitCall(t, s) \/ SignalIncrement(t, s)
         \/ WaitDecrement(t) \/ WaitSeesZero(t)
  PROVE  WaitInv'
<1>1. PICK p \in {"client", "test"} : At(t, p)
  BY DEF WaitCall, SignalIncrement, WaitDecrement, WaitSeesZero
<1>2. t \in live /\ state[t] \in {"READY", "RUN"} /\ current = t /\ pc[t] = p /\ cpu = "run"
  BY <1>1, RunnerAwake
<1>3. UNCHANGED << vars, queue_head, semaphore_next, popped >>
  BY DEF WaitCall, SignalIncrement, WaitDecrement, WaitSeesZero
<1>4. KernelInv'
  BY <1>3, KernelStutter DEF WaitInv
<1>5. WaitTypes /\ popped = NULL
  BY <1>2 DEF WaitInv, PoppedSleeps
<1>6. WaitTypes'
  BY <1>3, <1>5 DEF WaitTypes, WaitCall, SignalIncrement, WaitDecrement, WaitSeesZero, Goto, Pc
<1>7. PICK g \in {"client", "test", "enqueue", "pop"} : pc' = [pc EXCEPT ![t] = g]
  BY DEF WaitCall, SignalIncrement, WaitDecrement, WaitSeesZero, Goto
<1>8. \A u \in Threads \ {t} : pc'[u] = pc[u] /\ sem'[u] = sem[u]
  BY <1>5, <1>7 DEF WaitTypes, WaitCall, SignalIncrement, WaitDecrement, WaitSeesZero
<1>9. pc'[t] = g
  BY <1>5, <1>7 DEF WaitTypes
<1>10. UNCHANGED << live, state, current, cpu >>
  BY <1>3 DEF vars, threadVars
<1>11. \A u \in Threads, s \in Sems : InLine(u, s)' <=> InLine(u, s)
  BY <1>2, <1>8, <1>9, <1>10 DEF InLine, Asleep, At
<1>12. QueuesAreLists'
  BY <1>3, <1>11, SameQueues DEF WaitInv
<1>13. NotPreempted'
  BY <1>2, <1>8, <1>9, <1>10 DEF WaitInv, NotPreempted
<1>14. PoppedSleeps'
  BY <1>2, <1>3, <1>5, <1>9, <1>10 DEF PoppedSleeps
<1>15. ZeroUntilAsleep'
  <2>1. CASE g = "enqueue"
    <3>1. WaitSeesZero(t)
      BY <1>5, <1>7, <2>1 DEF WaitCall, SignalIncrement, WaitDecrement, WaitSeesZero, Goto,
         WaitTypes
    <3>2. QED
      BY <1>2, <1>10, <3>1 DEF ZeroUntilAsleep, WaitSeesZero
  <2>2. CASE g # "enqueue"
    BY <1>2, <1>9, <1>10, <2>2 DEF ZeroUntilAsleep
  <2>3. QED
    BY <2>1, <2>2
<1>16. QED
  BY <1>4, <1>6, <1>12, <1>13, <1>14, <1>15 DEF WaitInv

----------------------------------------------------------------------------
(***************************************************************************)
(* Every step keeps the invariant: joining the queue, sleeping, and leaving it *)
(***************************************************************************)

\* On its way to sleep, a thread becomes the first of the queue.
LEMMA EnqueueStep == ASSUME WaitInv, NEW t \in Threads, WaitEnqueue(t) PROVE WaitInv'
<1>1. At(t, "enqueue")
  BY DEF WaitEnqueue
<1>2. t \in live /\ state[t] \in {"READY", "RUN"} /\ current = t /\ pc[t] = "enqueue" /\ cpu = "run"
  BY <1>1, RunnerAwake
<1>3. WaitTypes /\ popped = NULL /\ popped' = NULL /\ UNCHANGED << vars, val, sem >>
  BY <1>2 DEF WaitInv, PoppedSleeps, WaitEnqueue
<1>4. PICK z \in Sems : z = sem[t]
  BY <1>3 DEF WaitTypes
<1>5. PICK h : h = queue_head[z]
  OBVIOUS
<1>6. /\ semaphore_next' = [semaphore_next EXCEPT ![t] = h]
      /\ queue_head' = [queue_head EXCEPT ![z] = t]
      /\ pc' = [pc EXCEPT ![t] = "sleep"]
  BY <1>4, <1>5 DEF WaitEnqueue, Goto
<1>7. WaitTypes'
  BY <1>3, <1>4, <1>5, <1>6 DEF WaitTypes, Pc, ThreadOrNull
<1>8. UNCHANGED << live, state, current, cpu, sem >>
  BY <1>3 DEF vars, threadVars
<1>9. /\ pc'[t] = "sleep" /\ \A u \in Threads \ {t} : pc'[u] = pc[u]
      /\ queue_head'[z] = t /\ \A s \in Sems \ {z} : queue_head'[s] = queue_head[s]
      /\ semaphore_next'[t] = h /\ \A u \in Threads \ {t} : semaphore_next'[u] = semaphore_next[u]
  BY <1>3, <1>6 DEF WaitTypes
<1>10. /\ InLine(t, z)' /\ \A s \in Sems : ~InLine(t, s) /\ (s # z => ~InLine(t, s)')
       /\ \A u \in Threads \ {t}, s \in Sems : InLine(u, s)' <=> InLine(u, s)
  BY <1>2, <1>4, <1>8, <1>9 DEF InLine, Asleep, At
<1>11. ASSUME NEW s \in Sems PROVE (\E q \in Seq(Threads) : IsQueue(q, s))'
  <2>1. PICK q \in Seq(Threads) : IsQueue(q, s)
    BY DEF WaitInv, QueuesAreLists
  <2>2. /\ Len(q) \in Nat /\ DOMAIN q = 1 .. Len(q)
        /\ \A i \in 1 .. Len(q) : q[i] \in Threads
    OBVIOUS
  <2>3. \A i \in 1 .. Len(q) : InLine(q[i], s) /\ q[i] # t
    BY <1>10, <2>1, <2>2 DEF IsQueue
  <2>4. CASE s # z
    <3>1. Spells(q, s)'
      BY <1>9, <2>1, <2>2, <2>3, <2>4 DEF IsQueue, Spells
    <3>2. \A i \in DOMAIN q : InLine(q[i], s)' /\ q[i] # NULL
      BY <1>10, <2>2, <2>3, NullAssumption
    <3>3. IrqSems = {} => \A u \in Threads : InLine(u, s)' => \E i \in DOMAIN q : q[i] = u
      <4>1. IrqSems = {} => \A u \in Threads : InLine(u, s) => \E i \in DOMAIN q : q[i] = u
        BY <1>3, <2>1, NullAssumption DEF IsQueue
      <4>2. QED
        BY <1>10, <2>4, <4>1
    <3>4. IsQueue(q, s)'
      BY <1>3, <3>1, <3>2, <3>3 DEF IsQueue
    <3>5. QED
      BY <3>4
  <2>5. CASE s = z
    <3> DEFINE r == << t >> \o q
    <3>1. /\ r \in Seq(Threads) /\ Len(r) = Len(q) + 1 /\ DOMAIN r = 1 .. Len(q) + 1
          /\ r[1] = t /\ \A i \in 1 .. Len(q) : r[i + 1] = q[i]
      BY <2>2
    <3>2. PICK f \in Seq(Threads) : f = r
      BY <3>1
    <3> HIDE DEF r
    <3>3. \A i \in 1 .. Len(f) : f[i] = IF i = 1 THEN t ELSE q[i - 1]
      <4>1. \A i \in 1 .. Len(q) + 1 : i = 1 \/ (i - 1 \in 1 .. Len(q) /\ f[(i - 1) + 1] = q[i - 1])
        BY <2>2, <3>1, <3>2
      <4>2. QED
        BY <2>2, <3>1, <3>2, <4>1
    <3>4. /\ DOMAIN f = 1 .. Len(f) /\ Len(f) = Len(q) + 1 /\ f # << >>
          /\ \A i \in 1 .. Len(f) : i # 1 => i - 1 \in 1 .. Len(q)
      BY <2>2, <3>1, <3>2
    <3>5. h = IF q = << >> THEN NULL ELSE q[1]
      BY <1>5, <2>1, <2>5 DEF IsQueue, Spells
    <3>6. Spells(f, s)'
      <4>1. queue_head'[s] = f[1]
        BY <1>9, <2>5, <3>3, <3>4
      <4>2. ASSUME NEW i \in 1 .. Len(f)
            PROVE  semaphore_next'[f[i]] = IF i < Len(f) THEN f[i + 1] ELSE NULL
        <5>1. CASE i = 1
          BY <1>9, <2>2, <3>3, <3>4, <3>5, <5>1
        <5>2. CASE i # 1
          <6>1. i - 1 \in 1 .. Len(q) /\ f[i] = q[i - 1] /\ q[i - 1] # t /\ q[i - 1] \in Threads
            BY <2>2, <2>3, <3>3, <3>4, <5>2
          <6>2. semaphore_next[q[i - 1]] = IF i - 1 < Len(q) THEN q[(i - 1) + 1] ELSE NULL
            BY <2>1, <2>2, <6>1 DEF IsQueue, Spells
          <6>3. i - 1 < Len(q) <=> i < Len(f)
            BY <2>2, <3>4
          <6>4. i < Len(f) => f[i + 1] = q[(i - 1) + 1]
            <7>1. i < Len(f) => i + 1 \in 1 .. Len(f) /\ i + 1 # 1 /\ (i + 1) - 1 = (i - 1) + 1
              BY <2>2, <3>4
            <7>2. QED
              BY <3>3, <7>1
          <6>5. QED
            BY <1>9, <6>1, <6>2, <6>3, <6>4
        <5>3. QED
          BY <5>1, <5>2
      <4>3. ASSUME NEW i \in 1 .. Len(f), NEW j \in 1 .. Len(f), f[i] = f[j] PROVE i = j
        <5>1. i # 1 => i - 1 \in 1 .. Len(q) /\ f[i] = q[i - 1] /\ q[i - 1] # t
          BY <2>3, <3>3, <3>4
        <5>2. j # 1 => j - 1 \in 1 .. Len(q) /\ f[j] = q[j - 1] /\ q[j - 1] # t
          BY <2>3, <3>3, <3>4
        <5>3. f[1] = t
          BY <2>2, <3>3, <3>4
        <5>4. \A k, l \in 1 .. Len(q) : q[k] = q[l] => k = l
          BY <2>1, <2>2 DEF IsQueue, Spells
        <5>5. i # 1 /\ j # 1 => i - 1 = j - 1
          BY <4>3, <5>1, <5>2, <5>4
        <5>6. QED
          BY <4>3, <5>1, <5>2, <5>3, <5>5
      <4>4. QED
        BY <3>4, <4>1, <4>2, <4>3 DEF Spells
    <3>7. \A i \in 1 .. Len(f) : f[i] \in Threads /\ InLine(f[i], s)'
      BY <1>10, <2>2, <2>3, <2>5, <3>3, <3>4
    <3>8. ASSUME IrqSems = {}, NEW u \in Threads, InLine(u, s)' PROVE \E i \in 1 .. Len(f) : f[i] = u
      <4>1. CASE u = t
        BY <2>2, <3>3, <3>4, <4>1
      <4>2. CASE u # t
        <5>1. PICK i \in 1 .. Len(q) : q[i] = u
          BY <1>3, <1>10, <2>1, <2>2, <3>8, <4>2, NullAssumption DEF IsQueue
        <5>2. i + 1 \in 1 .. Len(f) /\ i + 1 # 1 /\ (i + 1) - 1 = i
          BY <2>2, <3>4
        <5>3. f[i + 1] = u
          BY <3>3, <5>1, <5>2
        <5>4. QED
          BY <5>2, <5>3
      <4>3. QED
        BY <4>1, <4>2
    <3>9. IsQueue(f, s)'
      BY <1>3, <3>4, <3>6, <3>7, <3>8, NullAssumption DEF IsQueue
    <3>10. QED
      BY <3>9
  <2>6. QED
    BY <2>4, <2>5
<1>12. QueuesAreLists'
  BY <1>11 DEF QueuesAreLists
<1>13. KernelInv'
  BY <1>3, KernelStutter DEF WaitInv
<1>14. NotPreempted' /\ PoppedSleeps'
  BY <1>2, <1>3, <1>8, <1>9 DEF WaitInv, NotPreempted, PoppedSleeps
<1>15. ZeroUntilAsleep'
  BY <1>2, <1>3, <1>8, <1>9 DEF WaitInv, ZeroUntilAsleep
<1>16. QED
  BY <1>7, <1>12, <1>13, <1>14, <1>15 DEF WaitInv

\* The waiter goes to sleep.
LEMMA SleepStep == ASSUME BootIdles, WaitInv, NEW t \in Threads, WaitSleep(t) PROVE WaitInv'
<1>1. At(t, "sleep") /\ Sleep
  BY DEF WaitSleep
<1>2. t \in live /\ state[t] \in {"READY", "RUN"} /\ current = t /\ pc[t] = "sleep" /\ cpu = "run"
  BY <1>1, RunnerAwake
<1>3. /\ WaitTypes /\ popped = NULL
      /\ UNCHANGED << val, sem, queue_head, semaphore_next, popped, live, current >>
      /\ pc' = [pc EXCEPT ![t] = "test"] /\ cpu' = "sleep"
      /\ state' = [state EXCEPT ![t] = "SLEEP"]
  BY <1>1, <1>2 DEF WaitInv, PoppedSleeps, WaitSleep, Goto, Sleep
<1>4. WaitTypes'
  BY <1>3 DEF WaitTypes, Pc
<1>5. /\ pc'[t] = "test" /\ state'[t] = "SLEEP"
      /\ \A u \in Threads \ {t} : pc'[u] = pc[u] /\ state'[u] = state[u]
  BY <1>3 DEF WaitTypes, WaitInv, KernelInv, IInv, TypeOK
<1>6. KernelInv'
  <2>1. ThreadStep
    BY <1>1 DEF ThreadStep
  <2>2. \A u \in Threads : ~Kill(u)
    BY <1>2, <1>3 DEF Kill
  <2>3. QED
    BY <2>1, <2>2, KernelStep DEF WaitInv
<1>7. \A u \in Threads, s \in Sems : InLine(u, s)' <=> InLine(u, s)
  BY <1>2, <1>3, <1>5 DEF InLine, Asleep, At
<1>8. QueuesAreLists'
  BY <1>3, <1>7, SameQueues DEF WaitInv
<1>9. NotPreempted' /\ PoppedSleeps' /\ ZeroUntilAsleep'
  BY <1>2, <1>3, <1>5 DEF WaitInv, NotPreempted, PoppedSleeps, ZeroUntilAsleep
<1>10. QED
  BY <1>4, <1>6, <1>8, <1>9 DEF WaitInv

\* What thread.c does under the semaphores leaves asleep who sleeps on one.
LEMMA ThreadMoveStep == ASSUME BootIdles, WaitInv, ThreadMove PROVE WaitInv'
<1>1. UNCHANGED << val, queue_head, semaphore_next, pc, sem, popped >>
  BY DEF ThreadMove, SemSpawn, SemYield, SemKill, InKernel, SemSleepCheckKill, SemRunYield, RunYield, semVars
<1>2. WaitTypes'
  BY <1>1 DEF WaitInv, WaitTypes
<1>3. /\ ThreadStep
      /\ \A t \in Threads : Kill(t) => current = Boot
  <2>1. ThreadStep
    BY DEF ThreadMove, SemSpawn, SemYield, SemKill, InKernel, SemSleepCheckKill, SemRunYield, RunYield, ThreadStep
  <2>2. ASSUME NEW t \in Threads, Kill(t) PROVE current = Boot
    <3>1. /\ cpu = "run" /\ current' = current /\ cpu' = cpu /\ request_kill' # request_kill
      BY <2>2 DEF Kill, WaitInv, KernelInv, IInv, TypeOK
    <3>2. CASE \E u \in Threads : SemKill(u)
      BY <3>2 DEF SemKill, At
    <3>3. CASE \E u \in Threads : SemSpawn(u)
      BY <3>3 DEF SemSpawn, At
    <3>4. CASE (\E u \in Threads : SemYield(u)) \/ InKernel
      BY <3>1, <3>4 DEF SemYield, Yield, InKernel, SemSleepCheckKill, SemRunYield, RunYield,
               SleepCheckKill, SwitchTo, BuryKilled, YieldReturns, InYield
    <3>5. QED
      BY <3>2, <3>3, <3>4 DEF ThreadMove
  <2>3. QED
    BY <2>1, <2>2
<1>4. KernelInv' /\ ~YieldReturns
  BY <1>3, KernelStep, SomebodyIsReady DEF WaitInv, KernelInv
<1>5. TypeOK /\ RunnerNotKilled /\ UnbornAreReady /\ current \in live
  BY DEF WaitInv, KernelInv, IInv
<1>6. ASSUME NEW t \in Threads, SemSpawn(t) \/ SemYield(t) \/ SemKill(t)
      PROVE  /\ cpu = "run" /\ pc[current] = "client" /\ current' = current /\ live \subseteq live'
             /\ cpu' \in {"run", "yield"} /\ \A u \in live : state'[u] = state[u]
             /\ \A u \in Threads \ live : state'[u] = "READY"
  <2>1. CASE SemSpawn(t)
    BY <1>5, <2>1 DEF SemSpawn, At, Spawn, TypeOK, UnbornAreReady
  <2>2. CASE SemYield(t)
    BY <1>5, <2>2 DEF SemYield, At, Yield, TypeOK, UnbornAreReady, RunnerNotKilled
  <2>3. CASE SemKill(t)
    BY <1>5, <2>3 DEF SemKill, At, Kill, TypeOK, UnbornAreReady
  <2>4. QED
    BY <1>6, <2>1, <2>2, <2>3
<1>7. ASSUME InKernel
      PROVE  /\ cpu \in {"sleep", "yield", "last"} /\ UNCHANGED live
             /\ cpu' = "run" => current' = ready_s /\ Runnable(ready_s)
             /\ cpu' # "run" => current' = current
             /\ \A u \in Threads : state'[u] = state[u] \/ (u = ready_s /\ Runnable(ready_s) /\ state'[u] # "SLEEP")
  <2>1. ASSUME SwitchTo \/ BuryKilled PROVE ready_s \in Threads /\ Runnable(ready_s)
    BY <2>1, NextStep DEF SwitchTo, BuryKilled, InYield, OnCpu, WaitInv, KernelInv, IInv,
       ReadyAreQueued
  <2>2. CASE SemSleepCheckKill
    BY <1>5, <2>2 DEF SemSleepCheckKill, SleepCheckKill, RunnerNotKilled
  <2>3. CASE SwitchTo
    BY <1>5, <2>1, <2>3 DEF SwitchTo, InYield, TypeOK
  <2>4. CASE BuryKilled
    BY <1>5, <2>1, <2>4 DEF BuryKilled, InYield, TypeOK
  <2>5. QED
    BY <1>4, <1>7, <2>2, <2>3, <2>4 DEF InKernel, SemRunYield, RunYield
<1>8. \A u \in Threads : state[u] = "SLEEP" <=> state'[u] = "SLEEP"
  BY <1>5, <1>6, <1>7 DEF ThreadMove, Runnable, UnbornAreReady
<1>9. \A u \in Threads : At(u, "sleep")' <=> At(u, "sleep")
  <2>1. CASE InKernel
    BY <1>1, <1>7, <2>1 DEF At, WaitInv, NotPreempted
  <2>2. CASE ~InKernel
    BY <1>1, <1>6, <2>2 DEF At, ThreadMove
  <2>3. QED
    BY <2>1, <2>2
<1>10. \A u \in Threads, s \in Sems : InLine(u, s)' <=> InLine(u, s)
  BY <1>1, <1>8, <1>9 DEF InLine, Asleep
<1>11. QueuesAreLists'
  BY <1>1, <1>10, SameQueues DEF WaitInv
<1>12. /\ \A t \in Threads : pc[t] \in {"client", "test"}
       /\ popped = NULL
  BY <1>6, <1>7 DEF ThreadMove, WaitInv, NotPreempted, PoppedSleeps
<1>13. NotPreempted' /\ PoppedSleeps' /\ ZeroUntilAsleep'
  <2>1. current' \in Threads /\ live \subseteq live'
    BY <1>4, <1>6, <1>7 DEF KernelInv, IInv, TypeOK, ThreadMove
  <2>2. QED
    BY <1>1, <1>12, <2>1 DEF WaitInv, NotPreempted, PoppedSleeps, ZeroUntilAsleep
<1>14. QED
  BY <1>2, <1>4, <1>11, <1>13 DEF WaitInv

\* q has the waiters of s without h.
IsRest(q, s, h) ==
  /\ \A i \in DOMAIN q : InLine(q[i], s) /\ q[i] # popped /\ q[i] # h
  /\ IrqSems = {} => \A t \in Threads :
       InLine(t, s) => t \in {popped, h} \/ \E i \in DOMAIN q : q[i] = t

\* Taking the first thread from the queue of z.
LEMMA PopKeepsQueues ==
  ASSUME QueuesAreLists, WaitTypes, NEW z \in Sems, PopQueue(z), UNCHANGED semaphore_next,
         NEW h \in ThreadOrNull, h = queue_head[z]
  PROVE  /\ h # NULL => InLine(h, z) /\ h # popped
         /\ IrqSems = {} /\ h = NULL => \A t \in Threads : InLine(t, z) => t = popped
         /\ \A s \in Sems : \E q \in Seq(Threads) : Spells(q, s)' /\ IsRest(q, s, h)
<1> USE NullAssumption
<1>1. PICK p \in Seq(Threads) : IsQueue(p, z)
  BY DEF QueuesAreLists
<1>2. /\ Len(p) \in Nat /\ DOMAIN p = 1 .. Len(p) /\ \A i \in 1 .. Len(p) : p[i] \in Threads
      /\ p = << >> <=> Len(p) = 0
  OBVIOUS
<1>3. /\ h = IF p = << >> THEN NULL ELSE p[1]
      /\ \A i \in 1 .. Len(p) : semaphore_next[p[i]] = IF i < Len(p) THEN p[i + 1] ELSE NULL
      /\ \A i, j \in 1 .. Len(p) : p[i] = p[j] => i = j
      /\ \A i \in 1 .. Len(p) : InLine(p[i], z) /\ p[i] # popped
      /\ IrqSems = {} => \A t \in Threads : InLine(t, z) => t = popped \/ \E i \in 1 .. Len(p) : p[i] = t
  BY <1>1, <1>2 DEF IsQueue, Spells
<1>4. h # NULL => InLine(h, z) /\ h # popped
  BY <1>2, <1>3
<1>5. IrqSems = {} /\ h = NULL => \A t \in Threads : InLine(t, z) => t = popped
  BY <1>2, <1>3
<1>6. queue_head' = IF h = NULL THEN queue_head ELSE [queue_head EXCEPT ![z] = semaphore_next[h]]
  BY DEF PopQueue
<1>7. ASSUME NEW s \in Sems
      PROVE  \E q \in Seq(Threads) : Spells(q, s)' /\ IsRest(q, s, h)
  <2>1. CASE s # z
    <3>1. PICK q \in Seq(Threads) : IsQueue(q, s)
      BY DEF QueuesAreLists
    <3>2. queue_head'[s] = queue_head[s]
      BY <1>6, <2>1 DEF WaitTypes
    <3>3. Spells(q, s)'
      BY <3>1, <3>2 DEF IsQueue, Spells
    <3>4. \A t \in Threads : ~(InLine(t, s) /\ InLine(t, z))
      BY <2>1 DEF InLine, Asleep
    <3>5. \A i \in DOMAIN q : q[i] \in Threads /\ InLine(q[i], s) /\ q[i] # popped
      BY <3>1 DEF IsQueue
    <3>6. \A i \in DOMAIN q : q[i] # h
      BY <1>4, <3>4, <3>5
    <3>7. QED
      BY <3>1, <3>3, <3>5, <3>6 DEF IsQueue, IsRest
  <2>2. CASE s = z /\ h = NULL
    <3>1. p = << >> /\ queue_head' = queue_head
      BY <1>2, <1>3, <1>6, <2>2
    <3>2. Spells(p, s)'
      BY <1>1, <2>2, <3>1 DEF IsQueue, Spells
    <3>3. \A i \in DOMAIN p : FALSE
      BY <1>2, <3>1
    <3>4. IrqSems = {} => \A t \in Threads : InLine(t, s) => t \in {popped, h}
      BY <1>5, <2>2
    <3>5. QED
      BY <3>2, <3>3, <3>4 DEF IsRest
  <2>3. CASE s = z /\ h # NULL
    <3>1. Len(p) \in Nat \ {0} /\ h = p[1] /\ h \in Threads
      BY <1>2, <1>3, <2>3
    <3>2. PICK q \in Seq(Threads) : q = Tail(p)
      <4>1. p # << >>
        BY <1>3, <2>3
      <4>2. Tail(p) \in Seq(Threads)
        BY <4>1
      <4>3. QED
        BY <4>2
    <3>3. /\ Len(q) = Len(p) - 1 /\ DOMAIN q = 1 .. Len(q)
          /\ \A i \in 1 .. Len(q) : q[i] = p[i + 1] /\ i + 1 \in 1 .. Len(p) /\ i + 1 # 1
          /\ q = << >> <=> Len(q) = 0
      <4>1. p # << >>
        BY <1>3, <2>3
      <4>2. Len(Tail(p)) = Len(p) - 1 /\ \A i \in 1 .. Len(p) - 1 : Tail(p)[i] = p[i + 1]
        BY <4>1
      <4>3. DOMAIN q = 1 .. Len(q) /\ (q = << >> <=> Len(q) = 0)
        OBVIOUS
      <4>4. QED
        BY <3>1, <3>2, <4>2, <4>3
    <3>4. queue_head'[s] = IF q = << >> THEN NULL ELSE q[1]
      <4>1. queue_head'[s] = semaphore_next[p[1]]
        BY <1>6, <2>3, <3>1 DEF WaitTypes
      <4>2. 1 \in 1 .. Len(p) /\ (1 < Len(p) => 1 \in 1 .. Len(q))
        BY <3>1, <3>3
      <4>3. QED
        BY <1>3, <3>1, <3>3, <4>1, <4>2
    <3>5. ASSUME NEW i \in 1 .. Len(q)
          PROVE  semaphore_next'[q[i]] = IF i < Len(q) THEN q[i + 1] ELSE NULL
      <4>1. i + 1 \in 1 .. Len(p) /\ q[i] = p[i + 1]
        BY <3>3
      <4>2. i + 1 < Len(p) <=> i < Len(q)
        BY <3>1, <3>3
      <4>3. i < Len(q) => q[i + 1] = p[(i + 1) + 1]
        BY <3>1, <3>3
      <4>4. QED
        BY <1>3, <4>1, <4>2, <4>3
    <3>6. \A i, j \in 1 .. Len(q) : q[i] = q[j] => i = j
      <4>1. \A i, j \in 1 .. Len(q) : q[i] = q[j] => i + 1 = j + 1
        BY <1>3, <3>3
      <4>2. QED
        BY <4>1
    <3>7. Spells(q, s)'
      BY <3>3, <3>4, <3>5, <3>6 DEF Spells
    <3>8. \A i \in 1 .. Len(q) : InLine(q[i], s) /\ q[i] # popped /\ q[i] # h
      <4>1. 1 \in 1 .. Len(p)
        BY <3>1
      <4>2. QED
        BY <1>3, <2>3, <3>1, <3>3, <4>1
    <3>9. ASSUME IrqSems = {}, NEW t \in Threads, InLine(t, s)
          PROVE  t \in {popped, h} \/ \E i \in 1 .. Len(q) : q[i] = t
      <4>1. CASE t # popped /\ t # h
        <5>1. PICK i \in 1 .. Len(p) : p[i] = t
          BY <1>3, <2>3, <3>9, <4>1
        <5>2. i - 1 \in 1 .. Len(q) /\ (i - 1) + 1 = i
          BY <3>1, <3>3, <4>1, <5>1
        <5>3. q[i - 1] = t
          BY <3>3, <5>1, <5>2
        <5>4. QED
          BY <5>2, <5>3
      <4>2. QED
        BY <4>1
    <3>10. QED
      BY <3>3, <3>7, <3>8, <3>9 DEF IsRest
  <2>4. QED
    BY <2>1, <2>2, <2>3
<1>8. QED
  BY <1>4, <1>5, <1>7

\* semaphore_signal() takes a thread from the queue, if there is one.
LEMMA PopStep == ASSUME WaitInv, NEW t \in Threads, SignalPop(t) PROVE WaitInv'
<1>1. At(t, "pop")
  BY DEF SignalPop
<1>2. t \in live /\ state[t] \in {"READY", "RUN"} /\ current = t /\ pc[t] = "pop" /\ cpu = "run"
  BY <1>1, RunnerAwake
<1>3. /\ WaitTypes /\ popped = NULL
      /\ UNCHANGED << vars, val, sem, semaphore_next >>
  BY <1>2 DEF WaitInv, PoppedSleeps, SignalPop
<1>4. PICK z \in Sems : z = sem[t]
  BY <1>3 DEF WaitTypes
<1>5. PICK h \in ThreadOrNull : h = queue_head[z]
  BY <1>3 DEF WaitTypes
<1>6. /\ PopQueue(z) /\ popped' = h
      /\ pc' = [pc EXCEPT ![t] = IF h = NULL THEN "client" ELSE "wake"]
  BY <1>4, <1>5 DEF SignalPop, Goto
<1>7. /\ h # NULL => InLine(h, z)
      /\ \A s \in Sems : \E q \in Seq(Threads) : Spells(q, s)' /\ IsRest(q, s, h)
  <2>1. QueuesAreLists /\ UNCHANGED semaphore_next
    BY <1>3 DEF WaitInv
  <2>2. PopQueue(z) /\ h = queue_head[z] /\ h \in ThreadOrNull /\ WaitTypes
    BY <1>3, <1>5, <1>6
  <2>3. QED
    BY <2>1, <2>2, PopKeepsQueues
<1>8. WaitTypes'
  <2>1. queue_head' \in [Sems -> ThreadOrNull]
    BY <1>3, <1>6 DEF WaitTypes, PopQueue, ThreadOrNull
  <2>2. QED
    BY <1>3, <1>6, <2>1 DEF WaitTypes, Pc
<1>9. /\ UNCHANGED << live, state, current, cpu, sem >>
      /\ pc'[t] \in {"client", "wake"} /\ (pc'[t] = "wake" <=> h # NULL)
      /\ \A u \in Threads \ {t} : pc'[u] = pc[u]
  BY <1>3, <1>6 DEF vars, threadVars, WaitTypes
<1>10. \A u \in Threads, s \in Sems : InLine(u, s)' <=> InLine(u, s)
  BY <1>2, <1>9 DEF InLine, Asleep, At
<1>11. ASSUME NEW s \in Sems PROVE (\E q \in Seq(Threads) : IsQueue(q, s))'
  <2>1. PICK q \in Seq(Threads) : Spells(q, s)' /\ IsRest(q, s, h)
    BY <1>7
  <2>2. \A i \in DOMAIN q : q[i] \in Threads
    OBVIOUS
  <2>3. IsQueue(q, s)'
    BY <1>3, <1>6, <1>10, <2>1, <2>2, NullAssumption DEF IsQueue, IsRest
  <2>4. QED
    BY <2>3
<1>12. QueuesAreLists'
  BY <1>11 DEF QueuesAreLists
<1>13. KernelInv'
  BY <1>3, KernelStutter DEF WaitInv
<1>14. h # NULL => Asleep(h, z)' /\ h \in Threads
  BY <1>2, <1>4, <1>5, <1>7, <1>9, NullAssumption DEF InLine, Asleep, At, ThreadOrNull
<1>15. NotPreempted' /\ PoppedSleeps' /\ ZeroUntilAsleep'
  BY <1>2, <1>3, <1>4, <1>6, <1>9, <1>14 DEF WaitInv, NotPreempted, PoppedSleeps, ZeroUntilAsleep
<1>16. QED
  BY <1>8, <1>12, <1>13, <1>15 DEF WaitInv

\* Who changes when u is woken.
LEMMA WakeMoves ==
  ASSUME TypeOK, NEW u, TryWake(u)
  PROVE  /\ UNCHANGED << live, request_kill, current, cpu >>
         /\ \A v \in Threads \ {u} : state'[v] = state[v]
         /\ u \in Threads /\ state[u] = "SLEEP" => state'[u] = "READY"
         /\ u \in Threads /\ state[u] # "SLEEP" => state'[u] = state[u]
BY DEF TryWake, ThreadWake, vars, threadVars, TypeOK

\* semaphore_signal() wakes the thread it has taken.
LEMMA WakeStep ==
  ASSUME WaitInv, NEW t \in Threads, SignalWake(t)
  PROVE  /\ WaitInv'
         /\ popped \in Threads /\ Asleep(popped, sem[t]) /\ state'[popped] = "READY"
<1>1. At(t, "wake")
  BY DEF SignalWake
<1>2. t \in live /\ state[t] \in {"READY", "RUN"} /\ current = t /\ pc[t] = "wake" /\ cpu = "run"
  BY <1>1, RunnerAwake
<1>3. /\ WaitTypes /\ TryWake(popped) /\ popped' = NULL
      /\ UNCHANGED << val, sem, queue_head, semaphore_next >>
      /\ pc' = [pc EXCEPT ![t] = "client"]
  BY DEF WaitInv, SignalWake, Goto
<1>4. PICK h : h = popped
  OBVIOUS
<1>5. h \in Threads /\ Asleep(h, sem[t]) /\ h # NULL
  BY <1>2, <1>4 DEF WaitInv, PoppedSleeps, WaitTypes, ThreadOrNull
<1>6. /\ UNCHANGED << live, request_kill, current, cpu >>
      /\ state'[h] = "READY" /\ \A v \in Threads \ {h} : state'[v] = state[v]
  BY <1>3, <1>4, <1>5, WakeMoves DEF WaitInv, KernelInv, IInv, Asleep
<1>7. WaitTypes'
  BY <1>3 DEF WaitTypes, Pc, ThreadOrNull
<1>8. pc'[t] = "client" /\ \A u \in Threads \ {t} : pc'[u] = pc[u]
  BY <1>3 DEF WaitTypes
<1>9. \A u \in Threads, s \in Sems : InLine(u, s)' <=> InLine(u, s) /\ u # h
  BY <1>2, <1>3, <1>5, <1>6, <1>8 DEF InLine, Asleep, At
<1>10. QueuesAreLists'
  <2>1. \A u \in Threads, s \in Sems : InLine(u, s)' <=> InLine(u, s) /\ (u = popped => popped' = popped)
    BY <1>3, <1>4, <1>5, <1>9
  <2>2. QED
    BY <1>3, <2>1, SameQueues DEF WaitInv
<1>11. KernelInv'
  BY <1>3, KernelWake DEF WaitInv
<1>12. NotPreempted' /\ PoppedSleeps' /\ ZeroUntilAsleep'
  BY <1>2, <1>3, <1>6, <1>8 DEF WaitInv, NotPreempted, PoppedSleeps, ZeroUntilAsleep
<1>13. QED
  BY <1>4, <1>5, <1>6, <1>7, <1>10, <1>11, <1>12 DEF WaitInv

\* An interrupt handler signals z.
LEMMA IrqStep == ASSUME WaitInv, NEW z \in Sems, IrqSignal(z) PROVE WaitInv'
<1>1. /\ WaitTypes /\ TypeOK /\ IrqSems # {} /\ PopQueue(z) /\ TryWake(queue_head[z])
      /\ val' = [val EXCEPT ![z] = @ + 1]
      /\ UNCHANGED << semaphore_next, pc, sem, popped >>
  BY DEF WaitInv, KernelInv, IInv, IrqSignal
<1>2. PICK h \in ThreadOrNull : h = queue_head[z]
  BY <1>1 DEF WaitTypes
<1>3. /\ h # NULL => InLine(h, z) /\ h # popped
      /\ \A s \in Sems : \E q \in Seq(Threads) : Spells(q, s)' /\ IsRest(q, s, h)
  BY <1>1, <1>2, PopKeepsQueues DEF WaitInv
<1>4. /\ UNCHANGED << live, request_kill, current, cpu >>
      /\ \A v \in Threads \ {h} : state'[v] = state[v]
  BY <1>1, <1>2, WakeMoves
<1>5. WaitTypes'
  <2>1. queue_head' \in [Sems -> ThreadOrNull]
    BY <1>1 DEF WaitTypes, PopQueue, ThreadOrNull
  <2>2. val' \in [Sems -> Nat]
    BY <1>1 DEF WaitTypes
  <2>3. QED
    BY <1>1, <2>1, <2>2 DEF WaitTypes
<1>6. \A u \in Threads \ {h}, s \in Sems : InLine(u, s)' <=> InLine(u, s)
  BY <1>1, <1>4 DEF InLine, Asleep, At
<1>7. ASSUME NEW s \in Sems PROVE (\E q \in Seq(Threads) : IsQueue(q, s))'
  <2>1. PICK q \in Seq(Threads) : Spells(q, s)' /\ IsRest(q, s, h)
    BY <1>3
  <2>2. \A i \in DOMAIN q : q[i] \in Threads
    OBVIOUS
  <2>3. IsQueue(q, s)'
    BY <1>1, <1>6, <2>1, <2>2 DEF IsQueue, IsRest
  <2>4. QED
    BY <2>3
<1>8. QueuesAreLists'
  BY <1>7 DEF QueuesAreLists
<1>9. KernelInv'
  BY <1>1, KernelWake DEF WaitInv
<1>10. NotPreempted' /\ ZeroUntilAsleep'
  BY <1>1, <1>4 DEF WaitInv, NotPreempted, ZeroUntilAsleep
<1>11. PoppedSleeps'
  <2>1. PICK p : p = popped
    OBVIOUS
  <2>2. p # NULL => p \in Threads \ {h} /\ Asleep(p, sem[current])
    <3>1. p # NULL => p \in Threads /\ Asleep(p, sem[current])
      BY <1>1, <2>1 DEF WaitInv, PoppedSleeps, WaitTypes, ThreadOrNull
    <3>2. p # NULL => p # h
      BY <1>3, <2>1
    <3>3. QED
      BY <3>1, <3>2
  <2>3. QED
    BY <1>1, <1>4, <2>1, <2>2 DEF WaitInv, PoppedSleeps, Asleep
<1>12. QED
  BY <1>5, <1>8, <1>9, <1>10, <1>11 DEF WaitInv

\* Every step of a kernel whose threads use the semaphores.
LEMMA WaitStep == ASSUME BootIdles, WaitInv, SemMove PROVE WaitInv'
<1>1. CASE UNCHANGED allVars
  <2>1. UNCHANGED vars /\ UNCHANGED << val, queue_head, semaphore_next, pc, sem, popped >>
    BY <1>1 DEF allVars, semVars
  <2>2. UNCHANGED << live, state, current, cpu >>
    BY <2>1 DEF vars, threadVars
  <2>3. \A u \in Threads, s \in Sems : InLine(u, s)' <=> InLine(u, s)
    BY <2>1, <2>2 DEF InLine, Asleep, At
  <2>4. QueuesAreLists' /\ KernelInv'
    BY <2>1, <2>3, SameQueues, KernelStutter DEF WaitInv
  <2>5. QED
    BY <2>1, <2>2, <2>4
       DEF WaitInv, WaitTypes, NotPreempted, PoppedSleeps, Asleep, ZeroUntilAsleep
<1>2. QED
  BY <1>1, CallStep, EnqueueStep, SleepStep, PopStep, WakeStep, IrqStep, ThreadMoveStep
     DEF SemMove, InSemaphore

----------------------------------------------------------------------------
(***************************************************************************)
(* What WaitQueueSound says of the pointers follows from the sequences     *)
(***************************************************************************)

\* Walking along the pointers follows the queue.
LEMMA WalkFollows ==
  ASSUME IsFiniteSet(Threads), NEW s \in Sems, NEW q \in Seq(Threads), Spells(q, s)
  PROVE  \A n \in 0 .. Cardinality(Threads) :
           WalkQueue(s)[n] = IF n < Len(q) THEN q[n + 1] ELSE NULL
<1> DEFINE K == Cardinality(Threads)
           G(f) == [n \in 0 .. K |-> IF n = 0 THEN queue_head[s]
                                     ELSE IF f[n - 1] = NULL THEN NULL
                                     ELSE semaphore_next[f[n - 1]]]
           g == [n \in 0 .. K |-> IF n < Len(q) THEN q[n + 1] ELSE NULL]
<1>1. K \in Nat
  BY FS_CardinalityType
<1>2. WalkQueue(s) = CHOOSE f : f = G(f)
  BY DEF WalkQueue
<1>3. g = G(g)
  <2> SUFFICES ASSUME NEW n \in 0 .. K PROVE g[n] = G(g)[n]
    OBVIOUS
  <2>1. Len(q) \in Nat /\ (q = << >> <=> Len(q) = 0) /\ DOMAIN q = 1 .. Len(q)
        /\ \A i \in 1 .. Len(q) : q[i] \in Threads
    OBVIOUS
  <2>2. CASE n = 0
    BY <1>1, <2>1, <2>2 DEF Spells
  <2>3. CASE n # 0
    <3>1. n - 1 \in 0 .. K /\ n \in Nat /\ n - 1 \in Nat /\ (n - 1) + 1 = n
      BY <1>1, <2>3
    <3>2. g[n - 1] = IF n - 1 < Len(q) THEN q[n] ELSE NULL
      BY <3>1
    <3>3. G(g)[n] = IF g[n - 1] = NULL THEN NULL ELSE semaphore_next[g[n - 1]]
      BY <2>3
    <3>4. g[n] = IF n < Len(q) THEN q[n + 1] ELSE NULL
      OBVIOUS
    <3> HIDE DEF g, G, K
    <3>5. n <= Len(q) => n \in 1 .. Len(q) /\ q[n] # NULL /\ n - 1 < Len(q)
                         /\ semaphore_next[q[n]] = IF n < Len(q) THEN q[n + 1] ELSE NULL
      BY <2>1, <2>3, <3>1, NullAssumption DEF Spells
    <3>6. ~(n <= Len(q)) => ~(n - 1 < Len(q)) /\ ~(n < Len(q))
      BY <2>1, <3>1, SMTT(30)
    <3>7. QED
      BY <3>2, <3>3, <3>4, <3>5, <3>6
  <2>4. QED
    BY <2>2, <2>3
<1> HIDE DEF g
<1>4. PICK f : f = WalkQueue(s) /\ f = G(f)
  <2>1. (CHOOSE f : f = G(f)) = G(CHOOSE f : f = G(f))
    BY <1>3, Zenon
  <2>2. QED
    BY <1>2, <2>1, Zenon
<1> DEFINE Bad == { n \in Nat : n \in 0 .. K /\ f[n] # g[n] }
           R == OpToRel(<, Nat)
<1>5. Bad = {}
  <2> SUFFICES ASSUME Bad # {} PROVE FALSE
    OBVIOUS
  <2>1. IsWellFoundedOn(R, Nat)
    BY NatLessThanWellFounded
  <2>2. \A i, j \in Nat : i < j => << i, j >> \in R
    BY DEF OpToRel
  <2> HIDE DEF R
  <2>3. PICK n \in Bad : \A i \in Bad : << i, n >> \notin R
    <3>1. Bad \in SUBSET Nat
      OBVIOUS
    <3> HIDE DEF Bad
    <3>2. QED
      BY <2>1, <3>1, WFMin
  <2>4. n \in Nat /\ n \in 0 .. K /\ f[n] # g[n]
    OBVIOUS
  <2>5. n # 0 => f[n - 1] = g[n - 1]
    <3>1. n # 0 => n - 1 \in Nat /\ n - 1 \in 0 .. K /\ n - 1 < n
      BY <1>1, <2>4
    <3>2. n # 0 => n - 1 \notin Bad
      BY <2>2, <2>3, <2>4, <3>1
    <3>3. QED
      BY <3>1, <3>2
  <2>6. /\ f[n] = (IF n = 0 THEN queue_head[s] ELSE IF f[n - 1] = NULL THEN NULL ELSE semaphore_next[f[n - 1]])
        /\ g[n] = (IF n = 0 THEN queue_head[s] ELSE IF g[n - 1] = NULL THEN NULL ELSE semaphore_next[g[n - 1]])
    BY <1>3, <1>4, <2>4
  <2>7. QED
    BY <2>4, <2>5, <2>6
<1>6. ASSUME NEW n \in 0 .. K PROVE WalkQueue(s)[n] = IF n < Len(q) THEN q[n + 1] ELSE NULL
  <2>1. n \in Nat /\ n \notin Bad
    BY <1>1, <1>5
  <2>2. f[n] = g[n]
    BY <2>1
  <2>3. QED
    BY <1>4, <2>2 DEF g
<1>7. QED
  BY <1>6

\* A queue is no longer than there are threads.
LEMMA QueueIsShort ==
  ASSUME IsFiniteSet(Threads), NEW s \in Sems, NEW q \in Seq(Threads), Spells(q, s)
  PROVE  Len(q) <= Cardinality(Threads)
<1>1. Len(q) \in Nat /\ DOMAIN q = 1 .. Len(q) /\ Cardinality(Threads) \in Nat
  BY FS_CardinalityType
<1>2. /\ IsFiniteSet(1 .. Len(q)) /\ Cardinality(1 .. Len(q)) = Len(q)
  <2>1. PICK n \in Nat : n = Len(q)
    BY <1>1
  <2>2. IsFiniteSet(1 .. n) /\ Cardinality(1 .. n) = IF 1 > n THEN 0 ELSE n - 1 + 1
    BY FS_Interval
  <2>3. QED
    BY <2>1, <2>2
<1>3. q \in [1 .. Len(q) -> Threads]
  BY <1>1
<1>4. \A i, j \in 1 .. Len(q) : q[i] = q[j] => i = j
  BY <1>1 DEF Spells
<1>5. SUFFICES ASSUME Cardinality(Threads) < Len(q) PROVE FALSE
  BY <1>1
<1>6. \E i, j \in 1 .. Len(q) : i # j /\ q[i] = q[j]
  BY <1>2, <1>3, <1>5, FS_PigeonHole
<1>7. QED
  BY <1>4, <1>6

\* The walk that the run checks meets who is on the queue, and ends.
LEMMA QueueIsWalked ==
  ASSUME IsFiniteSet(Threads), NEW s \in Sems, NEW q \in Seq(Threads), Spells(q, s)
  PROVE  /\ WalkQueue(s)[Cardinality(Threads)] = NULL
         /\ \A t : t \in OnQueue(s) <=> \E i \in DOMAIN q : q[i] = t
<1>1. /\ Len(q) \in Nat /\ Cardinality(Threads) \in Nat /\ DOMAIN q = 1 .. Len(q)
      /\ \A i \in 1 .. Len(q) : q[i] \in Threads
      /\ Len(q) <= Cardinality(Threads)
  BY QueueIsShort, FS_CardinalityType
<1>2. \A n \in 0 .. Cardinality(Threads) :
        WalkQueue(s)[n] = IF n < Len(q) THEN q[n + 1] ELSE NULL
  BY WalkFollows
<1>3. ASSUME NEW t, t \in OnQueue(s) PROVE \E i \in DOMAIN q : q[i] = t
  <2>1. PICK n \in 0 .. Cardinality(Threads) : t \in Threads /\ WalkQueue(s)[n] = t
    BY <1>3 DEF OnQueue
  <2>2. n < Len(q) /\ q[n + 1] = t
    BY <1>2, <2>1, NullAssumption
  <2>3. n + 1 \in DOMAIN q
    BY <1>1, <2>2
  <2>4. QED
    BY <2>2, <2>3
<1>4. ASSUME NEW i \in DOMAIN q PROVE q[i] \in OnQueue(s)
  <2>1. i - 1 \in 0 .. Cardinality(Threads) /\ i - 1 < Len(q) /\ (i - 1) + 1 = i
    BY <1>1
  <2>2. WalkQueue(s)[i - 1] = q[i] /\ q[i] \in Threads
    BY <1>1, <1>2, <2>1
  <2>3. QED
    BY <2>1, <2>2 DEF OnQueue
<1>5. QED
  BY <1>1, <1>2, <1>3, <1>4

\* The steps of the two functions and their callers are such steps.
LEMMA SemNextMoves == [SemNext]_allVars => SemMove
BY DEF SemNext, SemMove, ThreadMove, ClientWait, ClientSignal

\* The invariant holds in every reachable state of a kernel with an idle boot
\* thread.
LEMMA AlwaysWaitInv == ASSUME BootIdles PROVE SemSpec => []WaitInv
<1>1. SemInit => WaitInv
  <2>1. [s \in Sems |-> IF s \in Mutexes THEN 1 ELSE 0] \in [Sems -> Nat]
    OBVIOUS
  <2>2. QED
    BY <2>1, WaitInit DEF SemInit
<1>2. WaitInv /\ [SemNext]_allVars => WaitInv'
  BY SemNextMoves, WaitStep
<1>3. QED
  BY <1>1, <1>2, PTL DEF SemSpec

\* With interrupt handlers that signal and threads that are killed, the queue
\* of a semaphore, which push and pop thread by thread through semaphore_next,
\* never gets a cycle, never loses its end, and holds only waiters.
THEOREM QueuesStaySound ==
  ASSUME BootIdles, IsFiniteSet(Threads) PROVE SemSpec => []WaitQueueSound
<1>1. WaitInv => QueueHoldsWaiters
  <2> SUFFICES ASSUME WaitInv, NEW s \in Sems
               PROVE  /\ WalkQueue(s)[Cardinality(Threads)] = NULL
                      /\ \A t \in OnQueue(s) : InLine(t, s)
    BY DEF QueueHoldsWaiters
  <2>1. PICK q \in Seq(Threads) : IsQueue(q, s)
    BY DEF WaitInv, QueuesAreLists
  <2>2. Spells(q, s) /\ \A i \in DOMAIN q : InLine(q[i], s)
    BY <2>1 DEF IsQueue
  <2>3. QED
    BY <2>2, QueueIsWalked
<1>2. QED
  BY <1>1, AlwaysWaitInv, SemTypesCorrect, PTL DEF WaitQueueSound

\* semaphore_signal() has always a sleeping thread to wake when it has taken
\* one from the queue: neither a second signal nor an interrupt handler gets
\* to that thread in between.
THEOREM SignalsWake == ASSUME BootIdles PROVE SemSpec => SignalWakesOne
<1>1. WaitInv => \A t \in Threads : SignalWake(t) => state'[popped] = "READY"
  BY WakeStep
<1>2. QED
  BY <1>1, AlwaysWaitInv, PTL DEF SignalWakesOne

\* Without interrupts a thread goes to sleep only while the value is zero:
\* nothing comes between its last look at the value and its call of
\* thread_sleep().  (An interrupt handler may come there, and then it sleeps
\* although the value is not zero: run semaphore_lost_wakeup.)
THEOREM SleepersSawZero ==
  ASSUME BootIdles, IrqSems = {} PROVE SemSpec => SleepsOnlyAtZero
<1>1. WaitInv => \A t \in Threads : WaitSleep(t) => val[sem[t]] = 0
  BY DEF WaitInv, ZeroUntilAsleep, WaitSleep, At
<1>2. QED
  BY <1>1, AlwaysWaitInv, PTL DEF SleepsOnlyAtZero

----------------------------------------------------------------------------
(***************************************************************************)
(* No wakeup is lost, when only threads signal and nobody is killed.       *)
(***************************************************************************)

\* The threads woken from semaphore_wait(s) that have not looked yet.
WokenOn(s) == { t \in Threads : Woken(t, s) }

\* A signal of s is on its way to a thread.
Announced(s) == IF pc[current] \in {"pop", "wake"} /\ sem[current] = s THEN 1 ELSE 0

\* NoLostWakeup of one semaphore.
Covered(s) == (\E t \in Threads : Asleep(t, s)) => val[s] <= Cardinality(WokenOn(s)) + Announced(s)

\* NoLostWakeup is Covered of every semaphore.
LEMMA AllCovered ==
  /\ NoLostWakeup <=> \A s \in Sems : Covered(s)
  /\ NoLostWakeup' <=> \A s \in Sems : Covered(s)'
BY DEF NoLostWakeup, Covered, WokenOn, Announced

\* The two terms of the bound are numbers.
LEMMA BoundsAreNumbers ==
  ASSUME IsFiniteSet(Threads), NEW s
  PROVE  /\ Cardinality(WokenOn(s)) \in Nat /\ Cardinality(WokenOn(s)') \in Nat
         /\ IsFiniteSet(WokenOn(s)) /\ IsFiniteSet(WokenOn(s)')
         /\ Announced(s) \in {0, 1} /\ Announced(s)' \in {0, 1}
<1>1. WokenOn(s) \in SUBSET Threads /\ WokenOn(s)' \in SUBSET Threads
  BY DEF WokenOn
<1>2. IsFiniteSet(WokenOn(s)) /\ IsFiniteSet(WokenOn(s)')
  BY <1>1, FS_Subset
<1>3. QED
  BY <1>2, FS_CardinalityType DEF Announced

\* A step that takes nothing from the bound.
LEMMA StillCovered ==
  ASSUME IsFiniteSet(Threads), NEW s \in Sems, Covered(s), val \in [Sems -> Nat], val'[s] = val[s],
         (\E t \in Threads : Asleep(t, s))' => \E t \in Threads : Asleep(t, s),
         \A t \in Threads : Woken(t, s) => Woken(t, s)',
         Announced(s)' = 1 \/ Announced(s) = 0
  PROVE  Covered(s)'
<1>1. WokenOn(s) \in SUBSET WokenOn(s)'
  BY DEF WokenOn
<1>2. /\ Cardinality(WokenOn(s)) \in Nat /\ Cardinality(WokenOn(s)') \in Nat
      /\ IsFiniteSet(WokenOn(s)')
      /\ Announced(s) \in {0, 1} /\ Announced(s)' \in {0, 1}
  BY BoundsAreNumbers
<1>3. Cardinality(WokenOn(s)) <= Cardinality(WokenOn(s)')
  BY <1>1, <1>2, FS_Subset
<1>4. PICK a \in Nat, b \in Nat, x \in {0, 1}, y \in {0, 1} :
        /\ a = Cardinality(WokenOn(s)) /\ b = Cardinality(WokenOn(s)')
        /\ x = Announced(s) /\ y = Announced(s)'
  BY <1>2
<1>5. a <= b /\ (y = 1 \/ x = 0) /\ val[s] \in Nat
  BY <1>3, <1>4
<1>6. SUFFICES ASSUME (\E t \in Threads : Asleep(t, s))' PROVE val'[s] <= b + y
  BY <1>4 DEF Covered
<1>7. val[s] <= a + x
  BY <1>4, <1>6 DEF Covered
<1>8. QED
  BY <1>5, <1>7

\* The calls, and the test of the value.
LEMMA CallCovered ==
  ASSUME IsFiniteSet(Threads), WaitInv, NEW s \in Sems, Covered(s), NEW t \in Threads,
         \/ \E z \in Sems : WaitCall(t, z) \/ SignalIncrement(t, z)
         \/ WaitDecrement(t) \/ WaitSeesZero(t) \/ WaitEnqueue(t)
  PROVE  Covered(s)'
<1>1. PICK p \in {"client", "test", "enqueue"} : At(t, p)
  BY DEF WaitCall, SignalIncrement, WaitDecrement, WaitSeesZero, WaitEnqueue
<1>2. t \in live /\ state[t] \in {"READY", "RUN"} /\ current = t /\ pc[t] = p /\ cpu = "run"
  BY <1>1, RunnerAwake
<1>3. UNCHANGED << live, state, current, cpu >> /\ WaitTypes
  BY DEF WaitCall, SignalIncrement, WaitDecrement, WaitSeesZero, WaitEnqueue, vars, threadVars,
     WaitInv
<1>4. \A u \in Threads \ {t} : pc'[u] = pc[u] /\ sem'[u] = sem[u]
  BY <1>3 DEF WaitCall, SignalIncrement, WaitDecrement, WaitSeesZero, WaitEnqueue, WaitTypes, Goto
<1>5. \A u \in Threads : Asleep(u, s)' <=> Asleep(u, s)
  BY <1>2, <1>3, <1>4 DEF Asleep
<1>6. \A u \in Threads \ {t} : Woken(u, s)' <=> Woken(u, s)
  BY <1>3, <1>4 DEF Woken, Runnable
<1>7. Announced(s) = 0
  BY <1>2 DEF Announced
<1>8. /\ Cardinality(WokenOn(s)) \in Nat /\ Cardinality(WokenOn(s)') \in Nat
      /\ IsFiniteSet(WokenOn(s)) /\ IsFiniteSet(WokenOn(s)')
      /\ Announced(s)' \in {0, 1} /\ val[s] \in Nat
  BY <1>3, BoundsAreNumbers DEF WaitTypes
<1>9. ASSUME NEW z \in Sems, WaitCall(t, z) PROVE Covered(s)'
  <2>1. ~Woken(t, s) /\ val' = val
    BY <1>2, <1>9 DEF Woken, WaitCall, At
  <2>2. QED
    BY <1>3, <1>5, <1>6, <1>7, <2>1, StillCovered DEF WaitTypes
<1>10. ASSUME NEW z \in Sems, SignalIncrement(t, z) PROVE Covered(s)'
  <2>1. ~Woken(t, s) /\ ~Woken(t, s)' /\ pc'[t] = "pop" /\ sem'[t] = z
    BY <1>2, <1>3, <1>10 DEF Woken, SignalIncrement, At, Goto, WaitTypes
  <2>2. CASE s # z
    <3>1. val'[s] = val[s]
      BY <1>3, <1>10, <2>2 DEF SignalIncrement, WaitTypes
    <3>2. QED
      BY <1>3, <1>5, <1>6, <1>7, <2>1, <3>1, StillCovered DEF WaitTypes
  <2>3. CASE s = z
    <3>1. val'[s] = val[s] + 1
      BY <1>3, <1>10, <2>3 DEF SignalIncrement, WaitTypes
    <3>2. Announced(s)' = 1
      BY <1>2, <1>3, <2>1, <2>3 DEF Announced
    <3>3. WokenOn(s)' = WokenOn(s)
      BY <1>6, <2>1 DEF WokenOn
    <3>4. QED
      BY <1>5, <1>7, <1>8, <3>1, <3>2, <3>3 DEF Covered
  <2>4. QED
    BY <2>2, <2>3
<1>11. CASE WaitDecrement(t)
  <2>1. PICK z \in Sems : z = sem[t]
    BY <1>3 DEF WaitTypes
  <2>2. /\ pc[t] = "test" /\ sem' = sem /\ val[z] # 0
        /\ val' = [val EXCEPT ![z] = @ - 1] /\ pc'[t] = "client"
    BY <1>3, <1>11, <2>1 DEF WaitDecrement, At, Goto, WaitTypes
  <2>3. CASE s # z
    <3>1. ~Woken(t, s) /\ val'[s] = val[s]
      BY <1>3, <2>1, <2>2, <2>3 DEF Woken, WaitTypes
    <3>2. QED
      BY <1>3, <1>5, <1>6, <1>7, <3>1, StillCovered DEF WaitTypes
  <2>4. CASE s = z
    <3>1. val'[s] = val[s] - 1 /\ val[s] # 0
      BY <1>3, <2>2, <2>4 DEF WaitTypes
    <3>2. Woken(t, s) /\ ~Woken(t, s)'
      BY <1>2, <2>1, <2>2, <2>4 DEF Woken, Runnable
    <3>3. WokenOn(s)' = WokenOn(s) \ {t} /\ t \in WokenOn(s)
      BY <1>6, <3>2 DEF WokenOn
    <3>4. Cardinality(WokenOn(s)') = Cardinality(WokenOn(s)) - 1
      BY <1>8, <3>3, FS_RemoveElement
    <3>5. QED
      BY <1>5, <1>7, <1>8, <3>1, <3>4 DEF Covered
  <2>5. QED
    BY <2>3, <2>4
<1>12. CASE WaitSeesZero(t)
  <2>1. PICK z \in Sems : z = sem[t]
    BY <1>3 DEF WaitTypes
  <2>2. val[z] = 0 /\ val' = val
    BY <1>12, <2>1 DEF WaitSeesZero
  <2>3. CASE s # z
    <3>1. ~Woken(t, s)
      BY <2>1, <2>3 DEF Woken
    <3>2. QED
      BY <1>3, <1>5, <1>6, <1>7, <2>2, <3>1, StillCovered DEF WaitTypes
  <2>4. CASE s = z
    BY <1>8, <2>2, <2>4 DEF Covered
  <2>5. QED
    BY <2>3, <2>4
<1>13. CASE WaitEnqueue(t)
  <2>1. ~Woken(t, s) /\ val' = val
    BY <1>2, <1>13 DEF Woken, WaitEnqueue, At
  <2>2. QED
    BY <1>3, <1>5, <1>6, <1>7, <2>1, StillCovered DEF WaitTypes
<1>14. QED
  BY <1>9, <1>10, <1>11, <1>12, <1>13

\* A thread goes to sleep while the value is zero.
LEMMA SleepCovered ==
  ASSUME IsFiniteSet(Threads), IrqSems = {}, WaitInv, NEW s \in Sems, Covered(s),
         NEW t \in Threads, WaitSleep(t)
  PROVE  Covered(s)'
<1>1. At(t, "sleep") /\ Sleep
  BY DEF WaitSleep
<1>2. t \in live /\ state[t] \in {"READY", "RUN"} /\ current = t /\ pc[t] = "sleep" /\ cpu = "run"
  BY <1>1, RunnerAwake
<1>3. /\ WaitTypes /\ TypeOK /\ UNCHANGED << val, sem, live, current >>
      /\ pc' = [pc EXCEPT ![t] = "test"] /\ state' = [state EXCEPT ![t] = "SLEEP"]
  BY <1>1, <1>2 DEF WaitInv, KernelInv, IInv, WaitSleep, Goto, Sleep
<1>4. \A u \in Threads \ {t} : pc'[u] = pc[u] /\ state'[u] = state[u]
  BY <1>3 DEF WaitTypes, TypeOK
<1>5. \A u \in Threads : Woken(u, s) => Woken(u, s)'
  BY <1>2, <1>3, <1>4 DEF Woken, Runnable
<1>6. Announced(s) = 0
  BY <1>2 DEF Announced
<1>7. CASE sem[t] # s
  <2>1. \A u \in Threads : Asleep(u, s)' => Asleep(u, s)
    BY <1>3, <1>4, <1>7 DEF Asleep
  <2>2. QED
    BY <1>3, <1>5, <1>6, <2>1, StillCovered DEF WaitTypes
<1>8. CASE sem[t] = s
  <2>1. val'[s] = 0
    BY <1>2, <1>3, <1>8 DEF WaitInv, ZeroUntilAsleep
  <2>2. QED
    BY <2>1, BoundsAreNumbers DEF Covered
<1>9. QED
  BY <1>7, <1>8

\* A signaller that finds nobody on the queue leaves nobody asleep.
LEMMA PopCovered ==
  ASSUME IsFiniteSet(Threads), IrqSems = {}, WaitInv, NEW s \in Sems, Covered(s),
         NEW t \in Threads, SignalPop(t)
  PROVE  Covered(s)'
<1>1. At(t, "pop")
  BY DEF SignalPop
<1>2. t \in live /\ state[t] \in {"READY", "RUN"} /\ current = t /\ pc[t] = "pop" /\ cpu = "run"
  BY <1>1, RunnerAwake
<1>3. /\ WaitTypes /\ popped = NULL
      /\ UNCHANGED << val, sem, semaphore_next, live, state, current, cpu >>
  BY <1>2 DEF WaitInv, PoppedSleeps, SignalPop, vars, threadVars
<1>4. PICK z \in Sems : z = sem[t]
  BY <1>3 DEF WaitTypes
<1>5. PICK h \in ThreadOrNull : h = queue_head[z]
  BY <1>3 DEF WaitTypes
<1>6. /\ PopQueue(z)
      /\ pc' = [pc EXCEPT ![t] = IF h = NULL THEN "client" ELSE "wake"]
  BY <1>4, <1>5 DEF SignalPop, Goto
<1>7. /\ pc'[t] = IF h = NULL THEN "client" ELSE "wake"
      /\ \A u \in Threads \ {t} : pc'[u] = pc[u]
  BY <1>3, <1>6 DEF WaitTypes
<1>8. \A u \in Threads : Asleep(u, s)' <=> Asleep(u, s)
  BY <1>2, <1>3, <1>7 DEF Asleep
<1>9. \A u \in Threads : Woken(u, s) => Woken(u, s)'
  BY <1>2, <1>3, <1>7 DEF Woken, Runnable
<1>10. CASE h # NULL \/ s # z
  <2>1. Announced(s)' = 1 \/ Announced(s) = 0
    BY <1>2, <1>3, <1>4, <1>7, <1>10 DEF Announced
  <2>2. QED
    BY <1>3, <1>8, <1>9, <2>1, StillCovered DEF WaitTypes
<1>11. CASE h = NULL /\ s = z
  <2>1. QueuesAreLists /\ UNCHANGED semaphore_next /\ h = queue_head[z] /\ WaitTypes /\ PopQueue(z)
    BY <1>3, <1>5, <1>6 DEF WaitInv
  <2>2. \A u \in Threads : InLine(u, z) => u = popped
    BY <1>11, <2>1, PopKeepsQueues
  <2>3. \A u \in Threads : ~Asleep(u, s)
    BY <1>3, <1>11, <2>2, NullAssumption DEF InLine
  <2>4. QED
    BY <1>8, <2>3 DEF Covered
<1>12. QED
  BY <1>10, <1>11

\* The announcement becomes a woken thread.
LEMMA WakeCovered ==
  ASSUME IsFiniteSet(Threads), WaitInv, NEW s \in Sems, Covered(s), NEW t \in Threads, SignalWake(t)
  PROVE  Covered(s)'
<1>1. At(t, "wake")
  BY DEF SignalWake
<1>2. t \in live /\ state[t] \in {"READY", "RUN"} /\ current = t /\ pc[t] = "wake" /\ cpu = "run"
  BY <1>1, RunnerAwake
<1>3. PICK h : h = popped
  OBVIOUS
<1>4. /\ h \in Threads /\ Asleep(h, sem[t]) /\ state'[h] = "READY"
  BY <1>3, WakeStep
<1>5. /\ WaitTypes /\ TypeOK /\ TryWake(h) /\ UNCHANGED << val, sem >>
      /\ pc' = [pc EXCEPT ![t] = "client"]
  BY <1>3 DEF WaitInv, KernelInv, IInv, SignalWake, Goto
<1>6. /\ UNCHANGED << live, current, cpu >> /\ \A v \in Threads \ {h} : state'[v] = state[v]
  BY <1>5, WakeMoves
<1>7. pc'[t] = "client" /\ \A u \in Threads \ {t} : pc'[u] = pc[u]
  BY <1>5 DEF WaitTypes
<1>8. \A u \in Threads : Asleep(u, s)' => Asleep(u, s)
  BY <1>4, <1>5, <1>6, <1>7 DEF Asleep
<1>9. \A u \in Threads : Woken(u, s) => Woken(u, s)'
  BY <1>2, <1>4, <1>5, <1>6, <1>7 DEF Woken, Runnable, Asleep
<1>10. h \in live
  BY <1>4 DEF WaitInv, KernelInv, UnbornAreReady, Asleep
<1>11. CASE s # sem[t]
  <2>1. Announced(s) = 0
    BY <1>2, <1>11 DEF Announced
  <2>2. QED
    BY <1>5, <1>8, <1>9, <2>1, StillCovered DEF WaitTypes
<1>12. CASE s = sem[t]
  <2>1. ~Woken(h, s) /\ Woken(h, s)' /\ \A u \in Threads \ {h} : Woken(u, s)' <=> Woken(u, s)
    <3>1. h # t
      BY <1>2, <1>4 DEF Asleep
    <3>2. QED
      BY <1>2, <1>4, <1>5, <1>6, <1>7, <1>10, <1>12, <3>1 DEF Woken, Runnable, Asleep
  <2>2. WokenOn(s)' = WokenOn(s) \cup {h} /\ h \notin WokenOn(s)
    BY <1>4, <2>1 DEF WokenOn
  <2>3. Cardinality(WokenOn(s)') = Cardinality(WokenOn(s)) + 1
    BY <2>2, BoundsAreNumbers, FS_AddElement
  <2>4. PICK a \in Nat : a = Cardinality(WokenOn(s))
    BY BoundsAreNumbers
  <2>5. Announced(s) = 1 /\ Announced(s)' = 0
    BY <1>2, <1>5, <1>6, <1>7, <1>12 DEF Announced
  <2>6. val'[s] = val[s] /\ val[s] \in Nat
    BY <1>5 DEF WaitTypes
  <2>7. QED
    BY <1>8, <2>3, <2>4, <2>5, <2>6 DEF Covered
<1>13. QED
  BY <1>11, <1>12

\* thread.c puts nobody to sleep, and buries nobody.
LEMMA ThreadMoveCovered ==
  ASSUME BootIdles, IsFiniteSet(Threads), Killable = {}, WaitInv, NEW s \in Sems, Covered(s),
         ThreadMove
  PROVE  Covered(s)'
<1>1. UNCHANGED << val, queue_head, semaphore_next, pc, sem, popped >>
  BY DEF ThreadMove, SemSpawn, SemYield, SemKill, InKernel, SemSleepCheckKill, SemRunYield, RunYield, semVars
<1>2. /\ WaitTypes /\ TypeOK /\ UnbornAreReady /\ IInv /\ RunnerNotKilled
      /\ \A t \in Threads : ~request_kill[t]
      /\ \A t \in Threads \ live : pc[t] = "client"
  BY DEF WaitInv, KernelInv, IInv, NotPreempted
<1>3. Announced(s) = 0
  <2>1. CASE InKernel
    BY <1>2, <2>1 DEF InKernel, SemSleepCheckKill, SemRunYield, RunYield,
       SleepCheckKill, SwitchTo, BuryKilled, YieldReturns, InYield, WaitInv, NotPreempted, TypeOK,
       Announced
  <2>2. CASE ~InKernel
    BY <2>2 DEF ThreadMove, SemSpawn, SemYield, SemKill, At, Announced
  <2>3. QED
    BY <2>1, <2>2
<1>4. ASSUME NEW u \in Threads
      PROVE  (state'[u] = "SLEEP" => state[u] = "SLEEP") /\ (Runnable(u) => Runnable(u)')
  <2>1. ASSUME NEW t \in Threads, SemSpawn(t) PROVE (state'[u] = "SLEEP" => state[u] = "SLEEP") /\ (Runnable(u) => Runnable(u)')
    BY <1>2, <2>1 DEF SemSpawn, Spawn, Runnable, TypeOK
  <2>2. ASSUME NEW t \in Threads, SemYield(t) PROVE (state'[u] = "SLEEP" => state[u] = "SLEEP") /\ (Runnable(u) => Runnable(u)')
    BY <1>2, <2>2 DEF SemYield, Yield, Runnable, TypeOK
  <2>3. ASSUME NEW t \in Threads, SemKill(t) PROVE (state'[u] = "SLEEP" => state[u] = "SLEEP") /\ (Runnable(u) => Runnable(u)')
    BY <1>2, <2>3 DEF SemKill, Kill, Runnable, TypeOK
  <2>4. CASE SemSleepCheckKill \/ YieldReturns
    BY <1>2, <2>4 DEF SemSleepCheckKill, SleepCheckKill, YieldReturns, Runnable, TypeOK, RunnerNotKilled
  <2>5. ASSUME SwitchTo \/ BuryKilled PROVE ready_s \in Threads /\ Runnable(ready_s)
    BY <1>2, <2>5, NextStep DEF SwitchTo, BuryKilled, InYield, OnCpu, IInv, ReadyAreQueued
  <2>6. CASE SwitchTo
    BY <1>2, <2>5, <2>6 DEF SwitchTo, Runnable, TypeOK
  <2>7. ~BuryKilled
    BY <1>2, <2>5 DEF BuryKilled
  <2>8. QED
    BY <2>1, <2>2, <2>3, <2>4, <2>6, <2>7 DEF ThreadMove, InKernel, SemRunYield, RunYield
<1>5. /\ \A u \in Threads : Asleep(u, s)' => Asleep(u, s)
      /\ \A u \in Threads : Woken(u, s) => Woken(u, s)'
  BY <1>1, <1>4 DEF Asleep, Woken
<1>6. QED
  BY <1>1, <1>2, <1>3, <1>5, StillCovered DEF WaitTypes

\* Every step keeps every sleeper covered.
LEMMA CoveredStep ==
  ASSUME BootIdles, IsFiniteSet(Threads), IrqSems = {}, Killable = {}, WaitInv, NoLostWakeup, SemMove
  PROVE  NoLostWakeup'
<1> SUFFICES ASSUME NEW s \in Sems, Covered(s) PROVE Covered(s)'
  BY AllCovered
<1>1. CASE UNCHANGED allVars
  BY <1>1 DEF allVars, vars, threadVars, semVars, Covered, WokenOn, Woken, Runnable, Announced,
     Asleep
<1>2. ~\E z \in Sems : IrqSignal(z)
  BY DEF IrqSignal
<1>3. QED
  BY <1>1, <1>2, CallCovered, SleepCovered, PopCovered, WakeCovered, ThreadMoveCovered
     DEF SemMove, InSemaphore

\* Who sleeps on a semaphore is on its queue, or in the signaller's hands.
LEMMA QueuedSleepers ==
  ASSUME IsFiniteSet(Threads), IrqSems = {}, WaitInv PROVE SleepersAreQueued
<1> SUFFICES ASSUME NEW s \in Sems, NEW t \in Threads, Asleep(t, s)
             PROVE  t \in OnQueue(s) \/ popped = t
  BY DEF SleepersAreQueued
<1>1. PICK q \in Seq(Threads) : IsQueue(q, s)
  BY DEF WaitInv, QueuesAreLists
<1>2. t = popped \/ \E i \in DOMAIN q : q[i] = t
  BY <1>1 DEF IsQueue, InLine
<1>3. QED
  BY <1>1, <1>2, QueueIsWalked DEF IsQueue

\* Nobody is asleep at first.
LEMMA InitCovered == ASSUME NEW v, SemInitWith(v) PROVE NoLostWakeup
BY DEF SemInitWith, Init, NoLostWakeup, Asleep

\* When only threads signal and nobody is killed, a signaller finds every
\* sleeper on the queue, and no unit of a semaphore goes unannounced while
\* somebody sleeps on it.
THEOREM NobodyIsForgotten ==
  ASSUME BootIdles, IsFiniteSet(Threads), IrqSems = {}, Killable = {}
  PROVE  SemSpec => []NobodyForgotten
<1>1. SemInit => NoLostWakeup
  BY InitCovered DEF SemInit
<1>2. WaitInv /\ NoLostWakeup /\ [SemNext]_allVars => NoLostWakeup'
  BY SemNextMoves, CoveredStep
<1>3. WaitInv => SleepersAreQueued
  BY QueuedSleepers
<1>4. QED
  BY <1>1, <1>2, <1>3, AlwaysWaitInv, PTL DEF SemSpec, NobodyForgotten
=============================================================================
