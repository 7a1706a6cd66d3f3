---------------------------- MODULE RWLockProofs ----------------------------
(***************************************************************************)
(* Theorems about the readers-writers lock of locking.c, for any number of *)
(* readers and writers.                                                    *)
(*                                                                         *)
(* The lock's promise to writers, that nobody reads while one writes, is not *)
(* kept (run rwlock_exclusion).  What is proved: a reader does not come in *)
(* while somebody writes; readers do not wait for each other; the counters *)
(* count exactly the threads that are in; and, when nobody reads, writers  *)
(* exclude each other.                                                     *)
(*                                                                         *)
(* The steps of the lock are steps of semaphores, so WaitInv of module     *)
(* SemaphoreProofs holds, and NoLostWakeup with it.  RWInv adds what the   *)
(* lock knows: where in its functions each thread is when it waits, signals *)
(* or has given up the processor, and that r is 1 exactly when there is no *)
(* writer, but for the thread that is just taking it or has just taken it. *)
(***************************************************************************)
EXTENDS RWLock, SemaphoreProofs

\* Inside the section under l->lock.
Locked == {"r_wait", "r_count", "r_signal", "r_unlock"}

\* Readers that readcount counts, and writers that writecount counts.
CountedReaders == { t \in Threads : rw[t] \in {"r_signal", "r_unlock", "reading"} }
\* The writers that writecount counts.
CountedWriters == { t \in Threads : rw[t] \in {"w_wait", "writing", "w_uncount"} }

\* The types of the lock, whose counters nothing bounds yet.
RWTypes ==
  /\ rw \in [Threads -> RW]
  /\ lock \in {0, 1}
  /\ readcount \in Nat
  /\ writecount \in Nat
  /\ reads \in 0 .. MaxReads

\* Who reads and who writes.
Roles ==
  /\ \A t \in Threads : rw[t] \in Locked \cup {"r_spin", "reading"} => t \in Readers
  /\ \A t \in Threads : rw[t] \in {"w_count", "w_wait", "writing", "w_uncount"} => t \in Writers

\* Where each call of semaphore_wait() and semaphore_signal() comes from.
CallsReturn ==
  \A t \in Threads :
    /\ pc[t] \in {"test", "enqueue", "sleep"} =>
         \/ sem[t] = r /\ rw[t] = "r_count"
         \/ sem[t] = r /\ rw[t] = "w_wait" /\ pc[t] = "test"
         \/ sem[t] = w /\ rw[t] = "writing"
    /\ pc[t] \in {"pop", "wake"} =>
         \/ sem[t] = r /\ rw[t] \in {"r_unlock", "out"}
         \/ sem[t] = w /\ rw[t] \in {"r_signal", "w_uncount", "out"}

\* Where a thread may be while another runs.
Settled(t) ==
  \/ pc[t] = "client" /\ rw[t] \in {"out", "reading", "writing"}
  \/ pc[t] = "test" /\ rw[t] \in {"r_count", "writing"}

\* The others are where they may be.
OthersSettled == \A t \in Threads : t # current \/ cpu # "run" => Settled(t)

\* l->lock is held by one reader, or free.
LockIsHeld ==
  /\ \A t, u \in Threads : rw[t] \in Locked /\ rw[u] \in Locked => t = u
  /\ \A t \in Threads : rw[t] \in Locked => lock = 1

\* The counters count.
CountersAreExact ==
  /\ readcount = Cardinality(CountedReaders)
  /\ writecount = Cardinality(CountedWriters)

\* The first writer is about to take r.
Deciding(t) == rw[t] = "w_wait" /\ pc[t] = "test"

\* A reader has taken r.
Admitted(t) == rw[t] = "r_signal" \/ (rw[t] = "r_count" /\ pc[t] = "client")

\* r is 1 when there are no writers, but for a reader that is coming in.
ReadersGate ==
  /\ \A t \in Threads : Deciding(t) => val[r] = 1 /\ writecount = 1
  /\ \A t \in Threads : Admitted(t) => val[r] = 0 /\ writecount = 0
  /\ \A t \in Threads : rw[t] = "r_unlock" => writecount = 0
  /\ (\A t \in Threads : ~Deciding(t) /\ ~Admitted(t)) =>
        val[r] = IF writecount = 0 THEN 1 ELSE 0

\* The inductive invariant of the lock.
RWInv ==
  /\ RWTypes
  /\ Roles
  /\ CallsReturn
  /\ OthersSettled
  /\ LockIsHeld
  /\ CountersAreExact
  /\ ReadersGate

\* w is 1 when nobody writes, if nobody reads.
WritersGate ==
  /\ \A t, u \in Threads : Writing(t) /\ Writing(u) => t = u
  /\ \A t \in Threads : Writing(t) => val[w] = 0
  /\ (\A t \in Threads : ~Writing(t)) => val[w] = 1

----------------------------------------------------------------------------
(***************************************************************************)
(* Every step keeps RWInv                                                  *)
(***************************************************************************)

\* What a thread does in the two functions and the rwlock functions.
ThreadRuns(t) ==
  \/ ReadCall(t) \/ ReadStep(t) \/ ReadRelease(t)
  \/ WriteCall(t) \/ WriteStep(t) \/ WriteRelease(t)
  \/ InSemaphore(t) /\ UNCHANGED rwVars

\* What it does when it yields, when others are spawned, and what thread.c does.
OthersRun == (\E t \in Threads : RWYield(t) \/ RWSpawn(t)) \/ (InKernel /\ UNCHANGED rwVars)

\* Either a thread moves, or the others run.
LEMMA RWCases == RWNext => (\E t \in Threads : ThreadRuns(t)) \/ OthersRun
BY DEF RWNext, RWKernel, ThreadRuns, OthersRun

\* The steps of the lock are steps of semaphores.
LEMMA RWNextMoves == [RWNext]_everything => SemMove
<1>1. r \in Sems /\ w \in Sems
  BY RWAssumption
<1>2. ASSUME NEW t \in Threads, ThreadRuns(t) PROVE SemMove
  BY <1>1, <1>2 DEF ThreadRuns, ReadCall, ReadStep, ReadLock, ReadWait, ReadCount, ReadSignal,
     ReadUnlock,
     ReadRelease, WriteCall, WriteStep, WriteWait, WriteUncount, WriteRelease, SemMove
<1>3. CASE OthersRun
  BY <1>3 DEF OthersRun, RWYield, RWSpawn, SemMove, ThreadMove
<1>4. CASE UNCHANGED everything
  BY <1>4 DEF everything, SemMove
<1>5. QED
  BY <1>2, <1>3, <1>4, RWCases

\* Thread t moves, and the others stay where they are.
Moves(t) ==
  /\ t = current /\ cpu = "run" /\ current' = t
  /\ cpu' = (IF pc[t] = "sleep" THEN "sleep" ELSE "run")
  /\ \A u \in Threads \ {t} : rw'[u] = rw[u] /\ pc'[u] = pc[u] /\ sem'[u] = sem[u]

\* A step of the functions moves the thread that runs.
LEMMA OnlyOneMoves ==
  ASSUME WaitInv, RWTypes, NEW t \in Threads, ThreadRuns(t) PROVE Moves(t)
<1>1. WaitTypes /\ TypeOK
  BY DEF WaitInv, KernelInv, IInv
<1>2. CASE SignalWake(t) /\ UNCHANGED rwVars
  <2>1. PICK h : h = popped
    OBVIOUS
  <2>2. TryWake(h)
    BY <1>2, <2>1 DEF SignalWake
  <2>3. UNCHANGED << current, cpu >>
    BY <1>1, <2>2, WakeMoves
  <2>4. QED
    BY <1>1, <1>2, <2>3 DEF SignalWake, Moves, At, Goto, WaitTypes, rwVars
<1>3. CASE ~SignalWake(t) /\ InSemaphore(t) /\ UNCHANGED rwVars
  BY <1>1, <1>3 DEF InSemaphore, WaitDecrement, WaitSeesZero, WaitEnqueue, WaitSleep, SignalPop,
     Moves, At,
     Goto, WaitTypes, rwVars, vars, threadVars, Sleep
<1>4. CASE ReadCall(t) \/ ReadStep(t) \/ ReadRelease(t)
  BY <1>1, <1>4 DEF ReadCall, ReadStep, ReadLock, ReadWait, ReadCount, ReadSignal, ReadUnlock,
     ReadRelease, AtRW, RWGoto, WaitCall, SignalIncrement, RWTypes, Moves, At,
     Goto, WaitTypes, rwVars, vars, threadVars, allVars, semVars
<1>5. CASE WriteCall(t) \/ WriteStep(t) \/ WriteRelease(t)
  BY <1>1, <1>5 DEF WriteCall, WriteStep, WriteWait, WriteUncount, WriteRelease, 
     AtRW, RWGoto, WaitCall, SignalIncrement, RWTypes, Moves, At,
     Goto, WaitTypes, rwVars, vars, threadVars, allVars, semVars
<1>6. QED
  BY <1>2, <1>3, <1>4, <1>5 DEF ThreadRuns

\* The steps of thread t between a call and its return.
LEMMA SemaphoreMoves ==
  ASSUME WaitInv, NEW t \in Threads, InSemaphore(t)
  PROVE  /\ sem'[t] = sem[t]
         /\ pc[t] = "test" \/ val' = val
         /\ \/ pc[t] = "test" /\ val[sem[t]] # 0 /\ pc'[t] = "client" /\ val' = [val EXCEPT ![sem[t]] = @ - 1]
            \/ pc[t] = "test" /\ val[sem[t]] = 0 /\ pc'[t] = "enqueue" /\ val' = val
            \/ pc[t] = "enqueue" /\ pc'[t] = "sleep"
            \/ pc[t] = "sleep" /\ pc'[t] = "test"
            \/ pc[t] = "pop" /\ pc'[t] \in {"client", "wake"}
            \/ pc[t] = "wake" /\ pc'[t] = "client"
BY DEF WaitInv, WaitTypes, InSemaphore, WaitDecrement, WaitSeesZero, WaitEnqueue, WaitSleep,
   SignalPop,
   SignalWake, At, Goto

\* What the lock knows of thread t is kept inside the two functions.
LEMMA SemaphoreStep ==
  ASSUME WaitInv, RWInv, NEW t \in Threads, InSemaphore(t), UNCHANGED rwVars
  PROVE  RWInv'
<1>1. WaitTypes /\ RWTypes /\ Moves(t) /\ Roles /\ CallsReturn /\ ReadersGate /\ OthersSettled /\ r # w
  BY OnlyOneMoves, RWAssumption DEF WaitInv, RWInv, ThreadRuns
<1>2. UNCHANGED << rw, lock, readcount, writecount, reads >>
  BY DEF rwVars
<1>3. RWTypes' /\ Roles' /\ LockIsHeld' /\ CountersAreExact'
  BY <1>2 DEF RWTypes, Roles, LockIsHeld, CountersAreExact, RWInv, CountedReaders, CountedWriters
<1>4. CallsReturn'
  BY <1>1, <1>2, SemaphoreMoves DEF CallsReturn, Moves, ReadersGate, Deciding
<1>5. OthersSettled'
  BY <1>1, <1>2, SemaphoreMoves DEF OthersSettled, Settled, Moves, CallsReturn
<1>6. ASSUME NEW u \in Threads \ {t} 
      PROVE  ~Deciding(u) /\ ~Admitted(u) /\ ~Deciding(u)' /\ ~Admitted(u)' /\ rw[u] # "r_unlock"
  BY <1>1, <1>6 DEF OthersSettled, Settled, Moves, Deciding, Admitted
<1>7. ReadersGate'
  <2>1. CASE pc[t] = "test" /\ sem[t] = r /\ val[r] # 0
    <3>1. val'[r] = val[r] - 1 /\ pc'[t] = "client" /\ val[r] \in Nat
      BY <1>1, <2>1, SemaphoreMoves, RWAssumption DEF WaitTypes
    <3>2. CASE rw[t] = "w_wait"
      BY <1>1, <1>2, <1>6, <2>1, <3>1, <3>2 DEF ReadersGate, Deciding, Admitted
    <3>3. CASE rw[t] = "r_count"
      BY <1>1, <1>2, <1>6, <2>1, <3>1, <3>3 DEF ReadersGate, Deciding, Admitted
    <3>4. QED
      BY <1>1, <2>1, <3>2, <3>3 DEF CallsReturn
  <2>2. CASE ~(pc[t] = "test" /\ sem[t] = r /\ val[r] # 0)
    <3>1. val'[r] = val[r] /\ (pc'[t] = "client" /\ pc[t] = "test" => sem[t] = w)
      BY <1>1, <2>2, SemaphoreMoves, RWAssumption DEF WaitTypes
    <3>2. (Deciding(t)' <=> Deciding(t)) /\ (Admitted(t)' <=> Admitted(t))
      BY <1>1, <1>2, <2>2, <3>1, SemaphoreMoves DEF Deciding, Admitted, CallsReturn, ReadersGate
    <3>3. QED
      BY <1>1, <1>2, <1>6, <3>1, <3>2 DEF ReadersGate
  <2>3. QED
    BY <2>1, <2>2
<1>8. QED
  BY <1>3, <1>4, <1>5, <1>7 DEF RWInv

\* Threads that do not run are neither deciding nor coming in.
LEMMA OthersWait ==
  ASSUME RWInv, NEW t \in Threads, Moves(t), NEW u \in Threads \ {t}
  PROVE  ~Deciding(u) /\ ~Admitted(u) /\ ~Deciding(u)' /\ ~Admitted(u)' /\ rw[u] # "r_unlock" /\ rw'[u] = rw[u]
BY DEF RWInv, OthersSettled, Settled, Moves, Deciding, Admitted

\* The counters are numbers.
LEMMA CountsAreNumbers ==
  ASSUME IsFiniteSet(Threads)
  PROVE  /\ IsFiniteSet(CountedReaders) /\ Cardinality(CountedReaders) \in Nat
         /\ IsFiniteSet(CountedWriters) /\ Cardinality(CountedWriters) \in Nat
         /\ Cardinality(CountedReaders') \in Nat /\ Cardinality(CountedWriters') \in Nat
BY FS_Subset, FS_CardinalityType DEF CountedReaders, CountedWriters

\* Who is counted when thread t moves.
LEMMA CountsMove ==
  ASSUME IsFiniteSet(Threads), RWInv, NEW t \in Threads, Moves(t)
  PROVE  LET in == {"r_signal", "r_unlock", "reading"} 
             wr == {"w_wait", "writing", "w_uncount"}
         IN /\ Cardinality(CountedReaders)' = Cardinality(CountedReaders)
                 + (IF rw'[t] \in in THEN 1 ELSE 0) - (IF rw[t] \in in THEN 1 ELSE 0)
            /\ Cardinality(CountedWriters)' = Cardinality(CountedWriters)
                 + (IF rw'[t] \in wr THEN 1 ELSE 0) - (IF rw[t] \in wr THEN 1 ELSE 0)
<1> DEFINE in == {"r_signal", "r_unlock", "reading"} 
           wr == {"w_wait", "writing", "w_uncount"}
<1>1. \A u \in Threads \ {t} : rw'[u] = rw[u]
  BY DEF Moves
<1>2. CountedReaders' = (IF rw'[t] \in in THEN CountedReaders \cup {t} ELSE CountedReaders \ {t})
  BY <1>1 DEF CountedReaders
<1>3. CountedWriters' = (IF rw'[t] \in wr THEN CountedWriters \cup {t} ELSE CountedWriters \ {t})
  BY <1>1 DEF CountedWriters
<1>4. (t \in CountedReaders <=> rw[t] \in in) /\ (t \in CountedWriters <=> rw[t] \in wr)
  BY DEF CountedReaders, CountedWriters
<1>5. PICK A : A = CountedReaders
  OBVIOUS
<1>6. PICK B : B = CountedWriters
  OBVIOUS
<1>7. IsFiniteSet(A) /\ Cardinality(A) \in Nat /\ IsFiniteSet(B) /\ Cardinality(B) \in Nat
  BY <1>5, <1>6, CountsAreNumbers
<1>8. /\ Cardinality(A \cup {t}) = IF t \in A THEN Cardinality(A) ELSE Cardinality(A) + 1
      /\ Cardinality(A \ {t}) = IF t \in A THEN Cardinality(A) - 1 ELSE Cardinality(A)
  BY <1>7, FS_AddElement, FS_RemoveElement
<1>9. /\ Cardinality(B \cup {t}) = IF t \in B THEN Cardinality(B) ELSE Cardinality(B) + 1
      /\ Cardinality(B \ {t}) = IF t \in B THEN Cardinality(B) - 1 ELSE Cardinality(B)
  BY <1>7, FS_AddElement, FS_RemoveElement
<1>10. Cardinality(CountedReaders)' = Cardinality(A)
                 + (IF rw'[t] \in in THEN 1 ELSE 0) - (IF rw[t] \in in THEN 1 ELSE 0)
  BY <1>2, <1>4, <1>5, <1>7, <1>8
<1>11. Cardinality(CountedWriters)' = Cardinality(B)
                 + (IF rw'[t] \in wr THEN 1 ELSE 0) - (IF rw[t] \in wr THEN 1 ELSE 0)
  BY <1>3, <1>4, <1>6, <1>7, <1>9
<1>12. QED
  BY <1>5, <1>6, <1>10, <1>11

\* rwlock_read_acquire() and rwlock_read_release().
LEMMA ReaderStep ==
  ASSUME IsFiniteSet(Threads), WaitInv, RWInv, NEW t \in Threads, ReadCall(t) \/ ReadStep(t) \/ ReadRelease(t)
  PROVE  RWInv'
<1>1. WaitTypes /\ RWTypes /\ Moves(t) /\ Roles /\ CallsReturn /\ ReadersGate /\ OthersSettled /\ LockIsHeld /\ CountersAreExact
  BY OnlyOneMoves DEF WaitInv, RWInv, ThreadRuns
<1>2. pc[t] = "client" /\ sem'[t] \in Sems /\ r \in Sems /\ w \in Sems /\ r # w
  BY <1>1, RWAssumption DEF ReadCall, ReadStep, ReadLock, ReadWait, ReadCount, ReadSignal,
     ReadUnlock,
     ReadRelease, AtRW, At, WaitCall, SignalIncrement, allVars, semVars, WaitTypes
<1>3. /\ \A u \in Threads \ {t} : ~Deciding(u) /\ ~Admitted(u) /\ ~Deciding(u)' /\ ~Admitted(u)'
                                  /\ rw[u] # "r_unlock" /\ rw'[u] = rw[u]
      /\ \A u \in Threads \ {t} : rw'[u] = rw[u] /\ pc'[u] = pc[u] /\ sem'[u] = sem[u]
      /\ t = current /\ cpu = "run" /\ current' = t /\ cpu' = "run"
  BY <1>1, <1>2, OthersWait DEF Moves
<1>4. writecount' = writecount /\ rw' \in [Threads -> RW] /\ reads' \in 0 .. MaxReads
  BY <1>1, RWAssumption DEF RWTypes, RW, ReadCall, ReadStep, ReadLock, ReadWait, ReadCount,
     ReadSignal, ReadUnlock, ReadRelease, RWGoto
<1> DEFINE Stays == pc'[t] = "client" /\ val'[r] = val[r]
           MayPop == Stays \/ (pc'[t] = "pop" /\ sem'[t] = w /\ val'[r] = val[r])
           Goes(p, q) == rw[t] = p /\ rw'[t] = q
           Same == UNCHANGED << lock, readcount >>
<1>5. \/ Goes("out", "r_spin") /\ t \in Readers /\ Stays /\ Same
      \/ Goes("r_spin", "r_wait") /\ Stays /\ lock = 0 /\ lock' = 1 /\ readcount' = readcount
      \/ Goes("r_wait", "r_count") /\ pc'[t] = "test" /\ sem'[t] = r /\ val'[r] = val[r] /\ Same
      \/ Goes("r_count", "r_signal") /\ MayPop /\ lock' = lock /\ readcount' = readcount + 1
      \/ Goes("r_signal", "r_unlock") /\ pc'[t] = "pop" /\ sem'[t] = r /\ val'[r] = val[r] + 1 /\ Same
      \/ Goes("r_unlock", "reading") /\ Stays /\ lock' = 0 /\ readcount' = readcount
      \/ Goes("reading", "out") /\ MayPop /\ lock' = lock /\ readcount' = readcount - 1
  BY <1>1, <1>2 DEF ReadCall, ReadStep, ReadLock, ReadWait, ReadCount, ReadSignal, ReadUnlock,
     ReadRelease, AtRW, RWGoto, At, Goto, WaitCall, SignalIncrement, allVars, semVars, RWTypes,
     WaitTypes
<1>6. CountersAreExact'
  BY <1>1, <1>4, <1>5, CountsMove DEF CountersAreExact, RWTypes
<1>7. RWTypes'
  BY <1>1, <1>4, <1>5, <1>6, CountsAreNumbers DEF RWTypes, CountersAreExact
<1>8. Roles'
  BY <1>1, <1>3, <1>5 DEF Roles, Locked
<1>9. CallsReturn' /\ OthersSettled'
  BY <1>1, <1>2, <1>3, <1>5 DEF CallsReturn, OthersSettled, Settled
<1>10. LockIsHeld'
  BY <1>1, <1>3, <1>5 DEF LockIsHeld, Locked
<1>11. val[r] \in Nat
  BY <1>1, <1>2 DEF WaitTypes
<1>12. ReadersGate'
  BY <1>1, <1>2, <1>3, <1>4, <1>5, <1>11 DEF ReadersGate, Deciding, Admitted
<1>13. QED
  BY <1>6, <1>7, <1>8, <1>9, <1>10, <1>12 DEF RWInv

\* rwlock_write_acquire() and rwlock_write_release().
LEMMA WriterStep ==
  ASSUME IsFiniteSet(Threads), WaitInv, RWInv, NEW t \in Threads, WriteCall(t) \/ WriteStep(t) \/ WriteRelease(t)
  PROVE  RWInv'
<1>1. WaitTypes /\ RWTypes /\ Moves(t) /\ Roles /\ CallsReturn /\ ReadersGate /\ OthersSettled /\ LockIsHeld /\ CountersAreExact
  BY OnlyOneMoves DEF WaitInv, RWInv, ThreadRuns
<1>2. pc[t] = "client" /\ sem'[t] \in Sems /\ r \in Sems /\ w \in Sems /\ r # w
  BY <1>1, RWAssumption DEF WriteCall, WriteStep, WriteWait, WriteUncount, WriteRelease,
     AtRW, At, WaitCall, SignalIncrement, allVars, semVars, WaitTypes
<1>3. /\ \A u \in Threads \ {t} : ~Deciding(u) /\ ~Admitted(u) /\ ~Deciding(u)' /\ ~Admitted(u)'
                                  /\ rw[u] # "r_unlock" /\ rw'[u] = rw[u]
      /\ \A u \in Threads \ {t} : rw'[u] = rw[u] /\ pc'[u] = pc[u] /\ sem'[u] = sem[u]
      /\ t = current /\ cpu = "run" /\ current' = t /\ cpu' = "run"
  BY <1>1, <1>2, OthersWait DEF Moves
<1>4. UNCHANGED << readcount, lock, reads >> /\ rw' \in [Threads -> RW]
  BY <1>1, RWAssumption DEF RWTypes, RW, WriteCall, WriteStep, WriteWait, WriteUncount,
     WriteRelease, RWGoto
<1> DEFINE Stays == pc'[t] = "client" /\ val'[r] = val[r]
           Goes(p, q) == rw[t] = p /\ rw'[t] = q
<1>5. \/ /\ Goes("out", "w_wait") /\ t \in Writers /\ writecount' = writecount + 1
         /\ IF writecount = 0 THEN pc'[t] = "test" /\ sem'[t] = r /\ val'[r] = val[r] ELSE Stays
      \/ /\ Goes("w_wait", "writing") /\ writecount' = writecount
         /\ pc'[t] = "test" /\ sem'[t] = w /\ val'[r] = val[r]
      \/ /\ Goes("writing", "w_uncount") /\ writecount' = writecount
         /\ pc'[t] = "pop" /\ sem'[t] = w /\ val'[r] = val[r]
      \/ /\ Goes("w_uncount", "out") /\ writecount' = writecount - 1
         /\ IF writecount = 1 THEN pc'[t] = "pop" /\ sem'[t] = r /\ val'[r] = val[r] + 1 ELSE Stays
  BY <1>1, <1>2 DEF WriteCall, WriteStep, WriteWait, WriteUncount, WriteRelease,
     AtRW, RWGoto, At, Goto, WaitCall, SignalIncrement, allVars, semVars, RWTypes, WaitTypes
<1>6. CountersAreExact'
  BY <1>1, <1>4, <1>5, CountsMove DEF CountersAreExact, RWTypes
<1>7. RWTypes'
  BY <1>1, <1>4, <1>5, <1>6, CountsAreNumbers DEF RWTypes, CountersAreExact
<1>8. Roles'
  BY <1>1, <1>3, <1>5 DEF Roles, Locked
<1>9. CallsReturn' /\ OthersSettled'
  BY <1>1, <1>2, <1>3, <1>5 DEF CallsReturn, OthersSettled, Settled
<1>10. LockIsHeld'
  BY <1>1, <1>3, <1>4, <1>5 DEF LockIsHeld, Locked
<1>11. val[r] \in Nat /\ writecount \in Nat /\ (rw[t] \in {"w_wait", "writing", "w_uncount"} => writecount # 0)
  <2>1. t \in CountedWriters <=> rw[t] \in {"w_wait", "writing", "w_uncount"}
    BY DEF CountedWriters
  <2>2. t \in CountedWriters => Cardinality(CountedWriters) # 0
    BY CountsAreNumbers, FS_EmptySet
  <2>3. QED
    BY <1>1, <1>2, <2>1, <2>2 DEF WaitTypes, RWTypes, CountersAreExact
<1>12. ReadersGate'
  <2>1. \A u \in Threads : ~Deciding(u) /\ ~Admitted(u) /\ rw[u] # "r_unlock"
    BY <1>2, <1>3, <1>5 DEF Deciding, Admitted
  <2>2. val[r] = IF writecount = 0 THEN 1 ELSE 0
    BY <1>1, <2>1 DEF ReadersGate
  <2>3. QED
    BY <1>2, <1>3, <1>5, <1>11, <2>1, <2>2 DEF ReadersGate, Deciding, Admitted
<1>13. QED
  BY <1>6, <1>7, <1>8, <1>9, <1>10, <1>12 DEF RWInv

\* Yielding, spawning and thread.c.
LEMMA OthersStep ==
  ASSUME WaitInv, RWInv, OthersRun PROVE RWInv'
<1>1. UNCHANGED << rw, lock, readcount, writecount, reads, val, pc, sem >>
  BY DEF OthersRun, RWYield, RWSpawn, SemYield, SemSpawn, InKernel, SemSleepCheckKill, SemRunYield, RunYield, semVars, rwVars
<1>2. \/ \A u \in Threads : Settled(u)
      \/ current' = current /\ cpu' = cpu
  <2>1. ASSUME NEW t \in Threads, RWYield(t) PROVE \A u \in Threads : Settled(u)
    BY <2>1 DEF RWYield, SemYield, At, RWInv, OthersSettled, Settled
  <2>2. ASSUME NEW t \in Threads, RWSpawn(t) PROVE current' = current /\ cpu' = cpu
    BY <2>2 DEF RWSpawn, SemSpawn, Spawn
  <2>3. CASE InKernel
    <3>1. cpu # "run"
      BY <2>3 DEF InKernel, SemSleepCheckKill, SemRunYield, RunYield,
         SleepCheckKill, SwitchTo, BuryKilled, YieldReturns, InYield
    <3>2. QED
      BY <3>1 DEF RWInv, OthersSettled
  <2>4. QED
    BY <2>1, <2>2, <2>3 DEF OthersRun
<1>3. OthersSettled'
  BY <1>1, <1>2 DEF RWInv, OthersSettled, Settled
<1>4. QED
  BY <1>1, <1>3 DEF RWInv, RWTypes, Roles, CallsReturn, LockIsHeld, CountersAreExact, ReadersGate,
     CountedReaders, CountedWriters, Deciding, Admitted

\* Every step keeps the invariant.
LEMMA RWStep ==
  ASSUME IsFiniteSet(Threads), WaitInv, RWInv, [RWNext]_everything PROVE RWInv'
<1>1. CASE UNCHANGED everything
  BY <1>1 DEF everything, allVars, vars, threadVars, semVars, rwVars, RWInv, RWTypes, Roles,
     CallsReturn, OthersSettled, Settled,
     LockIsHeld, CountersAreExact, ReadersGate, CountedReaders, CountedWriters, Deciding, Admitted
<1>2. QED
  BY <1>1, RWCases, SemaphoreStep, ReaderStep, WriterStep, OthersStep DEF ThreadRuns

\* rwlock_init()
LEMMA RWInitInv == RWInit => WaitInv /\ RWInv
<1> SUFFICES ASSUME RWInit PROVE WaitInv /\ RWInv
  OBVIOUS
<1>1. PICK v \in [Sems -> Nat] : v = [s \in Sems |-> 1]
  OBVIOUS
<1>2. SemInitWith(v)
  BY <1>1 DEF RWInit
<1>3. WaitInv
  BY <1>2, WaitInit
<1>4. CountedReaders = {} /\ CountedWriters = {}
  BY DEF RWInit, CountedReaders, CountedWriters
<1>5. CountersAreExact
  BY <1>4, FS_EmptySet DEF RWInit, CountersAreExact
<1>6. RWTypes
  BY RWAssumption DEF RWInit, RWTypes, RW
<1>7. /\ \A t \in Threads : rw[t] = "out" /\ pc[t] = "client"
      /\ val[r] = 1 /\ writecount = 0
  BY RWAssumption DEF RWInit, SemInitWith
<1>8. Roles /\ CallsReturn /\ OthersSettled /\ LockIsHeld /\ ReadersGate
  BY <1>7 DEF Roles, CallsReturn, OthersSettled, Settled, LockIsHeld, ReadersGate, Deciding,
     Admitted, Locked
<1>9. QED
  BY <1>3, <1>5, <1>6, <1>8 DEF RWInv

\* Both invariants hold in every state.
LEMMA AlwaysRWInv ==
  ASSUME BootIdles, IsFiniteSet(Threads) PROVE RWSpec => [](WaitInv /\ RWInv)
<1>1. WaitInv /\ RWInv /\ [RWNext]_everything => (WaitInv /\ RWInv)'
  BY RWNextMoves, WaitStep, RWStep
<1>2. QED
  BY <1>1, RWInitInv, PTL DEF RWSpec

----------------------------------------------------------------------------
(***************************************************************************)
(* What follows from it                                                    *)
(***************************************************************************)

\* A reader never comes in while a writer holds the lock: it is counted in,
\* takes r, signals and returns without giving up the processor, and r could
\* only be taken while there was no writer.
THEOREM ReadersWait ==
  ASSUME BootIdles, IsFiniteSet(Threads) PROVE RWSpec => ReadersWaitForWriters
<1>1. ASSUME WaitInv, RWInv, [RWNext]_everything, NEW t \in Threads, ~Reading(t), Reading(t)'
      PROVE  \A u \in Threads : ~Writing(u)
  <2>1. rw[t] = "r_unlock"
    <3>1. ASSUME NEW u \in Threads, ThreadRuns(u) PROVE rw[t] = "r_unlock"
      <4>1. u = t
        BY <1>1, <3>1, OnlyOneMoves DEF RWInv, Moves, Reading
      <4>2. QED
        BY <1>1, <3>1, <4>1 DEF ThreadRuns, ReadCall, ReadStep, ReadLock, ReadWait, ReadCount,
           ReadSignal, ReadUnlock,
           ReadRelease, WriteCall, WriteStep, WriteWait, WriteUncount, WriteRelease, AtRW, RWGoto,
           RWInv, RWTypes, Reading, rwVars
    <3>2. ~OthersRun /\ ~UNCHANGED everything
      BY <1>1 DEF OthersRun, RWYield, RWSpawn, rwVars, everything, Reading
    <3>3. QED
      BY <1>1, <3>1, <3>2, RWCases
  <2>2. writecount = 0
    BY <1>1, <2>1 DEF RWInv, ReadersGate
  <2>3. QED
    BY <1>1, <2>2, CountsAreNumbers, FS_EmptySet DEF RWInv, CountersAreExact, CountedWriters,
       Writing
<1>2. WaitInv /\ RWInv /\ [RWNext]_everything =>
        (\A t \in Threads : ~Reading(t) /\ Reading(t)' => \A u \in Threads : ~Writing(u))
  BY <1>1
<1>3. QED
  BY <1>2, AlwaysRWInv, PTL DEF ReadersWaitForWriters, RWSpec

\* The types of the lock; in particular its counters count threads.
LEMMA RWTypesHold == ASSUME IsFiniteSet(Threads), RWInv PROVE RWTypeOK
<1>1. CountedReaders \subseteq Readers /\ CountedWriters \subseteq Writers
  BY DEF RWInv, Roles, CountedReaders, CountedWriters, Locked
<1>2. IsFiniteSet(Readers) /\ IsFiniteSet(Writers)
  BY RWAssumption, FS_Subset
<1>3. /\ Cardinality(CountedReaders) <= Cardinality(Readers) /\ Cardinality(Readers) \in Nat
      /\ Cardinality(CountedWriters) <= Cardinality(Writers) /\ Cardinality(Writers) \in Nat
  BY <1>1, <1>2, FS_Subset, FS_CardinalityType
<1>4. QED
  BY <1>3 DEF RWInv, RWTypes, RWTypeOK, CountersAreExact

\* A reader sleeps only while there are writers, or for the rest of a signal.
LEMMA SharingHolds ==
  ASSUME IsFiniteSet(Threads), WaitInv, RWInv, NoLostWakeup PROVE ReadersShare
<1> SUFFICES ASSUME NEW t \in Readers, rw[t] = "r_count", state[t] = "SLEEP", writecount = 0
             PROVE  pc[current] \in {"pop", "wake"} /\ sem[current] = r
  BY DEF ReadersShare
<1>1. /\ t \in Threads /\ r \in Sems /\ w \in Sems /\ r # w
      /\ WaitTypes /\ RWTypes /\ OthersSettled /\ CallsReturn /\ LockIsHeld /\ ReadersGate
  BY RWAssumption DEF WaitInv, RWInv
<1>2. t # current \/ cpu # "run"
  BY DEF WaitInv, KernelInv, RunningIsRunnable, Runnable
<1>3. Asleep(t, r)
  BY <1>1, <1>2 DEF OthersSettled, Settled, CallsReturn, Asleep
<1>4. \A u \in Threads : ~Admitted(u) /\ ~Deciding(u)
  BY <1>1, <1>3 DEF LockIsHeld, Locked, Admitted, Deciding, Asleep, ReadersGate
<1>5. val[r] = 1
  BY <1>1, <1>4 DEF ReadersGate
<1>6. WokenOn(r) = {}
  <2> SUFFICES ASSUME NEW u \in Threads, Woken(u, r) PROVE FALSE
    BY DEF WokenOn
  <2>1. pc[u] = "test" /\ sem[u] = r /\ state[u] # "SLEEP"
    BY DEF Woken, Runnable
  <2>2. rw[u] = "r_count"
    BY <1>1, <1>4, <2>1 DEF CallsReturn, Deciding
  <2>3. u = t
    BY <1>1, <2>2 DEF LockIsHeld, Locked
  <2>4. QED
    BY <2>1, <2>3
<1>7. Cardinality(WokenOn(r)) = 0
  BY <1>6, FS_EmptySet
<1>8. Covered(r)
  BY <1>1, AllCovered
<1>9. 1 <= 0 + Announced(r)
  BY <1>1, <1>3, <1>5, <1>7, <1>8 DEF Covered
<1>10. QED
  BY <1>9 DEF Announced

\* For any readers and writers: the counters count exactly the threads that
\* are in, and no reader sleeps while there is no writer.  The second half
\* is where no wakeup of r may be lost.
THEOREM ReadersStaySound ==
  ASSUME BootIdles, IsFiniteSet(Threads), Killable = {}
  PROVE  RWSpec => []ReadersSound
<1>1. RWInit => NoLostWakeup
  BY InitCovered DEF RWInit
<1>2. WaitInv /\ NoLostWakeup /\ [RWNext]_everything => NoLostWakeup'
  BY RWNextMoves, CoveredStep, RWAssumption
<1>3. WaitInv /\ RWInv /\ NoLostWakeup => ReadersSound
  BY RWTypesHold, SharingHolds DEF ReadersSound
<1>4. QED
  BY <1>1, <1>2, <1>3, AlwaysRWInv, PTL DEF RWSpec

\* The value of w and the writer.
LEMMA WritersGateStep ==
  ASSUME Readers = {}, WaitInv, RWInv, WritersGate, [RWNext]_everything PROVE WritersGate'
<1>1. /\ r \in Sems /\ w \in Sems /\ r # w
      /\ WaitTypes /\ RWTypes /\ CallsReturn /\ Roles
  BY RWAssumption DEF WaitInv, RWInv
<1>2. ASSUME NEW t \in Threads, ThreadRuns(t) PROVE WritersGate'
  <2>1. Moves(t)
    BY <1>1, <1>2, OnlyOneMoves
  <2>2. \A u \in Threads \ {t} : Writing(u)' <=> Writing(u)
    BY <2>1 DEF Moves, Writing
  <2>3. \/ val'[w] = val[w] /\ (Writing(t)' <=> Writing(t))
        \/ val'[w] = val[w] - 1 /\ val[w] # 0 /\ Writing(t)'
        \/ val'[w] = val[w] + 1 /\ Writing(t) /\ ~Writing(t)'
    <3>1. CASE InSemaphore(t) /\ UNCHANGED rwVars
      <4>1. rw' = rw
        BY <3>1 DEF rwVars
      <4>2. QED
        BY <1>1, <3>1, <4>1, SemaphoreMoves DEF WaitTypes, CallsReturn, Writing
    <3>2. CASE WriteCall(t) \/ WriteStep(t) \/ WriteRelease(t)
      BY <1>1, <3>2 DEF WriteCall, WriteStep, WriteWait, WriteUncount, WriteRelease,
         AtRW, RWGoto, At, Goto, WaitCall, SignalIncrement, allVars, semVars, RWTypes, WaitTypes,
         Writing
    <3>3. ~(ReadCall(t) \/ ReadStep(t) \/ ReadRelease(t))
      BY <1>1 DEF ReadCall, ReadStep, ReadLock, ReadWait, ReadCount, ReadSignal, ReadUnlock,
         ReadRelease, AtRW,
         Roles, Locked
    <3>4. QED
      BY <1>2, <3>1, <3>2, <3>3 DEF ThreadRuns
  <2>4. val[w] \in Nat
    BY <1>1 DEF WaitTypes
  <2>5. QED
    BY <2>2, <2>3, <2>4 DEF WritersGate
<1>3. CASE OthersRun \/ UNCHANGED everything
  <2>1. UNCHANGED << rw, val, pc >>
    BY <1>3 DEF OthersRun, RWYield, RWSpawn, SemYield, SemSpawn, InKernel, SemSleepCheckKill,
       SemRunYield, RunYield, semVars, rwVars, everything, allVars
  <2>2. QED
    BY <2>1 DEF WritersGate, Writing
<1>4. QED
  BY <1>2, <1>3, RWCases

\* When nobody reads, there is one writer at a time, whatever the wait queue
\* of w does and however many writers there are.
THEOREM WritersExclude ==
  ASSUME BootIdles, IsFiniteSet(Threads), Readers = {} PROVE RWSpec => []OneWriter
<1>1. RWInit => WritersGate
  BY RWAssumption DEF RWInit, SemInitWith, WritersGate, Writing
<1>2. WaitInv /\ RWInv /\ WritersGate /\ [RWNext]_everything => WritersGate'
  BY WritersGateStep
<1>3. WritersGate => OneWriter
  BY DEF WritersGate, OneWriter
<1>4. QED
  BY <1>1, <1>2, <1>3, AlwaysRWInv, PTL DEF RWSpec
=============================================================================
