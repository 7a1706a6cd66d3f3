------------------------------- MODULE RWLock -------------------------------
(***************************************************************************)
(* locking.c: the readers-writers lock, made of two semaphores r and w, a  *)
(* spinlock and two counters, on the threads of module Semaphore.          *)
(*                                                                         *)
(* rw[t] is the place thread t has reached in the rwlock functions; while  *)
(* it is inside semaphore_wait() or semaphore_signal(), module Semaphore   *)
(* moves it, and rw[t] is where it returns to.                             *)
(*                                                                         *)
(*   "out"      holds nothing                                              *)
(*   "r_spin"   read_acquire: at spinlock_acquire(&l->lock)                *)
(*   "r_wait" "r_count" "r_signal" "r_unlock"   the steps after it         *)
(*   "reading"  holds the lock for reading                                 *)
(*   "w_count" "w_wait"   write_acquire                                    *)
(*   "writing"  holds the lock for writing                                 *)
(*   "w_uncount"          write_release, after its first signal            *)
(***************************************************************************)
EXTENDS Semaphore

CONSTANTS Readers, Writers,  \* threads that use the lock for reading, writing
          r, w,              \* the two semaphores
          MaxReads           \* bound on the number of times the lock is read

ASSUME RWAssumption ==
  /\ Readers \subseteq Threads \ Idle
  /\ Writers \subseteq Threads \ Idle
  /\ Sems = {r, w} /\ r # w
  /\ Mutexes = {} /\ IrqSems = {}
  /\ MaxReads \in Nat

VARIABLES rw, lock, readcount, writecount,
          reads  \* the number of calls of rwlock_read_acquire() so far

rwVars == <<rw, lock, readcount, writecount, reads>>
everything == <<allVars, rwVars>>

RW == {"out", "r_spin", "r_wait", "r_count", "r_signal", "r_unlock", "reading",
       "w_count", "w_wait", "writing", "w_uncount"}

\* rwlock_init()
RWInit ==
  /\ SemInitWith([s \in Sems |-> 1])
  /\ rw = [t \in Threads |-> "out"]
  /\ lock = 0
  /\ readcount = 0
  /\ writecount = 0
  /\ reads = 0

\* Thread t runs in the rwlock functions, at the place p.
AtRW(t, p) == At(t, "client") /\ rw[t] = p

RWGoto(t, p) == rw' = [rw EXCEPT ![t] = p]

----------------------------------------------------------------------------
(***************************************************************************)
(* rwlock_read_acquire()                                                   *)
(***************************************************************************)

ReadCall(t) ==
  /\ t \in Readers
  /\ reads < MaxReads
  /\ AtRW(t, "out")
  /\ RWGoto(t, "r_spin")
  /\ reads' = reads + 1
  /\ UNCHANGED <<allVars, lock, readcount, writecount>>

\* spinlock_acquire(): while the lock is taken the processor spins here, with
\* interrupts off, and nothing else happens.
ReadLock(t) ==
  /\ AtRW(t, "r_spin")
  /\ lock = 0
  /\ lock' = 1
  /\ RWGoto(t, "r_wait")
  /\ UNCHANGED <<allVars, readcount, writecount, reads>>

\* Mutant: the reader does not wait for r.
ReadDoesNotWait(t) ==
  /\ AtRW(t, "r_wait")
  /\ RWGoto(t, "r_count")
  /\ UNCHANGED <<allVars, lock, readcount, writecount, reads>>

ReadWait(t) ==
  /\ AtRW(t, "r_wait")
  /\ WaitCall(t, r)
  /\ RWGoto(t, "r_count")
  /\ UNCHANGED <<lock, readcount, writecount, reads>>

\* The first reader signals w.
ReadCount(t) ==
  /\ AtRW(t, "r_count")
  /\ readcount' = readcount + 1
  /\ IF readcount = 0 THEN SignalIncrement(t, w) ELSE UNCHANGED allVars
  /\ RWGoto(t, "r_signal")
  /\ UNCHANGED <<lock, writecount, reads>>

\* Mutant: the reader keeps r.
ReadKeepsR(t) ==
  /\ AtRW(t, "r_signal")
  /\ RWGoto(t, "r_unlock")
  /\ UNCHANGED <<allVars, lock, readcount, writecount, reads>>

ReadSignal(t) ==
  /\ AtRW(t, "r_signal")
  /\ SignalIncrement(t, r)
  /\ RWGoto(t, "r_unlock")
  /\ UNCHANGED <<lock, readcount, writecount, reads>>

ReadUnlock(t) ==
  /\ AtRW(t, "r_unlock")
  /\ lock' = 0
  /\ RWGoto(t, "reading")
  /\ UNCHANGED <<allVars, readcount, writecount, reads>>

\* rwlock_read_release(): the last reader signals w.
ReadRelease(t) ==
  /\ AtRW(t, "reading")
  /\ readcount' = readcount - 1
  /\ IF readcount = 1 THEN SignalIncrement(t, w) ELSE UNCHANGED allVars
  /\ RWGoto(t, "out")
  /\ UNCHANGED <<lock, writecount, reads>>

----------------------------------------------------------------------------
(***************************************************************************)
(* rwlock_write_acquire() and rwlock_write_release()                       *)
(***************************************************************************)

\* The first writer waits for r, which keeps readers out.
WriteCall(t) ==
  /\ t \in Writers
  /\ AtRW(t, "out")
  /\ writecount' = writecount + 1
  /\ IF writecount = 0 THEN WaitCall(t, r) ELSE UNCHANGED allVars
  /\ RWGoto(t, "w_wait")
  /\ UNCHANGED <<lock, readcount, reads>>

\* Mutant: the only writer does not wait for w.
WriteWaitsIfOthers(t) ==
  /\ AtRW(t, "w_wait")
  /\ IF writecount > 1 THEN WaitCall(t, w) ELSE UNCHANGED allVars
  /\ RWGoto(t, "writing")
  /\ UNCHANGED <<lock, readcount, writecount, reads>>

WriteWait(t) ==
  /\ AtRW(t, "w_wait")
  /\ WaitCall(t, w)
  /\ RWGoto(t, "writing")
  /\ UNCHANGED <<lock, readcount, writecount, reads>>

\* Mutant: the writer keeps w.
WriteKeepsW(t) ==
  /\ AtRW(t, "writing")
  /\ RWGoto(t, "w_uncount")
  /\ UNCHANGED <<allVars, lock, readcount, writecount, reads>>

WriteRelease(t) ==
  /\ AtRW(t, "writing")
  /\ SignalIncrement(t, w)
  /\ RWGoto(t, "w_uncount")
  /\ UNCHANGED <<lock, readcount, writecount, reads>>

\* The last writer signals r.
WriteUncount(t) ==
  /\ AtRW(t, "w_uncount")
  /\ writecount' = writecount - 1
  /\ IF writecount = 1 THEN SignalIncrement(t, r) ELSE UNCHANGED allVars
  /\ RWGoto(t, "out")
  /\ UNCHANGED <<lock, readcount, reads>>

----------------------------------------------------------------------------
\* A thread may yield outside the lock and while it holds it.
RWYield(t) ==
  /\ rw[t] \in {"out", "reading", "writing"}
  /\ SemYield(t)
  /\ UNCHANGED rwVars

RWSpawn(t) == SemSpawn(t) /\ UNCHANGED rwVars

RWKernel == (InKernel \/ \E t \in Threads : InSemaphore(t)) /\ UNCHANGED rwVars

ReadStep(t) ==
  \/ ReadLock(t)
  \/ ReadWait(t)
  \/ ReadCount(t)
  \/ ReadSignal(t)
  \/ ReadUnlock(t)

WriteStep(t) == WriteWait(t) \/ WriteUncount(t)

RWNext ==
  \/ \E t \in Threads : \/ ReadCall(t)
                        \/ ReadStep(t)
                        \/ ReadRelease(t)
                        \/ WriteCall(t)
                        \/ WriteStep(t)
                        \/ WriteRelease(t)
                        \/ RWYield(t)
                        \/ RWSpawn(t)
  \/ RWKernel

\* The processor goes on; who holds the lock releases it after a while; and
\* every thread yields now and then.
RWFairness ==
  /\ WF_everything(RWKernel)
  /\ WF_everything(\E t \in Threads : ReadStep(t) \/ WriteStep(t))
  /\ \A t \in Threads : /\ SF_everything(ReadRelease(t) \/ WriteRelease(t))
                        /\ SF_everything(RWYield(t))

RWSpec == RWInit /\ [][RWNext]_everything
RWFairSpec == RWSpec /\ RWFairness
----------------------------------------------------------------------------
RWTypeOK ==
  /\ rw \in [Threads -> RW]
  /\ lock \in {0, 1}
  /\ readcount \in 0 .. Cardinality(Readers)
  /\ writecount \in 0 .. Cardinality(Writers)
  /\ reads \in 0 .. MaxReads

\* Thread t has returned from the acquire function and holds the lock.
Reading(t) == rw[t] = "reading"
Writing(t) == rw[t] = "writing" /\ pc[t] = "client"

\* "A readers-writers lock: multiple readers, one writer."
OneWriterOrReaders ==
  \A t, u \in Threads : Writing(t) /\ t # u => ~Writing(u) /\ ~Reading(u)

\* When nobody reads, there is one writer at a time.
OneWriter == \A t, u \in Threads : Writing(t) /\ Writing(u) => t = u

\* A reader never comes in while a writer holds the lock.
ReadersWaitForWriters ==
  [][\A t \in Threads : ~Reading(t) /\ Reading(t)' => \A u \in Threads : ~Writing(u)]_everything

\* Readers do not keep each other out: a reader sleeps, with the spinlock
\* held, only while there are writers or the last of them is signalling r.
ReadersShare ==
  \A t \in Readers :
    rw[t] = "r_count" /\ state[t] = "SLEEP" =>
      writecount # 0 \/ (pc[current] \in {"pop", "wake"} /\ sem[current] = r)

\* When a writer waits, the lock does not stay without a writer for ever.
\* (Which writer gets it is open: the wait queue is last in, first out.)
SomeWriterGetsIn ==
  (\E t \in Writers : rw[t] \in {"w_wait", "writing"}) ~> (\E t \in Writers : Writing(t))

\* The counters of readers and writers stay within bounds, and readers keep
\* only writers out.
ReadersSound == RWTypeOK /\ ReadersShare
=============================================================================
