------------------------------ MODULE Semaphore ------------------------------
(***************************************************************************)
(* locking.c: counting semaphores, and the mutexes hal.h makes of them, on *)
(* the threads of module Threads.                                          *)
(*                                                                         *)
(* semaphore_wait() and semaphore_signal() are broken up at the points     *)
(* where an interrupt handler can come between: pc[t] is the place in the  *)
(* function thread t is in, and sem[t] the semaphore it was called with.   *)
(*   "client"   outside both                                               *)
(*   "test"     in semaphore_wait(), at the loop that decrements val       *)
(*   "enqueue"  val was zero: about to take queue_lock                     *)
(*   "sleep"    on the queue: about to call thread_sleep()                 *)
(*   "pop"      in semaphore_signal(), val incremented                     *)
(*   "wake"     a thread, 'popped', taken from the queue                   *)
(* thread_sleep() returns to "test".  A section under queue_lock is one    *)
(* step (interrupts are off in it), and so is a whole interrupt handler.   *)
(***************************************************************************)
EXTENDS Threads, FiniteSets

CONSTANTS Sems,       \* the semaphores
          Mutexes,    \* those initialised by mutex_init() and used as mutexes
          IrqSems,    \* those an interrupt handler signals
          MaxVal      \* bound: nobody signals a semaphore whose val is MaxVal

ASSUME SemAssumption ==
  /\ Sems # {}
  /\ Mutexes \subseteq Sems
  /\ IrqSems \subseteq Sems \ Mutexes
  /\ MaxVal \in Nat \ {0}

VARIABLES val,             \* semaphore_t.val
          queue_head,      \* semaphore_t.queue_head
          semaphore_next,  \* thread_t.semaphore_next
          pc, sem,         \* control, see above
          popped,          \* the local variable t of semaphore_signal()
          holding          \* the mutexes a thread has acquired (history)

semVars == <<val, queue_head, semaphore_next, pc, sem, popped, holding>>
allVars == <<vars, semVars>>

Pc == {"client", "test", "enqueue", "sleep", "pop", "wake"}

\* semaphore_init(), followed by v[s] calls of semaphore_signal(s).
SemInitWith(v) ==
  /\ Init
  /\ val = v
  /\ queue_head = [s \in Sems |-> NULL]
  /\ semaphore_next = [t \in Threads |-> NULL]
  /\ pc = [t \in Threads |-> "client"]
  /\ sem = [t \in Threads |-> CHOOSE s \in Sems : TRUE]
  /\ popped = NULL
  /\ holding = [t \in Threads |-> {}]

\* mutex_init() signals once.
SemInit == SemInitWith([s \in Sems |-> IF s \in Mutexes THEN 1 ELSE 0])

\* The current thread t is at p.
At(t, p) == t = current /\ cpu = "run" /\ pc[t] = p

Goto(t, p) == pc' = [pc EXCEPT ![t] = p]

----------------------------------------------------------------------------
(***************************************************************************)
(* semaphore_wait(), by thread t                                           *)
(***************************************************************************)

WaitCall(t, s) ==
  /\ At(t, "client")
  /\ sem' = [sem EXCEPT ![t] = s]
  /\ Goto(t, "test")
  /\ UNCHANGED <<vars, val, queue_head, semaphore_next, popped, holding>>

\* Mutant: the decrement is lost.
WaitLosesDecrement(t) ==
  /\ At(t, "test")
  /\ val[sem[t]] # 0
  /\ holding' = [holding EXCEPT ![t] = @ \cup ({sem[t]} \cap Mutexes)]
  /\ Goto(t, "client")
  /\ UNCHANGED <<vars, val, queue_head, semaphore_next, sem, popped>>

WaitDecrement(t) ==
  /\ At(t, "test")
  /\ val[sem[t]] # 0
  /\ val' = [val EXCEPT ![sem[t]] = @ - 1]
  /\ holding' = [holding EXCEPT ![t] = @ \cup ({sem[t]} \cap Mutexes)]
  /\ Goto(t, "client")
  /\ UNCHANGED <<vars, queue_head, semaphore_next, sem, popped>>

WaitSeesZero(t) ==
  /\ At(t, "test")
  /\ val[sem[t]] = 0
  /\ Goto(t, "enqueue")
  /\ UNCHANGED <<vars, val, queue_head, semaphore_next, sem, popped, holding>>

WaitEnqueue(t) ==
  /\ At(t, "enqueue")
  /\ semaphore_next' = [semaphore_next EXCEPT ![t] = queue_head[sem[t]]]
  /\ queue_head' = [queue_head EXCEPT ![sem[t]] = t]
  /\ Goto(t, "sleep")
  /\ UNCHANGED <<vars, val, sem, popped, holding>>

\* Mutant: a thread that was woken queues again without looking at the value.
WaitSleepsAgain(t) ==
  /\ At(t, "sleep")
  /\ Sleep
  /\ Goto(t, "enqueue")
  /\ UNCHANGED <<val, queue_head, semaphore_next, sem, popped, holding>>

WaitSleep(t) ==
  /\ At(t, "sleep")
  /\ Sleep
  /\ Goto(t, "test")
  /\ UNCHANGED <<val, queue_head, semaphore_next, sem, popped, holding>>

----------------------------------------------------------------------------
(***************************************************************************)
(* semaphore_signal(), by thread t and by an interrupt handler             *)
(***************************************************************************)

\* Mutant: only the signal that makes the value nonzero wakes somebody.
SignalWakesIfZero(t, s) ==
  /\ At(t, "client")
  /\ val' = [val EXCEPT ![s] = @ + 1]
  /\ holding' = [holding EXCEPT ![t] = @ \ {s}]
  /\ sem' = [sem EXCEPT ![t] = s]
  /\ Goto(t, IF val[s] = 0 THEN "pop" ELSE "client")
  /\ UNCHANGED <<vars, queue_head, semaphore_next, popped>>

SignalIncrement(t, s) ==
  /\ At(t, "client")
  /\ val' = [val EXCEPT ![s] = @ + 1]
  /\ holding' = [holding EXCEPT ![t] = @ \ {s}]
  /\ sem' = [sem EXCEPT ![t] = s]
  /\ Goto(t, "pop")
  /\ UNCHANGED <<vars, queue_head, semaphore_next, popped>>

\* Mutant: the thread that is woken stays on the queue.
PopNothing(s) == UNCHANGED queue_head

\* The queue of s without its first thread.
PopQueue(s) ==
  queue_head' = IF queue_head[s] = NULL THEN queue_head
                ELSE [queue_head EXCEPT ![s] = semaphore_next[queue_head[s]]]

SignalPop(t) ==
  /\ At(t, "pop")
  /\ PopQueue(sem[t])
  /\ popped' = queue_head[sem[t]]
  /\ Goto(t, IF queue_head[sem[t]] = NULL THEN "client" ELSE "wake")
  /\ UNCHANGED <<vars, val, semaphore_next, sem, holding>>

\* thread_wake(u), whose result the caller ignores
TryWake(u) ==
  IF u \in Threads /\ state[u] = "SLEEP"
    THEN ThreadWake(u) /\ UNCHANGED <<live, request_kill, current, cpu>>
    ELSE UNCHANGED vars

\* Mutant: the thread taken from the queue is not woken.
SignalForgetsToWake(t) ==
  /\ At(t, "wake")
  /\ popped' = NULL
  /\ Goto(t, "client")
  /\ UNCHANGED <<vars, val, queue_head, semaphore_next, sem, holding>>

SignalWake(t) ==
  /\ At(t, "wake")
  /\ TryWake(popped)
  /\ popped' = NULL
  /\ Goto(t, "client")
  /\ UNCHANGED <<val, queue_head, semaphore_next, sem, holding>>

IrqSignal(s) ==
  /\ cpu # "panic"
  /\ s \in IrqSems
  /\ val[s] < MaxVal
  /\ val' = [val EXCEPT ![s] = @ + 1]
  /\ PopQueue(s)
  /\ TryWake(queue_head[s])
  /\ UNCHANGED <<semaphore_next, pc, sem, popped, holding>>

----------------------------------------------------------------------------
(***************************************************************************)
(* The rest of the kernel: threads call the two functions, a thread never  *)
(* acquires a mutex that it holds and only releases one that it holds; the *)
(* boot thread spawns the others, and may kill some; a thread outside the  *)
(* two functions may yield.                                                *)
(***************************************************************************)

ClientWait(t, s) ==
  /\ t \notin Idle
  /\ s \notin holding[t]
  /\ WaitCall(t, s)

ClientSignal(t, s) ==
  /\ IF s \in Mutexes THEN s \in holding[t] ELSE val[s] < MaxVal
  /\ SignalIncrement(t, s)

SemSpawn(t) ==
  /\ At(Boot, "client")
  /\ Spawn(t)
  /\ UNCHANGED semVars

SemYield(t) ==
  /\ At(t, "client")
  /\ Yield
  /\ UNCHANGED semVars

SemKill(t) ==
  /\ At(Boot, "client")
  /\ Kill(t)
  /\ UNCHANGED semVars

SemSleepCheckKill == SleepCheckKill /\ UNCHANGED semVars
SemRunYield == RunYield /\ UNCHANGED semVars

\* Whatever happens between a call and its return.
InSemaphore(t) ==
  \/ WaitDecrement(t)
  \/ WaitSeesZero(t)
  \/ WaitEnqueue(t)
  \/ WaitSleep(t)
  \/ SignalPop(t)
  \/ SignalWake(t)

InKernel == SemSleepCheckKill \/ SemRunYield

SemNext ==
  \/ \E t \in Threads, s \in Sems : ClientWait(t, s) \/ ClientSignal(t, s)
  \/ \E t \in Threads : InSemaphore(t)
  \/ \E s \in Sems : IrqSignal(s)
  \/ \E t \in Threads : SemSpawn(t) \/ SemYield(t) \/ SemKill(t)
  \/ InKernel

\* The processor goes on in the kernel, and a thread that comes back to
\* client code again and again yields now and then.
SemFairness ==
  /\ WF_allVars(InKernel)
  /\ WF_allVars(\E t \in Threads : InSemaphore(t))
  /\ \A t \in Threads : SF_allVars(SemYield(t))

SemSpec == SemInit /\ [][SemNext]_allVars
SemFairSpec == SemSpec /\ SemFairness
----------------------------------------------------------------------------
SemTypeOK ==
  /\ TypeOK
  /\ val \in [Sems -> 0 .. MaxVal]
  /\ queue_head \in [Sems -> ThreadOrNull]
  /\ semaphore_next \in [Threads -> ThreadOrNull]
  /\ pc \in [Threads -> Pc]
  /\ sem \in [Threads -> Sems]
  /\ popped \in ThreadOrNull
  /\ holding \in [Threads -> SUBSET Mutexes]

\* The threads met when walking the queue of s: the n-th pointer.
WalkQueue(s) ==
  LET link[n \in 0 .. Cardinality(Threads)] ==
        IF n = 0 THEN queue_head[s]
        ELSE IF link[n - 1] = NULL THEN NULL
        ELSE semaphore_next[link[n - 1]]
  IN link

OnQueue(s) == {t \in Threads : \E n \in 0 .. Cardinality(Threads) : WalkQueue(s)[n] = t}

\* t has gone to sleep in semaphore_wait(s).
Asleep(t, s) == state[t] = "SLEEP" /\ pc[t] = "test" /\ sem[t] = s

\* t is committed to sleep in semaphore_wait(s), or sleeps.
InLine(t, s) ==
  \/ Asleep(t, s)
  \/ At(t, "sleep") /\ sem[t] = s

\* t was woken from semaphore_wait(s) and has not tried to decrement yet.
Woken(t, s) == Runnable(t) /\ pc[t] = "test" /\ sem[t] = s

\* The queue of a semaphore, which threads join and leave one by one and in
\* interrupt handlers, is a list without cycles, never loses its tail, and
\* holds only threads that are inside semaphore_wait() on that semaphore.
QueueHoldsWaiters ==
  \A s \in Sems :
    /\ WalkQueue(s)[Cardinality(Threads)] = NULL
    /\ \A t \in OnQueue(s) : InLine(t, s)

\* When only threads signal, everyone who sleeps on a semaphore is on its
\* queue, or has just been taken off it by the signaller.
SleepersAreQueued ==
  \A s \in Sems, t \in Threads : Asleep(t, s) => t \in OnQueue(s) \/ popped = t

\* Nobody holds a mutex that another thread holds.
MutualExclusion ==
  \A t, u \in Threads : t # u => holding[t] \cap holding[u] = {}

\* No wakeup is lost: while somebody sleeps on a semaphore, each unit of its
\* value was announced to a woken thread that has not looked yet, or the
\* announcement is in the hands of the signaller.
NoLostWakeup ==
  \A s \in Sems :
    (\E t \in Threads : Asleep(t, s)) =>
      val[s] <= Cardinality({t \in Threads : Woken(t, s)})
                + (IF pc[current] \in {"pop", "wake"} /\ sem[current] = s THEN 1 ELSE 0)

\* A thread goes to sleep in semaphore_wait() only while the value is zero.
SleepsOnlyAtZero ==
  [][\A t \in Threads : WaitSleep(t) => val[sem[t]] = 0]_allVars

\* A signal that takes a thread from the queue wakes it.
SignalWakesOne ==
  [][\A t \in Threads : SignalWake(t) => state'[popped] = "READY"]_allVars

\* A thread that is killed while it sleeps on a semaphore dies when it is
\* woken: it never comes back to decrement the semaphore.
KilledNeverAcquires ==
  [][\A t \in Threads : request_kill[t] => ~WaitDecrement(t)]_allVars

\* When only threads signal, semaphore_wait() and semaphore_signal() leave no
\* one asleep whom a later signal does not find, or for whom there is a unit.
NobodyForgotten == SleepersAreQueued /\ NoLostWakeup

\* With interrupts and kills, the wait queues stay lists of waiters.
WaitQueueSound == SemTypeOK /\ QueueHoldsWaiters
=============================================================================
