------------------------------- MODULE Threads -------------------------------
(***************************************************************************)
(* thread.c over scheduler.c: the life of kernel threads on one processor. *)
(*                                                                         *)
(* Nothing preempts a thread: it runs until it calls thread_yield() or     *)
(* thread_sleep(), or returns.  What does interleave is interrupt handlers *)
(* that wake sleeping threads, between any two steps.  A handler runs to   *)
(* its end, and a spinlock section keeps interrupts off, so both are one   *)
(* step.                                                                   *)
(*                                                                         *)
(* thread_sleep() and yield() are several steps; 'cpu' says where the      *)
(* processor is:                                                           *)
(*   "run"    in the code of the current thread                            *)
(*   "sleep"  in thread_sleep(), the state being SLEEP already             *)
(*   "yield"  in yield(), called by thread_sleep() or thread_yield()       *)
(*   "last"   in a yield() that must not return: its call is followed by   *)
(*            assert(0 && "Unreachable!")                                  *)
(*   "panic"  that assertion has been reached                              *)
(***************************************************************************)
EXTENDS ReadyList

CONSTANTS Boot,      \* the thread threading_init() makes of the boot stack
          Idle,      \* threads whose program never sleeps nor returns
          SleepAlone,\* may a thread call thread_sleep() when nobody is ready?
          Killable,  \* threads thread_kill() may be called on
          IrqWakes   \* threads an interrupt handler may wake

ASSUME ThreadsAssumption ==
  /\ Boot \in Threads
  /\ Idle \subseteq Threads
  /\ SleepAlone \in BOOLEAN
  /\ Killable \subseteq Threads
  /\ IrqWakes \subseteq Threads

VARIABLES live,          \* the threads on thread_list: spawned, not destroyed
          state,         \* thread_t.state
          request_kill,  \* thread_t.request_kill
          current,       \* thread_current()
          cpu

threadVars == <<live, state, request_kill, current, cpu>>
vars == <<schedVars, threadVars>>

State == {"READY", "RUN", "SLEEP", "DEAD"}
Cpu == {"run", "sleep", "yield", "last", "panic"}

\* threading_init(): the slab's template gives the boot thread state 0,
\* THREAD_READY, although it runs.
Init ==
  /\ SchedInit
  /\ live = {Boot}
  /\ state = [t \in Threads |-> "READY"]
  /\ request_kill = [t \in Threads |-> FALSE]
  /\ current = Boot
  /\ cpu = "run"

----------------------------------------------------------------------------
(***************************************************************************)
(* Calls the current thread makes.                                         *)
(***************************************************************************)

\* thread_spawn(): the slab may hand out any thread_t that is not in use,
\* also one that the stale ready_e still points at.
Spawn(t) ==
  /\ cpu = "run"
  /\ t \notin live
  /\ live' = live \cup {t}
  /\ state' = [state EXCEPT ![t] = "READY"]
  /\ request_kill' = [request_kill EXCEPT ![t] = FALSE]
  /\ SchedulerReady(t)
  /\ UNCHANGED <<current, cpu>>

\* thread_destroy(t), whose caller has seen that t finished: the code does
\* not check.
Destroy(t) ==
  /\ cpu = "run"
  /\ t \in live \ {current}
  /\ state[t] = "DEAD"
  /\ live' = live \ {t}
  /\ UNCHANGED <<schedVars, state, request_kill, current, cpu>>

\* Mutant: a killed thread is readied like any other.
YieldReadiesKilled ==
  /\ cpu = "run"
  /\ IF request_kill[current]
       THEN state' = [state EXCEPT ![current] = "DEAD"]
       ELSE UNCHANGED state
  /\ SchedulerReady(current)
  /\ cpu' = "yield"
  /\ UNCHANGED <<live, request_kill, current>>

\* thread_yield(), up to its call of yield()
Yield ==
  /\ cpu = "run"
  /\ IF request_kill[current]
       THEN /\ state' = [state EXCEPT ![current] = "DEAD"]
            /\ UNCHANGED schedVars
       ELSE /\ SchedulerReady(current)
            /\ UNCHANGED state
  /\ cpu' = "yield"
  /\ UNCHANGED <<live, request_kill, current>>

\* thread_sleep(), its first assignment
Sleep ==
  /\ cpu = "run"
  /\ current \notin Idle
  /\ ready_s # NULL \/ SleepAlone
  /\ state' = [state EXCEPT ![current] = "SLEEP"]
  /\ cpu' = "sleep"
  /\ UNCHANGED <<schedVars, live, request_kill, current>>

\* thread_sleep(), the rest, up to its call of yield()
SleepCheckKill ==
  /\ cpu = "sleep"
  /\ state' = IF request_kill[current] THEN [state EXCEPT ![current] = "DEAD"]
                                       ELSE state
  /\ cpu' = "yield"
  /\ UNCHANGED <<schedVars, live, request_kill, current>>

\* trampoline(), after the thread's function has returned
Exit ==
  /\ cpu = "run"
  /\ current \notin Idle
  /\ state' = [state EXCEPT ![current] = "DEAD"]
  /\ cpu' = "last"
  /\ UNCHANGED <<schedVars, live, request_kill, current>>

\* thread_kill(t)
Kill(t) ==
  /\ cpu = "run"
  /\ t \in live \cap Killable
  /\ ~request_kill[t]
  /\ request_kill' = [request_kill EXCEPT ![t] = TRUE]
  /\ UNCHANGED <<schedVars, live, state, current, cpu>>

\* Mutant: the compare-and-swap also succeeds on a dead thread.
WakeTheDead(t) ==
  /\ state[t] \in {"SLEEP", "DEAD"}
  /\ state' = [state EXCEPT ![t] = "READY"]
  /\ SchedulerReady(t)

\* thread_wake(t) when its compare-and-swap succeeds; otherwise the call
\* changes nothing and returns -1.
ThreadWake(t) ==
  /\ state[t] = "SLEEP"
  /\ state' = [state EXCEPT ![t] = "READY"]
  /\ SchedulerReady(t)

\* thread_wake(t) called by another thread
Wake(t) ==
  /\ cpu = "run"
  /\ t \in live \ {current}
  /\ ThreadWake(t)
  /\ UNCHANGED <<live, request_kill, current, cpu>>

\* thread_wake(t) called by an interrupt handler
IrqWake(t) ==
  /\ cpu # "panic"
  /\ t \in live \cap IrqWakes
  /\ ThreadWake(t)
  /\ UNCHANGED <<live, request_kill, current, cpu>>

----------------------------------------------------------------------------
(***************************************************************************)
(* yield()                                                                 *)
(***************************************************************************)

InYield == cpu \in {"yield", "last"}

\* Mutant: the request to die is dropped when the thread gets the processor.
SwitchForgetsKill ==
  /\ InYield
  /\ SchedulerNext
  /\ request_kill' = [request_kill EXCEPT ![ready_s] = FALSE]
  /\ state' = [state EXCEPT ![ready_s] = "RUN"]
  /\ current' = ready_s
  /\ cpu' = "run"
  /\ UNCHANGED live

\* Mutant: the thread runs although it has been killed.
SwitchIgnoresKill ==
  /\ InYield
  /\ SchedulerNext
  /\ state' = [state EXCEPT ![ready_s] = "RUN"]
  /\ current' = ready_s
  /\ cpu' = "run"
  /\ UNCHANGED <<live, request_kill>>

\* Switch to the thread that has waited longest.
SwitchTo ==
  /\ InYield
  /\ SchedulerNext
  /\ ~request_kill[ready_s]
  /\ state' = [state EXCEPT ![ready_s] = "RUN"]
  /\ current' = ready_s
  /\ cpu' = "run"
  /\ UNCHANGED <<live, request_kill>>

\* That thread has been killed: it is marked dead, and yield() calls itself.
BuryKilled ==
  /\ InYield
  /\ SchedulerNext
  /\ request_kill[ready_s]
  /\ state' = [state EXCEPT ![ready_s] = "DEAD"]
  /\ cpu' = "last"
  /\ UNCHANGED <<live, request_kill, current>>

\* Nobody is ready: yield() returns to its caller.
YieldReturns ==
  /\ InYield
  /\ ready_s = NULL
  /\ cpu' = IF cpu = "yield" THEN "run" ELSE "panic"
  /\ UNCHANGED <<schedVars, live, state, request_kill, current>>

RunYield == SwitchTo \/ BuryKilled \/ YieldReturns

GiveUpCpu == Yield \/ Sleep \/ Exit

Next ==
  \/ \E t \in Threads : \/ Spawn(t)
                        \/ Destroy(t)
                        \/ Kill(t)
                        \/ Wake(t)
                        \/ IrqWake(t)
  \/ Yield
  \/ Sleep
  \/ SleepCheckKill
  \/ Exit
  \/ SwitchTo
  \/ BuryKilled
  \/ YieldReturns

\* The processor goes on, and a thread that runs gives up the processor
\* after a while: without preemption nothing else would let others run.
Fairness ==
  /\ WF_vars(RunYield)
  /\ WF_vars(SleepCheckKill)
  /\ WF_vars(GiveUpCpu)

Spec == Init /\ [][Next]_vars
FairSpec == Spec /\ Fairness
----------------------------------------------------------------------------
TypeOK ==
  /\ SchedTypeOK
  /\ live \subseteq Threads
  /\ state \in [Threads -> State]
  /\ request_kill \in [Threads -> BOOLEAN]
  /\ current \in Threads
  /\ cpu \in Cpu

\* A thread is runnable when neither asleep nor dead.  The field 'state'
\* says READY or RUN for these, and not reliably which of the two.
Runnable(t) == t \in live /\ state[t] \in {"READY", "RUN"}

\* The running thread has left the ready list; in yield() it may be back.
OnCpu(t) == t = current /\ cpu \notin {"sleep", "yield", "last"}

\* Safety of the ready list: spawning, yielding, waking from threads and from
\* interrupt handlers, killing, dying and destroying leave on it exactly the
\* runnable threads other than the running one, each once: nobody is
\* forgotten, and nobody who sleeps, is dead or has been freed is scheduled.
ReadyListComplete ==
  /\ ListMatchesQueue
  /\ NoDuplicates
  /\ \A t \in Threads : Queued(t) <=> Runnable(t) /\ ~OnCpu(t)

\* The tail pointer scheduler_next() leaves behind never refers to a thread
\* that has been freed, so the write through it in scheduler_ready() is safe.
TailIsLive == ready_e = NULL \/ ready_e \in live

\* The processor never runs a thread that has been freed, that sleeps or
\* that is dead: yield() returns only by switching.
RunningIsRunnable == cpu = "run" => Runnable(current)

\* The two assertions "Unreachable!" of thread.c hold.
UnreachableIsUnreachable == cpu # "panic"

\* They fail only when the processor has nobody left to switch to.
PanicOnlyWhenAlone == cpu = "panic" => \A t \in Threads : ~Runnable(t)

DeadStep ==
  \A t \in live : state[t] = "DEAD" =>
     \/ t \notin live'
     \/ state'[t] = "DEAD" /\ (cpu' = "run" => current' # t)

\* A dead thread stays dead until its thread_t is destroyed, and the
\* processor is never given back to it.
DeadStaysDead == [][DeadStep]_vars

\* A runnable thread gets the processor, or dies of a kill, eventually.
ReadyRuns ==
  \A t \in Threads : Queued(t) ~> (current = t \/ state[t] = "DEAD")

\* thread_kill() takes effect at the next opportunity: a killed thread that
\* is not asleep dies.  (One that sleeps dies when somebody wakes it.)
KillTakesEffect ==
  \A t \in Threads : (request_kill[t] /\ Runnable(t)) ~> state[t] = "DEAD"

\* What scheduler.c and thread.c keep between them, with or without an idle
\* thread: the list is complete, its stale tail does not dangle, and the
\* assertions "Unreachable!" fail only when nobody is left to run.
ThreadsSound == TypeOK /\ ReadyListComplete /\ TailIsLive /\ PanicOnlyWhenAlone

\* Nobody waits for ever: who is ready runs, and who is killed dies.
ThreadsGoOn == ReadyRuns /\ KillTakesEffect
=============================================================================
