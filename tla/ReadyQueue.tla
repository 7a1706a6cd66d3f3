----------------------------- MODULE ReadyQueue -----------------------------
(***************************************************************************)
(* What scheduler.h promises of the ready list: a first-in first-out queue *)
(* of threads.  scheduler_ready() puts a thread at the back, and           *)
(* scheduler_next() returns the thread at the front, or NULL when nobody   *)
(* is ready.  'ret' is the last value scheduler_next() returned.           *)
(***************************************************************************)
EXTENDS Sequences

CONSTANTS Threads, NULL

VARIABLES queue, ret

vars == <<queue, ret>>

Init ==
  /\ queue = << >>
  /\ ret = NULL

\* A thread that already waits for the processor is not made ready again.
Enqueue(t) ==
  /\ \A i \in DOMAIN queue : queue[i] # t
  /\ queue' = Append(queue, t)
  /\ UNCHANGED ret

Dequeue ==
  /\ queue # << >>
  /\ ret' = Head(queue)
  /\ queue' = Tail(queue)

DequeueEmpty ==
  /\ queue = << >>
  /\ ret' = NULL
  /\ UNCHANGED queue

Next ==
  \/ \E t \in Threads : Enqueue(t)
  \/ Dequeue
  \/ DequeueEmpty

Spec == Init /\ [][Next]_vars
=============================================================================
