------------------------------ MODULE Scheduler ------------------------------
(***************************************************************************)
(* The scheduler on its own: scheduler_ready() and scheduler_next() called *)
(* in any order by callers that respect the one contract the list has,     *)
(* that a thread on the list is not put on it again.  (Module Threads      *)
(* shows that thread.c respects it.)  'ret' is what the last call of       *)
(* scheduler_next() returned.                                              *)
(***************************************************************************)
EXTENDS ReadyList

VARIABLE ret

vars == <<ready_s, ready_e, scheduler_next, queue, ret>>

Init == SchedInit /\ ret = NULL

Ready(t) ==
  /\ ~Queued(t)
  /\ SchedulerReady(t)
  /\ UNCHANGED ret

Take ==
  /\ SchedulerNext
  /\ ret' = ready_s

TakeNothing ==
  /\ ready_s = NULL
  /\ ret' = NULL
  /\ UNCHANGED schedVars

Next ==
  \/ \E t \in Threads : Ready(t)
  \/ Take
  \/ TakeNothing

Spec == Init /\ [][Next]_vars

TypeOK == SchedTypeOK /\ ret \in ThreadOrNull

\* The ready list is well typed, its head, links and tail pointer agree with the order in
\* which threads were readied, and no thread is on it twice, although
\* scheduler_next() leaves ready_e stale when it empties the list.
ReadyListSound == TypeOK /\ ListMatchesQueue /\ NoDuplicates

\* The pointer-based list implements the FIFO queue: scheduler_next()
\* returns the threads exactly in the order scheduler_ready() got them.
Fifo == INSTANCE ReadyQueue WITH queue <- queue, ret <- ret
FifoSpec == Fifo!Spec
=============================================================================
