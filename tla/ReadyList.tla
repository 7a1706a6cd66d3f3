------------------------------ MODULE ReadyList ------------------------------
(***************************************************************************)
(* scheduler.c: the ready list, an intrusive singly linked list threaded   *)
(* through thread_t.scheduler_next, with a head pointer ready_s and a tail *)
(* pointer ready_e.                                                        *)
(*                                                                         *)
(* Both functions run under ready_lock, whose acquisition also disables    *)
(* interrupts, so each of them is one step.  scheduler_next() moves        *)
(* ready_s only: when it takes the last thread, ready_e keeps pointing at  *)
(* it, and the next scheduler_ready() writes through that stale pointer.   *)
(*                                                                         *)
(* 'queue' is a history variable: the threads made ready and not yet       *)
(* taken, in order.  Making ready a thread that is on the list cuts off    *)
(* the threads behind it.  'queue' never influences the pointers.          *)
(***************************************************************************)
EXTENDS Sequences, Naturals, TLAPS

CONSTANTS Threads,   \* the thread_t objects the slab cache can hand out
          NULL

ASSUME NullAssumption == NULL \notin Threads

VARIABLES ready_s,         \* first thread of the ready list, or NULL
          ready_e,         \* last thread appended, or NULL before the first
          scheduler_next,  \* thread_t.scheduler_next
          queue            \* history

schedVars == <<ready_s, ready_e, scheduler_next, queue>>

ThreadOrNull == Threads \cup {NULL}

SchedInit ==
  /\ ready_s = NULL
  /\ ready_e = NULL
  /\ scheduler_next = [t \in Threads |-> NULL]
  /\ queue = << >>

Queued(t) == \E i \in DOMAIN queue : queue[i] = t

\* History: the list up to t, which is appended if it is not there.
PutLast(t) ==
  IF Queued(t) THEN SubSeq(queue, 1, CHOOSE i \in DOMAIN queue : queue[i] = t)
               ELSE Append(queue, t)

\* Mutant: the link of t is cleared before ready_e is linked to t.
ReadyClearsFirst(t) ==
  /\ scheduler_next' = [u \in Threads |-> IF u = ready_e THEN t
                                          ELSE IF u = t THEN NULL
                                          ELSE scheduler_next[u]]
  /\ ready_e' = t
  /\ ready_s' = IF ready_s = NULL THEN t ELSE ready_s
  /\ queue' = PutLast(t)

\* Mutant: the thread is put at the front of the list.
ReadyAtFront(t) ==
  /\ scheduler_next' = [scheduler_next EXCEPT ![t] = ready_s]
  /\ ready_e' = IF ready_s = NULL THEN t ELSE ready_e
  /\ ready_s' = t
  /\ queue' = <<t>> \o queue

\* scheduler_ready(t)
SchedulerReady(t) ==
  /\ scheduler_next' = [u \in Threads |-> IF u = t THEN NULL
                                          ELSE IF u = ready_e THEN t
                                          ELSE scheduler_next[u]]
  /\ ready_e' = t
  /\ ready_s' = IF ready_s = NULL THEN t ELSE ready_s
  /\ queue' = PutLast(t)

\* scheduler_next() when it finds a thread: the thread returned is ready_s.
SchedulerNext ==
  /\ ready_s # NULL
  /\ ready_s' = scheduler_next[ready_s]
  /\ queue' = SubSeq(queue, 2, Len(queue))
  /\ UNCHANGED <<ready_e, scheduler_next>>

----------------------------------------------------------------------------
\* The ready list, read through the pointers, is exactly the history: it
\* starts at the oldest thread, each link leads to the next one, it ends in
\* NULL, and ready_e is its last thread.
ListMatchesQueue ==
  /\ ready_s = IF queue = << >> THEN NULL ELSE queue[1]
  /\ \A i \in DOMAIN queue :
       scheduler_next[queue[i]] = IF i < Len(queue) THEN queue[i + 1] ELSE NULL
  /\ queue # << >> => ready_e = queue[Len(queue)]

\* No thread is on the ready list twice.
NoDuplicates == \A i, j \in DOMAIN queue : queue[i] = queue[j] => i = j

SchedTypeOK ==
  /\ ready_s \in ThreadOrNull
  /\ ready_e \in ThreadOrNull
  /\ scheduler_next \in [Threads -> ThreadOrNull]
  /\ queue \in Seq(Threads)

----------------------------------------------------------------------------
\* What the two operations keep of the shape of the list, and which threads
\* they put on it and take off.

\* The ready list is well formed: its pointers spell 'queue', without
\* repetition.
ListOK == SchedTypeOK /\ ListMatchesQueue /\ NoDuplicates

\* The initial list is empty and well formed.
LEMMA ListInit ==
  ASSUME SchedInit
  PROVE  ListOK /\ \A t \in Threads : ~Queued(t)
BY DEF SchedInit, ListOK, SchedTypeOK, ListMatchesQueue, NoDuplicates, Queued, ThreadOrNull

\* scheduler_ready(t), for a thread t that is not on the list, keeps the list
\* well formed, also when ready_e is stale, and puts t, and only t, on it.
LEMMA ReadyKeepsList ==
  ASSUME ListOK, NEW t \in Threads, ~Queued(t), SchedulerReady(t)
  PROVE  /\ ListOK'
         /\ queue' = Append(queue, t)
         /\ \A u \in Threads : Queued(u)' <=> (Queued(u) \/ u = t)
<1>1. queue' = Append(queue, t)
  BY DEF SchedulerReady, PutLast
<1>2. /\ queue \in Seq(Threads) /\ Len(queue) \in Nat
      /\ queue' \in Seq(Threads) /\ Len(queue') = Len(queue) + 1
      /\ DOMAIN queue = 1 .. Len(queue) /\ DOMAIN queue' = 1 .. Len(queue) + 1
      /\ \A i \in 1 .. Len(queue) : queue'[i] = queue[i] /\ queue[i] \in Threads /\ queue[i] # t
      /\ queue'[Len(queue) + 1] = t
  BY <1>1 DEF ListOK, SchedTypeOK, Queued
<1>3. \A u \in Threads : Queued(u)' <=> (Queued(u) \/ u = t)
  BY <1>2 DEF Queued
<1>4. NoDuplicates'
  BY <1>2 DEF ListOK, NoDuplicates
<1>5. SchedTypeOK'
  BY <1>2 DEF ListOK, SchedTypeOK, SchedulerReady, ThreadOrNull
<1>6. ListMatchesQueue'
  <2>1. ready_s' = IF queue' = << >> THEN NULL ELSE queue'[1]
    BY <1>2, NullAssumption DEF ListOK, ListMatchesQueue, SchedulerReady
  <2>2. ready_e' = queue'[Len(queue')]
    BY <1>2 DEF SchedulerReady
  <2>3. ASSUME NEW i \in DOMAIN queue'
        PROVE  scheduler_next'[queue'[i]] = IF i < Len(queue') THEN queue'[i + 1] ELSE NULL
    <3>1. CASE i = Len(queue) + 1
      BY <1>2, <3>1 DEF SchedulerReady
    <3>2. CASE i = Len(queue)
      <4>1. ready_e = queue[i] /\ queue[i] \in Threads /\ queue[i] # t
        BY <1>2, <2>3, <3>2 DEF ListOK, ListMatchesQueue
      <4>2. QED
        BY <1>2, <3>2, <4>1, <2>3 DEF SchedulerReady
    <3>3. CASE i < Len(queue)
      <4>1. ready_e = queue[Len(queue)] /\ queue[i] # ready_e
        BY <1>2, <2>3, <3>3 DEF ListOK, ListMatchesQueue, NoDuplicates
      <4>2. scheduler_next[queue[i]] = queue[i + 1]
        BY <1>2, <2>3, <3>3 DEF ListOK, ListMatchesQueue
      <4>3. QED
        BY <1>2, <2>3, <3>3, <4>1, <4>2 DEF SchedulerReady
    <3>4. QED
      BY <1>2, <2>3, <3>1, <3>2, <3>3
  <2>4. QED
    BY <2>1, <2>2, <2>3 DEF ListMatchesQueue
<1>7. QED
  BY <1>1, <1>3, <1>4, <1>5, <1>6 DEF ListOK

\* scheduler_next() keeps the list well formed and takes off it the thread
\* it returns, which is the one that was readied first.
LEMMA NextKeepsList ==
  ASSUME ListOK, SchedulerNext
  PROVE  /\ ListOK'
         /\ queue # << >> /\ ready_s = Head(queue) /\ queue' = Tail(queue)
         /\ ready_s \in Threads /\ Queued(ready_s)
         /\ \A u \in Threads : Queued(u)' <=> (Queued(u) /\ u # ready_s)
<1>1. /\ queue \in Seq(Threads) /\ queue # << >> /\ Len(queue) \in Nat \ {0}
      /\ DOMAIN queue = 1 .. Len(queue)
      /\ ready_s = queue[1] /\ ready_s = Head(queue) /\ ready_s \in Threads
      /\ \A i \in 1 .. Len(queue) : queue[i] \in Threads
  BY DEF ListOK, SchedTypeOK, ListMatchesQueue, SchedulerNext
<1>2. /\ queue' = Tail(queue) /\ queue' \in Seq(Threads)
      /\ Len(queue') = Len(queue) - 1
      /\ DOMAIN queue' = 1 .. Len(queue) - 1
      /\ \A i \in 1 .. Len(queue) - 1 : queue'[i] = queue[i + 1]
  BY <1>1 DEF SchedulerNext
<1>3. Queued(ready_s)
  BY <1>1 DEF Queued
<1>4. \A u \in Threads : Queued(u)' <=> (Queued(u) /\ u # ready_s)
  <2> SUFFICES ASSUME NEW u \in Threads
               PROVE  Queued(u)' <=> (Queued(u) /\ u # ready_s)
    OBVIOUS
  <2>1. ASSUME Queued(u)' PROVE Queued(u) /\ u # ready_s
    BY <1>1, <1>2, <2>1 DEF Queued, ListOK, NoDuplicates
  <2>2. ASSUME Queued(u), u # ready_s PROVE Queued(u)'
    <3>1. PICK i \in 1 .. Len(queue) : queue[i] = u
      BY <1>1, <2>2 DEF Queued
    <3>2. i - 1 \in 1 .. Len(queue) - 1 /\ queue'[i - 1] = u
      BY <1>1, <1>2, <2>2, <3>1
    <3>3. QED
      BY <1>2, <3>2 DEF Queued
  <2>3. QED
    BY <2>1, <2>2
<1>5. NoDuplicates'
  BY <1>1, <1>2 DEF ListOK, NoDuplicates
<1>6. ready_s' = IF queue' = << >> THEN NULL ELSE queue'[1]
  BY <1>1, <1>2 DEF ListOK, ListMatchesQueue, SchedulerNext
<1>7. \A i \in DOMAIN queue' :
        scheduler_next'[queue'[i]] = IF i < Len(queue') THEN queue'[i + 1] ELSE NULL
  BY <1>1, <1>2, SMTT(30) DEF ListOK, ListMatchesQueue, SchedulerNext
<1>8. queue' # << >> => ready_e' = queue'[Len(queue')]
  BY <1>1, <1>2 DEF ListOK, ListMatchesQueue, SchedulerNext
<1>9. SchedTypeOK'
  BY <1>1, <1>2, <1>6 DEF ListOK, SchedTypeOK, SchedulerNext, ThreadOrNull
<1>10. QED
  BY <1>1, <1>2, <1>3, <1>4, <1>5, <1>6, <1>7, <1>8, <1>9 DEF ListOK, ListMatchesQueue
==============================================================================
