-------------------------- MODULE KernelPartsProofs --------------------------
(***************************************************************************)
(* Theorems about the parts of the kernel that are models of their own:    *)
(* the scheduler's list, the keyboard's buffer, the order in which         *)
(* modules start and stop, and the block cache.                            *)
(*                                                                         *)
(* Scheduler: the list spells the queue, so it is a FIFO queue.            *)
(*                                                                         *)
(* Keyboard: both ends of the buffer are counts of characters modulo its   *)
(* length (PointersCount); that no character overwrites another is        *)
(* arithmetic of remainders, which the first lemmas do.                    *)
(*                                                                         *)
(* Modules: the stack of calls of init_or_fini_module() is a path along    *)
(* dependencies (StackDepends), so a module entered while one of its       *)
(* prerequisites is still on the stack is on a cycle with it, and that is  *)
(* the only excuse for an order the wrong way round.                       *)
(*                                                                         *)
(* Block cache: the list of pages is compared with an order, who has been  *)
(* used after whom (Newer), never with a path: the neighbours of a page in *)
(* the list are its neighbours in that order, so an operation on the list  *)
(* is followed only around the pages it changes.  What makes eviction safe *)
(* is a count: use_count is the number of users with a handle              *)
(* (CountsAreExact); what makes it take the oldest idle page is a fact     *)
(* about the walk: the pages it has passed are held, and stay so while it  *)
(* has the lock (PassedAreHeld).                                           *)
(***************************************************************************)
EXTENDS Scheduler, Keyboard, Modules, BlockCache, FiniteSetTheorems, WellFoundedInduction, TLAPS

-----------------------------------------------------------------------------
\* The scheduler.

\* The inductive invariant.
IInv == ListOK /\ ret \in ThreadOrNull

\* The boot-time list is well formed.
LEMMA InitIInv == Init => IInv
<1> SUFFICES ASSUME Init PROVE IInv
  OBVIOUS
<1>1. ListOK
  BY ListInit DEF Init
<1>2. QED
  BY <1>1 DEF Init, IInv, ThreadOrNull

\* scheduler_ready() and scheduler_next() keep it well formed.
LEMMA StepIInv == IInv /\ [Next]_vars => IInv'
<1> SUFFICES ASSUME IInv, [Next]_vars PROVE IInv'
  OBVIOUS
<1>1. ASSUME NEW t \in Threads, Ready(t) PROVE IInv'
  <2>1. ListOK'
    BY <1>1, ReadyKeepsList DEF IInv, Ready
  <2>2. QED
    BY <1>1, <2>1 DEF IInv, Ready
<1>2. CASE Take
  <2>1. ListOK' /\ ready_s \in Threads
    BY <1>2, NextKeepsList DEF IInv, Take
  <2>2. QED
    BY <1>2, <2>1 DEF IInv, Take, ThreadOrNull
<1>3. CASE TakeNothing
  BY <1>3 DEF TakeNothing, schedVars, IInv, ListOK, SchedTypeOK, ListMatchesQueue,
              NoDuplicates, ThreadOrNull
<1>4. CASE UNCHANGED vars
  BY <1>4 DEF vars, IInv, ListOK, SchedTypeOK, ListMatchesQueue, NoDuplicates
<1>5. QED
  BY <1>1, <1>2, <1>3, <1>4 DEF Next

\* The invariant holds in every reachable state.
LEMMA AlwaysIInv == Spec => []IInv
BY InitIInv, StepIInv, PTL DEF Spec

\* Type correctness of the scheduler's state.
THEOREM TypeCorrect == Spec => []TypeOK
<1>1. IInv => TypeOK
  BY DEF IInv, ListOK, TypeOK
<1>2. QED
  BY <1>1, AlwaysIInv, PTL

\* The ready list's head, links and tail always spell the threads readied and
\* not yet taken, each once, whatever the calls of scheduler_ready() and
\* scheduler_next(), although the latter leaves ready_e stale.
THEOREM SoundList == Spec => []ReadyListSound
<1>1. IInv => ReadyListSound
  BY DEF IInv, ListOK, ReadyListSound, TypeOK
<1>2. QED
  BY <1>1, AlwaysIInv, PTL

\* Every step of scheduler.c is a step of the FIFO queue, or changes nothing.
LEMMA StepFifo == IInv /\ [Next]_vars => [Fifo!Next]_(Fifo!vars)
<1> SUFFICES ASSUME IInv, [Next]_vars PROVE [Fifo!Next]_(Fifo!vars)
  OBVIOUS
<1>1. ASSUME NEW t \in Threads, Ready(t) PROVE Fifo!Enqueue(t)
  <2>1. queue' = Append(queue, t)
    BY <1>1, ReadyKeepsList DEF IInv, Ready
  <2>2. QED
    BY <1>1, <2>1 DEF Ready, Queued, Fifo!Enqueue
<1>2. ASSUME Take PROVE Fifo!Dequeue
  <2>1. queue # << >> /\ ready_s = Head(queue) /\ queue' = Tail(queue)
    BY <1>2, NextKeepsList DEF IInv, Take
  <2>2. QED
    BY <1>2, <2>1 DEF Take, Fifo!Dequeue
<1>3. ASSUME TakeNothing PROVE Fifo!DequeueEmpty
  <2>1. queue = << >>
    BY <1>3, NullAssumption DEF TakeNothing, IInv, ListOK, ListMatchesQueue, SchedTypeOK
  <2>2. QED
    BY <1>3, <2>1 DEF TakeNothing, schedVars, Fifo!DequeueEmpty
<1>4. CASE UNCHANGED vars
  BY <1>4 DEF vars, Fifo!vars
<1>5. QED
  BY <1>1, <1>2, <1>3, <1>4 DEF Next, Fifo!Next

\* scheduler_next() hands out the threads exactly in the order in which
\* scheduler_ready() received them, and nothing when there are none.
THEOREM ImplementsFifo == Spec => FifoSpec
<1>1. Init => Fifo!Init
  BY DEF Init, SchedInit, Fifo!Init
<1>2. QED
  BY <1>1, StepFifo, AlwaysIInv, PTL DEF Spec, FifoSpec, Fifo!Spec

-----------------------------------------------------------------------------
\* The keyboard.

\* A set of numbers that is not empty and has a bound has a greatest one.
LEMMA Greatest ==
  ASSUME NEW k \in Nat, NEW S \in SUBSET (1 .. k), S # {}
  PROVE  \E x \in S : \A y \in S : y <= x
<1> DEFINE T == { n \in Nat : k - n \in S }
           R == OpToRel(<, Nat)
<1>1. T \in SUBSET Nat /\ T # {}
  <2>1. PICK x \in S : TRUE
    OBVIOUS
  <2>2. k - x \in T
    BY <2>1
  <2>3. QED
    BY <2>2
<1>2. IsWellFoundedOn(R, Nat)
  BY NatLessThanWellFounded
<1>3. \A i, j \in Nat : i < j => << i, j >> \in R
  BY DEF OpToRel
<1> HIDE DEF R, T
<1>4. PICK n \in T : \A i \in T : << i, n >> \notin R
  BY <1>1, <1>2, WFMin
<1>5. \A i \in T : ~(i < n)
  BY <1>1, <1>3, <1>4
<1>6. k - n \in S
  BY <1>4 DEF T
<1>7. ASSUME NEW y \in S PROVE y <= k - n
  <2>1. k - y \in T
    BY DEF T
  <2>2. QED
    BY <1>1, <1>4, <1>5, <2>1
<1>8. QED
  BY <1>6, <1>7

\* Places in the ring.
LEMMA DivMod ==
  ASSUME NEW a \in Nat
  PROVE  /\ a \div Length \in Nat /\ a % Length \in 0 .. Length - 1
         /\ a = (Length * (a \div Length)) + (a % Length)
BY KeyboardAssumption

\* Multiples of the length are at least the length apart.
LEMMA MulGap == ASSUME NEW p \in Int, NEW q \in Int, q < p PROVE (Length * q) + Length <= Length * p
BY KeyboardAssumption

\* The remainder is unique.
LEMMA ModIs ==
  ASSUME NEW a \in Nat, NEW q \in Int, NEW r \in 0 .. Length - 1, a = (Length * q) + r
  PROVE  a % Length = r
<1> DEFINE p == a \div Length
<1>1. /\ p \in Nat /\ a % Length \in 0 .. Length - 1
      /\ a = (Length * p) + (a % Length)
  BY DivMod
<1>2. ~(q < p) /\ ~(p < q)
  BY MulGap, <1>1, KeyboardAssumption
<1>3. QED
  BY <1>1, <1>2, KeyboardAssumption

\* Adding before or after taking the remainder is the same.
LEMMA ModShift ==
  ASSUME NEW a \in Nat, NEW b \in Nat
  PROVE  ((a % Length) + b) % Length = (a + b) % Length
<1> DEFINE p == a \div Length
           c == (a % Length) + b
           q == c \div Length
<1>1. p \in Nat /\ a % Length \in 0 .. Length - 1 /\ a = (Length * p) + (a % Length)
  BY DivMod
<1>2. c \in Nat
  BY <1>1, KeyboardAssumption
<1>3. q \in Nat /\ c % Length \in 0 .. Length - 1 /\ c = (Length * q) + (c % Length)
  BY <1>2, DivMod
<1>4. a + b = (Length * (p + q)) + (c % Length)
  <2>1. Length * (p + q) = (Length * p) + (Length * q)
    BY <1>1, <1>3, KeyboardAssumption
  <2>2. QED
    BY <1>1, <1>3, <2>1, KeyboardAssumption
<1>5. a + b \in Nat /\ p + q \in Int
  BY <1>1, <1>3
<1>6. QED
  BY <1>3, <1>4, <1>5, ModIs

\* Characters less than a buffer apart have different places in it.
LEMMA ModApart ==
  ASSUME NEW a \in Nat, NEW b \in Nat, a < b, b < a + Length
  PROVE  a % Length # b % Length
<1> DEFINE p == a \div Length
           q == b \div Length
           r == a % Length
<1>1. SUFFICES ASSUME b % Length = r PROVE FALSE
  OBVIOUS
<1>2. p \in Nat /\ r \in 0 .. Length - 1 /\ a = (Length * p) + r
  BY DivMod
<1>3. q \in Nat /\ b = (Length * q) + r
  BY <1>1, DivMod
<1> HIDE DEF p, q, r
<1>4. ~(p < q)
  <2>1. p < q => (Length * p) + Length <= Length * q
    BY <1>2, <1>3, MulGap
  <2>2. QED
    BY <1>2, <1>3, <2>1, KeyboardAssumption
<1>5. ~(q < p)
  <2>1. q < p => (Length * q) + Length <= Length * p
    BY <1>2, <1>3, MulGap
  <2>2. QED
    BY <1>2, <1>3, <2>1, KeyboardAssumption
<1>6. QED
  BY <1>2, <1>3, <1>4, <1>5

\* read()'s wrap-around is a remainder.
LEMMA ModWrap ==
  ASSUME NEW a \in Nat
  PROVE  (a + 1) % Length = Wrap((a % Length) + 1)
<1> DEFINE p == a \div Length
<1>1. p \in Nat /\ a % Length \in 0 .. Length - 1 /\ a = (Length * p) + (a % Length)
  BY DivMod
<1>2. CASE (a % Length) + 1 < Length
  <2>1. (a % Length) + 1 \in 0 .. Length - 1 /\ a + 1 = (Length * p) + ((a % Length) + 1)
    BY <1>1, <1>2, KeyboardAssumption
  <2>2. (a + 1) % Length = (a % Length) + 1
    BY <1>1, <2>1, ModIs
  <2>3. QED
    BY <1>1, <1>2, <2>2, KeyboardAssumption DEF Wrap
<1>3. CASE (a % Length) + 1 = Length
  <2>1. Length * (p + 1) = (Length * p) + Length
    BY <1>1, KeyboardAssumption
  <2>2. a + 1 = (Length * (p + 1)) + 0 /\ p + 1 \in Int /\ 0 \in 0 .. Length - 1 /\ a + 1 \in Nat
    BY <1>1, <1>3, <2>1, KeyboardAssumption
  <2>3. (a + 1) % Length = 0
    BY <2>2, ModIs
  <2>4. QED
    BY <1>3, <2>3, KeyboardAssumption DEF Wrap
<1>4. QED
  BY <1>1, <1>2, <1>3, KeyboardAssumption

-----------------------------------------------------------------------------
\* Types of the ring, the controller and read().
KbTypeOK ==
  /\ ring \in [0 .. Length - 1 -> Nat] /\ lost \in BOOLEAN
  /\ ready \in BOOLEAN /\ code \in Nat /\ typed \in Nat /\ code <= typed
  /\ irq \in BOOLEAN /\ handling \in BOOLEAN
  /\ heard \in Seq(Nat) /\ taken \in Nat /\ len \in Nat /\ polled \in BOOLEAN
  /\ reader \in {"idle", "test", "wrap", "poll", "empty"}

\* Who takes a code: never the handler while read() runs, and read() only when
\* the ring has nothing for it.
OneTaker ==
  /\ ~ready => code = 0
  /\ handling => reader = "idle"
  /\ reader = "poll" => bufStart = bufEnd

\* Until a character is lost, the characters processed and not returned lie
\* in the ring from start on, and end points behind the last of them.
PointersCount ==
  ~lost => /\ Held \in 0 .. Length - 1
           /\ bufEnd = (Wrap(bufStart) + Held) % Length
           /\ \A i \in 1 .. Len(heard) : heard[i] = i
           /\ \A j \in 1 .. Held : ring[(Wrap(bufStart) + j - 1) % Length] = Len(heard) + j

\* The inductive invariant of the keyboard.
KbInv == KbTypeOK /\ OneTaker /\ PointersInRing /\ PointersCount

\* A place of the ring is its own remainder.
LEMMA ModSmall == ASSUME NEW s \in 0 .. Length - 1 PROVE s % Length = s
<1>1. s \in Nat /\ s = (Length * 0) + s
  BY KeyboardAssumption
<1>2. QED
  BY <1>1, ModIs

\* The empty buffer.
LEMMA KbInitInv == KbInit => KbInv
<1>1. 0 % Length = 0
  BY KeyboardAssumption, ModSmall
<1>2. QED
  BY <1>1, KeyboardAssumption
  DEF KbInit, KbInv, KbTypeOK, OneTaker, PointersInRing, PointersCount, Wrap, Held, Stored

\* Types of what the invariant is about.
LEMMA KbFacts ==
  ASSUME KbInv
  PROVE  /\ Length \in Nat \ {0} /\ Len(heard) \in Nat /\ Stored \in Nat /\ Held \in Int
         /\ bufEnd \in 0 .. Length - 1 /\ Wrap(bufStart) \in 0 .. Length - 1
BY KeyboardAssumption DEF KbInv, KbTypeOK, PointersInRing, Wrap, Held, Stored

\* The pointers meet when nothing is held, and then only.
LEMMA MeetWhenEmpty == ASSUME KbInv, ~lost PROVE Held = 0 <=> Wrap(bufStart) = bufEnd
<1> DEFINE s == Wrap(bufStart)
<1>1. s \in Nat /\ s % Length = s /\ Held \in 0 .. Length - 1 /\ bufEnd = (s + Held) % Length
  BY KbFacts, ModSmall DEF KbInv, PointersCount
<1> HIDE DEF s
<1>2. ASSUME Held # 0 PROVE bufEnd # s
  <2>1. s + Held \in Nat /\ s < s + Held /\ s + Held < s + Length
    BY <1>1, <1>2, KbFacts
  <2>2. QED
    BY <1>1, <2>1, ModApart
<1>3. ASSUME Held = 0 PROVE bufEnd = s
  <2>1. s + Held = s
    BY <1>1, <1>3
  <2>2. QED
    BY <1>1, <2>1
<1>4. QED
  BY <1>2, <1>3 DEF s

\* The invariant says what the run checks.
LEMMA KbSuffices == KbInv => KeyboardSound
<1> SUFFICES ASSUME KbInv PROVE KeyboardSound
  OBVIOUS
<1>1. ~lost => heard = [i \in 1 .. Len(heard) |-> i]
  BY DEF KbInv, KbTypeOK, PointersCount
<1>2. QED
  BY <1>1, MeetWhenEmpty DEF KbInv, PointersCount, KeyboardSound, TypedIsRead

\* A string that is written: the last of its characters that goes to a place of
\* the ring is the one that stays there.
LEMMA WriteKeepsCount ==
  ASSUME KbInv, TakeCode, WriteCode, UNCHANGED heard
  PROVE  /\ ring' \in [0 .. Length - 1 -> Nat] /\ bufEnd' \in 0 .. Length - 1 /\ lost' \in BOOLEAN
         /\ PointersCount'
<1> DEFINE s == Wrap(bufStart)
           n == Len(heard)
           e == bufEnd
           k == code
           There(i) == { j \in 1 .. k : (e + j - 1) % Length = i }
<1>1. /\ k \in Nat /\ e \in 0 .. Length - 1 /\ s \in 0 .. Length - 1 /\ n \in Nat
      /\ Length \in Nat \ {0} /\ Stored \in Nat /\ Held \in Int /\ Stored = n + Held
      /\ Held' = Held + k
  BY KbFacts DEF KbInv, KbTypeOK, Held, Stored, TakeCode
<1>2. ASSUME NEW i \in 0 .. Length - 1
      PROVE  IF There(i) = {} THEN ring'[i] = ring[i]
             ELSE \E j \in There(i) : ring'[i] = Stored + j
  <2>1. CASE There(i) = {}
    BY <2>1 DEF WriteCode
  <2>2. CASE There(i) # {}
    <3> DEFINE Newest(j) == (e + j - 1) % Length = i /\ \A h \in j + 1 .. k : (e + h - 1) % Length # i
    <3>1. PICK j \in There(i) : \A h \in There(i) : h <= j
      BY <1>1, <2>2, Greatest
    <3>2. j \in 1 .. k /\ Newest(j)
      <4>1. j \in 1 .. k /\ (e + j - 1) % Length = i
        OBVIOUS
      <4>2. ASSUME NEW h \in j + 1 .. k PROVE (e + h - 1) % Length # i
        <5>1. h \in 1 .. k /\ ~(h <= j)
          BY <1>1, <4>1
        <5>2. QED
          BY <3>1, <5>1
      <4>3. QED
        BY <4>1, <4>2
    <3>3. \E h \in 1 .. k : (e + h - 1) % Length = i
      BY <2>2
    <3>4. ring'[i] = Stored + CHOOSE h \in 1 .. k : Newest(h)
      BY <3>3 DEF WriteCode
    <3> DEFINE c == CHOOSE h \in 1 .. k : Newest(h)
    <3>5. c \in 1 .. k /\ Newest(c)
      BY <3>2
    <3>6. c \in There(i) /\ ring'[i] = Stored + c
      BY <3>4, <3>5
    <3>7. QED
      BY <3>6
  <2>3. QED
    BY <2>1, <2>2
<1>3. /\ DOMAIN ring' = 0 .. Length - 1 /\ ring' = [i \in 0 .. Length - 1 |-> ring'[i]]
      /\ bufEnd' = (e + k) % Length /\ bufStart' = bufStart
      /\ lost' = (lost \/ Held + k >= Length)
  BY DEF WriteCode
<1>4. ring' \in [0 .. Length - 1 -> Nat]
  <2>1. \A i \in 0 .. Length - 1 : ring[i] \in Nat
    BY DEF KbInv, KbTypeOK
  <2>2. \A i \in 0 .. Length - 1 : \A j \in There(i) : Stored + j \in Nat
    BY <1>1
  <2>3. \A i \in 0 .. Length - 1 : ring'[i] \in Nat
    BY <1>2, <2>1, <2>2
  <2>4. QED
    BY <1>3, <2>3
<1>5. bufEnd' \in 0 .. Length - 1 /\ lost' \in BOOLEAN
  BY <1>1, <1>3, DivMod DEF KbInv, KbTypeOK
<1>6. ASSUME ~lost'
      PROVE  /\ Held' \in 0 .. Length - 1 /\ bufEnd' = (s + Held') % Length
             /\ \A i \in 1 .. n : heard[i] = i
             /\ \A j \in 1 .. Held' : ring'[(s + j - 1) % Length] = n + j
  <2> DEFINE h == Held
  <2>1. /\ h \in Nat /\ h + k < Length /\ e = (s + h) % Length
        /\ \A i \in 1 .. n : heard[i] = i
        /\ \A j \in 1 .. h : ring[(s + j - 1) % Length] = n + j
    <3>1. ~lost /\ ~(h + k >= Length)
      BY <1>3, <1>6
    <3>2. QED
      BY <1>1, <3>1 DEF KbInv, PointersCount
  <2> HIDE DEF h, s, n, e, k
  <2>2. (e + k) % Length = (s + (h + k)) % Length
    <3>1. s + h \in Nat /\ (s + h) + k = s + (h + k)
      BY <1>1, <2>1
    <3>2. (((s + h) % Length) + k) % Length = ((s + h) + k) % Length
      BY <1>1, <3>1, ModShift
    <3>3. QED
      BY <2>1, <3>1, <3>2
  <2>3. ASSUME NEW j \in 1 .. k PROVE (e + j - 1) % Length = (s + h + j - 1) % Length
    <3>1. s + h \in Nat /\ j - 1 \in Nat /\ (s + h) + (j - 1) = s + h + j - 1
      BY <1>1, <2>1
    <3>2. e + j - 1 = e + (j - 1)
      BY <1>1
    <3>3. (((s + h) % Length) + (j - 1)) % Length = ((s + h) + (j - 1)) % Length
      BY <3>1, ModShift
    <3>4. QED
      BY <2>1, <3>1, <3>2, <3>3
  <2>4. ASSUME NEW i \in 1 .. h PROVE ring'[(s + i - 1) % Length] = n + i
    <3>1. s + i - 1 \in Nat /\ (s + i - 1) % Length \in 0 .. Length - 1
      BY <1>1, <2>1, DivMod
    <3>2. ASSUME NEW j \in 1 .. k PROVE (s + h + j - 1) % Length # (s + i - 1) % Length
      <4>1. /\ s + h + j - 1 \in Nat /\ s + i - 1 < s + h + j - 1
            /\ s + h + j - 1 < (s + i - 1) + Length
        BY <1>1, <2>1
      <4>2. QED
        BY <3>1, <4>1, ModApart
    <3>3. There((s + i - 1) % Length) = {}
      BY <2>3, <3>2 DEF e, k
    <3>4. QED
      BY <1>2, <2>1, <3>1, <3>3
  <2>5. ASSUME NEW i \in h + 1 .. h + k PROVE ring'[(s + i - 1) % Length] = n + i
    <3>1. s + i - 1 \in Nat /\ (s + i - 1) % Length \in 0 .. Length - 1 /\ i - h \in 1 .. k
      BY <1>1, <2>1, DivMod
    <3>2. i - h \in There((s + i - 1) % Length)
      <4>1. s + h + (i - h) - 1 = s + i - 1
        BY <1>1, <2>1
      <4>2. QED
        BY <2>3, <3>1, <4>1 DEF e, k
    <3>3. PICK j \in There((s + i - 1) % Length) : ring'[(s + i - 1) % Length] = Stored + j
      BY <1>2, <3>1, <3>2
    <3>4. (s + h + j - 1) % Length = (s + i - 1) % Length /\ j \in 1 .. k /\ s + h + j - 1 \in Nat
      <4>1. j \in 1 .. k /\ (e + j - 1) % Length = (s + i - 1) % Length
        BY DEF e, k
      <4>2. QED
        BY <1>1, <2>1, <2>3, <4>1
    <3>5. ~(s + h + j - 1 < s + i - 1) /\ ~(s + i - 1 < s + h + j - 1)
      <4>1. /\ s + i - 1 < (s + h + j - 1) + Length
            /\ s + h + j - 1 < (s + i - 1) + Length
        BY <1>1, <2>1, <3>4
      <4>2. QED
        BY <3>1, <3>4, <4>1, ModApart
    <3>6. h + j = i
      BY <1>1, <2>1, <3>4, <3>5
    <3>7. Stored = n + h
      BY <1>1 DEF h
    <3>8. QED
      BY <1>1, <2>1, <3>3, <3>4, <3>6, <3>7
  <2>6. Held' = h + k
    BY <1>1 DEF h
  <2>7. \A j \in 1 .. h + k : j \in 1 .. h \/ j \in h + 1 .. h + k
    BY <1>1, <2>1
  <2>8. bufEnd' = (s + Held') % Length
    BY <1>3, <2>2, <2>6
  <2>9. Held' \in 0 .. Length - 1
    BY <1>1, <2>1, <2>6
  <2>10. \A j \in 1 .. Held' : ring'[(s + j - 1) % Length] = n + j
    BY <2>4, <2>5, <2>6, <2>7
  <2>11. QED
    BY <2>1, <2>8, <2>9, <2>10
<1>7. PointersCount'
  <2>1. Wrap(bufStart)' = s /\ Len(heard)' = n /\ heard' = heard
    BY <1>3 DEF Wrap
  <2> HIDE DEF s, n, e, k
  <2>2. QED
    BY <1>6, <2>1 DEF PointersCount, n
<1>8. QED
  BY <1>4, <1>5, <1>7

\* The handler, and read() when the code it polls has a string.
LEMMA HandlerStep == ASSUME KbInv, KeyInterrupt PROVE KbInv'
<1>1. /\ handling /\ reader = "idle" /\ TakeCode /\ WriteCode /\ UNCHANGED readVars
      /\ ready' = FALSE /\ code' = 0 /\ typed' = typed /\ irq' = irq /\ handling' = FALSE
      /\ bufStart' = bufStart
  BY DEF KeyInterrupt, TakeCode, WriteCode, KbInv, OneTaker
<1>2. /\ ring' \in [0 .. Length - 1 -> Nat] /\ bufEnd' \in 0 .. Length - 1 /\ lost' \in BOOLEAN
      /\ PointersCount'
  BY <1>1, WriteKeepsCount DEF readVars
<1>3. KbTypeOK' /\ OneTaker'
  <2>1. typed \in Nat /\ code' \in Nat /\ code' <= typed' /\ typed' \in Nat
    BY <1>1 DEF KbInv, KbTypeOK
  <2>2. KbTypeOK'
    BY <1>1, <1>2, <2>1 DEF KbInv, KbTypeOK, readVars
  <2>3. OneTaker'
    BY <1>1 DEF OneTaker, readVars
  <2>4. QED
    BY <2>2, <2>3
<1>4. PointersInRing'
  BY <1>1, <1>2 DEF KbInv, PointersInRing, readVars
<1>5. QED
  BY <1>2, <1>3, <1>4 DEF KbInv

\* A string that read() polled.
LEMMA PollStringStep == ASSUME KbInv, PollString PROVE KbInv'
<1>1. /\ reader = "poll" /\ TakeCode /\ WriteCode /\ UNCHANGED << handling, heard, taken, len >>
      /\ ready' = FALSE /\ code' = 0 /\ typed' = typed /\ irq' = irq
      /\ bufStart' = bufStart /\ polled' = TRUE /\ reader' = "test"
  BY DEF PollString, TakeCode, WriteCode
<1>2. /\ ring' \in [0 .. Length - 1 -> Nat] /\ bufEnd' \in 0 .. Length - 1 /\ lost' \in BOOLEAN
      /\ PointersCount'
  BY <1>1, WriteKeepsCount
<1>3. KbTypeOK' /\ OneTaker'
  <2>1. typed \in Nat /\ code' \in Nat /\ code' <= typed' /\ typed' \in Nat
    BY <1>1 DEF KbInv, KbTypeOK
  <2>2. KbTypeOK'
    BY <1>1, <1>2, <2>1 DEF KbInv, KbTypeOK
  <2>3. OneTaker'
    BY <1>1 DEF KbInv, OneTaker
  <2>4. QED
    BY <2>2, <2>3
<1>4. PointersInRing'
  BY <1>1, <1>2 DEF KbInv, PointersInRing
<1>5. QED
  BY <1>2, <1>3, <1>4 DEF KbInv

\* One character that read() polled: the ring is empty, so it comes next.
LEMMA PollCharStep == ASSUME KbInv, PollChar PROVE KbInv'
<1>1. /\ reader = "poll" /\ ready /\ code = 1 /\ heard' = Append(heard, Stored + 1) /\ reader' = "idle"
      /\ ready' = FALSE /\ code' = 0 /\ typed' = typed /\ irq' = irq
      /\ UNCHANGED << ring, bufStart, bufEnd, lost, handling, polled, taken, len >>
  BY DEF PollChar, TakeCode, ringVars
<1>2. /\ Len(heard) \in Nat /\ Stored \in Nat /\ Stored' = Stored + 1
      /\ heard' \in Seq(Nat) /\ Len(heard') = Len(heard) + 1
      /\ \A i \in 1 .. Len(heard) : heard'[i] = heard[i]
      /\ heard'[Len(heard) + 1] = Stored + 1
  BY <1>1, KbFacts DEF KbInv, KbTypeOK, Stored
<1>3. KbTypeOK' /\ OneTaker' /\ PointersInRing'
  <2>1. typed \in Nat /\ code' \in Nat /\ code' <= typed' /\ typed' \in Nat
    BY <1>1 DEF KbInv, KbTypeOK
  <2>2. KbTypeOK'
    BY <1>1, <1>2, <2>1 DEF KbInv, KbTypeOK
  <2>3. OneTaker' /\ PointersInRing'
    BY <1>1 DEF KbInv, OneTaker, PointersInRing
  <2>4. QED
    BY <2>2, <2>3
<1>4. PointersCount'
  <2> SUFFICES ASSUME ~lost PROVE PointersCount'
    BY <1>1 DEF PointersCount
  <2>1. bufStart = bufEnd /\ Wrap(bufStart) = bufStart
    BY <1>1, KbFacts DEF KbInv, OneTaker, PointersInRing, Wrap
  <2>2. Held = 0 /\ Held' = 0 /\ Stored = Len(heard)
    BY <1>2, <2>1, MeetWhenEmpty DEF Held
  <2>3. bufEnd' = (Wrap(bufStart)' + Held') % Length /\ Held' \in 0 .. Length - 1
    BY <1>1, <2>2, KbFacts DEF KbInv, PointersCount, Wrap
  <2>4. \A i \in 1 .. Len(heard)' : heard'[i] = i
    BY <1>2, <2>2 DEF KbInv, PointersCount
  <2>5. \A j \in 1 .. Held' : ring'[(Wrap(bufStart)' + j - 1) % Length] = Len(heard)' + j
    BY <2>2
  <2>6. QED
    BY <2>3, <2>4, <2>5 DEF PointersCount
<1>5. QED
  BY <1>3, <1>4 DEF KbInv

\* read() takes a character.
LEMMA TakeCharStep == ASSUME KbInv, TakeChar PROVE KbInv'
<1>1. /\ bufStart \in 0 .. Length - 1 /\ ring[bufStart] \in Nat /\ bufStart # bufEnd
      /\ heard' = Append(heard, ring[bufStart]) /\ bufStart' = bufStart + 1
      /\ reader = "test" /\ reader' = "wrap" /\ taken' = taken + 1
      /\ UNCHANGED << ring, bufEnd, ready, code, irq, handling, typed, polled, len, lost >>
      /\ Len(heard) \in Nat /\ typed \in Nat /\ Length \in Nat \ {0}
  BY KeyboardAssumption DEF TakeChar, KbInv, KbTypeOK, PointersInRing, portVars
<1>2. /\ heard' \in Seq(Nat) /\ Len(heard') = Len(heard) + 1
      /\ \A i \in 1 .. Len(heard) : heard'[i] = heard[i]
      /\ heard'[Len(heard) + 1] = ring[bufStart]
      /\ Held' = Held - 1 /\ Held \in Int
  BY <1>1 DEF KbInv, KbTypeOK, Held, Stored
<1>3. KbTypeOK' /\ OneTaker' /\ PointersInRing'
  BY <1>1, <1>2 DEF KbInv, KbTypeOK, OneTaker, PointersInRing
<1>4. PointersCount'
  <2> SUFFICES ASSUME ~lost PROVE PointersCount'
    BY <1>1 DEF PointersCount
  <2> DEFINE s == Wrap(bufStart)
  <2>1. /\ s = bufStart /\ s % Length = s /\ s \in Nat /\ Held # 0
        /\ Wrap(bufStart)' = (s + 1) % Length
    <3>1. s = bufStart /\ s % Length = s
      BY <1>1, ModSmall DEF Wrap
    <3>2. (s + 1) % Length = Wrap((s % Length) + 1)
      BY <1>1, <3>1, ModWrap
    <3>3. QED
      BY <1>1, <3>1, <3>2, MeetWhenEmpty DEF Wrap
  <2>2. /\ Held \in 1 .. Length - 1 /\ bufEnd = (s + Held) % Length
        /\ \A i \in 1 .. Len(heard) : heard[i] = i
        /\ \A j \in 1 .. Held : ring[(s + j - 1) % Length] = Len(heard) + j
    BY <1>1, <1>2, <2>1 DEF KbInv, PointersCount
  <2>3. ring[bufStart] = Len(heard) + 1
    <3>1. ring[(s + 1 - 1) % Length] = Len(heard) + 1 /\ s + 1 - 1 = s
      BY <2>1, <2>2
    <3>2. QED
      BY <2>1, <3>1
  <2> HIDE DEF s
  <2>4. ASSUME NEW j \in 0 .. Length PROVE (((s + 1) % Length) + j) % Length = (s + 1 + j) % Length
    <3>1. s + 1 \in Nat /\ j \in Nat
      BY <1>1, <2>1
    <3>2. QED
      BY <3>1, ModShift
  <2>5. bufEnd' = (Wrap(bufStart)' + Held') % Length
    <3>1. Held - 1 \in 0 .. Length /\ s + 1 + (Held - 1) = s + Held
      BY <1>1, <2>1, <2>2
    <3>2. QED
      BY <1>1, <1>2, <2>1, <2>2, <2>4, <3>1
  <2>6. ASSUME NEW j \in 1 .. Held - 1
        PROVE  ring[(((s + 1) % Length) + j - 1) % Length] = (Len(heard) + 1) + j
    <3>1. /\ j - 1 \in 0 .. Length /\ j + 1 \in 1 .. Held
          /\ s + 1 + (j - 1) = s + (j + 1) - 1 /\ Len(heard) + (j + 1) = (Len(heard) + 1) + j
      BY <1>1, <2>1, <2>2
    <3>2. ((s + 1) % Length) + j - 1 = ((s + 1) % Length) + (j - 1)
      BY <1>1, <2>1, DivMod
    <3>3. QED
      BY <2>2, <2>4, <3>1, <3>2
  <2>7. \A i \in 1 .. Len(heard)' : heard'[i] = i
    BY <1>1, <1>2, <2>2, <2>3
  <2>8. Held' \in 0 .. Length - 1
    BY <1>1, <1>2, <2>2
  <2>9. \A j \in 1 .. Held' : ring[(Wrap(bufStart) + j - 1) % Length]' = Len(heard)' + j
    BY <1>1, <1>2, <2>1, <2>6
  <2>10. QED
    BY <2>5, <2>7, <2>8, <2>9 DEF PointersCount
<1>5. QED
  BY <1>3, <1>4 DEF KbInv

\* A step that leaves the ring and what was read alone, and processes nothing
\* that has characters, keeps the pointers' count.
LEMMA SameCount ==
  ASSUME KbInv, UNCHANGED << ring, bufEnd, lost, heard >>, Wrap(bufStart)' = Wrap(bufStart),
         Stored' = Stored
  PROVE  PointersCount'
BY DEF KbInv, PointersCount, Held

\* Every step of the keyboard keeps the invariant.
LEMMA KbStep == KbInv /\ [KbNext]_kbVars => KbInv'
<1> SUFFICES ASSUME KbInv, [KbNext]_kbVars PROVE KbInv'
  OBVIOUS
<1>1. ASSUME NEW k \in KeyStrings, PressKey(k) PROVE KbInv'
  <2>1. /\ k \in Nat /\ code = 0 /\ code' = k /\ typed' = typed + k /\ ready' = TRUE /\ irq' = TRUE
        /\ UNCHANGED << ringVars, handling, readVars >>
    BY <1>1, KeyboardAssumption DEF PressKey, KbInv, OneTaker
  <2>2. KbTypeOK' /\ OneTaker' /\ PointersInRing'
    BY <2>1 DEF KbInv, KbTypeOK, OneTaker, PointersInRing, ringVars, readVars
  <2>3. Stored' = Stored
    BY <2>1 DEF KbInv, KbTypeOK, Stored
  <2>4. QED
    BY <2>1, <2>2, <2>3, SameCount DEF KbInv, ringVars, readVars, Wrap
<1>2. CASE KeyInterrupt
  BY <1>2, HandlerStep
<1>3. CASE TakeChar
  BY <1>3, TakeCharStep
<1>4. CASE WrapStart
  <2>1. Wrap(bufStart) \in 0 .. Length - 1 /\ Wrap(Wrap(bufStart)) = Wrap(bufStart)
    BY KbFacts DEF Wrap
  <2>2. KbTypeOK' /\ OneTaker' /\ PointersInRing'
    BY <1>4, <2>1 DEF WrapStart, KbInv, KbTypeOK, OneTaker, PointersInRing, portVars
  <2>3. PointersCount'
    BY <1>4, <2>1, SameCount DEF WrapStart, Wrap, Stored, portVars
  <2>4. QED
    BY <2>2, <2>3 DEF KbInv
<1>5. CASE PollString
  BY <1>5, PollStringStep
<1>6. CASE PollChar
  BY <1>6, PollCharStep
<1>7. CASE PollNothing
  <2>1. KbTypeOK' /\ OneTaker' /\ PointersInRing'
    BY <1>7 DEF PollNothing, TakeCode, KbInv, KbTypeOK, OneTaker, PointersInRing, ringVars, readVars
  <2>2. PointersCount'
    BY <1>7, SameCount DEF PollNothing, TakeCode, Wrap, Stored, ringVars, readVars
  <2>3. QED
    BY <2>1, <2>2 DEF KbInv
<1>8. CASE EnterHandler \/ OtherConsole \/ NothingReady
  <2>1. KbTypeOK' /\ OneTaker' /\ PointersInRing'
    <3>1. CASE EnterHandler
      BY <3>1 DEF EnterHandler, KbInv, KbTypeOK, OneTaker, PointersInRing, ringVars, readVars
    <3>2. CASE OtherConsole
      BY <3>2 DEF OtherConsole, KbInv, KbTypeOK, OneTaker, PointersInRing, ringVars, portVars
    <3>3. CASE NothingReady
      BY <3>3 DEF NothingReady, KbInv, KbTypeOK, OneTaker, PointersInRing, ringVars, portVars
    <3>4. QED
      BY <1>8, <3>1, <3>2, <3>3
  <2>2. PointersCount'
    BY <1>8, SameCount DEF EnterHandler, OtherConsole, NothingReady, Wrap, Stored, ringVars, readVars, portVars
  <2>3. QED
    BY <2>1, <2>2 DEF KbInv
<1>9. CASE ReadEnds
  <2>1. reader' = "poll" => bufStart = bufEnd
    BY <1>9, KeyboardAssumption DEF ReadEnds, KbInv, KbTypeOK
  <2>2. KbTypeOK' /\ OneTaker' /\ PointersInRing'
    BY <1>9, <2>1 DEF ReadEnds, KbInv, KbTypeOK, OneTaker, PointersInRing, ringVars, portVars
  <2>3. PointersCount'
    BY <1>9, SameCount DEF ReadEnds, Wrap, Stored, ringVars, portVars
  <2>4. QED
    BY <2>2, <2>3 DEF KbInv
<1>10. ASSUME NEW n \in Wanted, ReadKeys(n) PROVE KbInv'
  <2>1. KbTypeOK' /\ OneTaker' /\ PointersInRing'
    BY <1>10, KeyboardAssumption
    DEF ReadKeys, KbInv, KbTypeOK, OneTaker, PointersInRing, ringVars, portVars
  <2>2. PointersCount'
    BY <1>10, SameCount DEF ReadKeys, Wrap, Stored, ringVars, portVars
  <2>3. QED
    BY <2>1, <2>2 DEF KbInv
<1>11. CASE UNCHANGED kbVars
  <2>1. KbTypeOK' /\ OneTaker' /\ PointersInRing'
    BY <1>11 DEF kbVars, KbInv, KbTypeOK, OneTaker, PointersInRing, ringVars, readVars, portVars
  <2>2. PointersCount'
    BY <1>11, SameCount DEF kbVars, Wrap, Stored, ringVars, readVars, portVars
  <2>3. QED
    BY <2>1, <2>2 DEF KbInv
<1>12. QED
  BY <1>1, <1>2, <1>3, <1>4, <1>5, <1>6, <1>7, <1>8, <1>9, <1>10, <1>11 DEF KbNext

\* Whatever the lengths of the ring and of the strings, and whenever the
\* handler runs, read() polls or the next key comes.
THEOREM SoundKeyboard == KbSpec => []KeyboardSound
BY KbInitInv, KbStep, KbSuffices, PTL DEF KbSpec

-----------------------------------------------------------------------------
\* Modules.

\* A call of init_or_fini_module(): its module and the prerequisites done with.
Frame == [m : Mods, done : Nat]
\* What a prerequisite's name may resolve to.
Names == Mods \cup {Missing}

\* p is on the stack of calls s, or in the sequence s.
On(s, p) == \E i \in DOMAIN s : s[i].m = p
\* p is a member of the sequence s.
In(s, p) == \E i \in DOMAIN s : s[i] = p
\* The shutdown has begun.
HasStopped == phase \in {"fini", "done"}

\* Types of the image and of the state of main().
ModTypeOK ==
  /\ required \in [Mods -> Seq(Names)] /\ load_after \in [Mods -> Seq(Names)]
  /\ console \in Names /\ test_module \in Names
  /\ phase \in {"console", "test", "init", "kmain", "fini", "done", "panic"}
  /\ nextModule \in Nat \ {0}
  /\ mstate \in [Mods -> {"resolved", "init", "fini"}]
  /\ calls \in Seq(Frame) /\ started \in Seq(Mods) /\ stopped \in Seq(Mods)

\* The modules of the stack are different, and each one depends on those above.
StackDepends(s) ==
  /\ \A i \in DOMAIN s : s[i].done <= Len(Prereqs(s[i].m))
  /\ \A i, j \in DOMAIN s : i < j => s[j].m \in DependsOn(s[i].m) /\ s[j].m # s[i].m

\* The prerequisites a call has gone through have been entered, and no
\* missing one was required.
PassedOK(m, n) ==
  \A d \in 1 .. n : IF Prereqs(m)[d] = Missing THEN d > Len(required[m])
                    ELSE ReturnsAtOnce(Prereqs(m)[d])
\* The prerequisites every call on the stack is done with have been entered.
StackPassed(s) == \A i \in DOMAIN s : PassedOK(s[i].m, s[i].done)

\* A module's state tells whether its function has run or is about to.
StatesTell ==
  /\ \A m \in Mods : ~HasStopped =>
       /\ mstate[m] = (IF In(started, m) \/ On(calls, m) THEN "init" ELSE "resolved")
       /\ ~(In(started, m) /\ On(calls, m)) /\ ~In(stopped, m)
  /\ \A m \in Mods : HasStopped =>
       /\ mstate[m] = (IF ~In(started, m) THEN "resolved"
                       ELSE IF In(stopped, m) \/ On(calls, m) THEN "fini" ELSE "init")
       /\ ~(In(stopped, m) /\ On(calls, m))
       /\ In(stopped, m) \/ On(calls, m) => In(started, m)

\* A module that has started has had all its prerequisites entered.
StartedClosed ==
  \A m \in Mods : In(started, m) =>
    /\ \A p \in Exists(m) : mstate[p] # "resolved"
    /\ Missing \notin ToSet(required[m])

\* Nothing is entered that nothing asked for.
OnlyNeeded == \A m \in Mods : In(started, m) \/ On(calls, m) => m \in Needed

\* What has been entered by the time main() is where it is.
Progress ==
  /\ phase = "console" => calls = << >>
  /\ phase # "console" => (console # Missing => mstate[console] # "resolved")
  /\ phase = "test" => test_module # Missing /\ nextModule \in {1, 2}
  /\ phase \in {"init", "kmain"} => test_module = Missing
  /\ phase \in {"test", "fini", "done"} /\ test_module # Missing =>
       (phase = "test" /\ nextModule = 1) \/ mstate[test_module] # "resolved"
  /\ phase \in {"kmain", "done"} => calls = << >>
  /\ phase = "kmain" => nextModule = 1
  /\ phase = "console" => nextModule = 1
  /\ phase = "init" => \A m \in Mods : m < nextModule => mstate[m] # "resolved"
  /\ phase \in {"kmain", "fini", "done"} /\ test_module = Missing =>
        \A m \in Mods : mstate[m] # "resolved"
  /\ phase = "fini" => \A m \in Mods : m < nextModule => mstate[m] # "init"
  /\ phase = "done" => \A m \in Mods : mstate[m] # "init"
  /\ phase = "panic" => \E m \in Needed : Missing \in ToSet(required[m])

\* Each module at most once, after the prerequisites that do not depend on it.
Ordered(s) ==
  /\ IsInjective(s)
  /\ \A m \in Mods : In(s, m) => \A p \in Exists(m) : m \notin DependsOn(p) => Before(s, p, m)

\* The inductive invariant of startup and shutdown.
ModInv ==
  /\ ModTypeOK /\ StackDepends(calls) /\ StackPassed(calls)
  /\ StatesTell /\ StartedClosed /\ OnlyNeeded /\ Progress
  /\ Ordered(started) /\ Ordered(stopped)

-----------------------------------------------------------------------------
\* What depends on what.
LEMMA PrereqsType ==
  ASSUME ModTypeOK, NEW m \in Mods
  PROVE  /\ Prereqs(m) \in Seq(Names) /\ Len(Prereqs(m)) \in Nat /\ Len(required[m]) \in Nat
         /\ Len(required[m]) <= Len(Prereqs(m))
         /\ \A d \in 1 .. Len(required[m]) : Prereqs(m)[d] = required[m][d]
         /\ \A p : p \in Exists(m) <=> p # Missing /\ \E d \in 1 .. Len(Prereqs(m)) : p = Prereqs(m)[d]
         /\ Exists(m) \subseteq Mods
         /\ Missing \in ToSet(required[m]) <=> \E d \in 1 .. Len(required[m]) : Prereqs(m)[d] = Missing
<1>1. required[m] \in Seq(Names) /\ load_after[m] \in Seq(Names)
  BY DEF ModTypeOK
<1>2. /\ Prereqs(m) \in Seq(Names) /\ Len(Prereqs(m)) \in Nat /\ Len(required[m]) \in Nat
      /\ Len(required[m]) <= Len(Prereqs(m))
      /\ \A d \in 1 .. Len(required[m]) : Prereqs(m)[d] = required[m][d]
  <2> DEFINE a == required[m]
             b == load_after[m]
  <2>1. Prereqs(m) = a \o b
    BY DEF Prereqs
  <2> HIDE DEF a, b
  <2>2. a \in Seq(Names) /\ b \in Seq(Names)
    BY <1>1 DEF a, b
  <2>3. /\ a \o b \in Seq(Names) /\ Len(a \o b) = Len(a) + Len(b) /\ Len(a) \in Nat /\ Len(b) \in Nat
        /\ \A d \in 1 .. Len(a) : (a \o b)[d] = a[d]
    BY <2>2
  <2>4. QED
    BY <2>1, <2>3 DEF a
<1>3. \A p : p \in Exists(m) <=> p # Missing /\ \E d \in 1 .. Len(Prereqs(m)) : p = Prereqs(m)[d]
  BY <1>2 DEF Exists, ToSet
<1>4. Missing \in ToSet(required[m]) <=> \E d \in 1 .. Len(required[m]) : Prereqs(m)[d] = Missing
  BY <1>1, <1>2 DEF ToSet
<1>5. Exists(m) \subseteq Mods
  BY <1>2, <1>3 DEF Names
<1>6. QED
  BY <1>2, <1>3, <1>4, <1>5

\* DependsOn(m) has the prerequisites of m and of its own members,
LEMMA DependsClosed ==
  ASSUME ModTypeOK, NEW m \in Mods
  PROVE  /\ Exists(m) \subseteq DependsOn(m) /\ DependsOn(m) \subseteq Mods
         /\ \A q \in DependsOn(m) : Exists(q) \subseteq DependsOn(m)
<1>1. \A p \in Mods : Exists(p) \subseteq Mods
  BY PrereqsType
<1>2. QED
  BY <1>1 DEF DependsOn

\* and is the smallest such set.
LEMMA DependsLeast ==
  ASSUME NEW m \in Mods, NEW S \in SUBSET Mods, Exists(m) \subseteq S,
         \A q \in S : Exists(q) \subseteq S
  PROVE  DependsOn(m) \subseteq S
BY DEF DependsOn

\* What is needed needs nothing else.
LEMMA NeededClosed ==
  ASSUME ModTypeOK
  PROVE  /\ Needed \subseteq Mods /\ Roots \subseteq Needed
         /\ \A m \in Needed : Exists(m) \subseteq Needed
<1>1. Roots \subseteq Mods
  BY DEF Roots, ModTypeOK, Names
<1>2. QED
  BY <1>1, DependsClosed DEF Needed

\* The linked image does not change.
LEMMA SameImage ==
  ASSUME UNCHANGED image
  PROVE  /\ \A m : Prereqs(m)' = Prereqs(m) /\ Exists(m)' = Exists(m) /\ DependsOn(m)' = DependsOn(m)
         /\ Needed' = Needed /\ Roots' = Roots
         /\ required' = required /\ load_after' = load_after
         /\ console' = console /\ test_module' = test_module
<1>1. /\ required' = required /\ load_after' = load_after
      /\ console' = console /\ test_module' = test_module
  BY DEF image
<1>2. \A m : Prereqs(m)' = Prereqs(m)
  BY <1>1 DEF Prereqs
<1>3. \A m : Exists(m)' = Exists(m)
  BY <1>2 DEF Exists
<1>4. \A m : DependsOn(m)' = DependsOn(m)
  BY <1>3 DEF DependsOn
<1>5. Roots' = Roots
  BY <1>1 DEF Roots
<1>6. Needed' = Needed
  BY <1>4, <1>5 DEF Needed
<1>7. QED
  BY <1>1, <1>2, <1>3, <1>4, <1>5, <1>6

\* The stack, and what a call adds to it.
LEMMA OnPush ==
  ASSUME NEW s \in Seq(Frame), NEW f \in Frame
  PROVE  /\ Append(s, f) \in Seq(Frame)
         /\ DOMAIN Append(s, f) = 1 .. Len(s) + 1 /\ DOMAIN s = 1 .. Len(s) /\ Len(s) \in Nat
         /\ \A i \in 1 .. Len(s) : Append(s, f)[i] = s[i]
         /\ Append(s, f)[Len(s) + 1] = f
         /\ \A p : On(Append(s, f), p) <=> On(s, p) \/ p = f.m
<1>1. /\ Append(s, f) \in Seq(Frame)
      /\ DOMAIN Append(s, f) = 1 .. Len(s) + 1 /\ DOMAIN s = 1 .. Len(s) /\ Len(s) \in Nat
      /\ \A i \in 1 .. Len(s) : Append(s, f)[i] = s[i]
      /\ Append(s, f)[Len(s) + 1] = f
  OBVIOUS
<1>2. ASSUME NEW p PROVE On(Append(s, f), p) <=> On(s, p) \/ p = f.m
  BY <1>1 DEF On
<1>3. QED
  BY <1>1, <1>2

\* A call of init_module(m) or fini_module(m) from the calls of 'below'.
LEMMA EnterKeepsStack ==
  ASSUME ModTypeOK, StatesTell, NEW m \in Mods, NEW below \in Seq(Frame),
         StackDepends(below),
         \A p \in Mods : On(below, p) <=> On(calls, p),
         \A i \in DOMAIN below : m \in DependsOn(below[i].m),
         \A i \in DOMAIN below : \A d \in 1 .. below[i].done :
            IF Prereqs(below[i].m)[d] = Missing THEN d > Len(required[below[i].m])
            ELSE ReturnsAtOnce(Prereqs(below[i].m)[d]) \/ Prereqs(below[i].m)[d] = m,
         Enter(m, below), UNCHANGED image, Stopping' = Stopping
  PROVE  /\ calls' \in Seq(Frame) /\ mstate' \in [Mods -> {"resolved", "init", "fini"}]
         /\ StackDepends(calls)' /\ StackPassed(calls)'
         /\ \A p \in Mods : On(calls, p)' <=> On(calls, p) \/ (p = m /\ ~ReturnsAtOnce(m))
         /\ \A p \in Mods : mstate'[p] = IF p = m /\ ~ReturnsAtOnce(m)
                                         THEN IF Stopping THEN "fini" ELSE "init"
                                         ELSE mstate[p]
<1> DEFINE new == IF Stopping THEN "fini" ELSE "init"
<1>1. \A p \in Mods : mstate'[p] = IF p = m /\ ~ReturnsAtOnce(m) THEN new ELSE mstate[p]
  BY DEF Enter, ModTypeOK
<1>2. mstate' \in [Mods -> {"resolved", "init", "fini"}]
  BY DEF Enter, ModTypeOK
<1>3. \A p \in Mods : (ReturnsAtOnce(p) \/ p = m) => ReturnsAtOnce(p)'
  BY <1>1 DEF ReturnsAtOnce
<1>4. ~ReturnsAtOnce(m) => ~On(below, m)
  BY DEF ReturnsAtOnce, StatesTell, Stopping, HasStopped
<1>5. \A i \in DOMAIN below : /\ below[i] \in Frame /\ below[i].m \in Mods
                              /\ below[i].done \in Nat /\ below[i].done <= Len(Prereqs(below[i].m))
  <2>1. \A i \in DOMAIN below : below[i] \in Frame
    OBVIOUS
  <2>2. \A i \in DOMAIN below : below[i].done <= Len(Prereqs(below[i].m))
    BY DEF StackDepends
  <2>3. QED
    BY <2>1, <2>2 DEF Frame
<1>6. ASSUME NEW i \in DOMAIN below PROVE PassedOK(below[i].m, below[i].done)'
  <2>1. ASSUME NEW d \in 1 .. below[i].done
        PROVE  /\ Prereqs(below[i].m)[d] \in Names
               /\ Prereqs(below[i].m)[d] # Missing => ReturnsAtOnce(Prereqs(below[i].m)[d])'
    <3>1. below[i].m \in Mods /\ d \in 1 .. Len(Prereqs(below[i].m))
      BY <1>5, <2>1, PrereqsType
    <3>2. Prereqs(below[i].m)[d] \in Names
      BY <3>1, PrereqsType
    <3>3. ASSUME NEW p \in Names \ {Missing}, p = Prereqs(below[i].m)[d] PROVE ReturnsAtOnce(p)'
      BY <1>3, <2>1, <3>3 DEF Names
    <3>4. Prereqs(below[i].m)' = Prereqs(below[i].m)
      BY SameImage
    <3>5. QED
      BY <3>2, <3>3, <3>4
  <2>2. QED
    BY <2>1, SameImage DEF PassedOK
<1>7. CASE ReturnsAtOnce(m)
  <2>1. calls' = below
    BY <1>7 DEF Enter
  <2>2. StackDepends(calls)'
    BY <2>1, SameImage DEF StackDepends
  <2>3. StackPassed(calls)'
    BY <1>6, <2>1 DEF StackPassed, PassedOK
  <2>4. QED
    BY <1>1, <1>2, <1>7, <2>1, <2>2, <2>3
<1>8. CASE ~ReturnsAtOnce(m)
  <2> DEFINE f == [m |-> m, done |-> 0]
  <2>1. f \in Frame /\ f.m = m /\ f.done = 0 /\ calls' = Append(below, f)
    BY <1>8 DEF Enter, Frame
  <2> HIDE DEF f
  <2>2. /\ calls' \in Seq(Frame)
        /\ DOMAIN calls' = 1 .. Len(below) + 1 /\ DOMAIN below = 1 .. Len(below) /\ Len(below) \in Nat
        /\ \A i \in 1 .. Len(below) : calls'[i] = below[i]
        /\ calls'[Len(below) + 1] = f
        /\ \A p : On(calls, p)' <=> On(below, p) \/ p = m
    BY <2>1, OnPush
  <2>3. Len(Prereqs(m)) \in Nat
    BY PrereqsType
  <2>4. StackDepends(calls)'
    <3>1. \A i \in DOMAIN calls' : calls'[i].done <= Len(Prereqs(calls'[i].m))
      BY <1>5, <2>1, <2>2, <2>3
    <3>2. \A i, j \in DOMAIN calls' : i < j => calls'[j].m \in DependsOn(calls'[i].m) /\ calls'[j].m # calls'[i].m
      BY <1>4, <1>8, <2>1, <2>2 DEF StackDepends, On
    <3>3. QED
      BY <3>1, <3>2, SameImage DEF StackDepends
  <2>5. StackPassed(calls)'
    <3>1. ASSUME NEW i \in DOMAIN calls', i # Len(below) + 1 
          PROVE  i \in DOMAIN below /\ calls'[i] = below[i]
      BY <2>2, <3>1
    <3>2. 1 .. calls'[Len(below) + 1].done = {}
      BY <2>1, <2>2
    <3>3. QED
      BY <1>6, <3>1, <3>2 DEF StackPassed, PassedOK
  <2>6. QED
    BY <1>1, <1>2, <1>8, <2>2, <2>4, <2>5
<1>9. QED
  BY <1>7, <1>8

\* What every module that is called, or not, keeps.
LEMMA EnterKeepsRest ==
  ASSUME ModInv, NEW m \in Mods, ~ReturnsAtOnce(m) => m \in Needed, HasStopped => Stopping,
         \A p \in Mods : On(calls, p)' <=> On(calls, p) \/ (p = m /\ ~ReturnsAtOnce(m)),
         \A p \in Mods : mstate'[p] = IF p = m /\ ~ReturnsAtOnce(m)
                                      THEN IF Stopping THEN "fini" ELSE "init"
                                      ELSE mstate[p],
         UNCHANGED image, UNCHANGED << started, stopped >>, HasStopped' = HasStopped
  PROVE  /\ StatesTell' /\ StartedClosed' /\ OnlyNeeded'
         /\ \A p \in Mods : mstate[p] # "resolved" => mstate'[p] # "resolved"
         /\ \A p \in Mods : HasStopped /\ mstate[p] # "init" => mstate'[p] # "init"
         /\ IF Stopping THEN mstate'[m] # "init" ELSE mstate'[m] # "resolved"
<1>1. ModTypeOK /\ StatesTell
  BY DEF ModInv
<1>2. StatesTell'
  <2>1. \A p : In(started, p)' = In(started, p) /\ In(stopped, p)' = In(stopped, p)
    BY DEF In
  <2>2. CASE ~HasStopped
    BY <1>1, <2>1, <2>2 DEF StatesTell, ReturnsAtOnce, HasStopped, Stopping
  <2>3. CASE HasStopped
    BY <1>1, <2>1, <2>3 DEF StatesTell, ReturnsAtOnce, HasStopped, Stopping
  <2>4. QED
    BY <2>2, <2>3
<1>3. \A p \in Mods : mstate[p] # "resolved" => mstate'[p] # "resolved"
  OBVIOUS
<1>4. StartedClosed'
  <2>1. \A p \in Mods : Exists(p) \subseteq Mods
    BY <1>1, PrereqsType
  <2>2. QED
    BY <1>3, <2>1, SameImage DEF ModInv, StartedClosed, In
<1>5. OnlyNeeded'
  BY SameImage DEF ModInv, OnlyNeeded, In
<1>6. \A p \in Mods : HasStopped /\ mstate[p] # "init" => mstate'[p] # "init"
  OBVIOUS
<1>7. IF Stopping THEN mstate'[m] # "init" ELSE mstate'[m] # "resolved"
  BY <1>1 DEF ReturnsAtOnce
<1>8. QED
  BY <1>2, <1>3, <1>4, <1>5, <1>6, <1>7

\* Neither order changes while the image and the two sequences stay.
LEMMA SameOrder ==
  ASSUME UNCHANGED image
  PROVE  /\ started' = started => (Ordered(started) => Ordered(started)')
         /\ stopped' = stopped => (Ordered(stopped) => Ordered(stopped)')
BY SameImage DEF Ordered, In, Before, IsInjective

\* The call on top goes on to its next prerequisite.
LEMMA AdvancedStack ==
  ASSUME ModInv, calls # << >>, TopCall.done < Len(Prereqs(TopCall.m)), NEW s, s = Advanced
  PROVE  /\ s \in Seq(Frame) /\ DOMAIN s = DOMAIN calls /\ Len(calls) \in DOMAIN calls
         /\ \A i \in DOMAIN s : /\ s[i].m = calls[i].m /\ s[i].m \in Mods
                                /\ s[i].done = IF i = Len(calls) THEN calls[i].done + 1 ELSE calls[i].done
         /\ StackDepends(s)
         /\ \A p : On(s, p) <=> On(calls, p)
         /\ NextPrereq \in Names
         /\ NextPrereq # Missing => \A i \in DOMAIN s : NextPrereq \in DependsOn(s[i].m)
         /\ TopCall.m \in Mods /\ On(calls, TopCall.m) /\ TopCall.done \in Nat
<1> DEFINE n == Len(calls)
<1>1. /\ calls \in Seq(Frame) /\ n \in Nat \ {0} /\ DOMAIN calls = 1 .. n
      /\ \A i \in 1 .. n : calls[i] \in Frame
      /\ TopCall = calls[n] /\ n \in 1 .. n
  BY DEF ModInv, ModTypeOK, TopCall
<1>2. \A i \in 1 .. n : calls[i].m \in Mods /\ calls[i].done \in Nat
  BY <1>1 DEF Frame
<1>3. \A i \in 1 .. n : [calls[i] EXCEPT !.done = @ + 1] \in Frame
  BY <1>1 DEF Frame
<1>4. /\ s \in Seq(Frame) /\ DOMAIN s = 1 .. n
      /\ \A i \in 1 .. n : s[i] = IF i = n THEN [calls[i] EXCEPT !.done = @ + 1] ELSE calls[i]
  <2>1. s = [i \in 1 .. n |-> IF i = n THEN [calls[i] EXCEPT !.done = @ + 1] ELSE calls[i]]
    BY <1>1 DEF Advanced
  <2>2. QED
    BY <1>1, <1>3, <2>1
<1>5. \A i \in 1 .. n : s[i].m = calls[i].m /\ s[i].done = IF i = n THEN calls[i].done + 1 ELSE calls[i].done
  BY <1>1, <1>4 DEF Frame
<1>6. Len(Prereqs(calls[n].m)) \in Nat /\ NextPrereq \in Names /\ calls[n].done + 1 \in 1 .. Len(Prereqs(calls[n].m))
  BY <1>1, <1>2, PrereqsType DEF ModInv, NextPrereq
<1>7. StackDepends(s)
  <2>1. \A i \in 1 .. n : s[i].done <= Len(Prereqs(s[i].m))
    <3>1. \A i \in 1 .. n : calls[i].done <= Len(Prereqs(calls[i].m))
      BY <1>1 DEF ModInv, StackDepends
    <3>2. calls[n].done + 1 <= Len(Prereqs(calls[n].m))
      BY <1>1, <1>6
    <3>3. QED
      BY <1>5, <3>1, <3>2
  <2>2. QED
    BY <1>1, <1>4, <1>5, <2>1 DEF ModInv, StackDepends
<1>8. \A p : On(s, p) <=> On(calls, p)
  BY <1>1, <1>4, <1>5 DEF On
<1>9. ASSUME NextPrereq # Missing, NEW i \in 1 .. n PROVE NextPrereq \in DependsOn(calls[i].m)
  <2>1. NextPrereq \in Exists(calls[n].m)
    BY <1>1, <1>2, <1>6, <1>9, PrereqsType DEF ModInv, NextPrereq
  <2>2. CASE i = n
    BY <1>2, <2>1, <2>2, DependsClosed DEF ModInv
  <2>3. CASE i < n
    <3>1. calls[n].m \in DependsOn(calls[i].m)
      BY <1>1, <2>3 DEF ModInv, StackDepends
    <3>2. QED
      BY <1>2, <2>1, <3>1, DependsClosed DEF ModInv
  <2>4. i = n \/ i < n
    <3>1. n \in Nat
      BY <1>1
    <3>2. i \in 1 .. n
      BY <1>9
    <3> HIDE DEF n
    <3>3. QED
      BY <3>1, <3>2
  <2>5. QED
    BY <2>2, <2>3, <2>4
<1>10. On(calls, TopCall.m)
  BY <1>1 DEF On
<1>11. QED
  BY <1>1, <1>2, <1>4, <1>5, <1>6, <1>7, <1>8, <1>9, <1>10

\* Which modules a phase has been through, after a step that keeps the phase
\* and the loop.
LEMMA SameProgress ==
  ASSUME ModTypeOK, Progress, UNCHANGED image, UNCHANGED << phase, nextModule >>,
         \A p \in Mods : mstate[p] # "resolved" => mstate'[p] # "resolved",
         \A p \in Mods : HasStopped /\ mstate[p] # "init" => mstate'[p] # "init",
         phase \in {"console", "kmain", "done"} => calls' = calls
  PROVE  Progress'
BY SameImage DEF Progress, HasStopped, ModTypeOK, Names

-----------------------------------------------------------------------------
\* A call goes on to its next prerequisite,
LEMMA VisitPrereqStep == ASSUME ModInv, VisitPrereq, phase # "panic" PROVE ModInv'
<1>1. PICK s : s = Advanced
  OBVIOUS
<1>2. PICK m : m = NextPrereq
  OBVIOUS
<1>3. /\ calls # << >> /\ TopCall.done < Len(Prereqs(TopCall.m)) /\ m # Missing
      /\ Enter(m, s)
      /\ UNCHANGED image /\ UNCHANGED << phase, nextModule, started, stopped >>
  BY <1>1, <1>2 DEF VisitPrereq
<1>4. /\ s \in Seq(Frame) /\ DOMAIN s = DOMAIN calls /\ Len(calls) \in DOMAIN calls
      /\ \A i \in DOMAIN s : /\ s[i].m = calls[i].m /\ s[i].m \in Mods
                             /\ s[i].done = IF i = Len(calls) THEN calls[i].done + 1 ELSE calls[i].done
      /\ StackDepends(s)
      /\ \A p : On(s, p) <=> On(calls, p)
      /\ m \in Mods
      /\ \A i \in DOMAIN s : m \in DependsOn(s[i].m)
      /\ TopCall.m \in Mods /\ On(calls, TopCall.m)
  BY <1>1, <1>2, <1>3, AdvancedStack DEF Names
<1>5. phase \in {"test", "init", "fini"} /\ Stopping' = Stopping /\ HasStopped' = HasStopped /\ (HasStopped => Stopping)
  BY <1>3 DEF ModInv, ModTypeOK, Progress, Stopping, HasStopped
<1>6. ASSUME NEW i \in DOMAIN s, NEW d \in 1 .. s[i].done
      PROVE  IF Prereqs(s[i].m)[d] = Missing THEN d > Len(required[s[i].m])
             ELSE ReturnsAtOnce(Prereqs(s[i].m)[d]) \/ Prereqs(s[i].m)[d] = m
  <2>1. CASE d \in 1 .. calls[i].done
    BY <1>4, <2>1 DEF ModInv, StackPassed, PassedOK
  <2>2. CASE d \notin 1 .. calls[i].done
    <3>1. calls[i].done \in Nat
      <4>1. calls[i] \in Frame
        BY <1>4 DEF ModInv, ModTypeOK
      <4>2. QED
        BY <4>1 DEF Frame
    <3>2. i = Len(calls) /\ d = calls[i].done + 1
      <4>1. i # Len(calls) => s[i].done = calls[i].done
        BY <1>4
      <4>2. i = Len(calls) => s[i].done = calls[i].done + 1
        BY <1>4
      <4>3. QED
        BY <1>6, <2>2, <3>1, <4>1, <4>2
    <3>3. Prereqs(s[i].m)[d] = m
      BY <1>2, <1>4, <3>2 DEF NextPrereq, TopCall
    <3>4. QED
      BY <1>3, <3>3
  <2>3. QED
    BY <2>1, <2>2
<1>7. /\ calls' \in Seq(Frame) /\ mstate' \in [Mods -> {"resolved", "init", "fini"}]
      /\ StackDepends(calls)' /\ StackPassed(calls)'
      /\ \A p \in Mods : On(calls, p)' <=> On(calls, p) \/ (p = m /\ ~ReturnsAtOnce(m))
      /\ \A p \in Mods : mstate'[p] = IF p = m /\ ~ReturnsAtOnce(m)
                                      THEN IF Stopping THEN "fini" ELSE "init"
                                      ELSE mstate[p]
  BY <1>3, <1>4, <1>5, <1>6, EnterKeepsStack DEF ModInv
<1>8. m \in Needed
  <2>1. TopCall.m \in Needed
    BY <1>4 DEF ModInv, OnlyNeeded
  <2>2. m \in Exists(TopCall.m)
    <3>1. calls[Len(calls)] \in Frame /\ StackDepends(calls)
      BY <1>4 DEF ModInv, ModTypeOK
    <3>2. TopCall.done + 1 \in 1 .. Len(Prereqs(TopCall.m))
      BY <1>3, <1>4, <3>1, PrereqsType DEF ModInv, TopCall, Frame
    <3>3. QED
      BY <1>2, <1>3, <1>4, <3>2, PrereqsType DEF ModInv, NextPrereq
  <2>3. QED
    BY <2>1, <2>2, NeededClosed DEF ModInv
<1>9. /\ StatesTell' /\ StartedClosed' /\ OnlyNeeded'
      /\ \A p \in Mods : mstate[p] # "resolved" => mstate'[p] # "resolved"
      /\ \A p \in Mods : HasStopped /\ mstate[p] # "init" => mstate'[p] # "init"
  BY <1>3, <1>4, <1>5, <1>7, <1>8, EnterKeepsRest
<1>10. Progress'
  BY <1>3, <1>5, <1>9, SameProgress DEF ModInv
<1>11. ModTypeOK'
  BY <1>3, <1>7, SameImage DEF ModInv, ModTypeOK
<1>12. Ordered(started)' /\ Ordered(stopped)'
  BY <1>3, SameOrder DEF ModInv
<1>13. QED
  BY <1>7, <1>9, <1>10, <1>11, <1>12 DEF ModInv

\* passes one that load_after names and the image does not have,
LEMMA SkipMissingStep == ASSUME ModInv, SkipMissing PROVE ModInv'
<1>1. PICK s : s = Advanced
  OBVIOUS
<1>2. /\ calls # << >> /\ TopCall.done < Len(Prereqs(TopCall.m)) /\ NextPrereq = Missing
      /\ calls' = s /\ ~IsHard
      /\ UNCHANGED image /\ UNCHANGED << phase, nextModule, mstate, started, stopped >>
  BY <1>1 DEF SkipMissing
<1>3. /\ s \in Seq(Frame) /\ DOMAIN s = DOMAIN calls /\ Len(calls) \in DOMAIN calls
      /\ \A i \in DOMAIN s : /\ s[i].m = calls[i].m /\ s[i].m \in Mods
                             /\ s[i].done = IF i = Len(calls) THEN calls[i].done + 1 ELSE calls[i].done
      /\ StackDepends(s)
      /\ \A p : On(s, p) <=> On(calls, p)
  BY <1>1, <1>2, AdvancedStack
<1>4. \A p : On(calls, p)' <=> On(calls, p)
  <2>1. \A p : On(calls, p)' <=> On(s, p)
    BY <1>2 DEF On
  <2>2. QED
    BY <1>3, <2>1
<1>5. \A p : In(started, p)' = In(started, p) /\ In(stopped, p)' = In(stopped, p)
  BY <1>2 DEF In
<1>6. StackDepends(calls)'
  BY <1>2, <1>3, SameImage DEF StackDepends
<1>7. StackPassed(calls)'
  <2>1. ASSUME NEW i \in DOMAIN s, NEW d \in 1 .. s[i].done
        PROVE  IF Prereqs(s[i].m)[d] = Missing THEN d > Len(required[s[i].m])
               ELSE ReturnsAtOnce(Prereqs(s[i].m)[d])
    <3>1. CASE d \in 1 .. calls[i].done
      BY <1>3, <3>1 DEF ModInv, StackPassed, PassedOK
    <3>2. CASE d \notin 1 .. calls[i].done
      <4>1. calls[i].done \in Nat
        <5>1. calls[i] \in Frame
          BY <1>3 DEF ModInv, ModTypeOK
        <5>2. QED
          BY <5>1 DEF Frame
      <4>2. i = Len(calls) /\ d = calls[i].done + 1
        <5>1. i # Len(calls) => s[i].done = calls[i].done
          BY <1>3
        <5>2. i = Len(calls) => s[i].done = calls[i].done + 1
          BY <1>3
        <5>3. QED
          BY <2>1, <3>2, <4>1, <5>1, <5>2
      <4>3. Prereqs(s[i].m)[d] = Missing
        BY <1>2, <1>3, <4>2 DEF NextPrereq, TopCall
      <4>4. ~(calls[i].done < Len(required[s[i].m])) /\ Len(required[s[i].m]) \in Nat
        BY <1>2, <1>3, <4>2, PrereqsType DEF ModInv, IsHard, TopCall
      <4>5. QED
        BY <4>1, <4>2, <4>3, <4>4
    <3>3. QED
      BY <3>1, <3>2
  <2>2. \A p : ReturnsAtOnce(p)' = ReturnsAtOnce(p)
    BY <1>2 DEF ReturnsAtOnce, Stopping
  <2>3. QED
    BY <1>2, <2>1, <2>2, SameImage DEF StackPassed, PassedOK
<1>8. StatesTell' /\ OnlyNeeded'
  BY <1>2, <1>4, <1>5, SameImage DEF ModInv, StatesTell, OnlyNeeded, HasStopped
<1>9. StartedClosed'
  BY <1>2, <1>5, SameImage DEF ModInv, StartedClosed
<1>10. Progress'
  <2>1. phase \notin {"console", "kmain", "done"}
    BY <1>2 DEF ModInv, Progress
  <2>2. QED
    BY <1>2, <2>1, SameProgress DEF ModInv
<1>11. ModTypeOK'
  BY <1>2, <1>3, SameImage DEF ModInv, ModTypeOK
<1>12. Ordered(started)' /\ Ordered(stopped)'
  BY <1>2, SameOrder DEF ModInv
<1>13. QED
  BY <1>6, <1>7, <1>8, <1>9, <1>10, <1>11, <1>12 DEF ModInv

\* Nothing but phase and the loop's variable changes.
LEMMA SameCalls ==
  ASSUME ModInv, UNCHANGED image, UNCHANGED << mstate, calls, started, stopped >>,
         \/ HasStopped' = HasStopped /\ Stopping' = Stopping
         \/ calls = << >> /\ phase # "done" /\ (HasStopped => Stopping)
            /\ (HasStopped => HasStopped') /\ \A m \in Mods : ~On(calls, m)
  PROVE  /\ StackDepends(calls)' /\ StackPassed(calls)' /\ StatesTell' /\ StartedClosed' /\ OnlyNeeded'
         /\ Ordered(started)' /\ Ordered(stopped)'
<1>1. \A p : /\ On(calls, p)' = On(calls, p) /\ In(started, p)' = In(started, p)
             /\ In(stopped, p)' = In(stopped, p)
  BY DEF On, In
<1>2. StackDepends(calls)'
  BY SameImage DEF ModInv, StackDepends
<1>3. StackPassed(calls)'
  <2>1. CASE HasStopped' = HasStopped /\ Stopping' = Stopping
    <3>1. \A p : ReturnsAtOnce(p)' = ReturnsAtOnce(p)
      BY <2>1 DEF ReturnsAtOnce
    <3>2. QED
      BY <3>1, SameImage DEF ModInv, StackPassed, PassedOK
  <2>2. CASE calls = << >>
    BY <2>2 DEF StackPassed
  <2>3. QED
    BY <2>1, <2>2
<1>4. StatesTell'
  <2>1. CASE HasStopped' = HasStopped
    BY <1>1, <2>1 DEF ModInv, StatesTell
  <2>2. CASE HasStopped' # HasStopped
    BY <1>1, <2>2 DEF ModInv, StatesTell, HasStopped
  <2>3. QED
    BY <2>1, <2>2
<1>5. OnlyNeeded'
  BY <1>1, SameImage DEF ModInv, OnlyNeeded
<1>6. StartedClosed'
  BY <1>1, SameImage DEF ModInv, StartedClosed
<1>7. QED
  BY <1>2, <1>3, <1>4, <1>5, <1>6, SameOrder DEF ModInv

\* No module is on the empty stack.
LEMMA NobodyOnEmpty == ASSUME calls = << >> PROVE \A p : ~On(calls, p)
BY DEF On

\* or panics over a required one.
LEMMA PanicStep == ASSUME ModInv, Panic, phase # "panic" PROVE ModInv'
<1>1. PICK s : s = Advanced
  OBVIOUS
<1>2. /\ calls # << >> /\ TopCall.done < Len(Prereqs(TopCall.m)) /\ NextPrereq = Missing
      /\ phase' = "panic" /\ IsHard
      /\ UNCHANGED image /\ UNCHANGED << nextModule, mstate, calls, started, stopped >>
  BY DEF Panic
<1>3. /\ TopCall.m \in Mods /\ On(calls, TopCall.m) /\ TopCall.done \in Nat
  BY <1>1, <1>2, AdvancedStack
<1>4. Missing \in ToSet(required[TopCall.m])
  <2>1. TopCall.done + 1 \in 1 .. Len(required[TopCall.m])
    BY <1>2, <1>3, PrereqsType DEF ModInv, IsHard
  <2>2. QED
    BY <1>2, <1>3, <2>1, PrereqsType DEF ModInv, NextPrereq
<1>5. ~HasStopped
  BY <1>3, <1>4 DEF ModInv, StatesTell, StartedClosed
<1>6. TopCall.m \in Needed
  BY <1>3 DEF ModInv, OnlyNeeded
<1>7. HasStopped' = HasStopped /\ Stopping' = Stopping
  BY <1>2, <1>5 DEF HasStopped, Stopping
<1>8. Progress'
  <2>1. \E m \in Needed : Missing \in ToSet(required[m])
    BY <1>4, <1>6
  <2>2. phase # "console"
    BY <1>2 DEF ModInv, Progress
  <2>3. QED
    BY <1>2, <2>1, <2>2, SameImage DEF ModInv, Progress
<1>9. ModTypeOK'
  BY <1>2, SameImage DEF ModInv, ModTypeOK
<1>10. QED
  BY <1>2, <1>7, <1>8, <1>9, SameCalls DEF ModInv

\* A function that has run comes after those of its module's prerequisites.
LEMMA AppendOrdered ==
  ASSUME NEW s \in Seq(Mods), NEW m \in Mods, Ordered(s), ~In(s, m),
         \A p \in Exists(m) : m \notin DependsOn(p) => In(s, p)
  PROVE  Ordered(Append(s, m)) /\ \A p : In(Append(s, m), p) <=> In(s, p) \/ p = m
<1>1. /\ DOMAIN Append(s, m) = 1 .. Len(s) + 1 /\ DOMAIN s = 1 .. Len(s) /\ Len(s) \in Nat
      /\ \A i \in 1 .. Len(s) : Append(s, m)[i] = s[i]
      /\ Append(s, m)[Len(s) + 1] = m
  OBVIOUS
<1>2. \A p : In(Append(s, m), p) <=> In(s, p) \/ p = m
  BY <1>1 DEF In
<1>3. IsInjective(Append(s, m))
  BY <1>1 DEF Ordered, IsInjective, In
<1>4. ASSUME NEW p, NEW q, Before(s, p, q) PROVE Before(Append(s, m), p, q)
  BY <1>1, <1>4 DEF Before
<1>5. ASSUME NEW p, In(s, p) PROVE Before(Append(s, m), p, m)
  BY <1>1, <1>5 DEF Before, In
<1>6. QED
  BY <1>2, <1>3, <1>4, <1>5 DEF Ordered

\* What returning from a call does to the stack.
LEMMA OnPop ==
  ASSUME ModInv, calls # << >>
  PROVE  /\ Front(calls) \in Seq(Frame) /\ DOMAIN Front(calls) = 1 .. Len(calls) - 1
         /\ Len(calls) \in Nat \ {0} /\ DOMAIN calls = 1 .. Len(calls)
         /\ \A i \in 1 .. Len(calls) - 1 : Front(calls)[i] = calls[i]
         /\ \A p : On(Front(calls), p) <=> On(calls, p) /\ p # TopCall.m
         /\ TopCall.m \in Mods /\ On(calls, TopCall.m) /\ TopCall.done \in Nat
<1>1. /\ calls \in Seq(Frame) /\ Len(calls) \in Nat \ {0} /\ DOMAIN calls = 1 .. Len(calls)
      /\ Front(calls) = SubSeq(calls, 1, Len(calls) - 1)
  BY DEF ModInv, ModTypeOK, Front
<1>2. /\ Front(calls) \in Seq(Frame) /\ DOMAIN Front(calls) = 1 .. Len(calls) - 1
      /\ \A i \in 1 .. Len(calls) - 1 : Front(calls)[i] = calls[i]
  BY <1>1
<1>3. /\ TopCall = calls[Len(calls)] /\ TopCall \in Frame
      /\ \A i \in 1 .. Len(calls) - 1 : calls[i].m # TopCall.m
  BY <1>1 DEF TopCall, ModInv, StackDepends
<1>4. \A p : On(Front(calls), p) <=> On(calls, p) /\ p # TopCall.m
  <2>1. ASSUME NEW i \in 1 .. Len(calls), calls[i].m # TopCall.m PROVE i \in 1 .. Len(calls) - 1
    BY <1>1, <1>3, <2>1
  <2>2. ASSUME NEW p, On(calls, p), p # TopCall.m PROVE On(Front(calls), p)
    BY <1>1, <1>2, <2>1, <2>2 DEF On
  <2>3. ASSUME NEW p, On(Front(calls), p) PROVE On(calls, p) /\ p # TopCall.m
    BY <1>1, <1>2, <1>3, <2>3 DEF On
  <2>4. QED
    BY <2>2, <2>3
<1>5. QED
  BY <1>1, <1>2, <1>3, <1>4 DEF Frame, On

\* A call with nothing left to visit runs its module's function and returns.
LEMMA RunFunctionStep == ASSUME ModInv, RunFunction PROVE ModInv'
<1>1. PICK m : m = TopCall.m
  OBVIOUS
<1>2. /\ calls # << >> /\ TopCall.done = Len(Prereqs(m)) /\ calls' = Front(calls)
      /\ IF Stopping THEN stopped' = Append(stopped, m) /\ started' = started
                     ELSE started' = Append(started, m) /\ stopped' = stopped
      /\ UNCHANGED image /\ UNCHANGED << phase, nextModule, mstate >>
  BY <1>1 DEF RunFunction
<1>3. /\ Front(calls) \in Seq(Frame) /\ DOMAIN Front(calls) = 1 .. Len(calls) - 1
      /\ Len(calls) \in Nat \ {0} /\ DOMAIN calls = 1 .. Len(calls)
      /\ \A i \in 1 .. Len(calls) - 1 : Front(calls)[i] = calls[i]
      /\ \A p : On(Front(calls), p) <=> On(calls, p) /\ p # m
      /\ m \in Mods /\ On(calls, m) /\ TopCall.done \in Nat
  BY <1>1, <1>2, OnPop
<1>4. \A p : On(calls, p)' <=> On(calls, p) /\ p # m
  <2>1. \A p : On(calls, p)' <=> On(Front(calls), p)
    BY <1>2 DEF On
  <2>2. QED
    BY <1>3, <2>1
<1>5. phase \in {"test", "init", "fini", "panic"} /\ (HasStopped <=> Stopping)
  BY <1>2 DEF ModInv, ModTypeOK, Progress, HasStopped, Stopping
<1>6. /\ \A p \in Exists(m) : ReturnsAtOnce(p)
      /\ Missing \notin ToSet(required[m])
  <2>1. \A d \in 1 .. Len(Prereqs(m)) : IF Prereqs(m)[d] = Missing THEN d > Len(required[m])
                                        ELSE ReturnsAtOnce(Prereqs(m)[d])
    <3>1. Len(calls) \in DOMAIN calls /\ calls[Len(calls)].m = m /\ calls[Len(calls)].done = Len(Prereqs(m))
      BY <1>1, <1>2, <1>3 DEF TopCall
    <3>2. QED
      BY <3>1 DEF ModInv, StackPassed, PassedOK
  <2>2. \A p \in Exists(m) : ReturnsAtOnce(p)
    BY <1>3, <2>1, PrereqsType DEF ModInv
  <2>3. Missing \notin ToSet(required[m])
    <3>1. SUFFICES ASSUME NEW d \in 1 .. Len(required[m]), Prereqs(m)[d] = Missing PROVE FALSE
      BY <1>3, PrereqsType DEF ModInv
    <3>2. d \in 1 .. Len(Prereqs(m)) /\ ~(d > Len(required[m]))
      BY <1>3, <3>1, PrereqsType DEF ModInv
    <3>3. QED
      BY <2>1, <3>1, <3>2
  <2>4. QED
    BY <2>2, <2>3
\* A prerequisite whose call has not returned depends on m.
<1>7. \A p \in Mods : On(calls, p) /\ p # m => m \in DependsOn(p)
  <2>1. m = calls[Len(calls)].m
    BY <1>1 DEF TopCall
  <2>2. ASSUME NEW p \in Mods, NEW i \in DOMAIN calls, calls[i].m = p, p # m PROVE m \in DependsOn(p)
    <3>1. i < Len(calls) /\ Len(calls) \in DOMAIN calls
      BY <1>3, <2>1, <2>2
    <3>2. QED
      BY <2>1, <2>2, <3>1 DEF ModInv, StackDepends
  <2>3. QED
    BY <2>2 DEF On
<1>8. \A p \in Exists(m) : p \in Mods /\ (On(calls, p) => m \in DependsOn(p))
  <2>1. \A p \in Exists(m) : p \in Mods
    BY <1>3, PrereqsType DEF ModInv
  <2>2. m \in Exists(m) => m \in DependsOn(m)
    BY <1>3, DependsClosed DEF ModInv
  <2>3. QED
    BY <1>7, <2>1, <2>2
<1>9. StackDepends(calls)' /\ StackPassed(calls)'
  <2>1. \A i \in DOMAIN calls' : i \in DOMAIN calls /\ calls'[i] = calls[i]
    BY <1>2, <1>3
  <2>2. \A p : ReturnsAtOnce(p)' = ReturnsAtOnce(p)
    BY <1>2 DEF ReturnsAtOnce, Stopping
  <2>3. StackDepends(calls)'
    BY <1>2, <2>1, SameImage DEF ModInv, StackDepends
  <2>4. StackPassed(calls)'
    BY <1>2, <2>1, <2>2, SameImage DEF ModInv, StackPassed, PassedOK
  <2>5. QED
    BY <2>3, <2>4
<1>10. Progress'
  BY <1>2, <1>5, SameProgress DEF ModInv
<1>11. CASE ~Stopping
  <2>1. ~In(started, m) /\ \A p \in Exists(m) : m \notin DependsOn(p) => In(started, p)
    BY <1>3, <1>5, <1>6, <1>8, <1>11 DEF ModInv, StatesTell, ReturnsAtOnce
  <2>2. PICK s : s = started
    OBVIOUS
  <2>3. s \in Seq(Mods) /\ started' = Append(s, m) /\ stopped' = stopped
    BY <1>2, <1>11, <2>2 DEF ModInv, ModTypeOK
  <2>4. Ordered(Append(s, m)) /\ \A p : In(Append(s, m), p) <=> In(s, p) \/ p = m
    BY <1>3, <2>1, <2>2, <2>3, AppendOrdered DEF ModInv
  <2>5. \A p : In(started, p)' <=> In(started, p) \/ p = m
    BY <2>2, <2>3, <2>4 DEF In
  <2>6. \A p : In(stopped, p)' = In(stopped, p)
    BY <2>3 DEF In
  <2>7. Ordered(started)' /\ Ordered(stopped)'
    <3>1. Ordered(started)'
      BY <1>2, <2>3, <2>4, SameImage, SMTT(30) DEF Ordered, In, Before, IsInjective
    <3>2. QED
      BY <1>2, <2>3, <3>1, SameOrder DEF ModInv
  <2>8. StatesTell' /\ OnlyNeeded'
    BY <1>2, <1>3, <1>4, <1>5, <1>11, <2>5, <2>6, SameImage DEF ModInv, StatesTell, OnlyNeeded, HasStopped
  <2>9. StartedClosed'
    <3>1. \A p \in Exists(m) : mstate[p] # "resolved"
      BY <1>6, <1>11 DEF ReturnsAtOnce
    <3>2. QED
      BY <1>2, <1>6, <2>5, <3>1, SameImage DEF ModInv, StartedClosed
  <2>10. ModTypeOK'
    BY <1>2, <1>3, <2>3, SameImage DEF ModInv, ModTypeOK
  <2>11. QED
    BY <1>9, <1>10, <2>7, <2>8, <2>9, <2>10 DEF ModInv
<1>12. CASE Stopping
  <2>1. ~In(stopped, m) /\ In(started, m)
    BY <1>3, <1>5, <1>12 DEF ModInv, StatesTell
  <2>2. \A p \in Exists(m) : m \notin DependsOn(p) => In(stopped, p)
    <3>1. \A p \in Exists(m) : mstate[p] # "resolved"
      BY <1>3, <2>1 DEF ModInv, StartedClosed
    <3>2. QED
      BY <1>5, <1>6, <1>8, <1>12, <3>1 DEF ModInv, StatesTell, ReturnsAtOnce
  <2>3. PICK s : s = stopped
    OBVIOUS
  <2>4. s \in Seq(Mods) /\ stopped' = Append(s, m) /\ started' = started
    BY <1>2, <1>12, <2>3 DEF ModInv, ModTypeOK
  <2>5. Ordered(Append(s, m)) /\ \A p : In(Append(s, m), p) <=> In(s, p) \/ p = m
    BY <1>3, <2>1, <2>2, <2>3, <2>4, AppendOrdered DEF ModInv
  <2>6. \A p : In(stopped, p)' <=> In(stopped, p) \/ p = m
    BY <2>3, <2>4, <2>5 DEF In
  <2>7. \A p : In(started, p)' = In(started, p)
    BY <2>4 DEF In
  <2>8. Ordered(started)' /\ Ordered(stopped)'
    <3>1. Ordered(stopped)'
      BY <1>2, <2>4, <2>5, SameImage, SMTT(30) DEF Ordered, In, Before, IsInjective
    <3>2. QED
      BY <1>2, <2>4, <3>1, SameOrder DEF ModInv
  <2>9. StatesTell' /\ OnlyNeeded'
    BY <1>2, <1>3, <1>4, <1>5, <1>12, <2>1, <2>6, <2>7, SameImage DEF ModInv, StatesTell, OnlyNeeded, HasStopped
  <2>10. StartedClosed'
    BY <1>2, <2>7, SameImage DEF ModInv, StartedClosed
  <2>11. ModTypeOK'
    BY <1>2, <1>3, <2>4, SameImage, SMTT(30) DEF ModInv, ModTypeOK
  <2>12. QED
    BY <1>9, <1>10, <2>8, <2>9, <2>10, <2>11 DEF ModInv
<1>13. QED
  BY <1>11, <1>12

-----------------------------------------------------------------------------
\* The calls main() makes itself, when no call has not returned.
LEMMA EnterFromMain ==
  ASSUME ModInv, NEW m \in Mods, ~ReturnsAtOnce(m) => m \in Needed,
         calls = << >>, Enter(m, << >>),
         UNCHANGED image, UNCHANGED << started, stopped >>,
         Stopping' = Stopping, HasStopped' = HasStopped, HasStopped => Stopping
  PROVE  /\ calls' \in Seq(Frame) /\ mstate' \in [Mods -> {"resolved", "init", "fini"}]
         /\ StackDepends(calls)' /\ StackPassed(calls)'
         /\ StatesTell' /\ StartedClosed' /\ OnlyNeeded'
         /\ Ordered(started)' /\ Ordered(stopped)'
         /\ \A p \in Mods : mstate[p] # "resolved" => mstate'[p] # "resolved"
         /\ \A p \in Mods : HasStopped /\ mstate[p] # "init" => mstate'[p] # "init"
         /\ IF Stopping THEN mstate'[m] # "init" ELSE mstate'[m] # "resolved"
<1>1. PICK s : s = << >>
  OBVIOUS
<1>2. s \in Seq(Frame) /\ DOMAIN s = {} /\ s = calls /\ Enter(m, s)
  BY <1>1
<1>3. StackDepends(s) /\ \A p \in Mods : On(s, p) <=> On(calls, p)
  BY <1>2 DEF StackDepends, On
<1>4. /\ calls' \in Seq(Frame) /\ mstate' \in [Mods -> {"resolved", "init", "fini"}]
      /\ StackDepends(calls)' /\ StackPassed(calls)'
      /\ \A p \in Mods : On(calls, p)' <=> On(calls, p) \/ (p = m /\ ~ReturnsAtOnce(m))
      /\ \A p \in Mods : mstate'[p] = IF p = m /\ ~ReturnsAtOnce(m)
                                      THEN IF Stopping THEN "fini" ELSE "init"
                                      ELSE mstate[p]
  BY <1>2, <1>3, EnterKeepsStack DEF ModInv
<1>5. QED
  BY <1>4, EnterKeepsRest, SameOrder DEF ModInv

\* main()'s first module is the console,
LEMMA StartConsoleStep == ASSUME ModInv, StartConsole PROVE ModInv'
<1>1. /\ phase = "console" /\ calls = << >> /\ nextModule = 1
      /\ phase' = IF test_module = Missing THEN "init" ELSE "test"
      /\ UNCHANGED image /\ UNCHANGED << nextModule, started, stopped >>
      /\ Stopping' = Stopping /\ HasStopped' = HasStopped /\ ~HasStopped /\ ~Stopping
  BY DEF StartConsole, ModInv, Progress, Stopping, HasStopped
<1>2. CASE console = Missing
  <2>1. UNCHANGED << mstate, calls, started, stopped >>
    BY <1>1, <1>2 DEF StartConsole
  <2>2. Progress'
    BY <1>1, <1>2, <2>1, SameImage DEF ModInv, Progress, Mods
  <2>3. ModTypeOK'
    BY <1>1, <2>1, SameImage DEF ModInv, ModTypeOK
  <2>4. QED
    BY <1>1, <2>1, <2>2, <2>3, SameCalls DEF ModInv
<1>3. CASE console # Missing
  <2>1. PICK m : m = console
    OBVIOUS
  <2>2. m \in Needed /\ m \in Mods
    BY <1>3, <2>1, NeededClosed DEF ModInv, Roots
  <2>3. Enter(m, << >>)
    BY <1>3, <2>1 DEF StartConsole
  <2>4. /\ calls' \in Seq(Frame) /\ mstate' \in [Mods -> {"resolved", "init", "fini"}]
        /\ StackDepends(calls)' /\ StackPassed(calls)'
        /\ StatesTell' /\ StartedClosed' /\ OnlyNeeded'
        /\ Ordered(started)' /\ Ordered(stopped)'
        /\ mstate'[m] # "resolved"
    BY <1>1, <2>2, <2>3, EnterFromMain
  <2>5. Progress'
    BY <1>1, <2>1, <2>4, SameImage DEF ModInv, Progress, Mods
  <2>6. ModTypeOK'
    BY <1>1, <2>4, SameImage DEF ModInv, ModTypeOK
  <2>7. QED
    BY <2>4, <2>5, <2>6 DEF ModInv
<1>4. QED
  BY <1>2, <1>3

\* in a test image the only other one is the test.
LEMMA StartTestStep == ASSUME ModInv, StartTest PROVE ModInv'
<1>1. PICK m : m = test_module
  OBVIOUS
<1>2. /\ phase = "test" /\ calls = << >> /\ nextModule = 1 /\ nextModule' = 2 /\ phase' = phase
      /\ Enter(m, << >>)
      /\ UNCHANGED image /\ UNCHANGED << started, stopped >>
      /\ Stopping' = Stopping /\ HasStopped' = HasStopped /\ ~HasStopped /\ ~Stopping
  BY <1>1 DEF StartTest, Stopping, HasStopped
<1>3. m \in Needed /\ m \in Mods /\ m # Missing
  <2>1. test_module # Missing
    BY <1>2 DEF ModInv, Progress
  <2>2. QED
    BY <1>1, <2>1, NeededClosed DEF ModInv, Roots
<1>4. /\ calls' \in Seq(Frame) /\ mstate' \in [Mods -> {"resolved", "init", "fini"}]
      /\ StackDepends(calls)' /\ StackPassed(calls)'
      /\ StatesTell' /\ StartedClosed' /\ OnlyNeeded'
      /\ Ordered(started)' /\ Ordered(stopped)'
      /\ \A p \in Mods : mstate[p] # "resolved" => mstate'[p] # "resolved"
      /\ mstate'[m] # "resolved"
  BY <1>2, <1>3, EnterFromMain
<1>5. Progress'
  BY <1>1, <1>2, <1>3, <1>4, SameImage DEF ModInv, ModTypeOK, Progress, Names
<1>6. ModTypeOK'
  BY <1>2, <1>4, SameImage DEF ModInv, ModTypeOK
<1>7. QED
  BY <1>4, <1>5, <1>6 DEF ModInv

\* One round of main()'s loops over the modules.
LEMMA NextInLoopStep == ASSUME ModInv, NextInLoop PROVE ModInv'
<1>1. PICK m : m = nextModule
  OBVIOUS
<1>2. /\ phase \in {"init", "fini"} /\ calls = << >> /\ nextModule <= NumModules
      /\ nextModule' = nextModule + 1 /\ phase' = phase
      /\ Enter(m, << >>)
      /\ UNCHANGED image /\ UNCHANGED << started, stopped >>
      /\ Stopping' = Stopping /\ HasStopped' = HasStopped /\ (HasStopped => Stopping)
  BY <1>1 DEF NextInLoop, Stopping, HasStopped
<1>3. m \in Mods /\ nextModule \in Nat \ {0} /\ NumModules \in Nat
  BY <1>1, <1>2, ModulesAssumption DEF ModInv, ModTypeOK, Mods
<1>4. ~ReturnsAtOnce(m) => m \in Needed
  <2>1. CASE phase = "init"
    <3>1. m \in Roots
      BY <1>3, <2>1, ModulesAssumption DEF ModInv, Progress, Roots
    <3>2. QED
      BY <3>1, NeededClosed DEF ModInv
  <2>2. CASE phase = "fini"
    BY <1>3, <2>2 DEF ModInv, StatesTell, OnlyNeeded, HasStopped, Stopping, ReturnsAtOnce
  <2>3. QED
    BY <1>2, <2>1, <2>2
<1>5. /\ calls' \in Seq(Frame) /\ mstate' \in [Mods -> {"resolved", "init", "fini"}]
      /\ StackDepends(calls)' /\ StackPassed(calls)'
      /\ StatesTell' /\ StartedClosed' /\ OnlyNeeded'
      /\ Ordered(started)' /\ Ordered(stopped)'
      /\ \A p \in Mods : mstate[p] # "resolved" => mstate'[p] # "resolved"
      /\ \A p \in Mods : HasStopped /\ mstate[p] # "init" => mstate'[p] # "init"
      /\ IF Stopping THEN mstate'[m] # "init" ELSE mstate'[m] # "resolved"
  BY <1>2, <1>3, <1>4, EnterFromMain
<1>6. \A p \in Mods : p < nextModule + 1 => p < nextModule \/ p = m
  BY <1>1, <1>3 DEF Mods
<1>7. Progress'
  <2>1. console' = console /\ test_module' = test_module
    BY <1>2, SameImage
  <2>2. console \in Names /\ test_module \in Names
    BY DEF ModInv, ModTypeOK
  <2>3. CASE phase = "init"
    <3>1. \A p \in Mods : p < nextModule + 1 => mstate'[p] # "resolved"
      BY <1>5, <1>6, <2>3 DEF ModInv, Progress, Stopping
    <3>2. QED
      BY <1>2, <1>5, <2>1, <2>2, <2>3, <3>1 DEF ModInv, Progress, Names
  <2>4. CASE phase = "fini"
    <3>1. \A p \in Mods : p < nextModule + 1 => mstate'[p] # "init"
      BY <1>5, <1>6, <2>4 DEF ModInv, Progress, Stopping, HasStopped
    <3>2. QED
      BY <1>2, <1>5, <2>1, <2>2, <2>4, <3>1 DEF ModInv, Progress, Names
  <2>5. QED
    BY <1>2, <2>3, <2>4
<1>8. ModTypeOK'
  BY <1>2, <1>3, <1>5, SameImage DEF ModInv, ModTypeOK
<1>9. QED
  BY <1>5, <1>7, <1>8 DEF ModInv

\* The test's init() has returned.
LEMMA TestReturnsStep == ASSUME ModInv, TestReturns PROVE ModInv'
<1>1. /\ phase = "test" /\ calls = << >> /\ nextModule = 2 /\ phase' = "fini" /\ nextModule' = 1
      /\ UNCHANGED image /\ UNCHANGED << mstate, calls, started, stopped >>
  BY DEF TestReturns
<1>2. ~HasStopped /\ HasStopped' /\ \A m \in Mods : ~On(calls, m)
  BY <1>1, NobodyOnEmpty DEF HasStopped
<1>3. Progress'
  BY <1>1, SameImage DEF ModInv, Progress, Mods
<1>4. ModTypeOK'
  BY <1>1, SameImage DEF ModInv, ModTypeOK
<1>5. QED
  BY <1>1, <1>2, <1>3, <1>4, SameCalls DEF ModInv

\* kmain() has returned: the shutdown begins.
LEMMA KmainReturnsStep == ASSUME ModInv, KmainReturns PROVE ModInv'
<1>1. /\ phase = "kmain" /\ calls = << >> /\ nextModule = 1 /\ phase' = "fini" /\ nextModule' = 1
      /\ UNCHANGED image /\ UNCHANGED << mstate, calls, started, stopped >>
  BY DEF KmainReturns, ModInv, Progress
<1>2. ~HasStopped /\ HasStopped' /\ \A m \in Mods : ~On(calls, m)
  BY <1>1, NobodyOnEmpty DEF HasStopped
<1>3. Progress'
  BY <1>1, SameImage DEF ModInv, Progress, Mods
<1>4. ModTypeOK'
  BY <1>1, SameImage DEF ModInv, ModTypeOK
<1>5. QED
  BY <1>1, <1>2, <1>3, <1>4, SameCalls DEF ModInv

\* The end of a loop over the modules.
LEMMA LoopEndsStep == ASSUME ModInv, LoopEnds PROVE ModInv'
<1>1. /\ phase \in {"init", "fini"} /\ calls = << >> /\ nextModule > NumModules /\ nextModule' = 1
      /\ phase' = IF phase = "fini" THEN "done" ELSE "kmain"
      /\ UNCHANGED image /\ UNCHANGED << mstate, calls, started, stopped >>
  BY DEF LoopEnds, Stopping
<1>2. HasStopped' = HasStopped /\ (HasStopped <=> phase = "fini") /\ \A m \in Mods : ~On(calls, m)
  BY <1>1, NobodyOnEmpty DEF HasStopped
<1>3. \A m \in Mods : m < nextModule
  BY <1>1, ModulesAssumption DEF ModInv, ModTypeOK, Mods
<1>4. Progress'
  BY <1>1, <1>3, SameImage DEF ModInv, Progress, Mods
<1>5. ModTypeOK'
  BY <1>1, SameImage DEF ModInv, ModTypeOK
<1>6. HasStopped => Stopping
  BY <1>2 DEF Stopping
<1>7. QED
  BY <1>1, <1>2, <1>4, <1>5, <1>6, SameCalls DEF ModInv

\* Before anything has started.
LEMMA ModInitInv == ModInit => ModInv
<1> SUFFICES ASSUME ModInit PROVE ModInv
  OBVIOUS
<1>1. ModTypeOK
  <2>1. RequiredLists \subseteq Seq(Names) /\ LoadAfterLists \subseteq Seq(Names)
    BY ModulesAssumption DEF Names
  <2>2. required \in [Mods -> Seq(Names)] /\ load_after \in [Mods -> Seq(Names)]
    BY <2>1 DEF ModInit
  <2>3. QED
    BY <2>2, ModulesAssumption DEF ModInit, ModTypeOK, Names
<1>2. \A p : ~On(calls, p) /\ ~In(started, p) /\ ~In(stopped, p)
  BY DEF ModInit, On, In
<1>3. StackDepends(calls) /\ StackPassed(calls)
  BY DEF ModInit, StackDepends, StackPassed
<1>4. StatesTell /\ StartedClosed /\ OnlyNeeded
  BY <1>2 DEF ModInit, StatesTell, StartedClosed, OnlyNeeded, HasStopped
<1>5. Progress
  BY DEF ModInit, Progress
<1>6. Ordered(started) /\ Ordered(stopped)
  BY <1>2 DEF ModInit, Ordered, IsInjective
<1>7. QED
  BY <1>1, <1>3, <1>4, <1>5, <1>6 DEF ModInv

\* Every step of startup and shutdown keeps the invariant.
LEMMA ModStep == ModInv /\ [ModNext]_modVars => ModInv'
<1> SUFFICES ASSUME ModInv, [ModNext]_modVars PROVE ModInv'
  OBVIOUS
<1>1. CASE phase # "panic" /\ (VisitPrereq \/ SkipMissing \/ Panic \/ RunFunction)
  BY <1>1, VisitPrereqStep, SkipMissingStep, PanicStep, RunFunctionStep
<1>2. CASE StartConsole \/ StartTest \/ TestReturns \/ NextInLoop \/ LoopEnds \/ KmainReturns
  BY <1>2, StartConsoleStep, StartTestStep, TestReturnsStep, NextInLoopStep, LoopEndsStep,
     KmainReturnsStep
<1>3. CASE UNCHANGED modVars
  <2>1. /\ UNCHANGED image /\ UNCHANGED << mstate, calls, started, stopped >>
        /\ UNCHANGED << phase, nextModule >>
    BY <1>3 DEF modVars, image
  <2>2. HasStopped' = HasStopped /\ Stopping' = Stopping
    BY <2>1 DEF HasStopped, Stopping
  <2>3. ModTypeOK'
    BY <2>1, SameImage DEF ModInv, ModTypeOK
  <2>4. Progress'
    BY <2>1, SameProgress DEF ModInv
  <2>5. QED
    BY <2>1, <2>2, <2>3, <2>4, SameCalls DEF ModInv
<1>4. QED
  BY <1>1, <1>2, <1>3 DEF ModNext, LoaderStep

\* The invariant says what the run checks.
LEMMA ModSuffices == ModInv => ModulesInOrder
<1> SUFFICES ASSUME ModInv PROVE ModulesInOrder
  OBVIOUS
<1>1. /\ started \in Seq(Mods) /\ stopped \in Seq(Mods)
      /\ \A m : m \in ToSet(started) <=> In(started, m)
      /\ \A m : m \in ToSet(stopped) <=> In(stopped, m)
      /\ \A m : In(started, m) \/ In(stopped, m) => m \in Mods
  <2>1. started \in Seq(Mods) /\ stopped \in Seq(Mods)
    BY DEF ModInv, ModTypeOK
  <2>2. /\ \A m : m \in ToSet(started) <=> In(started, m)
        /\ \A m : m \in ToSet(stopped) <=> In(stopped, m)
    BY DEF ToSet, In
  <2>3. \A m : In(started, m) \/ In(stopped, m) => m \in Mods
    BY <2>1 DEF In
  <2>4. QED
    BY <2>1, <2>2, <2>3
<1>2. StartedAfterPrereqs
  BY <1>1 DEF ModInv, Ordered, StartedAfterPrereqs
<1>3. ToSet(stopped) \subseteq ToSet(started)
  BY <1>1 DEF ModInv, StatesTell
<1>4. ASSUME phase = "done" PROVE ToSet(stopped) = ToSet(started)
  <2>1. \A m \in Mods : ~On(calls, m) /\ mstate[m] # "init"
    BY <1>4, NobodyOnEmpty DEF ModInv, Progress
  <2>2. \A m \in Mods : In(started, m) => In(stopped, m)
    BY <1>4, <2>1 DEF ModInv, StatesTell, HasStopped
  <2>3. QED
    BY <1>1, <1>3, <2>2
<1>5. StoppedLikeStarted
  BY <1>1, <1>3, <1>4 DEF ModInv, Ordered, StoppedLikeStarted
<1>6. ToSet(started) \subseteq Needed
  BY <1>1 DEF ModInv, OnlyNeeded
<1>7. ASSUME phase \in {"kmain", "done"} PROVE Needed \subseteq ToSet(started)
  <2>1. \A m \in Mods : mstate[m] # "resolved" <=> In(started, m)
    BY <1>7, NobodyOnEmpty DEF ModInv, Progress, StatesTell, HasStopped
  <2>2. \A m \in Roots : m \in ToSet(started)
    <3>1. CASE test_module = Missing
      <4>1. Roots \subseteq Mods
        BY NeededClosed DEF ModInv
      <4>2. QED
        BY <1>1, <1>7, <2>1, <3>1, <4>1 DEF ModInv, Progress
    <3>2. CASE test_module # Missing
      <4>1. test_module \in Mods /\ In(started, test_module)
        BY <1>7, <2>1, <3>2 DEF ModInv, ModTypeOK, Progress, Names
      <4>2. console # Missing => console \in Mods /\ In(started, console)
        BY <1>7, <2>1 DEF ModInv, ModTypeOK, Progress, Names
      <4>3. QED
        BY <1>1, <3>2, <4>1, <4>2 DEF Roots
    <3>3. QED
      BY <3>1, <3>2
  <2>3. ToSet(started) \subseteq Mods /\ \A m \in ToSet(started) : Exists(m) \subseteq ToSet(started)
    <3>1. \A m \in Mods : Exists(m) \subseteq Mods
      BY PrereqsType DEF ModInv
    <3>2. QED
      BY <1>1, <2>1, <3>1 DEF ModInv, StartedClosed
  <2>4. \A m \in Roots : DependsOn(m) \subseteq ToSet(started)
    BY <2>2, <2>3, DependsLeast
  <2>5. QED
    BY <2>2, <2>4 DEF Needed
<1>8. RightModulesRun
  <2>1. ASSUME phase \in {"kmain", "done"}, NEW m \in Needed PROVE Missing \notin ToSet(required[m])
    <3>1. In(started, m) /\ m \in Mods
      BY <1>1, <1>7, <2>1
    <3>2. QED
      BY <3>1 DEF ModInv, StartedClosed
  <2>2. phase = "panic" => \E m \in Needed : Missing \in ToSet(required[m])
    BY DEF ModInv, Progress
  <2>3. QED
    BY <1>6, <1>7, <2>1, <2>2 DEF RightModulesRun
<1>9. QED
  BY <1>2, <1>5, <1>8 DEF ModulesInOrder

\* main() starts and stops the right modules in the right order, for every
\* number of modules and whatever their lists.
THEOREM SoundModules == ModSpec => []ModulesInOrder
BY ModInitInv, ModStep, ModSuffices, PTL DEF ModSpec

-----------------------------------------------------------------------------
\* The block cache.

\* A page pointer.
PageOrNull == Blocks \cup {NoPage, Wild}

\* Types, and a frame for every page of the cache.
BcTypeOK ==
  /\ cached \subseteq Blocks /\ bottom \in {NoPage, Wild} /\ mru_page \in PageOrNull /\ lru_page \in PageOrNull
  /\ pgNext \in [Blocks -> PageOrNull] /\ pgPrev \in [Blocks -> PageOrNull]
  /\ use_count \in [Blocks -> Nat]
  /\ phys_addr \in [Blocks -> PageFrames \cup {NoPage}]
  /\ \A b \in cached : phys_addr[b] \in PageFrames
  /\ frameData \in [PageFrames -> PageOrNull]
  /\ user \in [Users -> {"idle", "reading", "mapping", "holding"}]
  /\ handle \in [Users -> PageOrNull]
  /\ mapped \in [Users -> PageFrames \cup {NoPage}]
  /\ evictor \in [pg : PageOrNull, npages : Nat, on : BOOLEAN]

\* A page's use_count is the number of users that have a handle of it.
Holders(b) == { u \in Users : handle[u] = b }
\* use_count is the number of users of a block, and only a user that is at
\* work or holds a page has one.
CountsAreExact ==
  /\ \A u \in Users : user[u] = "idle" <=> handle[u] = NoPage
  /\ \A b \in cached : use_count[b] = Cardinality(Holders(b))

\* disk_cache_group_evict() has passed only pages that somebody holds.
PassedAreHeld ==
  evictor.on /\ evictor.pg \notin {NoPage, Wild} =>
    /\ evictor.pg \in cached
    /\ \A c \in cached : Newer(evictor.pg, c) => \E u \in Users : handle[u] = c

\* The inductive invariant.
BcInv ==
  /\ BcTypeOK /\ ListIsRecency /\ HandlesArePinned /\ UnreadOnlyWhileReading
  /\ CountsAreExact /\ PassedAreHeld

-----------------------------------------------------------------------------
\* A new page at the front keeps the list in the order of use.
LEMMA InsertKeepsList ==
  ASSUME BcTypeOK, ListIsRecency, NEW b \in Blocks \ cached, Insert(b),
         cached' = cached \cup {b}, newer' = newer \cup { << b, c >> : c \in cached },
         bottom' = bottom
  PROVE  ListIsRecency'
<1>1. \A c, d : Newer(c, d)' <=> (Newer(c, d) \/ (c = b /\ d \in cached))
  BY DEF Newer
<1>2. \A c, d : Newer(c, d) => c \in cached /\ d \in cached
  BY DEF Newer, ListIsRecency, RecencyOrders
<1>3. RecencyOrders'
  <2>1. newer' \subseteq cached' \X cached'
    BY DEF ListIsRecency, RecencyOrders
  <2>2. \A c, d \in cached' : c # d <=> Newer(c, d)' \/ Newer(d, c)'
    BY <1>1, <1>2 DEF ListIsRecency, RecencyOrders
  <2>3. \A c, d, e \in cached' : Newer(c, d)' /\ Newer(d, e)' => Newer(c, e)' /\ ~Newer(d, c)'
    BY <1>1, <1>2 DEF ListIsRecency, RecencyOrders
  <2>4. QED
    BY <2>1, <2>2, <2>3 DEF RecencyOrders
<1>4. \A c, d \in cached : JustAfter(c, d) => JustAfter(c, d)'
  BY <1>1, <1>2 DEF JustAfter
<1>5. \A c \in cached : c = mru_page => JustAfter(b, c)'
  BY <1>1, <1>2 DEF JustAfter, ListIsRecency, RecencyOrders
<1>6. /\ b # NoPage /\ b # Wild /\ NoPage # Wild
      /\ lru_page = NoPage => cached = {}
      /\ lru_page \in {NoPage, Wild} \/ (lru_page \in cached /\ Oldest(lru_page))
      /\ bottom \notin cached /\ cached = {} => mru_page = bottom
      /\ cached # {} => mru_page \in cached
  BY BlockCacheAssumption DEF ListIsRecency, BcTypeOK
<1>7. /\ mru_page' = b /\ lru_page' = IF lru_page = NoPage THEN b ELSE lru_page
      /\ \A c \in Blocks : pgNext'[c] = IF c = b THEN mru_page ELSE pgNext[c]
      /\ \A c \in Blocks : pgPrev'[c] = IF c = b THEN NoPage
                                        ELSE IF c = mru_page THEN b ELSE pgPrev[c]
  BY <1>6 DEF Insert, BcTypeOK
<1>8. /\ mru_page' \in cached' /\ \A c \in cached' : c # mru_page' => Newer(mru_page, c)'
      /\ cached' # {}
  BY <1>1, <1>7 DEF ListIsRecency
<1>12. /\ Oldest(b)' <=> cached = {}
       /\ \A c \in cached : Oldest(c)' <=> Oldest(c)
  <2>1. \A c, d \in cached : Newer(c, d)' <=> Newer(c, d)
    BY <1>1
  <2>2. \A c \in cached : Newer(b, c)' /\ ~Newer(c, b)'
    BY <1>1, <1>2
  <2>3. \A c : Oldest(c)' <=> \A d \in cached' \ {c} : Newer(d, c)'
    BY DEF Oldest
  <2>4. QED
    BY <2>1, <2>2, <2>3 DEF Oldest
<1>13. lru_page' = Wild \/ (lru_page' \in cached' /\ Oldest(lru_page)')
  <2>1. CASE lru_page = NoPage
    <3>1. lru_page' = b /\ cached = {}
      BY <1>6, <1>7, <2>1
    <3>2. \A d \in cached' \ {b} : FALSE
      BY <3>1
    <3>3. \A d \in cached' \ {lru_page'} : Newer(d, lru_page)'
      BY <3>1, <3>2
    <3>4. QED
      BY <3>1, <3>3 DEF Oldest
  <2>2. CASE lru_page # NoPage
    <3>1. lru_page' = lru_page
      BY <1>7, <2>2
    <3>2. ASSUME lru_page # Wild
          PROVE  lru_page' \in cached' /\ \A d \in cached' \ {lru_page'} : Newer(d, lru_page)'
      BY <1>1, <1>6, <2>2, <3>1, <3>2 DEF Oldest
    <3>3. QED
      BY <3>1, <3>2 DEF Oldest, Newer
  <2>3. QED
    BY <2>1, <2>2
<1>14. \A c \in cached : IF Oldest(c) THEN pgNext[c] = bottom
                         ELSE pgNext[c] \in cached /\ JustAfter(c, pgNext[c])
  BY DEF ListIsRecency
<1>9. ASSUME NEW c \in cached'
       PROVE  (IF Oldest(c) THEN pgNext[c] = bottom
               ELSE pgNext[c] \in cached /\ JustAfter(c, pgNext[c]))'
  <2>1. CASE c = b
    BY <1>5, <1>6, <1>7, <1>12, <2>1
  <2>2. CASE c \in cached
    BY <1>4, <1>7, <1>12, <1>14, <2>2 DEF BcTypeOK
  <2>3. QED
    BY <2>1, <2>2
<1>10. ASSUME NEW c \in cached'
       PROVE  (IF c = mru_page THEN pgPrev[c] = NoPage
               ELSE pgPrev[c] \in cached /\ JustAfter(pgPrev[c], c))'
  BY <1>4, <1>5, <1>6, <1>7 DEF ListIsRecency, BcTypeOK
<1>11. QED
  BY <1>3, <1>8, <1>9, <1>10, <1>13 DEF ListIsRecency

\* The neighbours of a page of the list are neighbours without it.
LEMMA NeighboursMeet ==
  ASSUME BcTypeOK, ListIsRecency, NEW b \in cached
  PROVE  /\ b # mru_page /\ ~Oldest(b) =>
              /\ pgPrev[b] \in cached \ {b} /\ pgNext[b] \in cached \ {b} /\ pgPrev[b] # pgNext[b]
              /\ Newer(pgPrev[b], pgNext[b])
              /\ \A d \in cached \ {b} : ~(Newer(pgPrev[b], d) /\ Newer(d, pgNext[b]))
         /\ Oldest(b) /\ b # mru_page =>
              /\ pgPrev[b] \in cached \ {b}
              /\ \A c \in cached \ {b} : c # pgPrev[b] => Newer(c, pgPrev[b])
         /\ b = mru_page /\ ~Oldest(b) =>
              /\ pgNext[b] \in cached \ {b}
              /\ \A c \in cached \ {b} : c # pgNext[b] => Newer(pgNext[b], c)
         /\ b = mru_page /\ Oldest(b) => cached = {b}
         /\ \A c \in cached : ~Oldest(c) /\ pgNext[c] = b <=> b # mru_page /\ c = pgPrev[b]
         /\ \A c \in cached : c # mru_page /\ pgPrev[c] = b <=> ~Oldest(b) /\ c = pgNext[b]
<1>1. /\ \A c \in cached : c # mru_page => Newer(mru_page, c) /\ ~Newer(c, mru_page)
      /\ mru_page \in cached
      /\ \A c \in cached : ~Newer(c, c)
      /\ \A c, d \in cached : c # d <=> Newer(c, d) \/ Newer(d, c)
      /\ \A c, d, e \in cached : Newer(c, d) /\ Newer(d, e) => Newer(c, e) /\ ~Newer(d, c)
  BY DEF ListIsRecency, RecencyOrders
<1>2. \A c, d \in cached : Oldest(c) /\ Oldest(d) => c = d
  BY <1>1 DEF Oldest
<1>3. /\ \A c \in cached : ~Oldest(c) => pgNext[c] \in cached /\ JustAfter(c, pgNext[c])
      /\ \A c \in cached : c # mru_page => pgPrev[c] \in cached /\ JustAfter(pgPrev[c], c)
  BY DEF ListIsRecency
<1>4. \A c, d, e \in cached : JustAfter(c, d) /\ JustAfter(c, e) => d = e
  BY <1>1 DEF JustAfter
<1>5. \A c, d, e \in cached : JustAfter(d, c) /\ JustAfter(e, c) => d = e
  BY <1>1 DEF JustAfter
<1>6. \A c, d \in cached : JustAfter(c, d) => c # d /\ ~Oldest(c) /\ d # mru_page /\ Newer(c, d)
  BY <1>1 DEF JustAfter, Oldest
<1>7. /\ \A c \in cached : ~Oldest(c) /\ pgNext[c] = b <=> b # mru_page /\ c = pgPrev[b]
      /\ \A c \in cached : c # mru_page /\ pgPrev[c] = b <=> ~Oldest(b) /\ c = pgNext[b]
  BY <1>3, <1>4, <1>5, <1>6
<1>8. ASSUME b # mru_page, ~Oldest(b)
      PROVE  /\ pgPrev[b] \in cached \ {b} /\ pgNext[b] \in cached \ {b} /\ pgPrev[b] # pgNext[b]
             /\ Newer(pgPrev[b], pgNext[b])
             /\ \A d \in cached \ {b} : ~(Newer(pgPrev[b], d) /\ Newer(d, pgNext[b]))
  <2>1. /\ pgPrev[b] \in cached /\ JustAfter(pgPrev[b], b)
        /\ pgNext[b] \in cached /\ JustAfter(b, pgNext[b])
    BY <1>3, <1>8
  <2>2. /\ Newer(pgPrev[b], b) /\ Newer(b, pgNext[b])
        /\ \A d \in cached : ~(Newer(pgPrev[b], d) /\ Newer(d, b))
        /\ \A d \in cached : ~(Newer(b, d) /\ Newer(d, pgNext[b]))
    BY <2>1 DEF JustAfter
  <2>3. QED
    BY <1>1, <2>1, <2>2
<1>9. ASSUME Oldest(b), b # mru_page
      PROVE  /\ pgPrev[b] \in cached \ {b}
             /\ \A c \in cached \ {b} : c # pgPrev[b] => Newer(c, pgPrev[b])
  <2>1. pgPrev[b] \in cached /\ Newer(pgPrev[b], b) /\ \A d \in cached : ~(Newer(pgPrev[b], d) /\ Newer(d, b))
    BY <1>3, <1>9 DEF JustAfter
  <2>2. QED
    BY <1>1, <1>9, <2>1 DEF Oldest
<1>10. ASSUME b = mru_page, ~Oldest(b)
       PROVE  /\ pgNext[b] \in cached \ {b}
              /\ \A c \in cached \ {b} : c # pgNext[b] => Newer(pgNext[b], c)
  <2>1. pgNext[b] \in cached /\ Newer(b, pgNext[b]) /\ \A d \in cached : ~(Newer(b, d) /\ Newer(d, pgNext[b]))
    BY <1>3, <1>10 DEF JustAfter
  <2>2. QED
    BY <1>1, <1>10, <2>1
<1>11. b = mru_page /\ Oldest(b) => cached = {b}
  BY <1>1 DEF Oldest
<1>12. QED
  BY <1>7, <1>8, <1>9, <1>10, <1>11

\* touch() keeps the list in the order of use.
LEMMA TouchKeepsList ==
  ASSUME BcTypeOK, ListIsRecency, NEW b \in cached, Touch(b),
         cached' = cached, newer' = Without(b) \cup { << b, c >> : c \in cached \ {b} }, bottom' = bottom
  PROVE  ListIsRecency'
<1>1. \A c, d : Newer(c, d)' <=> (Newer(c, d) /\ c # b /\ d # b) \/ (c = b /\ d \in cached \ {b})
  <2>1. \A c, d : << c, d >> \in Without(b) <=> Newer(c, d) /\ c # b /\ d # b
    BY DEF Without, Newer, ListIsRecency, RecencyOrders
  <2>2. QED
    BY <2>1 DEF Newer
<1>2. \A c, d : Newer(c, d) => c \in cached /\ d \in cached
  BY DEF Newer, ListIsRecency, RecencyOrders
<1>3. RecencyOrders'
  <2>1. newer' \subseteq cached' \X cached'
    BY DEF ListIsRecency, RecencyOrders, Without
  <2>2. \A c, d \in cached' : c # d <=> Newer(c, d)' \/ Newer(d, c)'
    BY <1>1, <1>2 DEF ListIsRecency, RecencyOrders
  <2>3. \A c, d, e \in cached' : Newer(c, d)' /\ Newer(d, e)' => Newer(c, e)' /\ ~Newer(d, c)'
    BY <1>1, <1>2 DEF ListIsRecency, RecencyOrders
  <2>4. QED
    BY <2>1, <2>2, <2>3 DEF RecencyOrders
<1>4. \A c, d \in cached \ {b} : JustAfter(c, d) => JustAfter(c, d)'
  BY <1>1, <1>2 DEF JustAfter
<1>5. CASE b = mru_page
  <2>1. \A c, d : Newer(c, d)' <=> Newer(c, d)
    BY <1>1, <1>2, <1>5 DEF ListIsRecency, RecencyOrders
  <2>2. \A c, d : JustAfter(c, d)' <=> JustAfter(c, d)
    BY <2>1 DEF JustAfter
  <2>3. UNCHANGED << mru_page, lru_page, pgNext, pgPrev >>
    BY <1>5 DEF Touch, links
  <2>5. \A c : Oldest(c)' <=> Oldest(c)
    BY <2>1 DEF Oldest
  <2>6. lru_page' = Wild \/ (lru_page' \in cached /\ Oldest(lru_page)')
    <3>1. lru_page = Wild \/ (lru_page \in cached /\ Oldest(lru_page))
      BY DEF ListIsRecency
    <3>2. QED
      BY <2>1, <2>3, <3>1 DEF Oldest, Newer
  <2>7. /\ \A c \in cached : IF Oldest(c) THEN pgNext[c] = bottom
                            ELSE pgNext[c] \in cached /\ JustAfter(c, pgNext[c])
        /\ \A c \in cached : IF c = mru_page THEN pgPrev[c] = NoPage
                            ELSE pgPrev[c] \in cached /\ JustAfter(pgPrev[c], c)
        /\ mru_page \in cached /\ \A c \in cached \ {mru_page} : Newer(mru_page, c)
    BY DEF ListIsRecency
  <2>8. /\ \A c \in cached' : (IF Oldest(c) THEN pgNext[c] = bottom
                             ELSE pgNext[c] \in cached /\ JustAfter(c, pgNext[c]))'
        /\ \A c \in cached' : (IF c = mru_page THEN pgPrev[c] = NoPage
                             ELSE pgPrev[c] \in cached /\ JustAfter(pgPrev[c], c))'
        /\ mru_page' \in cached' /\ \A c \in cached' \ {mru_page'} : Newer(mru_page, c)'
    BY <2>1, <2>2, <2>3, <2>5, <2>7
  <2>4. QED
    BY <1>3, <2>6, <2>8 DEF ListIsRecency
<1>6. CASE b # mru_page
  <2>1. /\ mru_page' = b /\ lru_page' = IF b = lru_page THEN pgPrev[b] ELSE lru_page
        /\ \A c \in cached : pgNext'[c] = IF c = b THEN mru_page
                                          ELSE IF c = pgPrev[b] THEN pgNext[b] ELSE pgNext[c]
        /\ \A c \in cached : pgPrev'[c] = IF c = b THEN NoPage
                                          ELSE IF c = mru_page THEN b
                                          ELSE IF c = pgNext[b] THEN pgPrev[b] ELSE pgPrev[c]
    BY <1>6 DEF Touch, BcTypeOK
  <2>2. /\ mru_page \in cached /\ pgPrev[b] \in cached \ {b}
        /\ lru_page = Wild \/ (lru_page \in cached /\ Oldest(lru_page))
        /\ NoPage \notin cached /\ Wild \notin cached /\ bottom \notin cached
    BY <1>6, NeighboursMeet, BlockCacheAssumption DEF ListIsRecency, BcTypeOK
  <2>9. /\ ~Oldest(b)' /\ \A c \in cached \ {b} : Oldest(c)' <=> Oldest(c) \/ (Oldest(b) /\ c = pgPrev[b])
    <3>1. \A c, d \in cached : c # d <=> Newer(c, d) \/ Newer(d, c)
      BY DEF ListIsRecency, RecencyOrders
    <3>2. \A c \in cached : Oldest(c)' <=> \A d \in cached \ {c} : Newer(d, c)'
      BY DEF Oldest
    <3>3. ~Oldest(b)'
      BY <1>1, <1>6, <2>2, <3>2
    <3>4. ASSUME NEW c \in cached \ {b}
          PROVE  Oldest(c)' <=> \A d \in cached \ {b, c} : Newer(d, c)
      BY <1>1, <3>2
    <3>5. ASSUME NEW c \in cached \ {b}, \A d \in cached \ {b, c} : Newer(d, c), ~Oldest(c)
          PROVE  Oldest(b) /\ c = pgPrev[b]
      <4>1. ~Newer(b, c) /\ Newer(c, b)
        BY <3>1, <3>5 DEF Oldest
      <4>2. \A d \in cached \ {b} : Newer(d, b)
        BY <3>5, <4>1 DEF ListIsRecency, RecencyOrders
      <4>3. pgPrev[b] \in cached \ {b} /\ (c # pgPrev[b] => Newer(c, pgPrev[b]))
        BY <1>6, <4>2, NeighboursMeet DEF Oldest
      <4>4. c # pgPrev[b] => Newer(pgPrev[b], c)
        BY <3>5, <4>3
      <4>5. QED
        BY <4>2, <4>3, <4>4 DEF Oldest, ListIsRecency, RecencyOrders
    <3>6. \A c \in cached \ {b} : Oldest(c) => \A d \in cached \ {b, c} : Newer(d, c)
      BY DEF Oldest
    <3>7. ASSUME Oldest(b), NEW d \in cached \ {b, pgPrev[b]} PROVE Newer(d, pgPrev[b])
      BY <1>6, <3>7, NeighboursMeet
    <3>8. QED
      BY <2>2, <3>3, <3>4, <3>5, <3>6, <3>7
  <2>3. \A c, d \in cached : c = pgPrev[b] /\ d = pgNext[b] /\ ~Oldest(b) => JustAfter(c, d)'
    BY <1>1, <1>6, NeighboursMeet DEF JustAfter
  <2>4. \A c \in cached : c = mru_page => JustAfter(b, c)'
    BY <1>1, <1>2, <1>6 DEF JustAfter, ListIsRecency, RecencyOrders
  <2>5. \A c \in cached' : c # mru_page' => Newer(mru_page, c)'
    BY <1>1, <2>1
  <2>10. lru_page' = Wild \/ (lru_page' \in cached' /\ Oldest(lru_page)')
    <3>1. CASE lru_page = Wild
      BY <2>1, <2>2, <3>1
    <3>2. CASE lru_page = b
      <4>1. lru_page' = pgPrev[b] /\ Oldest(b) /\ pgPrev[b] \in cached \ {b}
        BY <2>1, <2>2, <3>2
      <4>2. \A d \in cached \ {b} : d # pgPrev[b] => Newer(d, pgPrev[b])
        BY <1>6, <4>1, NeighboursMeet
      <4>3. \A d \in cached' \ {lru_page'} : Newer(d, lru_page)'
        BY <1>1, <4>1, <4>2 DEF Newer
      <4>4. QED
        BY <4>1, <4>3 DEF Oldest
    <3>3. CASE lru_page # Wild /\ lru_page # b
      <4>1. lru_page' = lru_page /\ lru_page \in cached \ {b} /\ Oldest(lru_page)
        BY <2>1, <2>2, <3>3
      <4>2. \A d \in cached' \ {lru_page'} : Newer(d, lru_page)'
        BY <1>1, <4>1 DEF Newer, Oldest
      <4>3. QED
        BY <4>1, <4>2 DEF Oldest
    <3>4. QED
      BY <3>1, <3>2, <3>3
  <2>11. \A c \in cached : IF Oldest(c) THEN pgNext[c] = bottom
                           ELSE pgNext[c] \in cached /\ JustAfter(c, pgNext[c])
    BY DEF ListIsRecency
  <2>6. ASSUME NEW c \in cached'
        PROVE  (IF Oldest(c) THEN pgNext[c] = bottom
                ELSE pgNext[c] \in cached /\ JustAfter(c, pgNext[c]))'
    <3>1. CASE c = b
      BY <2>1, <2>2, <2>4, <2>9, <3>1
    <3>2. CASE c # b /\ c = pgPrev[b] /\ Oldest(b)
      BY <2>1, <2>2, <2>9, <2>11, <3>2
    <3>3. CASE c # b /\ c = pgPrev[b] /\ ~Oldest(b)
      <4>1. ~Oldest(c) /\ ~Oldest(c)' /\ pgNext[b] \in cached
        BY <1>6, <2>9, <3>3, NeighboursMeet
      <4>2. QED
        BY <2>1, <2>3, <3>3, <4>1
    <3>4. CASE c # b /\ c # pgPrev[b]
      <4>1. (Oldest(c)' <=> Oldest(c)) /\ pgNext'[c] = pgNext[c] /\ (~Oldest(c) => pgNext[c] # b)
        BY <1>6, <2>1, <2>9, <3>4, NeighboursMeet
      <4>2. QED
        BY <1>4, <2>11, <3>4, <4>1
    <3>5. QED
      BY <3>1, <3>2, <3>3, <3>4
  <2>7. ASSUME NEW c \in cached'
        PROVE  (IF c = mru_page THEN pgPrev[c] = NoPage
                ELSE pgPrev[c] \in cached /\ JustAfter(pgPrev[c], c))'
    <3>1. CASE c = b \/ c = mru_page
      BY <1>6, <2>1, <2>2, <2>4, <3>1
    <3>2. CASE c # b /\ c # mru_page /\ c = pgNext[b]
      <4>1. ~Oldest(b)
        BY <2>2, <2>11, <3>2
      <4>2. QED
        BY <1>6, <2>1, <2>2, <2>3, <3>2, <4>1
    <3>3. CASE c # b /\ c # mru_page /\ c # pgNext[b]
      BY <1>4, <1>6, <2>1, <2>2, <3>3, NeighboursMeet DEF ListIsRecency
    <3>4. QED
      BY <3>1, <3>2, <3>3
  <2>8. QED
    BY <1>3, <2>1, <2>2, <2>5, <2>6, <2>7, <2>10 DEF ListIsRecency
<1>7. QED
  BY <1>5, <1>6

\* evict() keeps the list in the order of use.
LEMMA UnlinkKeepsList ==
  ASSUME BcTypeOK, ListIsRecency, NEW b \in cached, Unlink(b),
         cached' = cached \ {b}, newer' = Without(b), bottom' = bottom
  PROVE  ListIsRecency'
<1>1. \A c, d : Newer(c, d)' <=> Newer(c, d) /\ c # b /\ d # b
  BY DEF Without, Newer, ListIsRecency, RecencyOrders
<1>2. \A c, d : Newer(c, d) => c \in cached /\ d \in cached
  BY DEF Newer, ListIsRecency, RecencyOrders
<1>3. RecencyOrders'
  BY <1>1, <1>2 DEF ListIsRecency, RecencyOrders, Without
<1>4. \A c, d \in cached \ {b} : JustAfter(c, d) => JustAfter(c, d)'
  BY <1>1, <1>2 DEF JustAfter
<1>5. /\ lru_page' = IF b = lru_page THEN pgPrev[b] ELSE lru_page
      /\ mru_page' = IF b = mru_page THEN pgNext[b] ELSE mru_page
      /\ \A c \in cached' : pgNext'[c] = IF c = pgPrev[b] THEN pgNext[b] ELSE pgNext[c]
      /\ \A c \in cached' : pgPrev'[c] = IF c = pgNext[b] THEN pgPrev[b] ELSE pgPrev[c]
  BY DEF Unlink, BcTypeOK
<1>6. /\ mru_page \in cached /\ NoPage \notin cached /\ Wild \notin cached /\ bottom \notin cached
      /\ lru_page = Wild \/ (lru_page \in cached /\ Oldest(lru_page))
      /\ \A c \in cached : c # mru_page => Newer(mru_page, c)
  BY BlockCacheAssumption DEF ListIsRecency, BcTypeOK
<1>12. /\ \A c, d \in cached : c # d <=> Newer(c, d) \/ Newer(d, c)
       /\ \A c, d, e \in cached : Newer(c, d) /\ Newer(d, e) => Newer(c, e) /\ ~Newer(d, c)
       /\ \A c \in cached : IF Oldest(c) THEN pgNext[c] = bottom
                            ELSE pgNext[c] \in cached /\ JustAfter(c, pgNext[c])
       /\ \A c \in cached : IF c = mru_page THEN pgPrev[c] = NoPage
                            ELSE pgPrev[c] \in cached /\ JustAfter(pgPrev[c], c)
  BY DEF ListIsRecency, RecencyOrders
<1>7. \A c, d \in cached : c = pgPrev[b] /\ d = pgNext[b] /\ ~Oldest(b) /\ b # mru_page
                             => JustAfter(c, d)'
  BY <1>1, NeighboursMeet DEF JustAfter
<1>13. ASSUME NEW c \in cached \ {b}
       PROVE  Oldest(c)' <=> Oldest(c) \/ (Oldest(b) /\ c = pgPrev[b])
  <2>1. Oldest(c)' <=> \A d \in cached \ {b, c} : Newer(d, c)
    BY <1>1 DEF Oldest
  <2>2. ASSUME \A d \in cached \ {b, c} : Newer(d, c), ~Oldest(c)
        PROVE  Oldest(b) /\ c = pgPrev[b]
    <3>1. ~Newer(b, c) /\ Newer(c, b)
      BY <1>12, <2>2 DEF Oldest
    <3>2. \A d \in cached \ {b} : Newer(d, b)
      BY <1>12, <2>2, <3>1
    <3>3. b # mru_page /\ Oldest(b)
      BY <1>6, <1>12, <3>1, <3>2 DEF Oldest
    <3>4. pgPrev[b] \in cached \ {b} /\ (c # pgPrev[b] => Newer(c, pgPrev[b]))
      BY <3>3, NeighboursMeet
    <3>5. QED
      BY <1>12, <2>2, <3>3, <3>4
  <2>3. ASSUME Oldest(b), c = pgPrev[b] PROVE \A d \in cached \ {b, c} : Newer(d, c)
    <3>1. b # mru_page
      BY <1>6, <1>12, <2>3, NeighboursMeet
    <3>2. QED
      BY <2>3, <3>1, NeighboursMeet
  <2>4. QED
    BY <2>1, <2>2, <2>3 DEF Oldest
<1>8. CASE cached' = {}
  <2>1. cached = {b} /\ b = mru_page /\ Oldest(b)
    BY <1>6, <1>8 DEF Oldest
  <2>2. mru_page' = bottom
    BY <1>5, <1>12, <2>1
  <2>3. lru_page' \in {NoPage, Wild}
    BY <1>5, <1>6, <1>12, <2>1
  <2>4. QED
    BY <1>3, <1>8, <2>2, <2>3 DEF ListIsRecency
<1>14. CASE cached' # {}
  <2>1. mru_page' \in cached' /\ \A c \in cached' \ {mru_page'} : Newer(mru_page, c)'
    <3>1. CASE b = mru_page
      <4>1. ~Oldest(b)
        BY <1>14, <3>1, NeighboursMeet
      <4>2. /\ pgNext[b] \in cached \ {b} /\ mru_page' = pgNext[b]
            /\ \A c \in cached \ {b} : c # pgNext[b] => Newer(pgNext[b], c)
        BY <1>5, <3>1, <4>1, NeighboursMeet
      <4>3. QED
        BY <1>1, <4>2 DEF Newer
    <3>2. CASE b # mru_page
      <4>1. mru_page' = mru_page
        BY <1>5, <3>2
      <4>2. QED
        BY <1>1, <1>6, <3>2, <4>1 DEF Newer
    <3>3. QED
      BY <3>1, <3>2
  <2>2. lru_page' = Wild \/ (lru_page' \in cached' /\ Oldest(lru_page)')
    <3>1. CASE lru_page = Wild
      BY <1>5, <1>6, <3>1
    <3>2. CASE lru_page = b
      <4>1. Oldest(b) /\ b # mru_page
        BY <1>6, <1>14, <3>2, NeighboursMeet
      <4>2. /\ lru_page' = pgPrev[b] /\ pgPrev[b] \in cached \ {b}
            /\ \A c \in cached \ {b} : c # pgPrev[b] => Newer(c, pgPrev[b])
        BY <1>5, <3>2, <4>1, NeighboursMeet
      <4>3. \A d \in cached' \ {lru_page'} : Newer(d, lru_page)'
        BY <1>1, <4>2 DEF Newer
      <4>4. QED
        BY <4>2, <4>3 DEF Oldest
    <3>3. CASE lru_page # Wild /\ lru_page # b
      <4>1. lru_page' = lru_page /\ lru_page \in cached \ {b} /\ Oldest(lru_page)
        BY <1>5, <1>6, <3>3
      <4>2. \A d \in cached' \ {lru_page'} : Newer(d, lru_page)'
        BY <1>1, <4>1 DEF Newer, Oldest
      <4>3. QED
        BY <4>1, <4>2 DEF Oldest
    <3>4. QED
      BY <3>1, <3>2, <3>3
  <2>3. ASSUME NEW c \in cached'
        PROVE  (IF Oldest(c) THEN pgNext[c] = bottom
                ELSE pgNext[c] \in cached /\ JustAfter(c, pgNext[c]))'
    <3>1. CASE c = pgPrev[b] /\ Oldest(b)
      BY <1>5, <1>12, <1>13, <3>1
    <3>2. CASE c = pgPrev[b] /\ ~Oldest(b)
      <4>1. b # mru_page
        BY <1>6, <1>12, <3>2
      <4>2. ~Oldest(c) /\ ~Oldest(c)' /\ pgNext[b] \in cached \ {b}
        BY <1>13, <3>2, <4>1, NeighboursMeet
      <4>3. QED
        BY <1>5, <1>7, <3>2, <4>1, <4>2
    <3>3. CASE c # pgPrev[b]
      <4>1. (Oldest(c)' <=> Oldest(c)) /\ pgNext'[c] = pgNext[c] /\ (~Oldest(c) => pgNext[c] # b)
        BY <1>5, <1>13, <3>3, NeighboursMeet
      <4>2. QED
        BY <1>4, <1>12, <4>1
    <3>4. QED
      BY <3>1, <3>2, <3>3
  <2>4. ASSUME NEW c \in cached'
        PROVE  (IF c = mru_page THEN pgPrev[c] = NoPage
                ELSE pgPrev[c] \in cached /\ JustAfter(pgPrev[c], c))'
    <3>1. CASE c = pgNext[b] /\ b = mru_page
      <4>1. mru_page' = c /\ pgPrev'[c] = pgPrev[b] /\ pgPrev[b] = NoPage
        BY <1>5, <1>12, <3>1
      <4>2. QED
        BY <4>1
    <3>2. CASE c = pgNext[b] /\ b # mru_page
      <4>1. ~Oldest(b)
        BY <1>6, <1>12, <3>2
      <4>2. c # mru_page /\ mru_page' = mru_page /\ pgPrev[b] \in cached \ {b}
        BY <1>5, <3>2, <4>1, NeighboursMeet
      <4>3. QED
        BY <1>5, <1>7, <3>2, <4>1, <4>2
    <3>3. CASE c # pgNext[b]
      <4>1. pgPrev'[c] = pgPrev[c] /\ (c # mru_page => pgPrev[c] # b)
        BY <1>5, <3>3, NeighboursMeet
      <4>2. b = mru_page => ~Oldest(b)
        BY <1>14, NeighboursMeet
      <4>3. c = mru_page' <=> c = mru_page
        BY <1>5, <3>3, <4>2, NeighboursMeet
      <4>4. QED
        BY <1>4, <1>12, <4>1, <4>3
    <3>4. QED
      BY <3>1, <3>2, <3>3
  <2>5. QED
    BY <1>3, <1>14, <2>1, <2>2, <2>3, <2>4 DEF ListIsRecency
<1>11. QED
  BY <1>8, <1>14

-----------------------------------------------------------------------------
\* Holders come and go one at a time.
LEMMA HoldersFinite == ASSUME NEW b PROVE IsFiniteSet(Holders(b)) /\ Cardinality(Holders(b)) \in Nat
<1>1. Holders(b) \subseteq Users
  BY DEF Holders
<1>2. QED
  BY <1>1, BlockCacheAssumption, FS_Subset, FS_CardinalityType

\* A user that takes a handle of b is one more holder of b.
LEMMA HolderComes ==
  ASSUME BcTypeOK, NEW u \in Users, handle[u] = NoPage, NEW b \in Blocks,
         handle' = [handle EXCEPT ![u] = b]
  PROVE  /\ Cardinality(Holders(b)') = Cardinality(Holders(b)) + 1
         /\ \A c \in Blocks \ {b} : Holders(c)' = Holders(c)
<1>1. /\ Holders(b)' = Holders(b) \cup {u} /\ u \notin Holders(b)
      /\ \A c \in Blocks \ {b} : Holders(c)' = Holders(c)
  BY BlockCacheAssumption DEF Holders, BcTypeOK
<1>2. QED
  BY <1>1, HoldersFinite, FS_AddElement, ZenonT(60)

\* A user that lets go of b is one fewer.
LEMMA HolderGoes ==
  ASSUME BcTypeOK, NEW u \in Users, NEW b \in Blocks, handle[u] = b,
         handle' = [handle EXCEPT ![u] = NoPage]
  PROVE  /\ Cardinality(Holders(b)') = Cardinality(Holders(b)) - 1
         /\ Cardinality(Holders(b)) > 0
         /\ \A c \in Blocks \ {b} : Holders(c)' = Holders(c)
<1>1. /\ Holders(b)' = Holders(b) \ {u} /\ u \in Holders(b)
      /\ \A c \in Blocks \ {b} : Holders(c)' = Holders(c)
  BY BlockCacheAssumption DEF Holders, BcTypeOK
<1>2. Cardinality(Holders(b)) # 0
  BY <1>1, HoldersFinite, FS_EmptySet
<1>3. Cardinality(Holders(b) \ {u}) = Cardinality(Holders(b)) - 1
  BY <1>1, HoldersFinite, FS_RemoveElement
<1>4. QED
  BY <1>1, <1>2, <1>3, HoldersFinite

\* The test of disk_cache_group_evict() tells whether anybody holds the page.
LEMMA HeldIffCounted ==
  ASSUME BcTypeOK, CountsAreExact, NEW b \in cached
  PROVE  use_count[b] # 0 <=> \E u \in Users : handle[u] = b
<1>1. use_count[b] = 0 <=> Holders(b) = {}
  BY HoldersFinite, FS_EmptySet DEF CountsAreExact
<1>2. QED
  BY <1>1 DEF Holders

\* Nothing that the list is made of changes.
LEMMA SameList ==
  ASSUME ListIsRecency, UNCHANGED << cached, mru_page, lru_page, pgNext, pgPrev, newer, bottom >>
  PROVE  ListIsRecency'
BY DEF ListIsRecency, RecencyOrders, JustAfter, Oldest, Newer

-----------------------------------------------------------------------------
\* The empty cache.
LEMMA BcInitInv == BcInit => BcInv
<1> SUFFICES ASSUME BcInit PROVE BcInv
  OBVIOUS
<1>1. BcTypeOK
  BY BlockCacheAssumption DEF BcInit, BcTypeOK, PageOrNull, NotEvicting
<1>2. ListIsRecency
  BY DEF BcInit, ListIsRecency, RecencyOrders
<1>3. QED
  BY <1>1, <1>2 DEF BcInit, BcInv, HandlesArePinned, UnreadOnlyWhileReading, CountsAreExact,
                    PassedAreHeld, NotEvicting

\* disk_cache_get() of a block that is not cached, up to the call of the device.
LEMMA GetMissStep ==
  ASSUME BcInv, NEW u \in Users, NEW b \in Blocks, NEW f \in PageFrames, GetMiss(u, b, f)
  PROVE  BcInv'
<1> USE DEF BcInv
<1>1. ListIsRecency'
  BY InsertKeepsList DEF GetMiss
<1>2. BcTypeOK'
  BY DEF GetMiss, Insert, BcTypeOK, PageOrNull, FirstUse
<1>3. handle[u] = NoPage /\ b \notin cached /\ f \in FreeFrames /\ b # NoPage /\ cached \subseteq Blocks
  BY BlockCacheAssumption DEF GetMiss, CountsAreExact, BcTypeOK
<1>4. HandlesArePinned'
  <2>1. \A v \in Users : v # u => user'[v] = user[v] /\ handle'[v] = handle[v] /\ mapped'[v] = mapped[v]
    BY DEF GetMiss, BcTypeOK
  <2>2. user'[u] = "reading" /\ handle'[u] = b /\ mapped'[u] = f
    BY DEF GetMiss, BcTypeOK
  <2>3. phys_addr'[b] = f /\ \A c \in cached : phys_addr'[c] = phys_addr[c] /\ phys_addr[c] # f
    BY <1>3 DEF GetMiss, BcTypeOK, FreeFrames
  <2>4. cached' = cached \cup {b}
    BY DEF GetMiss
  <2>5. \A v \in Users : user'[v] # "idle" =>
          /\ handle'[v] \in cached'
          /\ user'[v] \in {"reading", "holding"} => mapped'[v] = phys_addr'[handle'[v]]
    BY <2>1, <2>2, <2>3, <2>4 DEF HandlesArePinned
  <2>6. \A c, d \in cached' : phys_addr'[c] = phys_addr'[d] => c = d
    BY <2>3, <2>4 DEF HandlesArePinned
  <2>7. QED
    BY <2>5, <2>6 DEF HandlesArePinned
<1>5. UnreadOnlyWhileReading'
  <2>1. user'[u] = "reading" /\ handle'[u] = b
    BY DEF GetMiss, BcTypeOK
  <2>2. \A v \in Users : user[v] = "reading" => user'[v] = "reading" /\ handle'[v] = handle[v]
    BY DEF GetMiss, BcTypeOK
  <2>3. \A c \in cached : phys_addr'[c] = phys_addr[c] /\ frameData' = frameData
    BY <1>3 DEF GetMiss, BcTypeOK
  <2>4. QED
    BY <2>1, <2>2, <2>3 DEF UnreadOnlyWhileReading, GetMiss
<1>6. CountsAreExact'
  <2>1. Holders(b) = {}
    BY <1>3 DEF Holders, HandlesArePinned, CountsAreExact
  <2>2. /\ Cardinality(Holders(b)') = Cardinality(Holders(b)) + 1
        /\ \A c \in cached : Holders(c)' = Holders(c)
    BY <1>3, HolderComes DEF GetMiss
  <2>3. /\ Cardinality(Holders(b)') = 1
        /\ \A c \in cached : Holders(c)' = Holders(c) /\ use_count'[c] = use_count[c]
    BY <1>3, <2>1, <2>2, FS_EmptySet DEF GetMiss, BcTypeOK
  <2>4. use_count'[b] = 1
    BY DEF GetMiss, BcTypeOK, FirstUse
  <2>5. \A v \in Users : user'[v] = "idle" <=> handle'[v] = NoPage
    BY <1>3 DEF GetMiss, BcTypeOK, CountsAreExact
  <2>6. \A c \in cached' : use_count'[c] = Cardinality(Holders(c)')
    BY <2>2, <2>3, <2>4 DEF GetMiss, CountsAreExact
  <2>7. QED
    BY <2>5, <2>6 DEF CountsAreExact
<1>7. PassedAreHeld'
  BY DEF GetMiss, Unlocked, PassedAreHeld
<1>8. QED
  BY <1>1, <1>2, <1>4, <1>5, <1>6, <1>7

\* disk_cache_get() of a cached block.
LEMMA GetHitStep ==
  ASSUME BcInv, NEW u \in Users, NEW b \in Blocks, GetHit(u, b)
  PROVE  BcInv'
<1> USE DEF BcInv
<1>1. ListIsRecency'
  BY TouchKeepsList DEF GetHit
<1>2. BcTypeOK'
  BY NeighboursMeet, SMTT(30) DEF GetHit, Touch, links, BcTypeOK, PageOrNull
<1>3. handle[u] = NoPage /\ b \in cached /\ b # NoPage /\ cached \subseteq Blocks
  BY BlockCacheAssumption DEF GetHit, CountsAreExact, BcTypeOK
<1>4. HandlesArePinned'
  BY <1>3 DEF GetHit, BcTypeOK, HandlesArePinned
<1>5. UnreadOnlyWhileReading'
  BY <1>3 DEF GetHit, BcTypeOK, UnreadOnlyWhileReading
<1>6. CountsAreExact'
  <2>1. Cardinality(Holders(b)') = Cardinality(Holders(b)) + 1
    BY <1>3, HolderComes DEF GetHit
  <2>2. \A c \in cached \ {b} : Holders(c)' = Holders(c) /\ use_count'[c] = use_count[c]
    BY <1>3, HolderComes DEF GetHit, BcTypeOK
  <2>3. use_count'[b] = use_count[b] + 1
    BY DEF GetHit, BcTypeOK
  <2>4. \A v \in Users : user'[v] = "idle" <=> handle'[v] = NoPage
    BY <1>3 DEF GetHit, BcTypeOK, CountsAreExact
  <2>5. \A c \in cached' : use_count'[c] = Cardinality(Holders(c)')
    BY <1>3, <2>1, <2>2, <2>3 DEF GetHit, CountsAreExact
  <2>6. QED
    BY <2>4, <2>5 DEF CountsAreExact
<1>7. PassedAreHeld'
  BY DEF GetHit, Unlocked, PassedAreHeld
<1>8. QED
  BY <1>1, <1>2, <1>4, <1>5, <1>6, <1>7

\* The device's answer.
LEMMA ReadStep ==
  ASSUME BcInv, NEW u \in Users, DeviceRead(u)
  PROVE  BcInv'
<1> USE DEF BcInv
<1>1. ListIsRecency'
  BY SameList DEF DeviceRead, links
<1>2. BcTypeOK'
  BY DEF DeviceRead, links, BcTypeOK, PageOrNull
<1>3. HandlesArePinned'
  BY DEF DeviceRead, BcTypeOK, HandlesArePinned
<1>4. UnreadOnlyWhileReading'
  <2>1. handle[u] \in cached /\ mapped[u] = phys_addr[handle[u]]
    BY DEF DeviceRead, HandlesArePinned
  <2>2. /\ frameData'[phys_addr[handle[u]]] = handle[u]
        /\ \A c \in cached \ {handle[u]} : frameData'[phys_addr[c]] = frameData[phys_addr[c]]
    BY <2>1 DEF DeviceRead, BcTypeOK, HandlesArePinned
  <2>3. \A v \in Users : v # u /\ user[v] = "reading" => user'[v] = "reading"
    BY DEF DeviceRead, BcTypeOK
  <2>4. QED
    BY <2>1, <2>2, <2>3 DEF DeviceRead, UnreadOnlyWhileReading
<1>5. CountsAreExact'
  BY DEF DeviceRead, BcTypeOK, CountsAreExact, Holders
<1>6. PassedAreHeld'
  BY DEF DeviceRead, PassedAreHeld, Newer
<1>7. QED
  BY <1>1, <1>2, <1>3, <1>4, <1>5, <1>6

\* The mapping of a page that was in the cache.
LEMMA MapStep ==
  ASSUME BcInv, NEW u \in Users, MapHit(u)
  PROVE  BcInv'
<1> USE DEF BcInv
<1>1. ListIsRecency'
  BY SameList DEF MapHit, links
<1>2. BcTypeOK'
  BY DEF MapHit, links, BcTypeOK, PageOrNull, HandlesArePinned
<1>3. HandlesArePinned'
  BY DEF MapHit, BcTypeOK, HandlesArePinned
<1>4. UnreadOnlyWhileReading'
  BY DEF MapHit, BcTypeOK, UnreadOnlyWhileReading
<1>5. CountsAreExact'
  BY DEF MapHit, BcTypeOK, CountsAreExact, Holders
<1>6. PassedAreHeld'
  BY DEF MapHit, PassedAreHeld, Newer
<1>7. QED
  BY <1>1, <1>2, <1>3, <1>4, <1>5, <1>6

\* disk_cache_release().
LEMMA ReleaseStep ==
  ASSUME BcInv, NEW u \in Users, ReleasePage(u)
  PROVE  BcInv'
<1> USE DEF BcInv
<1> DEFINE b == handle[u]
<1>1. ListIsRecency'
  BY SameList DEF ReleasePage, links
<1>2. b \in cached /\ b \in Blocks /\ b # NoPage /\ cached \subseteq Blocks
  BY BlockCacheAssumption DEF ReleasePage, HandlesArePinned, BcTypeOK
<1>3. /\ Cardinality(Holders(b)) > 0
      /\ \A c \in Blocks : c = b => Cardinality(Holders(c)') = Cardinality(Holders(c)) - 1
      /\ \A c \in Blocks \ {b} : Holders(c)' = Holders(c)
  <2>1. ASSUME NEW c \in Blocks, c = b
        PROVE  /\ Cardinality(Holders(c)) > 0 /\ Cardinality(Holders(c)') = Cardinality(Holders(c)) - 1
               /\ \A d \in Blocks \ {c} : Holders(d)' = Holders(d)
    BY <2>1, HolderGoes DEF ReleasePage
  <2>2. QED
    BY <1>2, <2>1
<1>4. use_count[b] > 0 /\ use_count[b] \in Nat
  BY <1>2, <1>3 DEF CountsAreExact, BcTypeOK
<1>5. BcTypeOK'
  BY <1>2, <1>4 DEF ReleasePage, links, BcTypeOK, PageOrNull
<1>6. HandlesArePinned'
  BY DEF ReleasePage, BcTypeOK, HandlesArePinned
<1>7. UnreadOnlyWhileReading'
  BY DEF ReleasePage, BcTypeOK, UnreadOnlyWhileReading
<1>8. CountsAreExact'
  <2>1. \A v \in Users : user'[v] = "idle" <=> handle'[v] = NoPage
    BY DEF ReleasePage, BcTypeOK, CountsAreExact
  <2>2. \A c \in cached : use_count'[c] = IF c = b THEN use_count[c] - 1 ELSE use_count[c]
    BY <1>2 DEF ReleasePage, BcTypeOK
  <2>3. \A c \in cached' : use_count'[c] = Cardinality(Holders(c)')
    BY <1>2, <1>3, <2>2 DEF ReleasePage, CountsAreExact
  <2>4. QED
    BY <2>1, <2>3 DEF CountsAreExact
<1>9. PassedAreHeld'
  BY DEF ReleasePage, Unlocked, PassedAreHeld
<1>10. QED
  BY <1>1, <1>5, <1>6, <1>7, <1>8, <1>9

\* disk_cache_group_evict() takes the lock and starts at the oldest page.
LEMMA EvictBeginStep ==
  ASSUME BcInv, NEW n \in 0 .. MaxEvict, EvictBegin(n)
  PROVE  BcInv'
<1> USE DEF BcInv
<1>1. ListIsRecency'
  BY SameList DEF EvictBegin, links
<1>2. BcTypeOK'
  BY BlockCacheAssumption DEF EvictBegin, links, BcTypeOK, PageOrNull
<1>3. PassedAreHeld'
  BY DEF EvictBegin, PassedAreHeld, ListIsRecency, RecencyOrders, Oldest, Newer
<1>4. HandlesArePinned' /\ UnreadOnlyWhileReading' /\ CountsAreExact'
  BY SMTT(30) DEF EvictBegin, HandlesArePinned, UnreadOnlyWhileReading, CountsAreExact, Holders
<1>5. QED
  BY <1>1, <1>2, <1>3, <1>4

\* The pages used before the one the eviction goes on to are the one it has
\* looked at and those used before that.
LEMMA EvictPasses ==
  ASSUME BcTypeOK, ListIsRecency, NEW b \in cached
  PROVE  /\ pgPrev[b] # NoPage => pgPrev[b] \in cached \ {b}
         /\ \A c \in cached : pgPrev[b] # NoPage /\ Newer(pgPrev[b], c) => c = b \/ Newer(b, c)
BY DEF ListIsRecency, RecencyOrders, JustAfter

\* It goes past a page in use,
LEMMA EvictSkipStep == ASSUME BcInv, EvictSkip PROVE BcInv'
<1> USE DEF BcInv
<1>1. ListIsRecency'
  BY SameList DEF EvictSkip, links
<1>2. BcTypeOK'
  BY DEF EvictSkip, Walking, Unfinished, links, BcTypeOK, PageOrNull, PassedAreHeld
<1>3. PassedAreHeld'
  <2>1. evictor.pg \in cached /\ evictor'.pg = pgPrev[evictor.pg]
    BY DEF EvictSkip, Walking, Unfinished, PassedAreHeld, BcTypeOK
  <2>2. \E u \in Users : handle[u] = evictor.pg
    BY <2>1, HeldIffCounted DEF EvictSkip, Evictable
  <2>3. \A c \in cached : Newer(evictor.pg, c) => \E u \in Users : handle[u] = c
    BY DEF EvictSkip, Walking, Unfinished, PassedAreHeld
  <2>4. handle' = handle /\ cached' = cached /\ \A c, d : Newer(c, d)' <=> Newer(c, d)
    BY DEF EvictSkip, Newer
  <2>5. QED
    BY <2>1, <2>2, <2>3, <2>4, EvictPasses DEF PassedAreHeld
<1>4. HandlesArePinned' /\ UnreadOnlyWhileReading' /\ CountsAreExact'
  BY DEF EvictSkip, HandlesArePinned, UnreadOnlyWhileReading, CountsAreExact, Holders
<1>5. QED
  BY <1>1, <1>2, <1>3, <1>4

\* and ends.
LEMMA EvictEndStep == ASSUME BcInv, EvictEnd PROVE BcInv'
<1> USE DEF BcInv
<1>1. ListIsRecency'
  BY SameList DEF EvictEnd, links
<1>2. BcTypeOK'
  BY DEF EvictEnd, links, BcTypeOK, PageOrNull, NotEvicting
<1>3. PassedAreHeld' /\ HandlesArePinned' /\ UnreadOnlyWhileReading' /\ CountsAreExact'
  BY DEF EvictEnd, NotEvicting, PassedAreHeld, HandlesArePinned, UnreadOnlyWhileReading,
         CountsAreExact, Holders
<1>4. QED
  BY <1>1, <1>2, <1>3

\* The page that is evicted is nobody's, and somebody has each older one.
LEMMA EvictPageStep ==
  ASSUME BcInv, EvictPage
  PROVE  /\ BcInv'
         /\ evictor.pg \in cached /\ cached' = cached \ {evictor.pg}
         /\ \A u \in Users : handle[u] # evictor.pg
         /\ \A c \in cached : Newer(evictor.pg, c) => \E u \in Users : handle[u] = c
<1> USE DEF BcInv
<1> DEFINE b == evictor.pg
<1>1. /\ b \in cached /\ b \in Blocks /\ cached' = cached \ {b} /\ use_count[b] = 0
      /\ \A c \in cached : Newer(b, c) => \E u \in Users : handle[u] = c
  BY DEF EvictPage, Walking, Unfinished, Evictable, PassedAreHeld, BcTypeOK
<1>2. \A u \in Users : handle[u] # b
  BY <1>1, HeldIffCounted
<1>3. /\ evictor' = [evictor EXCEPT !.pg = pgPrev[b], !.npages = @ - 1]
      /\ phys_addr' = [phys_addr EXCEPT ![b] = NoPage]
      /\ Unlink(b) /\ newer' = Without(b)
      /\ UNCHANGED << use_count, frameData, user, handle, mapped, bottom >>
  BY DEF EvictPage
<1>4. evictor.npages - 1 \in Nat /\ evictor.on
  BY DEF EvictPage, Walking, Unfinished, BcTypeOK
<1> HIDE DEF b
<1>5. ListIsRecency'
  BY <1>1, <1>3, UnlinkKeepsList
<1>6. BcTypeOK'
  BY <1>1, <1>3, <1>4 DEF Unlink, BcTypeOK, PageOrNull
<1>7. \A c \in cached' : phys_addr'[c] = phys_addr[c]
  BY <1>1, <1>3 DEF BcTypeOK
<1>8. HandlesArePinned'
  BY <1>1, <1>2, <1>3, <1>7 DEF HandlesArePinned
<1>9. UnreadOnlyWhileReading'
  BY <1>1, <1>3, <1>7 DEF UnreadOnlyWhileReading
<1>10. CountsAreExact'
  BY <1>1, <1>3 DEF CountsAreExact, Holders
<1>11. PassedAreHeld'
  <2>1. evictor'.pg = pgPrev[b] /\ evictor'.on
    BY <1>3, <1>4 DEF BcTypeOK
  <2>2. \A c, d : Newer(c, d)' => Newer(c, d)
    BY <1>3 DEF Newer, Without
  <2>3. QED
    BY <1>1, <1>3, <2>1, <2>2, EvictPasses DEF PassedAreHeld
<1>12. QED
  BY <1>1, <1>2, <1>5, <1>6, <1>8, <1>9, <1>10, <1>11 DEF b

\* A step evicts at most the page that EvictPage looks at.
LEMMA BcStep ==
  ASSUME BcInv, [BcNext]_bcVars
  PROVE  /\ BcInv'
         /\ cached \ cached' # {} =>
              /\ evictor.pg \in cached /\ cached' = cached \ {evictor.pg}
              /\ \A u \in Users : handle[u] # evictor.pg
              /\ \A c \in cached : Newer(evictor.pg, c) => \E u \in Users : handle[u] = c
<1>1. ASSUME NEW u \in Users, DeviceRead(u) \/ MapHit(u) \/ ReleasePage(u)
      PROVE  BcInv' /\ cached' = cached
  BY <1>1, ReadStep, MapStep, ReleaseStep DEF DeviceRead, MapHit, ReleasePage
<1>2. ASSUME NEW u \in Users, NEW b \in Blocks, GetHit(u, b) PROVE BcInv' /\ cached' = cached
  BY <1>2, GetHitStep DEF GetHit
<1>3. ASSUME NEW u \in Users, NEW b \in Blocks, NEW f \in PageFrames, GetMiss(u, b, f)
      PROVE  BcInv' /\ cached \subseteq cached'
  BY <1>3, GetMissStep DEF GetMiss
<1>4. ASSUME NEW n \in 0 .. MaxEvict, EvictBegin(n) PROVE BcInv' /\ cached' = cached
  BY <1>4, EvictBeginStep DEF EvictBegin
<1>5. CASE EvictSkip \/ EvictEnd
  BY <1>5, EvictSkipStep, EvictEndStep DEF EvictSkip, EvictEnd
<1>6. CASE EvictPage
  BY <1>6, EvictPageStep
<1>7. CASE UNCHANGED bcVars
  <2>1. ListIsRecency'
    BY <1>7, SameList DEF bcVars, BcInv
  <2>2. QED
    BY <1>7, <2>1 DEF bcVars, BcInv, BcTypeOK, HandlesArePinned, UnreadOnlyWhileReading,
                      CountsAreExact, Holders, PassedAreHeld, Newer
<1>8. QED
  BY <1>1, <1>2, <1>3, <1>4, <1>5, <1>6, <1>7 DEF BcNext

\* The invariant holds in every reachable state.
LEMMA AlwaysBcInv == BcSpec => []BcInv
<1>1. BcInv /\ [BcNext]_bcVars => BcInv'
  BY BcStep
<1>2. QED
  BY <1>1, BcInitInv, PTL DEF BcSpec

\* The list of pages, the hash tables, the frames and the handles agree in
\* every reachable state, for any number of users, blocks and frames.
THEOREM SoundCache == BcSpec => []CacheSound
<1>1. BcInv => CacheSound
  BY DEF BcInv, CacheSound
<1>2. QED
  BY <1>1, AlwaysBcInv, PTL

\* disk_cache_group_evict() takes idle pages in the order of their last use.
THEOREM OldestIdleGo == BcSpec => EvictsOldestIdle
<1> DEFINE Fair == \A b \in cached \ cached' :
       /\ \A u \in Users : handle[u] # b
       /\ \A c \in cached' : Newer(b, c) => \E u \in Users : handle[u] = c
<1>1. BcInv /\ [BcNext]_bcVars => [Fair]_bcVars
  BY BcStep
<1>2. QED
  BY <1>1, AlwaysBcInv, PTL DEF BcSpec, EvictsOldestIdle
==============================================================================
