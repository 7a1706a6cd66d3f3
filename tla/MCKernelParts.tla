---------------------------- MODULE MCKernelParts ----------------------------
(***************************************************************************)
(* Parts of the kernel that do not meet in the source: the scheduler's     *)
(* list, the keyboard's ring, the block cache, the start and stop of       *)
(* modules, and the semaphores of a kernel with one thread.  A run of this *)
(* module is a run of one of them, 'part'.                                 *)
(***************************************************************************)
EXTENDS Scheduler, Keyboard, Modules, BlockCache

CONSTANTS Boot, Sems, Mutexes, IrqSems, MaxVal

VARIABLES
  part,
  boot_s, boot_e, boot_next, boot_queue,         \* the list of that kernel
  live, state, request_kill, current, cpu,
  val, queue_head, semaphore_next, pc, sem, popped, holding

(***************************************************************************)
(* A kernel with no thread but the boot thread, as at boot time: it waits  *)
(* for interrupts by going round semaphore_wait(), because thread_sleep()  *)
(* returns at once.                                                        *)
(***************************************************************************)
Lone == INSTANCE Semaphore WITH Threads <- {Boot}, Idle <- {}, SleepAlone <- TRUE,
  Killable <- {}, IrqWakes <- {}, ready_s <- boot_s, ready_e <- boot_e,
  scheduler_next <- boot_next, queue <- boot_queue

bootVars == << boot_s, boot_e, boot_next, boot_queue, live, state, request_kill, current, cpu,
               val, queue_head, semaphore_next, pc, sem, popped, holding >>

partsVars == << part, vars, kbVars, modVars, bcVars, bootVars >>

(* main() when it is not the part looked at: in kmain(), everything started. *)
IdleImage ==
  /\ required = [m \in Mods |-> << >>] /\ load_after = required
  /\ console = Missing /\ test_module = Missing
  /\ phase = "kmain" /\ nextModule = 1 /\ mstate = [m \in Mods |-> "init"]
  /\ calls = << >> /\ started = [m \in Mods |-> m] /\ stopped = << >>

PartsInit ==
  /\ part \in {"scheduler", "keyboard", "main", "block_cache", "boot"}
  /\ Init /\ KbInit /\ BcInit /\ Lone!SemInit
  /\ IF part = "main" THEN ModInit ELSE IdleImage
  /\ part # "block_cache" => bottom = NoPage /\ lru_page = NoPage

Alone(p) ==
  /\ part' = p
  /\ IF p = "scheduler"   THEN TRUE ELSE UNCHANGED vars
  /\ IF p = "keyboard"    THEN TRUE ELSE UNCHANGED kbVars
  /\ IF p = "main"        THEN TRUE ELSE UNCHANGED modVars
  /\ IF p = "block_cache" THEN TRUE ELSE UNCHANGED bcVars
  /\ IF p = "boot"        THEN TRUE ELSE UNCHANGED bootVars

PartsNext ==
  \/ part = "scheduler" /\ Next /\ Alone("scheduler")
  \/ part = "keyboard" /\ KbNext /\ Alone("keyboard")
  \/ part = "main" /\ ModNext /\ Alone("main")
  \/ part = "block_cache" /\ BcNext /\ Alone("block_cache")
  \/ part = "boot" /\ Lone!SemNext /\ Alone("boot")

PartsSpec ==
  /\ PartsInit /\ [][PartsNext]_partsVars
  /\ WF_modVars(part = "main" /\ LoaderStep)
  /\ WF_bootVars(part = "boot" /\ (Lone!InKernel \/ Lone!InSemaphore(Boot)))

\* The boot thread's semaphore_wait() returns once an interrupt handler has
\* signalled, although the thread puts itself on the wait queue again and
\* again, behind itself, and is made ready while it runs.
LoneWaitReturns ==
  \A s \in Sems :
    (sem[Boot] = s /\ pc[Boot] \in {"test", "enqueue", "sleep"} /\ val[s] # 0)
      ~> (pc[Boot] = "client")

-----------------------------------------------------------------------------
(* Prerequisites in every direction, in cycles, and missing ones (0). *)
MCRequired == {<<>>, <<2>>, <<1, 3>>, <<0>>}
MCLoadAfter == {<<>>, <<1>>, <<0, 3>>}
=============================================================================
