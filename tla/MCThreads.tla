------------------------------ MODULE MCThreads ------------------------------
(***************************************************************************)
(* Two kernels with the same threads: one whose boot thread never sleeps   *)
(* nor returns ('withIdle'), and one in which every thread may, as long as *)
(* somebody else is ready when it sleeps.                                  *)
(***************************************************************************)
EXTENDS Threads

VARIABLE withIdle

mcVars == << vars, withIdle >>

Bare == INSTANCE Threads WITH Idle <- {}, SleepAlone <- FALSE

MCInit == Init /\ withIdle \in BOOLEAN

\* The assertion that a kernel without idle thread may reach stops it.
Stopped == ~withIdle /\ cpu = "panic" /\ UNCHANGED vars

MCNext ==
  /\ UNCHANGED withIdle
  /\ \/ withIdle /\ Next
     \/ ~withIdle /\ Bare!Next
     \/ Stopped

MCFairness ==
  /\ WF_vars(RunYield)
  /\ WF_vars(SleepCheckKill)
  /\ WF_vars(withIdle /\ GiveUpCpu)
  /\ WF_vars(~withIdle /\ Bare!GiveUpCpu)

MCSpec == MCInit /\ [][MCNext]_mcVars /\ MCFairness

\* With an idle thread no thread that sleeps, is dead or was freed ever runs,
\* the assertions "Unreachable!" of thread.c hold, and a dead thread stays
\* dead until its thread_t is destroyed: the processor is never given back to it.
IdleBootSuffices ==
  /\ [](withIdle => RunningIsRunnable /\ UnreachableIsUnreachable)
  /\ [][withIdle => DeadStep]_mcVars
=============================================================================
