----------------------------- MODULE MCSemaphore -----------------------------
(* Model checking of Semaphore: the threads but the boot thread are alike.  *)
EXTENDS Semaphore, TLC

WorkerSymmetry == Permutations(Threads \ ({Boot} \cup Killable))
=============================================================================
