------------------------------- MODULE MCHeap -------------------------------
(***************************************************************************)
(* The memory map for the run of module Heap: two ranges with a hole, the  *)
(* first across the 1MB limit, the second up to the 4GB limit.  Memory     *)
(* above it would stop the kernel at the first stack.                      *)
(***************************************************************************)
EXTENDS Heap

MCRanges == <<[start |-> 0, extent |-> 3], [start |-> 4, extent |-> 10]>>
=============================================================================
