----------------------------- MODULE ObjectPool -----------------------------
(***************************************************************************)
(* What a slab cache promises its clients: an allocation hands out an      *)
(* object that nobody else has, until it is freed.                         *)
(***************************************************************************)
EXTENDS Naturals

CONSTANT Objects

VARIABLE out  \* how many clients have each object

Init == out = [o \in Objects |-> 0]

Alloc(o) == out[o] = 0 /\ out' = [out EXCEPT ![o] = 1]

Free(o) == out[o] = 1 /\ out' = [out EXCEPT ![o] = 0]

\* The clients use none of the objects any more.
Drop == out' = [o \in Objects |-> 0]

Next == (\E o \in Objects : Alloc(o) \/ Free(o)) \/ Drop

Spec == Init /\ [][Next]_out
=============================================================================
