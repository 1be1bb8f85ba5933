--------------------------- MODULE MCRWLockGeneric --------------------------
(* RWLockGeneric instantiated for TLC. *)
EXTENDS RWLockGeneric, TLC

Symmetry == Permutations(Threads)

EveryCall == [t \in Threads |-> AllCalls]
=============================================================================
