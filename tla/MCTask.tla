------------------------------- MODULE MCTask -------------------------------
(* Instances of Task for TLC. *)
EXTENDS Task, TLC

CONSTANTS k1, k2, w1, w2, c1, c2, r1, r2

\* Tasks are kept on queues and compared only for equality, and so are the
\* pointers; workers and clients are compared only for equality as well.
Symmetry == Permutations(Tasks) \cup Permutations(Workers)
            \cup Permutations(Clients) \cup Permutations(Refs)
=============================================================================
