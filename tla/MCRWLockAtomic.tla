--------------------------- MODULE MCRWLockAtomic ---------------------------
(* RWLockAtomic instantiated for TLC. *)
EXTENDS RWLockAtomic, TLC

CONSTANTS t1, t2, t3

\* Between them the threads use every entry point, and any two kinds of call
\* of two threads meet.
Mixed == (t1 :> {"write", "downgrade"}) @@ (t2 :> {"read", "tryread", "tryupgrade", "trywrite"})
         @@ (t3 :> {"write"})
=============================================================================
