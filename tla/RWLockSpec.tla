----------------------------- MODULE RWLockSpec -----------------------------
(***************************************************************************)
(* What a reader/writer lock promises its callers (isc/rwlock.h), without  *)
(* any of the machinery of lib/isc/rwlock.c: which threads hold the lock,  *)
(* and in which mode.  Both implementations of rwlock.c, RWLockAtomic and  *)
(* RWLockGeneric, are shown to implement this specification.               *)
(***************************************************************************)
CONSTANT Threads

VARIABLE mode

Modes == {"none", "read", "write"}

TypeOK == mode \in [Threads -> Modes]

Init == mode = [t \in Threads |-> "none"]

\* Nobody but t holds the lock.
Alone(t) == \A u \in Threads \ {t} : mode[u] = "none"

\* A read lock is granted beside other readers only.
LockRead(t) ==
    /\ mode[t] = "none"
    /\ \A u \in Threads : mode[u] # "write"
    /\ mode' = [mode EXCEPT ![t] = "read"]

\* A write lock is granted when nobody holds the lock.
LockWrite(t) ==
    /\ \A u \in Threads : mode[u] = "none"
    /\ mode' = [mode EXCEPT ![t] = "write"]

\* The only reader may become the writer.
Upgrade(t) ==
    /\ mode[t] = "read"
    /\ Alone(t)
    /\ mode' = [mode EXCEPT ![t] = "write"]

\* The writer becomes a reader without letting go of the lock.
Downgrade(t) ==
    /\ mode[t] = "write"
    /\ mode' = [mode EXCEPT ![t] = "read"]

Unlock(t) ==
    /\ mode[t] # "none"
    /\ mode' = [mode EXCEPT ![t] = "none"]

Next == \E t \in Threads :
            \/ LockRead(t)
            \/ LockWrite(t)
            \/ Upgrade(t)
            \/ Downgrade(t)
            \/ Unlock(t)

Spec == Init /\ [][Next]_mode
=============================================================================
