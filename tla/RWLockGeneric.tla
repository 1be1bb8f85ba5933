---------------------------- MODULE RWLockGeneric ---------------------------
(***************************************************************************)
(* The reader/writer lock of lib/isc/rwlock.c as it is built without       *)
(* atomic operations (rwlock.c:535-720).  Everything but sleeping happens  *)
(* under rwl->lock, so a step is one critical section, ended by WAIT or by *)
(* UNLOCK.                                                                 *)
(***************************************************************************)
EXTENDS Naturals, FiniteSets

CONSTANTS
    Threads,
    ReadQuota, WriteQuota,  \* rwl->read_quota, rwl->write_quota
    Calls           \* the entry points each thread uses, besides unlock

AllCalls == {"read", "write", "tryread", "trywrite", "tryupgrade"}

ASSUME GenericAssumption ==
    /\ IsFiniteSet(Threads)
    /\ ReadQuota \in Nat \ {0}
    /\ WriteQuota \in Nat \ {0}
    /\ Calls \in [Threads -> SUBSET AllCalls]

VARIABLES
    type, original, active, granted, readers_waiting, writers_waiting,
    readable,       \* threads asleep on rwl->readable
    writeable,      \* threads asleep on rwl->writeable
    state           \* what each thread is doing

rwl == <<type, original, active, granted>>
conds == <<readers_waiting, writers_waiting, readable, writeable>>
vars == <<rwl, conds, state>>

\* "rwait" and "wwait": in WAIT, or woken and about to leave it.
States == {"idle", "rwait", "wwait", "reading", "writing"}
\* granted is only compared with the quotas, so it may stop at the larger.
GrantedMax == IF ReadQuota > WriteQuota THEN ReadQuota ELSE WriteQuota

TypeOK ==
    /\ type \in {"read", "write"}
    /\ original \in {"none", "read", "write"}
    /\ active \in 0 .. Cardinality(Threads)
    /\ granted \in 0 .. GrantedMax
    /\ readers_waiting = Cardinality({t \in Threads : state[t] = "rwait"})
    /\ writers_waiting = Cardinality({t \in Threads : state[t] = "wwait"})
    /\ readable \subseteq {t \in Threads : state[t] = "rwait"}
    /\ writeable \subseteq {t \in Threads : state[t] = "wwait"}
    /\ state \in [Threads -> States]

Init ==
    /\ type = "read"
    /\ original = "none"
    /\ active = 0
    /\ granted = 0
    /\ readers_waiting = 0 /\ writers_waiting = 0
    /\ readable = {} /\ writeable = {}
    /\ state = [t \in Threads |-> "idle"]

-----------------------------------------------------------------------------
(* doit: isc_rwlock_lock and isc_rwlock_trylock *)

Become(t, s) == state' = [state EXCEPT ![t] = s]
CountGrant == granted' = IF granted < GrantedMax THEN granted + 1 ELSE granted

\* Slip: the mode the lock is held in is not looked at.
CanReadInAnyMode ==
    \/ active = 0
    \/ writers_waiting = 0 \/ granted < ReadQuota
\* The condition under which the loop ends with the lock taken.
CanRead ==
    \/ active = 0
    \/ type = "read" /\ (writers_waiting = 0 \/ granted < ReadQuota)
CanWrite == active = 0

TakeRead(t) ==
    /\ CanRead
    /\ type' = "read"
    /\ active' = active + 1
    /\ CountGrant
    /\ Become(t, "reading")
    /\ UNCHANGED original

TakeWrite(t) ==
    /\ CanWrite
    /\ type' = "write"
    /\ active' = 1
    /\ CountGrant
    /\ Become(t, "writing")
    /\ UNCHANGED original

\* A call that finds others waiting does not overtake them: skip.
ReadCall(t) ==
    /\ state[t] = "idle"
    /\ \/ "read" \in Calls[t]
       \/ "tryread" \in Calls[t]
    /\ readers_waiting = 0
    /\ TakeRead(t)
    /\ UNCHANGED conds

ReadWait(t) ==
    /\ state[t] = "idle"
    /\ "read" \in Calls[t]
    /\ readers_waiting # 0 \/ ~CanRead
    /\ readers_waiting' = readers_waiting + 1
    /\ readable' = readable \cup {t}
    /\ Become(t, "rwait")
    /\ UNCHANGED <<rwl, writers_waiting, writeable>>

WriteCall(t) ==
    /\ state[t] = "idle"
    /\ \/ "write" \in Calls[t]
       \/ "trywrite" \in Calls[t]
    /\ writers_waiting = 0
    /\ TakeWrite(t)
    /\ UNCHANGED conds

WriteWait(t) ==
    /\ state[t] = "idle"
    /\ "write" \in Calls[t]
    /\ writers_waiting # 0 \/ ~CanWrite
    /\ writers_waiting' = writers_waiting + 1
    /\ writeable' = writeable \cup {t}
    /\ Become(t, "wwait")
    /\ UNCHANGED <<rwl, readers_waiting, readable>>

\* WAIT returns; the waiter is no longer counted when the condition is tried
\* again, and it sleeps again if that fails.
ReadAwake(t) ==
    /\ state[t] = "rwait"
    /\ t \notin readable
    /\ \/ /\ TakeRead(t)
          /\ readers_waiting' = readers_waiting - 1
          /\ UNCHANGED readable
       \/ /\ ~CanRead
          /\ readable' = readable \cup {t}
          /\ UNCHANGED <<rwl, readers_waiting, state>>
    /\ UNCHANGED <<writers_waiting, writeable>>

WriteAwake(t) ==
    /\ state[t] = "wwait"
    /\ t \notin writeable
    /\ \/ /\ TakeWrite(t)
          /\ writers_waiting' = writers_waiting - 1
          /\ UNCHANGED writeable
       \/ /\ ~CanWrite
          /\ writeable' = writeable \cup {t}
          /\ UNCHANGED <<rwl, writers_waiting, state>>
    /\ UNCHANGED <<readers_waiting, readable>>

-----------------------------------------------------------------------------
(* isc_rwlock_tryupgrade and isc_rwlock_downgrade *)

Toggle(other) == original' = IF original = "none" THEN other ELSE "none"

TryUpgradeAmongReaders(t) ==
    /\ state[t] = "reading"
    /\ "tryupgrade" \in Calls[t]
    /\ Toggle("read")
    /\ type' = "write"
    /\ Become(t, "writing")
    /\ UNCHANGED <<active, granted, conds>>
TryUpgradeCall(t) == active = 1 /\ TryUpgradeAmongReaders(t)

\* A thread that upgraded goes back to reading when it is done, as
\* decrement_reference of rbtdb.c does.  The entry point would also admit a
\* thread that took the lock for writing; nobody in the program does that.
DowngradeCall(t) ==
    /\ state[t] = "writing"
    /\ original = "read"
    /\ type' = "read"
    /\ Toggle("write")
    /\ readable' = IF /\ original' = "none"
                      /\ writers_waiting = 0 \/ granted < ReadQuota
                   THEN {} ELSE readable
    /\ Become(t, "reading")
    /\ UNCHANGED <<active, granted, readers_waiting, writers_waiting, writeable>>

-----------------------------------------------------------------------------
(* isc_rwlock_unlock *)

\* SIGNAL wakes one of the threads asleep on a condition, if there is one.
SignalWriter ==
    /\ IF writeable = {} THEN UNCHANGED writeable
       ELSE \E t \in writeable : writeable' = writeable \ {t}
    /\ UNCHANGED readable
WakeAllReaders == readable' = {} /\ UNCHANGED writeable
WakeNobody == UNCHANGED <<readable, writeable>>

\* Whom the last holder wakes when it held the lock for reading ...
AfterReaders ==
    /\ granted' = 0
    /\ IF writers_waiting > 0
       THEN type' = "write" /\ SignalWriter
       ELSE type' = "read" /\ WakeAllReaders

\* Slip: waiting writers are forgotten.
AfterWriterReadersOnly ==
    /\ granted' = 0
    /\ type' = (IF readers_waiting > 0 THEN "read" ELSE "write")
    /\ WakeAllReaders
\* ... and for writing.
AfterWriter ==
    IF readers_waiting > 0
    THEN IF writers_waiting > 0 /\ granted < WriteQuota
         THEN SignalWriter /\ type' = "write" /\ UNCHANGED granted
         ELSE WakeAllReaders /\ type' = "read" /\ granted' = 0
    ELSE /\ type' = "write"
         /\ granted' = 0
         /\ IF writers_waiting > 0 THEN SignalWriter ELSE WakeNobody

\* Slip: the original mode is not restored.
UnlockForgetsOriginal(t) ==
    /\ state[t] \in {"reading", "writing"}
    /\ active' = active - 1
    /\ UNCHANGED original
    /\ IF active' = 0
       THEN IF type = "read" THEN AfterReaders ELSE AfterWriter
       ELSE UNCHANGED <<type, granted, readable, writeable>>
    /\ Become(t, "idle")
    /\ UNCHANGED <<readers_waiting, writers_waiting>>
UnlockCall(t) ==
    /\ state[t] \in {"reading", "writing"}
    /\ active' = active - 1
    /\ IF active' = 0
       THEN /\ original' = "none"
            /\ IF (IF original = "none" THEN type ELSE original) = "read"
               THEN AfterReaders ELSE AfterWriter
       ELSE UNCHANGED <<original, type, granted, readable, writeable>>
    /\ Become(t, "idle")
    /\ UNCHANGED <<readers_waiting, writers_waiting>>

SpuriousWakeup(t) ==
    /\ t \in readable \cup writeable
    /\ readable' = readable \ {t}
    /\ writeable' = writeable \ {t}
    /\ UNCHANGED <<rwl, readers_waiting, writers_waiting, state>>

-----------------------------------------------------------------------------
Call(t) == \/ ReadCall(t) \/ ReadWait(t) \/ WriteCall(t) \/ WriteWait(t)
           \/ TryUpgradeCall(t) \/ DowngradeCall(t)
Step(t) == ReadAwake(t) \/ WriteAwake(t) \/ UnlockCall(t)

Next == \E t \in Threads : Call(t) \/ Step(t) \/ SpuriousWakeup(t)

Spec == Init /\ [][Next]_vars

-----------------------------------------------------------------------------
(* Properties *)

\* The INSIST at the end of isc_rwlock_unlock: no call leaves a pending
\* "original" mode behind.
InsistOriginal ==
    [][\A t \in Threads :
            state[t] \in {"reading", "writing"} /\ state'[t] = "idle"
                => original' = "none"]_vars

\* No lost wakeup: when every thread is outside the lock or asleep, nobody
\* is asleep.
NoLostWakeup ==
    (\A t \in Threads : state[t] = "idle" \/ t \in readable \cup writeable)
        => readable \cup writeable = {}

\* The generic lock implements the abstract reader/writer lock.
HoldModes == [t \in Threads |-> CASE state[t] = "reading" -> "read"
                                  [] state[t] = "writing" -> "write"
                                  [] OTHER -> "none"]
Abstract == INSTANCE RWLockSpec WITH mode <- HoldModes
ImplementsRWLock == Abstract!Spec
=============================================================================
