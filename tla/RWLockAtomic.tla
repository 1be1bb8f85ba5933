---------------------------- MODULE RWLockAtomic ----------------------------
(***************************************************************************)
(* The reader/writer lock of lib/isc/rwlock.c as it is built where atomic  *)
(* xadd and cmpxchg exist (rwlock.c:166-463).  A step of a thread is one   *)
(* atomic operation, one read of a variable shared without the mutex, or   *)
(* one critical section of rwl->lock holding at most one such access.      *)
(*                                                                         *)
(* The source's comment calls cnt_and_flag "a kind of structure with two   *)
(* members": they are writer_flag and reader_count here, always accessed   *)
(* together in one step.  write_requests and write_completions wrap around *)
(* at Wrap as the 32-bit integers do at 2^32.                              *)
(***************************************************************************)
EXTENDS Integers, FiniteSets

CONSTANTS
    Threads,        \* the threads that use the lock
    NoThread,       \* the owner of a free mutex
    WriteQuota,     \* rwl->write_quota
    Wrap,           \* modulus of the ticket counters
    Calls           \* the entry points each thread uses, besides unlock

AllCalls == {"read", "write", "tryread", "trywrite", "tryupgrade", "downgrade"}

\* The threads that queue for the lock with a ticket.
Queuers == {t \in Threads : "write" \in Calls[t]}

\* A counter is only ever compared for equality, so the modulus has to
\* separate the tickets that can be outstanding together, and tell a queue of
\* all the threads from an empty one.
ASSUME RWLockAssumption ==
    /\ IsFiniteSet(Threads)
    /\ NoThread \notin Threads
    /\ WriteQuota \in Nat \ {0}
    /\ Wrap \in Nat \ {0} /\ Wrap > Cardinality(Threads) /\ Wrap >= 2 * Cardinality(Queuers)
    /\ Calls \in [Threads -> SUBSET AllCalls]

VARIABLES
    write_requests, write_completions,
    writer_flag, reader_count,      \* cnt_and_flag
    readers_waiting, write_granted,
    mutex,          \* owner of rwl->lock
    readable,       \* threads asleep on rwl->readable
    writeable,      \* threads asleep on rwl->writeable
    pc,             \* where each thread is in the code
    prev_writer,    \* the ticket of a thread in the writers' queue
    half            \* the operand already read of a two-operand comparison

lockVars == <<write_requests, write_completions, writer_flag, reader_count>>
condVars == <<readers_waiting, readable, writeable>>
vars == <<lockVars, condVars, write_granted, mutex, pc, prev_writer, half>>

NotRead == [operand |-> "none", value |-> 0]
Counters == 0 .. Wrap - 1
Halves == {NotRead} \cup
          [operand : {"write_requests", "write_completions"}, value : Counters]

\* Labels at which write_requests and write_completions are compared.  The
\* two plain reads are separate, and C leaves their order open.
CompareLabels == {"r_check", "r_recheck", "tr_check", "wakew_check", "uw_check"}
SleepLabels == {"r_sleep", "r_sleep_again", "w_sleep_turn", "w_sleep_cas"}
Labels == CompareLabels \cup SleepLabels \cup
          {"idle", "reading", "writing",
           "r_lock", "r_incr", "r_test", "r_busy", "r_reset",
           "w_turn", "w_recheck", "w_cas", "w_busy", "w_grant",
           "tr_incr", "tr_cancel", "tw_jump", "up_jump",
           "dg_flag", "dg_comp", "dg_wake",
           "wakew", "uw_comp", "uw_quota", "uw_count", "uw_readers"}

TypeOK ==
    /\ write_requests \in Counters
    /\ write_completions \in Counters
    /\ writer_flag \in BOOLEAN
    /\ reader_count \in Nat
    /\ readers_waiting \in Nat
    /\ write_granted \in 0 .. WriteQuota
    /\ mutex \in Threads \cup {NoThread}
    /\ readable \subseteq Threads
    /\ writeable \subseteq Threads
    /\ pc \in [Threads -> Labels]
    /\ prev_writer \in [Threads -> Counters]
    /\ half \in [Threads -> Halves]

Init ==
    /\ write_requests = 0
    /\ write_completions = 0
    /\ writer_flag = FALSE
    /\ reader_count = 0
    /\ readers_waiting = 0
    /\ write_granted = 0
    /\ mutex = NoThread
    /\ readable = {}
    /\ writeable = {}
    /\ pc = [t \in Threads |-> "idle"]
    /\ prev_writer = [t \in Threads |-> 0]
    /\ half = [t \in Threads |-> NotRead]

-----------------------------------------------------------------------------
(* Steps shared by several entry points. *)

Goto(t, label) == pc' = [pc EXCEPT ![t] = label]
At(t, label) == pc[t] = label

\* A critical section of rwl->lock that fits in one step.
MutexFree == mutex = NoThread /\ UNCHANGED mutex

\* A step that changes nothing but the thread's place in the code.
Branch(t, from, to) ==
    /\ At(t, from)
    /\ Goto(t, to)
    /\ UNCHANGED <<lockVars, condVars, write_granted, mutex, prev_writer, half>>

\* The atomic operations on each half of cnt_and_flag and on the tickets.
AddReader(t, from, to) ==
    /\ At(t, from)
    /\ reader_count' = reader_count + 1
    /\ Goto(t, to)
    /\ UNCHANGED <<write_requests, write_completions, writer_flag, condVars,
                   write_granted, mutex, prev_writer, half>>

SetFlag(t, from, to) ==
    /\ At(t, from)
    /\ writer_flag' = TRUE
    /\ Goto(t, to)
    /\ UNCHANGED <<write_requests, write_completions, reader_count, condVars,
                   write_granted, mutex, prev_writer, half>>

ClearFlag(t, from, to) ==
    /\ At(t, from)
    /\ writer_flag' = FALSE
    /\ Goto(t, to)
    /\ UNCHANGED <<write_requests, write_completions, reader_count, condVars,
                   write_granted, mutex, prev_writer, half>>

AddCompletion(t, n, from, to) ==
    /\ At(t, from)
    /\ write_completions' = (write_completions + n) % Wrap
    /\ Goto(t, to)
    /\ UNCHANGED <<write_requests, writer_flag, reader_count, condVars,
                   write_granted, mutex, prev_writer, half>>

\* The first of the two reads of write_requests != write_completions.
CompareFirst(t) ==
    /\ pc[t] \in CompareLabels
    /\ half[t] = NotRead
    /\ half' \in {[half EXCEPT ![t] = [operand |-> "write_requests",
                                       value |-> write_requests]],
                  [half EXCEPT ![t] = [operand |-> "write_completions",
                                       value |-> write_completions]]}
    /\ UNCHANGED <<lockVars, condVars, write_granted, mutex, pc, prev_writer>>

\* The outcome of the comparison once the second operand is read as well.
Pending(t) ==
    half[t].value # IF half[t].operand = "write_requests"
                    THEN write_completions ELSE write_requests

CompareSecond(t, label) ==
    /\ At(t, label)
    /\ half[t] # NotRead
    /\ half' = [half EXCEPT ![t] = NotRead]

Compare(t, label, ifPending, ifNot) ==
    /\ CompareSecond(t, label)
    /\ Goto(t, IF Pending(t) THEN ifPending ELSE ifNot)
    /\ UNCHANGED <<lockVars, condVars, write_granted, mutex, prev_writer>>

\* WAIT: the thread sleeps, and the mutex is free again.
SleepReadable(t, label) ==
    /\ readers_waiting' = readers_waiting + 1
    /\ readable' = readable \cup {t}
    /\ Goto(t, label)

SleepWriteable(t, label) ==
    /\ writeable' = writeable \cup {t}
    /\ Goto(t, label)

\* BROADCAST(&rwl->readable) if readers_waiting > 0.
WakeReaders == readable' = IF readers_waiting > 0 THEN {} ELSE readable

-----------------------------------------------------------------------------
(* isc_rwlock_lock(rwl, isc_rwlocktype_read) *)

LockReadCall(t) == "read" \in Calls[t] /\ Branch(t, "idle", "r_check")

ReadCheck(t) == Compare(t, "r_check", "r_lock", "r_incr")

\* LOCK(&rwl->lock) before the second check, which holds it for two reads.
ReadLockMutex(t) ==
    /\ At(t, "r_lock")
    /\ mutex = NoThread
    /\ mutex' = t
    /\ Goto(t, "r_recheck")
    /\ UNCHANGED <<lockVars, condVars, write_granted, prev_writer, half>>

ReadRecheck(t) ==
    /\ CompareSecond(t, "r_recheck")
    /\ mutex' = NoThread
    /\ IF Pending(t)
       THEN SleepReadable(t, "r_sleep")
       ELSE Goto(t, "r_incr") /\ UNCHANGED <<readers_waiting, readable>>
    /\ UNCHANGED <<lockVars, writeable, write_granted, prev_writer>>

\* WAIT returns once the thread was woken and has the mutex again.
ReadAwake(t) ==
    /\ \/ At(t, "r_sleep") /\ Goto(t, "r_incr")
       \/ At(t, "r_sleep_again") /\ Goto(t, "r_test")
    /\ t \notin readable
    /\ MutexFree
    /\ readers_waiting' = readers_waiting - 1
    /\ UNCHANGED <<lockVars, readable, writeable, write_granted, prev_writer, half>>

ReadIncr(t) == AddReader(t, "r_incr", "r_test")
ReadTest(t) == Branch(t, "r_test", IF writer_flag THEN "r_busy" ELSE "r_reset")

\* readers_waiting++; the flag is checked again before sleeping;
\* readers_waiting-- follows at once when there is no need to sleep.
ReadBusy(t) ==
    /\ At(t, "r_busy")
    /\ MutexFree
    /\ IF writer_flag
       THEN SleepReadable(t, "r_sleep_again")
       ELSE Goto(t, "r_test") /\ UNCHANGED <<readers_waiting, readable>>
    /\ UNCHANGED <<lockVars, writeable, write_granted, prev_writer, half>>

ReadReset(t) ==
    /\ At(t, "r_reset")
    /\ write_granted' = 0
    /\ Goto(t, "reading")
    /\ UNCHANGED <<lockVars, condVars, mutex, prev_writer, half>>

-----------------------------------------------------------------------------
(* isc_rwlock_lock(rwl, isc_rwlocktype_write) *)

LockWriteCall(t) ==
    /\ At(t, "idle")
    /\ "write" \in Calls[t]
    /\ prev_writer' = [prev_writer EXCEPT ![t] = write_requests]
    /\ write_requests' = (write_requests + 1) % Wrap
    /\ Goto(t, "w_turn")
    /\ UNCHANGED <<write_completions, writer_flag, reader_count, condVars,
                   write_granted, mutex, half>>

\* Slip: a writer does not wait for its ticket.
WriteTurnAtOnce(t) == Branch(t, "w_turn", "w_cas")
WriteTurn(t) ==
    Branch(t, "w_turn",
           IF write_completions = prev_writer[t] THEN "w_cas" ELSE "w_recheck")

\* Slip: the ticket is not compared again under the mutex.
WriteRecheckNot(t) ==
    /\ At(t, "w_recheck")
    /\ MutexFree
    /\ SleepWriteable(t, "w_sleep_turn")
    /\ UNCHANGED <<lockVars, readers_waiting, readable, write_granted,
                   prev_writer, half>>

WriteRecheck(t) ==
    /\ At(t, "w_recheck")
    /\ MutexFree
    /\ IF write_completions # prev_writer[t]
       THEN SleepWriteable(t, "w_sleep_turn")
       ELSE Goto(t, "w_cas") /\ UNCHANGED writeable
    /\ UNCHANGED <<lockVars, readers_waiting, readable, write_granted,
                   prev_writer, half>>

WriteAwake(t) ==
    /\ \/ At(t, "w_sleep_turn") /\ Goto(t, "w_turn")
       \/ At(t, "w_sleep_cas") /\ Goto(t, "w_cas")
    /\ t \notin writeable
    /\ MutexFree
    /\ UNCHANGED <<lockVars, condVars, write_granted, prev_writer, half>>

\* isc_atomic_cmpxchg(&rwl->cnt_and_flag, 0, WRITER_ACTIVE)
CntIsZero == ~writer_flag /\ reader_count = 0

WriteCas(t) ==
    \/ CntIsZero /\ SetFlag(t, "w_cas", "w_grant")
    \/ ~CntIsZero /\ Branch(t, "w_cas", "w_busy")

WriteBusy(t) ==
    /\ At(t, "w_busy")
    /\ MutexFree
    /\ IF CntIsZero
       THEN Goto(t, "w_cas") /\ UNCHANGED writeable
       ELSE SleepWriteable(t, "w_sleep_cas")
    /\ UNCHANGED <<lockVars, readers_waiting, readable, write_granted,
                   prev_writer, half>>

\* write_granted++.  It is only compared with >= write_quota and reset to 0,
\* so it may stop at WriteQuota.  The ticket goes out of scope.
WriteGrant(t) ==
    /\ At(t, "w_grant")
    /\ write_granted' = IF write_granted < WriteQuota
                        THEN write_granted + 1 ELSE WriteQuota
    /\ prev_writer' = [prev_writer EXCEPT ![t] = 0]
    /\ Goto(t, "writing")
    /\ UNCHANGED <<lockVars, condVars, mutex, half>>

-----------------------------------------------------------------------------
(* isc_rwlock_trylock.  A call that leaves with ISC_R_LOCKBUSY because its   *)
(* cmpxchg failed has changed nothing and is no step.                        *)

TryReadCall(t) == "tryread" \in Calls[t] /\ Branch(t, "idle", "tr_check")
TryReadCheck(t) == Compare(t, "tr_check", "idle", "tr_incr")

\* Slip: the flag is not looked at after the xadd.
TryReadIncrBlind(t) == AddReader(t, "tr_incr", "reading")
TryReadIncr(t) ==
    AddReader(t, "tr_incr", IF writer_flag THEN "tr_cancel" ELSE "reading")

TryWriteCall(t) ==
    "trywrite" \in Calls[t] /\ CntIsZero /\ SetFlag(t, "idle", "tw_jump")

\* Jump to the head of the writers' queue: isc_atomic_xadd(..., -1).
TryWriteJump(t) == AddCompletion(t, -1, "tw_jump", "w_grant")

-----------------------------------------------------------------------------
(* isc_rwlock_tryupgrade and isc_rwlock_downgrade *)

Upgrade(t) ==
    /\ At(t, "reading")
    /\ "tryupgrade" \in Calls[t]
    /\ writer_flag' = TRUE
    /\ reader_count' = reader_count - 1
    /\ Goto(t, "up_jump")
    /\ UNCHANGED <<write_requests, write_completions, condVars,
                   write_granted, mutex, prev_writer, half>>

\* isc_atomic_cmpxchg(&rwl->cnt_and_flag, READER_INCR, WRITER_ACTIVE)
TryUpgradeCall(t) == ~writer_flag /\ reader_count = 1 /\ Upgrade(t)

UpgradeJump(t) == AddCompletion(t, -1, "up_jump", "writing")

DowngradeCall(t) ==
    "downgrade" \in Calls[t] /\ AddReader(t, "writing", "dg_flag")
DowngradeFlag(t) == ClearFlag(t, "dg_flag", "dg_comp")
DowngradeComplete(t) == AddCompletion(t, 1, "dg_comp", "dg_wake")

DowngradeWake(t) ==
    /\ At(t, "dg_wake")
    /\ MutexFree
    /\ WakeReaders
    /\ Goto(t, "reading")
    /\ UNCHANGED <<lockVars, readers_waiting, writeable, write_granted,
                   prev_writer, half>>

-----------------------------------------------------------------------------
(* isc_rwlock_unlock, and the tail of a read trylock that lost *)

\* xadd(&rwl->cnt_and_flag, -READER_INCR); writers are looked for only when
\* the count drops to zero with no writer at work.
ReleaseRead(t, from) ==
    /\ At(t, from)
    /\ reader_count' = reader_count - 1
    /\ Goto(t, IF ~writer_flag /\ reader_count = 1 THEN "wakew_check" ELSE "idle")
    /\ UNCHANGED <<write_requests, write_completions, writer_flag, condVars,
                   write_granted, mutex, prev_writer, half>>

UnlockReadCall(t) == ReleaseRead(t, "reading")
TryReadCancel(t) == ReleaseRead(t, "tr_cancel")

WakeWritersCheck(t) == Compare(t, "wakew_check", "wakew", "idle")

WakeWriters(t) ==
    /\ At(t, "wakew")
    /\ MutexFree
    /\ writeable' = {}
    /\ Goto(t, "idle")
    /\ UNCHANGED <<lockVars, readers_waiting, readable, write_granted,
                   prev_writer, half>>

UnlockWriteCall(t) == ClearFlag(t, "writing", "uw_comp")
UnlockComplete(t) == AddCompletion(t, 1, "uw_comp", "uw_quota")

\* Slip: write_granted is not compared with the quota.
UnlockNoQuota(t) == Branch(t, "uw_quota", "uw_check")
UnlockQuota(t) ==
    Branch(t, "uw_quota",
           IF write_granted >= WriteQuota THEN "uw_readers" ELSE "uw_check")

UnlockCheck(t) == Compare(t, "uw_check", "uw_count", "uw_readers")

UnlockCount(t) ==
    Branch(t, "uw_count",
           IF reader_count # 0 THEN "uw_readers" ELSE "wakew_check")

\* wakeup_writers becomes FALSE when there were readers to wake.
UnlockReaders(t) ==
    /\ At(t, "uw_readers")
    /\ MutexFree
    /\ WakeReaders
    /\ Goto(t, IF readers_waiting > 0 THEN "idle" ELSE "wakew_check")
    /\ UNCHANGED <<lockVars, readers_waiting, writeable, write_granted,
                   prev_writer, half>>

-----------------------------------------------------------------------------
(* A POSIX condition wait may return without having been signalled. *)
SpuriousWakeup(t) ==
    /\ t \in readable \cup writeable
    /\ readable' = readable \ {t}
    /\ writeable' = writeable \ {t}
    /\ UNCHANGED <<lockVars, readers_waiting, write_granted, mutex, pc,
                   prev_writer, half>>

\* The calls a thread makes of its own accord ...
Call(t) ==
    \/ LockReadCall(t) \/ LockWriteCall(t)
    \/ TryReadCall(t) \/ TryWriteCall(t)
    \/ TryUpgradeCall(t) \/ DowngradeCall(t)

\* ... the unlock it owes once it holds the lock ...
UnlockCall(t) == UnlockReadCall(t) \/ UnlockWriteCall(t)

\* ... and the steps that carry a call on.
Step(t) ==
    \/ CompareFirst(t)
    \/ ReadCheck(t) \/ ReadLockMutex(t) \/ ReadRecheck(t) \/ ReadAwake(t)
    \/ ReadIncr(t) \/ ReadTest(t) \/ ReadBusy(t) \/ ReadReset(t)
    \/ WriteTurn(t) \/ WriteRecheck(t) \/ WriteAwake(t)
    \/ WriteCas(t) \/ WriteBusy(t) \/ WriteGrant(t)
    \/ TryReadCheck(t) \/ TryReadIncr(t) \/ TryReadCancel(t) \/ TryWriteJump(t)
    \/ UpgradeJump(t)
    \/ DowngradeFlag(t) \/ DowngradeComplete(t) \/ DowngradeWake(t)
    \/ WakeWritersCheck(t) \/ WakeWriters(t)
    \/ UnlockComplete(t) \/ UnlockQuota(t) \/ UnlockCheck(t)
    \/ UnlockCount(t) \/ UnlockReaders(t)

Next == \E t \in Threads :
            Call(t) \/ UnlockCall(t) \/ Step(t) \/ SpuriousWakeup(t)

Spec == Init /\ [][Next]_vars

\* For liveness: a thread inside the lock's code keeps running, a holder lets
\* go, the mutex is not withheld forever from a thread that keeps asking for
\* it, and condition waits end by being signalled.
FairSpec ==
    /\ Init
    /\ [][\E t \in Threads : Call(t) \/ UnlockCall(t) \/ Step(t)]_vars
    /\ \A t \in Threads : WF_vars(Step(t) \/ UnlockCall(t))

-----------------------------------------------------------------------------
(* Properties *)

\* How thread t holds the lock: as a writer from its successful cmpxchg to
\* the xadd that clears the flag, as a reader once it has seen the flag
\* clear (or cleared it itself, downgrading) until it takes itself out of
\* reader_count.
ModeAt(label) ==
    CASE label \in {"w_grant", "writing", "tw_jump", "up_jump", "dg_flag"} -> "write"
      [] label \in {"r_reset", "reading", "dg_comp", "dg_wake"} -> "read"
      [] OTHER -> "none"
LockMode(t) == ModeAt(pc[t])

\* A writer is alone in the lock, whatever mix of lock, trylock, tryupgrade
\* and downgrade calls is under way.
MutualExclusion ==
    \A t, u \in Threads :
        t # u /\ LockMode(t) = "write" => LockMode(u) = "none"

\* The INSISTs of isc_rwlock_lock (a granted writer finds WRITER_ACTIVE set),
\* isc_rwlock_tryupgrade (a reader finds no writer and at least one reader)
\* and isc_rwlock_downgrade (a writer finds WRITER_ACTIVE set).
InsistsHold ==
    \A t \in Threads :
        /\ pc[t] \in {"w_grant", "writing"} => writer_flag
        /\ pc[t] = "reading" => ~writer_flag /\ reader_count > 0

\* No lost wakeup: when every thread is either outside the lock or asleep on
\* one of its conditions, nobody is asleep, for nobody is left to wake them.
NoLostWakeup ==
    (\A t \in Threads : pc[t] = "idle" \/ t \in readable \cup writeable)
        => readable \cup writeable = {}

\* "In order to ensure the FIFO order": of the threads queueing for a write
\* lock, the one that takes it has the oldest ticket.  (Threads that jump
\* the queue by trylock or tryupgrade have no ticket.)
Queueing(t) == pc[t] \in {"w_turn", "w_recheck", "w_sleep_turn",
                          "w_cas", "w_busy", "w_sleep_cas"}
OlderTicket(t, u) ==
    (prev_writer[u] - prev_writer[t]) % Wrap \in 1 .. Cardinality(Queuers)

WriterFIFO ==
    [][\A t \in Threads :
            pc[t] = "w_cas" /\ pc'[t] = "w_grant" =>
                \A u \in Threads \ {t} : Queueing(u) => OlderTicket(t, u)]_vars

\* The lock implements the abstract reader/writer lock.
HoldModes == [t \in Threads |-> LockMode(t)]
Abstract == INSTANCE RWLockSpec WITH mode <- HoldModes
ImplementsRWLock == Abstract!Spec

\* Readers do not starve: a thread that calls isc_rwlock_lock for reading gets
\* the lock although writers keep coming back, because of the write quota.
ReadersServed ==
    \A t \in {u \in Threads : "read" \in Calls[u]} :
        pc[t] = "r_check" ~> pc[t] = "reading"
=============================================================================
