------------------------- MODULE RWLockAtomicProofs -------------------------
(***************************************************************************)
(* Proofs about the atomic reader/writer lock, for any number of threads,  *)
(* any write quota and any modulus of the ticket counters that is larger   *)
(* than the number of threads.                                             *)
(***************************************************************************)
EXTENDS RWLockAtomic, FiniteSetTheorems, TLAPS

\* The provers of every leaf that names none, with time to spare.
USE SMTT(30), ZenonT(30)

\* The threads at one of the labels L.
InLabels(L) == {t \in Threads : pc[t] \in L}

WriterLabels == {"w_grant", "writing", "tw_jump", "up_jump", "dg_flag"}
HoldLabels == {"r_reset", "reading", "dg_comp", "dg_wake"}
\* Where a thread is counted in reader_count, and in readers_waiting.
CountedLabels == HoldLabels \cup
    {"r_test", "r_busy", "r_sleep_again", "tr_cancel", "dg_flag"}
WaitLabels == {"r_sleep", "r_sleep_again"}

\* The two counters count what they should.
CountInv ==
    /\ reader_count = Cardinality(InLabels(CountedLabels))
    /\ readers_waiting = Cardinality(InLabels(WaitLabels))

\* writer_flag is set for as long as a thread writes; no two threads write,
\* and none reads beside a writer.
FlagInv ==
    \A t \in Threads : pc[t] \in WriterLabels =>
        /\ writer_flag
        /\ \A u \in Threads \ {t} : pc[u] \notin WriterLabels \cup HoldLabels

IndInv == TypeOK /\ CountInv /\ FlagInv

-----------------------------------------------------------------------------
(* Sets of labels *)

LEMMA LabelSets ==
    /\ CountedLabels \subseteq Labels
    /\ WriterLabels \subseteq Labels
    /\ HoldLabels \subseteq CountedLabels
BY DEF CountedLabels, WriterLabels, HoldLabels, Labels, CompareLabels, SleepLabels

LEMMA InLabelsFinite ==
    ASSUME NEW L
    PROVE  /\ IsFiniteSet(InLabels(L)) /\ Cardinality(InLabels(L)) \in Nat
           /\ (Cardinality(InLabels(L)) \in Nat)'
BY RWLockAssumption, FS_Subset, FS_CardinalityType DEF InLabels

\* A thread's move changes the population of L by at most one.
LEMMA Move ==
    ASSUME NEW t \in Threads, NEW STATE l, NEW L,
           pc \in [Threads -> Labels],
           Goto(t, l)
    PROVE  /\ pc[t] \in L /\ l \notin L =>
                Cardinality(InLabels(L))' = Cardinality(InLabels(L)) - 1
           /\ pc[t] \notin L /\ l \in L =>
                Cardinality(InLabels(L))' = Cardinality(InLabels(L)) + 1
           /\ (pc[t] \in L <=> l \in L) => InLabels(L)' = InLabels(L)
<1>1. CASE pc[t] \in L /\ l \notin L
  <2>1. InLabels(L)' = InLabels(L) \ {t} /\ t \in InLabels(L)
    BY <1>1 DEF InLabels, Goto
  <2> QED BY <1>1, <2>1, InLabelsFinite, FS_RemoveElement, Zenon
<1>2. CASE pc[t] \notin L /\ l \in L
  <2>1. InLabels(L)' = InLabels(L) \cup {t} /\ t \notin InLabels(L)
    BY <1>2 DEF InLabels, Goto
  <2> QED BY <1>2, <2>1, InLabelsFinite, FS_AddElement, Zenon
<1>3. CASE pc[t] \in L <=> l \in L
  BY <1>3 DEF InLabels, Goto
<1> QED BY <1>1, <1>2, <1>3

-----------------------------------------------------------------------------
(* What a step of one thread does to the invariant *)

\* A move that changes neither counter nor the populations they count.
LEMMA KeepCount ==
    ASSUME TypeOK, CountInv, NEW t \in Threads, NEW STATE l, Goto(t, l),
           UNCHANGED <<reader_count, readers_waiting>>,
           pc[t] \in CountedLabels <=> l \in CountedLabels,
           pc[t] \in WaitLabels <=> l \in WaitLabels
    PROVE  CountInv'
<1>1. pc \in [Threads -> Labels]
  BY DEF TypeOK
<1>2. InLabels(CountedLabels)' = InLabels(CountedLabels)
  BY <1>1, Move
<1>3. InLabels(WaitLabels)' = InLabels(WaitLabels)
  BY <1>1, Move
<1> QED BY <1>2, <1>3 DEF CountInv

\* A move into or out of the population of reader_count.
LEMMA MoveCounted ==
    ASSUME TypeOK, CountInv, NEW t \in Threads, NEW STATE l, Goto(t, l),
           UNCHANGED readers_waiting,
           pc[t] \in WaitLabels <=> l \in WaitLabels,
           \/ /\ pc[t] \notin CountedLabels /\ l \in CountedLabels
              /\ reader_count' = reader_count + 1
           \/ /\ pc[t] \in CountedLabels /\ l \notin CountedLabels
              /\ reader_count' = reader_count - 1
    PROVE  CountInv' /\ reader_count' \in Nat
<1>1. pc \in [Threads -> Labels]
  BY DEF TypeOK
<1>2. reader_count' = Cardinality(InLabels(CountedLabels))'
  BY <1>1, Move DEF CountInv
<1>3. InLabels(WaitLabels)' = InLabels(WaitLabels)
  BY <1>1, Move
<1>4. Cardinality(InLabels(CountedLabels))' \in Nat
  BY InLabelsFinite
<1> QED BY <1>2, <1>3, <1>4 DEF CountInv

\* A move into or out of the population of readers_waiting.
LEMMA MoveWaiting ==
    ASSUME TypeOK, CountInv, NEW t \in Threads, NEW STATE l, Goto(t, l),
           UNCHANGED reader_count,
           pc[t] \in CountedLabels <=> l \in CountedLabels,
           \/ /\ pc[t] \notin WaitLabels /\ l \in WaitLabels
              /\ readers_waiting' = readers_waiting + 1
           \/ /\ pc[t] \in WaitLabels /\ l \notin WaitLabels
              /\ readers_waiting' = readers_waiting - 1
    PROVE  CountInv' /\ readers_waiting' \in Nat
<1>1. pc \in [Threads -> Labels]
  BY DEF TypeOK
<1>2. readers_waiting' = Cardinality(InLabels(WaitLabels))'
  BY <1>1, Move DEF CountInv
<1>3. InLabels(CountedLabels)' = InLabels(CountedLabels)
  BY <1>1, Move
<1>4. Cardinality(InLabels(WaitLabels))' \in Nat
  BY InLabelsFinite
<1> QED BY <1>2, <1>3, <1>4 DEF CountInv

\* With no reader counted, nobody holds the lock for reading.
LEMMA NoneCounted ==
    ASSUME CountInv, reader_count = 0
    PROVE  \A u \in Threads : pc[u] \notin CountedLabels
<1>1. InLabels(CountedLabels) = {}
  BY InLabelsFinite, FS_EmptySet, Zenon DEF CountInv
<1> QED BY <1>1 DEF InLabels

\* A reader that is the only one counted is the only one there is.
LEMMA OneCounted ==
    ASSUME CountInv, reader_count = 1, NEW t \in Threads, pc[t] \in CountedLabels
    PROVE  \A u \in Threads \ {t} : pc[u] \notin CountedLabels
<1> DEFINE Others == InLabels(CountedLabels) \ {t}
<1>1. t \in InLabels(CountedLabels)
  BY DEF InLabels
<1>2. IsFiniteSet(Others)
  BY InLabelsFinite, FS_RemoveElement
<1>3. Cardinality(Others) = Cardinality(InLabels(CountedLabels)) - 1
  BY <1>1, InLabelsFinite, FS_RemoveElement, Zenon
<1>4. Others = {}
  BY <1>2, <1>3, FS_EmptySet DEF CountInv
<1> QED BY <1>4 DEF InLabels

\* Moves that keep the flag and take no lock keep FlagInv.
LEMMA KeepFlag ==
    ASSUME TypeOK, FlagInv, NEW t \in Threads, NEW STATE l, Goto(t, l),
           UNCHANGED writer_flag,
           \/ l \notin WriterLabels \cup HoldLabels
           \/ pc[t] \in WriterLabels /\ l \in WriterLabels
           \/ pc[t] \in HoldLabels /\ l \in HoldLabels
           \/ ~writer_flag /\ l \in HoldLabels
    PROVE  FlagInv'
<1> WriterLabels \cap HoldLabels = {}
  BY DEF WriterLabels, HoldLabels
<1> QED BY DEF FlagInv, Goto, TypeOK

\* Setting the flag beside no reader and no writer.
LEMMA TakeFlag ==
    ASSUME TypeOK, NEW t \in Threads, NEW STATE l, Goto(t, l), l \in WriterLabels,
           writer_flag',
           \A u \in Threads \ {t} : pc[u] \notin WriterLabels \cup HoldLabels
    PROVE  FlagInv'
BY DEF FlagInv, Goto, TypeOK

\* Clearing it: the one writer leaves, or stays as a reader.
LEMMA DropFlag ==
    ASSUME TypeOK, FlagInv, NEW t \in Threads, NEW STATE l, Goto(t, l),
           pc[t] \in WriterLabels, l \notin WriterLabels
    PROVE  FlagInv'
BY DEF FlagInv, Goto, TypeOK

-----------------------------------------------------------------------------
(* The invariant is inductive *)

LEMMA InitInv == Init => IndInv
<1> SUFFICES ASSUME Init PROVE IndInv
  OBVIOUS
<1>0. 0 \in Counters /\ 0 \in 0 .. WriteQuota
  BY RWLockAssumption DEF Counters
<1>1. TypeOK
  BY <1>0, Zenon DEF Init, TypeOK, Labels, Halves
<1>2. InLabels(CountedLabels) = {} /\ InLabels(WaitLabels) = {}
  BY DEF Init, InLabels, CountedLabels, HoldLabels, WaitLabels
<1>3. CountInv
  BY <1>2, FS_EmptySet DEF Init, CountInv
<1>4. FlagInv
  BY DEF Init, FlagInv, WriterLabels
<1> QED BY <1>1, <1>3, <1>4 DEF IndInv

\* The ticket counters stay within their range.
LEMMA TicketType ==
    /\ 0 \in Counters
    /\ \A n \in Counters : (n + 1) % Wrap \in Counters /\ (n + -1) % Wrap \in Counters
BY RWLockAssumption DEF Counters

-----------------------------------------------------------------------------
(* One case per kind of step *)

AnyStep(t) == Call(t) \/ UnlockCall(t) \/ Step(t) \/ SpuriousWakeup(t)

\* A step of a thread keeps the counters right.
LEMMA CountStep ==
    ASSUME TypeOK, CountInv, NEW t \in Threads, AnyStep(t)
    PROVE  CountInv'
<1> USE DEF At, lockVars, condVars, CountedLabels, HoldLabels, WaitLabels
<1>1. CASE LockReadCall(t) \/ TryReadCall(t) \/ ReadTest(t) \/
         WriteTurn(t) \/ UnlockQuota(t) \/ UnlockCount(t)
  BY <1>1, KeepCount, Zenon DEF LockReadCall, TryReadCall, ReadTest, WriteTurn,
     UnlockQuota, UnlockCount, Branch
<1>2. CASE ReadCheck(t) \/ TryReadCheck(t) \/ WakeWritersCheck(t) \/
         UnlockCheck(t)
  BY <1>2, KeepCount DEF ReadCheck, TryReadCheck, WakeWritersCheck,
     UnlockCheck, Compare, CompareSecond
<1>3. CASE ReadLockMutex(t) \/ ReadReset(t) \/ LockWriteCall(t)
  BY <1>3, KeepCount DEF ReadLockMutex, ReadReset, LockWriteCall
<1>4. CASE WriteGrant(t)
  BY <1>4, KeepCount DEF WriteGrant
<1>5. CASE ReadRecheck(t) \/ ReadBusy(t)
  BY <1>5, KeepCount, MoveWaiting DEF ReadRecheck, ReadBusy, CompareSecond,
     SleepReadable, MutexFree
<1>6. CASE ReadAwake(t)
  BY <1>6, MoveWaiting DEF ReadAwake, MutexFree
<1>7. CASE WriteRecheck(t) \/ WriteBusy(t) \/ WriteAwake(t)
  BY <1>7, KeepCount DEF WriteRecheck, WriteBusy, WriteAwake, SleepWriteable,
     MutexFree
<1>8. CASE WakeWriters(t) \/ UnlockReaders(t) \/ DowngradeWake(t)
  BY <1>8, KeepCount DEF WakeWriters, UnlockReaders, DowngradeWake,
     WakeReaders, MutexFree
<1>9. CASE ReadIncr(t) \/ TryReadIncr(t) \/ DowngradeCall(t)
  BY <1>9, MoveCounted DEF ReadIncr, TryReadIncr, DowngradeCall, AddReader
<1>10. CASE UnlockReadCall(t) \/ TryReadCancel(t)
  BY <1>10, MoveCounted DEF UnlockReadCall, TryReadCancel, ReleaseRead
<1>11. CASE WriteCas(t) \/ TryWriteCall(t)
  BY <1>11, KeepCount DEF WriteCas, TryWriteCall, SetFlag, Branch, CntIsZero
<1>12. CASE TryUpgradeCall(t)
  BY <1>12, MoveCounted DEF TryUpgradeCall, Upgrade
<1>13. CASE UnlockWriteCall(t) \/ DowngradeFlag(t)
  BY <1>13, KeepCount DEF UnlockWriteCall, DowngradeFlag, ClearFlag
<1>14. CASE TryWriteJump(t) \/ UpgradeJump(t) \/ DowngradeComplete(t) \/
         UnlockComplete(t)
  BY <1>14, KeepCount DEF TryWriteJump, UpgradeJump, DowngradeComplete,
     UnlockComplete, AddCompletion
<1>15. CASE CompareFirst(t) \/ SpuriousWakeup(t)
  BY <1>15, Zenon DEF CompareFirst, SpuriousWakeup, CountInv, InLabels
<1> QED
  BY <1>1, <1>2, <1>3, <1>4, <1>5, <1>6, <1>7, <1>8, <1>9, <1>10, <1>11,
     <1>12, <1>13, <1>14, <1>15 DEF AnyStep, Call, UnlockCall, Step

\* A step of a thread keeps writers alone.
LEMMA FlagStep ==
    ASSUME TypeOK, CountInv, FlagInv, NEW t \in Threads, AnyStep(t)
    PROVE  FlagInv'
<1> USE DEF At, lockVars, condVars, CountedLabels, HoldLabels, WriterLabels
<1>1. CASE LockReadCall(t) \/ TryReadCall(t) \/ ReadTest(t) \/
         WriteTurn(t) \/ UnlockQuota(t) \/ UnlockCount(t)
  BY <1>1, KeepFlag, Zenon DEF LockReadCall, TryReadCall, ReadTest, WriteTurn,
     UnlockQuota, UnlockCount, Branch
<1>2. CASE ReadCheck(t) \/ TryReadCheck(t) \/ WakeWritersCheck(t) \/
         UnlockCheck(t)
  BY <1>2, KeepFlag, Zenon DEF ReadCheck, TryReadCheck, WakeWritersCheck,
     UnlockCheck, Compare, CompareSecond
<1>3. CASE ReadLockMutex(t) \/ ReadReset(t) \/ LockWriteCall(t)
  BY <1>3, KeepFlag DEF ReadLockMutex, ReadReset, LockWriteCall
<1>4. CASE WriteGrant(t)
  BY <1>4, KeepFlag DEF WriteGrant
<1>5. CASE ReadRecheck(t) \/ ReadBusy(t)
  BY <1>5, KeepFlag DEF ReadRecheck, ReadBusy, CompareSecond, SleepReadable,
     MutexFree
<1>6. CASE ReadAwake(t)
  BY <1>6, KeepFlag DEF ReadAwake, MutexFree
<1>7. CASE WriteRecheck(t) \/ WriteBusy(t) \/ WriteAwake(t)
  BY <1>7, KeepFlag DEF WriteRecheck, WriteBusy, WriteAwake, SleepWriteable,
     MutexFree
<1>8. CASE WakeWriters(t) \/ UnlockReaders(t) \/ DowngradeWake(t)
  BY <1>8, KeepFlag DEF WakeWriters, UnlockReaders, DowngradeWake,
     WakeReaders, MutexFree
<1>9. CASE ReadIncr(t) \/ TryReadIncr(t) \/ DowngradeCall(t)
  BY <1>9, KeepFlag DEF ReadIncr, TryReadIncr, DowngradeCall, AddReader
<1>10. CASE UnlockReadCall(t) \/ TryReadCancel(t)
  BY <1>10, KeepFlag DEF UnlockReadCall, TryReadCancel, ReleaseRead
<1>11. CASE WriteCas(t) \/ TryWriteCall(t)
  BY <1>11, KeepFlag, NoneCounted, TakeFlag, Zenon DEF FlagInv, WriteCas, TryWriteCall,
     SetFlag, Branch, CntIsZero
<1>12. CASE TryUpgradeCall(t)
  BY <1>12, OneCounted, TakeFlag DEF FlagInv, TryUpgradeCall, Upgrade
<1>13. CASE UnlockWriteCall(t) \/ DowngradeFlag(t)
  BY <1>13, DropFlag DEF UnlockWriteCall, DowngradeFlag, ClearFlag
<1>14. CASE TryWriteJump(t) \/ UpgradeJump(t) \/ DowngradeComplete(t) \/
         UnlockComplete(t)
  BY <1>14, KeepFlag DEF TryWriteJump, UpgradeJump, DowngradeComplete,
     UnlockComplete, AddCompletion
<1>15. CASE CompareFirst(t) \/ SpuriousWakeup(t)
  BY <1>15 DEF CompareFirst, SpuriousWakeup, FlagInv
<1> QED
  BY <1>1, <1>2, <1>3, <1>4, <1>5, <1>6, <1>7, <1>8, <1>9, <1>10, <1>11,
     <1>12, <1>13, <1>14, <1>15, Zenon DEF AnyStep, Call, UnlockCall, Step

\* A step of a thread keeps the types right.
LEMMA TypeStep ==
    ASSUME TypeOK, CountInv, NEW t \in Threads, AnyStep(t)
    PROVE  TypeOK'
<1> USE TicketType
    DEF TypeOK, At, lockVars, condVars, Halves, Labels, CompareLabels, SleepLabels
<1>l. \A l \in Labels : Goto(t, l) => pc' \in [Threads -> Labels]
  BY DEF Goto
<1>c. reader_count' \in Nat /\ readers_waiting' \in Nat
  BY CountStep, InLabelsFinite DEF CountInv
<1>1. CASE LockReadCall(t) \/ TryReadCall(t) \/ ReadTest(t) \/
         WriteTurn(t) \/ UnlockQuota(t) \/ UnlockCount(t)
  BY <1>1, <1>l, Zenon DEF LockReadCall, TryReadCall, ReadTest, WriteTurn,
     UnlockQuota, UnlockCount, Branch
<1>2. CASE ReadCheck(t) \/ TryReadCheck(t) \/ WakeWritersCheck(t) \/
         UnlockCheck(t)
  BY <1>2, <1>l, Zenon DEF ReadCheck, TryReadCheck, WakeWritersCheck, UnlockCheck,
     Compare, CompareSecond
<1>3. CASE ReadLockMutex(t) \/ ReadReset(t) \/ LockWriteCall(t)
  BY <1>3, <1>l, RWLockAssumption DEF ReadLockMutex, ReadReset, LockWriteCall
<1>4. CASE WriteGrant(t)
  <2>1. write_granted' \in 0 .. WriteQuota
    BY <1>4, RWLockAssumption DEF WriteGrant
  <2> QED BY <1>4, <1>l, <2>1, Zenon DEF WriteGrant
<1>5. CASE ReadRecheck(t) \/ ReadBusy(t)
  BY <1>5, <1>l DEF ReadRecheck, ReadBusy, CompareSecond, SleepReadable,
     MutexFree
<1>6. CASE ReadAwake(t)
  BY <1>6, <1>l, <1>c, Zenon DEF ReadAwake, MutexFree
<1>7. CASE WriteRecheck(t) \/ WriteBusy(t) \/ WriteAwake(t)
  BY <1>7, <1>l DEF WriteRecheck, WriteBusy, WriteAwake, SleepWriteable,
     MutexFree
<1>8. CASE WakeWriters(t) \/ UnlockReaders(t) \/ DowngradeWake(t)
  BY <1>8, <1>l, Zenon DEF WakeWriters, UnlockReaders, DowngradeWake, WakeReaders,
     MutexFree
<1>9. CASE ReadIncr(t) \/ TryReadIncr(t) \/ DowngradeCall(t)
  BY <1>9, <1>l DEF ReadIncr, TryReadIncr, DowngradeCall, AddReader
<1>10. CASE UnlockReadCall(t) \/ TryReadCancel(t)
  BY <1>10, <1>l, <1>c, Zenon DEF UnlockReadCall, TryReadCancel, ReleaseRead
<1>11. CASE WriteCas(t) \/ TryWriteCall(t)
  BY <1>11, <1>l, Zenon DEF WriteCas, TryWriteCall, SetFlag, Branch, CntIsZero
<1>12. CASE TryUpgradeCall(t)
  BY <1>12, <1>l, <1>c, Zenon DEF TryUpgradeCall, Upgrade
<1>13. CASE UnlockWriteCall(t) \/ DowngradeFlag(t)
  BY <1>13, <1>l, Zenon DEF UnlockWriteCall, DowngradeFlag, ClearFlag
<1>14. CASE TryWriteJump(t) \/ UpgradeJump(t) \/ DowngradeComplete(t) \/
         UnlockComplete(t)
  BY <1>14, <1>l, Zenon DEF TryWriteJump, UpgradeJump, DowngradeComplete,
     UnlockComplete, AddCompletion
<1>15. CASE CompareFirst(t) \/ SpuriousWakeup(t)
  BY <1>15 DEF CompareFirst, SpuriousWakeup
<1> QED
  BY <1>1, <1>2, <1>3, <1>4, <1>5, <1>6, <1>7, <1>8, <1>9, <1>10, <1>11,
     <1>12, <1>13, <1>14, <1>15, Zenon DEF AnyStep, Call, UnlockCall, Step

\* The invariant is inductive.
LEMMA NextInv == IndInv /\ [Next]_vars => IndInv'
<1> SUFFICES ASSUME IndInv, [Next]_vars PROVE IndInv'
  OBVIOUS
<1>1. CASE \E t \in Threads : AnyStep(t)
  BY <1>1, TypeStep, CountStep, FlagStep DEF IndInv
<1>2. CASE UNCHANGED vars
  BY <1>2 DEF IndInv, TypeOK, CountInv, FlagInv, InLabels, vars, lockVars, condVars
<1> QED BY <1>1, <1>2 DEF Next, AnyStep

\* The state of the lock stays well-typed: no counter goes negative, however
\* the calls interleave.
THEOREM TypeCorrect == Spec => []TypeOK
<1>1. IndInv => TypeOK
  BY DEF IndInv
<1> QED BY <1>1, InitInv, NextInv, PTL DEF Spec

\* A writer is alone in the lock, for any number of threads.
THEOREM WritersAlone == Spec => []MutualExclusion
<1>1. IndInv => MutualExclusion
  BY DEF IndInv, FlagInv, MutualExclusion, LockMode, ModeAt, WriterLabels, HoldLabels
<1> QED BY <1>1, InitInv, NextInv, PTL DEF Spec

-----------------------------------------------------------------------------
(* The assertions of the lock *)

\* The flag is never left behind: while it is set somebody is writing.
FlagOwned == writer_flag => \E t \in Threads : pc[t] \in WriterLabels

\* A move that keeps the flag, by a thread that does not stop writing.
LEMMA KeepOwner ==
    ASSUME TypeOK, FlagOwned, NEW t \in Threads, NEW STATE l, Goto(t, l),
           UNCHANGED writer_flag,
           pc[t] \in WriterLabels => l \in WriterLabels
    PROVE  FlagOwned'
BY Zenon DEF FlagOwned, Goto, TypeOK

\* A step of a thread leaves no flag behind.
LEMMA OwnerStep ==
    ASSUME TypeOK, FlagOwned, NEW t \in Threads, AnyStep(t)
    PROVE  FlagOwned'
<1> USE DEF At, lockVars, condVars, WriterLabels
<1>1. CASE LockReadCall(t) \/ TryReadCall(t) \/ ReadTest(t) \/
         WriteTurn(t) \/ UnlockQuota(t) \/ UnlockCount(t)
  BY <1>1, KeepOwner, Zenon DEF LockReadCall, TryReadCall, ReadTest, WriteTurn,
     UnlockQuota, UnlockCount, Branch
<1>2. CASE ReadCheck(t) \/ TryReadCheck(t) \/ WakeWritersCheck(t) \/
         UnlockCheck(t)
  BY <1>2, KeepOwner DEF ReadCheck, TryReadCheck, WakeWritersCheck,
     UnlockCheck, Compare, CompareSecond
<1>3. CASE ReadLockMutex(t) \/ ReadReset(t) \/ LockWriteCall(t) \/ WriteGrant(t)
  BY <1>3, KeepOwner, Zenon DEF ReadLockMutex, ReadReset, LockWriteCall, WriteGrant
<1>4. CASE ReadRecheck(t) \/ ReadBusy(t) \/ ReadAwake(t)
  BY <1>4, KeepOwner DEF ReadRecheck, ReadBusy, ReadAwake, CompareSecond,
     SleepReadable, MutexFree
<1>5. CASE WriteRecheck(t) \/ WriteBusy(t) \/ WriteAwake(t)
  BY <1>5, KeepOwner, Zenon DEF WriteRecheck, WriteBusy, WriteAwake, SleepWriteable,
     MutexFree
<1>6. CASE WakeWriters(t) \/ UnlockReaders(t) \/ DowngradeWake(t)
  BY <1>6, KeepOwner DEF WakeWriters, UnlockReaders, DowngradeWake,
     WakeReaders, MutexFree
<1>7. CASE ReadIncr(t) \/ TryReadIncr(t) \/ DowngradeCall(t) \/
         UnlockReadCall(t) \/ TryReadCancel(t)
  BY <1>7, KeepOwner, Zenon DEF ReadIncr, TryReadIncr, DowngradeCall, UnlockReadCall,
     TryReadCancel, AddReader, ReleaseRead
<1>8. CASE TryWriteJump(t) \/ UpgradeJump(t) \/ DowngradeComplete(t) \/
         UnlockComplete(t) \/ (~CntIsZero /\ WriteCas(t))
  BY <1>8, KeepOwner, Zenon DEF TryWriteJump, UpgradeJump, DowngradeComplete,
     UnlockComplete, AddCompletion, WriteCas, Branch
<1>9. CASE (CntIsZero /\ WriteCas(t)) \/ TryWriteCall(t) \/ TryUpgradeCall(t)
  <2>1. pc'[t] \in WriterLabels
    BY <1>9, Zenon DEF TypeOK, WriteCas, TryWriteCall, TryUpgradeCall, Upgrade, SetFlag, Goto
  <2> QED BY <2>1 DEF FlagOwned
<1>10. CASE UnlockWriteCall(t) \/ DowngradeFlag(t)
  BY <1>10, Zenon DEF UnlockWriteCall, DowngradeFlag, ClearFlag, FlagOwned
<1>11. CASE CompareFirst(t) \/ SpuriousWakeup(t)
  BY <1>11, Zenon DEF CompareFirst, SpuriousWakeup, FlagOwned
<1> QED
  BY <1>1, <1>2, <1>3, <1>4, <1>5, <1>6, <1>7, <1>8, <1>9, <1>10, <1>11, Zenon
  DEF AnyStep, Call, UnlockCall, Step

\* The assertions of isc_rwlock_lock, isc_rwlock_tryupgrade and
\* isc_rwlock_downgrade never fail, for any number of threads.
THEOREM AssertionsHold == Spec => []InsistsHold
<1>1. IndInv /\ FlagOwned => InsistsHold
  <2> SUFFICES ASSUME IndInv, FlagOwned, NEW t \in Threads
               PROVE  /\ pc[t] \in {"w_grant", "writing"} => writer_flag
                      /\ pc[t] = "reading" => ~writer_flag /\ reader_count > 0
    BY DEF InsistsHold
  <2>1. pc[t] \in {"w_grant", "writing"} => writer_flag
    BY DEF IndInv, FlagInv, WriterLabels
  <2>2. pc[t] = "reading" => ~writer_flag
    BY DEF IndInv, FlagInv, FlagOwned, WriterLabels, HoldLabels
  <2>3. pc[t] = "reading" => reader_count # 0
    BY NoneCounted DEF IndInv, CountedLabels, HoldLabels
  <2>4. reader_count \in Nat
    BY DEF IndInv, TypeOK
  <2> QED BY <2>1, <2>2, <2>3, <2>4
<1>2. Init => FlagOwned
  BY DEF Init, FlagOwned
<1>3. IndInv /\ FlagOwned /\ [Next]_vars => FlagOwned'
  <2> SUFFICES ASSUME IndInv, FlagOwned, [Next]_vars PROVE FlagOwned'
    OBVIOUS
  <2>1. CASE \E t \in Threads : AnyStep(t)
    BY <2>1, OwnerStep DEF IndInv
  <2>2. CASE UNCHANGED vars
    BY <2>2, Zenon DEF FlagOwned, vars, lockVars
  <2> QED BY <2>1, <2>2 DEF Next, AnyStep
<1> QED BY <1>1, <1>2, <1>3, InitInv, NextInv, PTL DEF Spec

-----------------------------------------------------------------------------
(* The atomic lock implements the abstract one *)

\* ModeAt in terms of the label sets of the invariant.
LEMMA Modes ==
    ASSUME NEW l
    PROVE  /\ ModeAt(l) = "write" <=> l \in WriterLabels
           /\ ModeAt(l) = "read" <=> l \in HoldLabels
           /\ ModeAt(l) = "none" <=> l \notin WriterLabels \cup HoldLabels
BY DEF ModeAt, WriterLabels, HoldLabels

\* A move changes how its thread holds the lock, and nobody else's hold.
LEMMA MoveMode ==
    ASSUME TypeOK, NEW t \in Threads, NEW STATE l, Goto(t, l)
    PROVE  /\ HoldModes' = [HoldModes EXCEPT ![t] = ModeAt(l)]
           /\ ModeAt(l) = ModeAt(pc[t]) => HoldModes' = HoldModes
BY Zenon DEF TypeOK, Goto, HoldModes, LockMode

\* A step of a thread is a step of the abstract lock, or none.
LEMMA AbstractStep ==
    ASSUME IndInv, NEW t \in Threads, AnyStep(t)
    PROVE  [Abstract!Next]_HoldModes
<1> USE DEF IndInv, At, lockVars, condVars
<1>0. pc[t] \in Labels /\ \A u \in Threads : HoldModes[u] = ModeAt(pc[u])
  BY DEF TypeOK, HoldModes, LockMode
<1>1. CASE ReadTest(t) \/ TryReadIncr(t)
  <2>1. CASE writer_flag
    <3>1. \/ pc[t] = "r_test" /\ Goto(t, "r_busy")
          \/ pc[t] = "tr_incr" /\ Goto(t, "tr_cancel")
      BY <1>1, <2>1, Zenon DEF ReadTest, TryReadIncr, Branch, AddReader
    <3> QED BY <3>1, MoveMode, Modes DEF WriterLabels, HoldLabels
  <2>2. CASE ~writer_flag
    <3>1. \A u \in Threads : HoldModes[u] # "write"
      BY <1>0, <2>2, Modes DEF FlagInv
    <3>2. \/ pc[t] = "r_test" /\ Goto(t, "r_reset")
          \/ pc[t] = "tr_incr" /\ Goto(t, "reading")
      BY <1>1, <2>2 DEF ReadTest, TryReadIncr, Branch, AddReader
    <3>3. HoldModes[t] = "none" /\ HoldModes' = [HoldModes EXCEPT ![t] = "read"]
      BY <1>0, <3>2, MoveMode, Modes DEF WriterLabels, HoldLabels
    <3> QED BY <3>1, <3>3, Zenon DEF Abstract!Next, Abstract!LockRead
  <2> QED BY <2>1, <2>2
<1>2. CASE CntIsZero /\ (WriteCas(t) \/ TryWriteCall(t))
  <2>1. \A u \in Threads : HoldModes[u] = "none"
    BY <1>0, <1>2, Modes, NoneCounted, LabelSets DEF CntIsZero, FlagInv
  <2>2. HoldModes' = [HoldModes EXCEPT ![t] = "write"]
    <3>1. CASE WriteCas(t)
      BY <1>2, <3>1, MoveMode, Modes DEF WriteCas, SetFlag, WriterLabels
    <3>2. CASE TryWriteCall(t)
      BY <1>2, <3>2, MoveMode, Modes DEF TryWriteCall, SetFlag, WriterLabels
    <3> QED BY <1>2, <3>1, <3>2, Zenon
  <2> QED BY <2>1, <2>2, Zenon DEF Abstract!Next, Abstract!LockWrite
<1>3. CASE TryUpgradeCall(t)
  <2>1. \A u \in Threads \ {t} : HoldModes[u] = "none"
    BY <1>0, <1>3, Modes, OneCounted, LabelSets, Zenon
    DEF TryUpgradeCall, Upgrade, HoldLabels, FlagInv
  <2>2. HoldModes[t] = "read" /\ HoldModes' = [HoldModes EXCEPT ![t] = "write"]
    BY <1>0, <1>3, MoveMode, Modes DEF TryUpgradeCall, Upgrade, WriterLabels, HoldLabels
  <2> QED BY <2>1, <2>2, Zenon DEF Abstract!Next, Abstract!Upgrade, Abstract!Alone
<1>4. CASE DowngradeFlag(t)
  <2>1. HoldModes[t] = "write" /\ HoldModes' = [HoldModes EXCEPT ![t] = "read"]
    BY <1>0, <1>4, MoveMode, Modes DEF DowngradeFlag, ClearFlag, WriterLabels, HoldLabels
  <2> QED BY <2>1, Zenon DEF Abstract!Next, Abstract!Downgrade
<1>5. CASE UnlockReadCall(t) \/ UnlockWriteCall(t)
  <2>1. HoldModes[t] # "none" /\ HoldModes' = [HoldModes EXCEPT ![t] = "none"]
    BY <1>0, <1>5, MoveMode, Modes
    DEF UnlockReadCall, UnlockWriteCall, ReleaseRead, ClearFlag, WriterLabels, HoldLabels
  <2> QED BY <2>1, Zenon DEF Abstract!Next, Abstract!Unlock
<1> USE MoveMode, Modes DEF WriterLabels, HoldLabels
<1>6. CASE LockReadCall(t) \/ TryReadCall(t) \/ WriteTurn(t) \/ UnlockQuota(t) \/
         UnlockCount(t) \/ (~CntIsZero /\ WriteCas(t))
  <2>1. CASE LockReadCall(t) \/ TryReadCall(t) \/ WriteTurn(t)
    BY <2>1 DEF LockReadCall, TryReadCall, WriteTurn, Branch
  <2>2. CASE UnlockQuota(t) \/ UnlockCount(t) \/ (~CntIsZero /\ WriteCas(t))
    BY <2>2 DEF UnlockQuota, UnlockCount, WriteCas, Branch
  <2> QED BY <1>6, <2>1, <2>2, Zenon
<1>7. CASE ReadCheck(t) \/ TryReadCheck(t) \/ WakeWritersCheck(t) \/
         UnlockCheck(t)
  <2>1. CASE ReadCheck(t) \/ TryReadCheck(t)
    BY <2>1 DEF ReadCheck, TryReadCheck, Compare, CompareSecond
  <2>2. CASE WakeWritersCheck(t)
    BY <2>2 DEF WakeWritersCheck, Compare, CompareSecond
  <2>3. CASE UnlockCheck(t)
    BY <2>3 DEF UnlockCheck, Compare, CompareSecond
  <2> QED BY <1>7, <2>1, <2>2, <2>3, Zenon
<1>8. CASE ReadLockMutex(t) \/ ReadReset(t) \/ LockWriteCall(t) \/ WriteGrant(t)
  BY <1>8 DEF ReadLockMutex, ReadReset, LockWriteCall, WriteGrant
<1>9. CASE ReadRecheck(t) \/ ReadBusy(t) \/ ReadAwake(t)
  BY <1>9 DEF ReadRecheck, ReadBusy, ReadAwake, CompareSecond, SleepReadable
<1>10. CASE WriteRecheck(t) \/ WriteBusy(t) \/ WriteAwake(t)
  <2>1. CASE WriteRecheck(t)
    BY <2>1 DEF WriteRecheck, SleepWriteable
  <2>2. CASE WriteBusy(t) \/ WriteAwake(t)
    BY <2>2 DEF WriteBusy, WriteAwake, SleepWriteable
  <2> QED BY <1>10, <2>1, <2>2, Zenon
<1>11. CASE WakeWriters(t) \/ UnlockReaders(t) \/ DowngradeWake(t)
  BY <1>11 DEF WakeWriters, UnlockReaders, DowngradeWake
<1>12. CASE ReadIncr(t) \/ DowngradeCall(t) \/ TryReadCancel(t)
  BY <1>12 DEF ReadIncr, DowngradeCall, TryReadCancel, AddReader, ReleaseRead
<1>13. CASE TryWriteJump(t) \/ UpgradeJump(t) \/ DowngradeComplete(t) \/
         UnlockComplete(t)
  BY <1>13 DEF TryWriteJump, UpgradeJump, DowngradeComplete, UnlockComplete,
     AddCompletion
<1>14. CASE CompareFirst(t) \/ SpuriousWakeup(t)
  BY <1>14, Zenon DEF CompareFirst, SpuriousWakeup, HoldModes, LockMode
<1>15. TryWriteCall(t) => CntIsZero
  BY DEF TryWriteCall
<1> QED
  BY <1>1, <1>2, <1>3, <1>4, <1>5, <1>6, <1>7, <1>8, <1>9, <1>10, <1>11,
     <1>12, <1>13, <1>14, <1>15, Zenon DEF AnyStep, Call, UnlockCall, Step

\* Every behaviour of the lock of rwlock.c, seen through the modes in which
\* threads hold it, is one of the reader/writer lock of RWLockSpec.
THEOREM Refinement == Spec => ImplementsRWLock
<1>1. Init => Abstract!Init
  BY DEF Init, Abstract!Init, HoldModes, LockMode, ModeAt
<1>2. IndInv /\ [Next]_vars => [Abstract!Next]_HoldModes
  <2> SUFFICES ASSUME IndInv, [Next]_vars PROVE [Abstract!Next]_HoldModes
    OBVIOUS
  <2>1. CASE \E t \in Threads : AnyStep(t)
    BY <2>1, AbstractStep
  <2>2. CASE UNCHANGED vars
    BY <2>2 DEF vars, HoldModes, LockMode
  <2> QED BY <2>1, <2>2 DEF Next, AnyStep
<1> QED BY <1>1, <1>2, InitInv, NextInv, PTL DEF Spec, ImplementsRWLock, Abstract!Spec

-----------------------------------------------------------------------------
(* The writers' queue *)

\* Where a thread has a ticket it has not been served on, where it has been
\* told that it is its turn, and where a ticket of it, or a place at the head
\* of the queue it took without one, is not completed.
QueueLabels == {"w_turn", "w_recheck", "w_sleep_turn", "w_cas", "w_busy", "w_sleep_cas"}
HeadLabels == {"w_cas", "w_busy", "w_sleep_cas"}
TicketLabels == QueueLabels \cup {"w_grant", "writing", "dg_flag", "dg_comp", "uw_comp"}

\* How far the counter b is ahead of a, and the place of a ticket counted from
\* the end of the queue.
Ahead(a, b) == IF a <= b THEN b - a ELSE b - a + Wrap
Place(t) == Ahead(prev_writer[t], write_requests)

Queue == InLabels(QueueLabels)

\* write_requests is ahead of write_completions by the tickets not completed.
Outstanding ==
    Ahead(write_completions, write_requests) = Cardinality(InLabels(TicketLabels))

\* The queueing threads have the last tickets, one each and none missing, and
\* the thread whose turn it is has the first of them.
InLine ==
    /\ Queue \subseteq Queuers
    /\ \A t \in Queue : Place(t) \in 1 .. Cardinality(Queue)
    /\ \A t, u \in Queue : t # u => prev_writer[t] # prev_writer[u]
    /\ \A i \in 1 .. Cardinality(Queue) : \E t \in Queue : Place(t) = i
    /\ \A t \in InLabels(HeadLabels) : Place(t) = Cardinality(Queue)

TicketInv == Outstanding /\ InLine

LEMMA AheadFacts ==
    ASSUME NEW a \in Counters, NEW b \in Counters
    PROVE  /\ Ahead(a, b) \in 0 .. Wrap - 1
           /\ Ahead(a, b) = 0 <=> a = b
           /\ \A c \in Counters : Ahead(a, b) = Ahead(c, b) => a = c
           /\ Ahead(a, b) < Wrap - 1 => /\ Ahead(a, (b + 1) % Wrap) = Ahead(a, b) + 1
                                        /\ Ahead((a + -1) % Wrap, b) = Ahead(a, b) + 1
           /\ Ahead(a, b) > 0 => Ahead((a + 1) % Wrap, b) = Ahead(a, b) - 1
<1> USE RWLockAssumption DEF Counters, Ahead
<1>0. Cardinality(Threads) \in Nat /\ Wrap \in Nat \ {0}
  BY FS_CardinalityType
<1>1. \A n \in Counters : /\ (n + 1) % Wrap = IF n + 1 = Wrap THEN 0 ELSE n + 1
                          /\ (n + -1) % Wrap = IF n = 0 THEN Wrap - 1 ELSE n - 1
  BY <1>0
<1>2. Ahead(a, b) \in 0 .. Wrap - 1 /\ (Ahead(a, b) = 0 <=> a = b)
  BY <1>0
<1>3. \A c \in Counters : Ahead(a, b) = Ahead(c, b) => a = c
  BY <1>0
<1>4. Ahead(a, b) < Wrap - 1 => /\ Ahead(a, (b + 1) % Wrap) = Ahead(a, b) + 1
                                /\ Ahead((a + -1) % Wrap, b) = Ahead(a, b) + 1
  <2> DEFINE up == (b + 1) % Wrap
             down == (a + -1) % Wrap
  <2>1. /\ up = IF b + 1 = Wrap THEN 0 ELSE b + 1
        /\ down = IF a = 0 THEN Wrap - 1 ELSE a - 1
    BY <1>1
  <2> HIDE DEF up, down
  <2>2. Ahead(a, b) < Wrap - 1 => Ahead(a, up) = Ahead(a, b) + 1
    BY <1>0, <2>1
  <2>3. Ahead(a, b) < Wrap - 1 => Ahead(down, b) = Ahead(a, b) + 1
    BY <1>0, <2>1
  <2> QED BY <2>2, <2>3 DEF up, down
<1>5. Ahead(a, b) > 0 => Ahead((a + 1) % Wrap, b) = Ahead(a, b) - 1
  BY <1>0, <1>1
<1> QED BY <1>2, <1>3, <1>4, <1>5, Zenon

\* The counters tell any number of threads from none.
LEMMA Bounded ==
    ASSUME NEW L
    PROVE  /\ Cardinality(InLabels(L)) \in 0 .. Wrap - 1
           /\ \A t \in Threads : pc[t] \notin L => Cardinality(InLabels(L)) < Wrap - 1
           /\ \A M \in SUBSET L : Cardinality(InLabels(M)) <= Cardinality(InLabels(L))
<1>1. InLabels(L) \subseteq Threads /\ IsFiniteSet(Threads)
  BY RWLockAssumption DEF InLabels
<1>2. /\ Cardinality(InLabels(L)) \in Nat /\ Cardinality(Threads) \in Nat
      /\ Cardinality(InLabels(L)) <= Cardinality(Threads)
      /\ IsFiniteSet(InLabels(L))
  BY <1>1, FS_Subset, FS_CardinalityType
<1>3. ASSUME NEW t \in Threads, pc[t] \notin L
      PROVE  Cardinality(InLabels(L)) < Cardinality(Threads)
  <2>1. InLabels(L) \subseteq Threads \ {t}
    BY <1>3 DEF InLabels
  <2>2. IsFiniteSet(Threads \ {t}) /\ Cardinality(Threads \ {t}) = Cardinality(Threads) - 1
    BY <1>1, FS_RemoveElement
  <2>3. Cardinality(InLabels(L)) <= Cardinality(Threads \ {t})
    BY <2>1, <2>2, FS_Subset
  <2> QED BY <1>2, <2>2, <2>3
<1>4. ASSUME NEW M \in SUBSET L PROVE Cardinality(InLabels(M)) <= Cardinality(InLabels(L))
  <2>1. InLabels(M) \subseteq InLabels(L)
    BY DEF InLabels
  <2> QED BY <1>2, <2>1, FS_Subset
<1> QED BY <1>2, <1>3, <1>4, RWLockAssumption

LEMMA QueueSets ==
    /\ HeadLabels \subseteq QueueLabels /\ QueueLabels \subseteq TicketLabels
    /\ TicketLabels \subseteq Labels
BY DEF HeadLabels, QueueLabels, TicketLabels, Labels, CompareLabels, SleepLabels

LEMMA PlaceType ==
    ASSUME TypeOK
    PROVE  /\ \A t \in Threads : Place(t) \in 0 .. Wrap - 1
           /\ \A t, u \in Threads : Place(t) = Place(u) => prev_writer[t] = prev_writer[u]
BY AheadFacts DEF TypeOK, Place

\* A move that neither joins nor leaves the queue.
LEMMA KeepLine ==
    ASSUME TypeOK, InLine, NEW t \in Threads, NEW STATE l, Goto(t, l),
           UNCHANGED write_requests,
           \A u \in Queue : prev_writer'[u] = prev_writer[u],
           pc[t] \in QueueLabels <=> l \in QueueLabels,
           l \in HeadLabels => pc[t] \in HeadLabels \/ Place(t) = Cardinality(Queue)
    PROVE  InLine'
<1>1. Queue' = Queue
  BY Move DEF Queue, TypeOK
<1>2. \A u \in Queue : Place(u)' = Place(u) /\ prev_writer'[u] = prev_writer[u]
  BY Zenon DEF Place
<1>3. \A u \in InLabels(HeadLabels)' :
          u \in Queue /\ (u \in InLabels(HeadLabels) \/ Place(u) = Cardinality(Queue))
  <2> SUFFICES ASSUME NEW u \in Threads, pc'[u] \in HeadLabels
               PROVE  u \in Queue /\ (u \in InLabels(HeadLabels) \/ Place(u) = Cardinality(Queue))
    BY DEF InLabels
  <2>1. CASE u = t
    BY <2>1, QueueSets DEF TypeOK, Goto, Queue, InLabels
  <2>2. CASE u # t
    BY <2>2, QueueSets DEF TypeOK, Goto, Queue, InLabels
  <2> QED BY <2>1, <2>2, Zenon
<1> QED BY <1>1, <1>2, <1>3 DEF InLine, Queuers

\* A thread takes the next ticket.
LEMMA JoinLine ==
    ASSUME TypeOK, InLine, NEW t \in Threads, LockWriteCall(t)
    PROVE  InLine'
<1> DEFINE n == Cardinality(Queue)
<1>1. /\ pc[t] = "idle" /\ Goto(t, "w_turn")
      /\ prev_writer' = [prev_writer EXCEPT ![t] = write_requests]
      /\ write_requests' = (write_requests + 1) % Wrap
  BY DEF LockWriteCall, At
<1>2. t \notin Queue /\ Queue' = Queue \cup {t}
  BY <1>1 DEF Queue, InLabels, QueueLabels, Goto, TypeOK
<1>3. n \in Nat /\ n < Wrap - 1 /\ Cardinality(Queue)' = n + 1
  <2>1. pc[t] \notin QueueLabels /\ "w_turn" \in QueueLabels
    BY <1>1 DEF QueueLabels
  <2>2. Cardinality(Queue)' = n + 1
    BY <1>1, <2>1, Move DEF TypeOK, Queue
  <2> QED BY <2>1, <2>2, Bounded DEF Queue
<1>4. Wrap \in Nat /\ Wrap > 1
  BY RWLockAssumption, <1>3
<1>5. ASSUME NEW u \in Queue PROVE prev_writer'[u] = prev_writer[u] /\ Place(u)' = Place(u) + 1
  <2>1. u \in Threads /\ u # t
    BY <1>2 DEF Queue, InLabels
  <2>2. prev_writer'[u] = prev_writer[u]
    BY <1>1, <2>1 DEF TypeOK
  <2>3. Place(u) < Wrap - 1
    BY <1>3, <1>4 DEF InLine
  <2>4. Ahead(prev_writer[u], (write_requests + 1) % Wrap) = Place(u) + 1
    BY <2>1, <2>3, AheadFacts DEF TypeOK, Place
  <2> QED BY <1>1, <2>2, <2>4 DEF Place
<1>6. prev_writer'[t] = write_requests /\ Place(t)' = 1
  <2>1. prev_writer'[t] = write_requests
    BY <1>1 DEF TypeOK
  <2>2. Ahead(write_requests, write_requests) = 0
    BY AheadFacts DEF TypeOK
  <2>3. Ahead(write_requests, (write_requests + 1) % Wrap) = 1
    BY <1>4, <2>2, AheadFacts DEF TypeOK
  <2> QED BY <1>1, <2>1, <2>3 DEF Place
<1>7. \A u \in Queue : prev_writer[u] # write_requests
  <2>1. \A u \in Queue : Place(u) # 0
    BY DEF InLine
  <2> QED BY <2>1, AheadFacts DEF TypeOK, Place, Queue, InLabels
<1>8. InLabels(HeadLabels)' = InLabels(HeadLabels) /\ InLabels(HeadLabels) \subseteq Queue
  BY <1>1 DEF InLabels, HeadLabels, QueueLabels, Queue, Goto, TypeOK
<1>9. \A u \in Queue' : Place(u)' \in 1 .. Cardinality(Queue)'
  BY <1>2, <1>3, <1>5, <1>6 DEF InLine
<1>10. \A u, v \in Queue' : u # v => prev_writer'[u] # prev_writer'[v]
  BY <1>2, <1>5, <1>6, <1>7 DEF InLine
<1>11. ASSUME NEW i \in 1 .. Cardinality(Queue)' PROVE \E u \in Queue' : Place(u)' = i
  <2>1. CASE i = 1
    BY <2>1, <1>2, <1>6
  <2>2. CASE i # 1
    <3>1. i - 1 \in 1 .. n
      BY <1>3, <2>2
    <3>2. PICK u \in Queue : Place(u) = i - 1
      BY <3>1 DEF InLine
    <3> QED BY <1>2, <1>5, <3>2
  <2> QED BY <2>1, <2>2
<1>12. \A u \in InLabels(HeadLabels)' : Place(u)' = Cardinality(Queue)'
  BY <1>3, <1>5, <1>8 DEF InLine
<1>13. Queue' \subseteq Queuers
  BY <1>2 DEF InLine, Queuers, LockWriteCall
<1> QED BY <1>9, <1>10, <1>11, <1>12, <1>13 DEF InLine, Queuers

\* The thread whose turn it is leaves the queue.
LEMMA LeaveLine ==
    ASSUME TypeOK, InLine, NEW t \in Threads, NEW STATE l, Goto(t, l),
           pc[t] \in HeadLabels, l \notin QueueLabels,
           UNCHANGED <<write_requests, prev_writer>>
    PROVE  InLine'
<1> DEFINE n == Cardinality(Queue)
<1>1. t \in Queue /\ Queue' = Queue \ {t}
  BY QueueSets DEF Queue, InLabels, Goto, TypeOK
<1>2. n \in Nat /\ Cardinality(Queue)' = n - 1
  BY QueueSets, Move, InLabelsFinite DEF Queue, TypeOK
<1>3. \A u \in Threads : Place(u)' = Place(u)
  BY Zenon DEF Place
<1>4. Place(t) = n /\ t \in InLabels(HeadLabels)
  BY Zenon DEF InLine, InLabels
<1>5. ASSUME NEW u \in Queue', Place(u) = n PROVE FALSE
  <2>1. u \in Threads /\ u # t /\ u \in Queue
    BY <1>1, Zenon DEF Queue, InLabels
  <2>2. prev_writer[u] = prev_writer[t]
    BY <1>4, <1>5, <2>1, PlaceType, Zenon
  <2> QED BY <1>1, <2>1, <2>2, Zenon DEF InLine
<1>6. \A u \in Queue' : u \in Threads /\ u \in Queue
  BY <1>1, Zenon DEF Queue, InLabels
<1>7. \A u \in Queue' : Place(u)' \in 1 .. n - 1
  BY <1>2, <1>3, <1>5, <1>6 DEF InLine
<1>8. \A u, v \in Queue' : u # v => prev_writer'[u] # prev_writer'[v]
  BY <1>6, Zenon DEF InLine
<1>9. ASSUME NEW i \in 1 .. n - 1 PROVE \E u \in Queue' : Place(u)' = i
  <2>1. i \in 1 .. n /\ i # n
    BY <1>2
  <2>2. PICK u \in Queue : Place(u) = i
    BY <2>1 DEF InLine
  <2>3. u \in Queue'
    BY <1>1, <1>4, <2>1, <2>2
  <2> QED BY <1>3, <1>6, <2>2, <2>3
<1>10. InLabels(HeadLabels)' = {}
  <2> SUFFICES ASSUME NEW u \in Threads, pc'[u] \in HeadLabels PROVE FALSE
    BY Zenon DEF InLabels
  <2>1. u # t
    BY QueueSets DEF Goto, TypeOK
  <2>2. u \in InLabels(HeadLabels) /\ u \in Queue'
    BY <2>1, QueueSets DEF Goto, TypeOK, InLabels, Queue
  <2> QED BY <1>5, <2>2, Zenon DEF InLine
<1> QED BY <1>1, <1>2, <1>7, <1>8, <1>9, <1>10, Zenon DEF InLine, Queuers

\* A thread that finds its ticket in write_completions is the first in line.
LEMMA Turn ==
    ASSUME TypeOK, TicketInv, NEW t \in Queue, write_completions = prev_writer[t]
    PROVE  Place(t) = Cardinality(Queue)
<1>1. Place(t) = Cardinality(InLabels(TicketLabels))
  BY DEF TicketInv, Outstanding, Place
<1>2. Cardinality(Queue) <= Cardinality(InLabels(TicketLabels))
  BY QueueSets, Bounded DEF Queue
<1>3. Place(t) \in 1 .. Cardinality(Queue)
  BY DEF TicketInv, InLine
<1>4. Cardinality(Queue) \in Nat /\ Cardinality(InLabels(TicketLabels)) \in Nat
  BY InLabelsFinite DEF Queue
<1> QED BY <1>1, <1>2, <1>3, <1>4

\* A move that takes no ticket and completes none.
LEMMA KeepOutstanding ==
    ASSUME TypeOK, Outstanding, NEW t \in Threads, NEW STATE l, Goto(t, l),
           UNCHANGED <<write_requests, write_completions>>,
           pc[t] \in TicketLabels <=> l \in TicketLabels
    PROVE  Outstanding'
<1>1. InLabels(TicketLabels)' = InLabels(TicketLabels)
  BY Move DEF TypeOK
<1> QED BY <1>1 DEF Outstanding

\* A ticket, or the place at the head of the queue, is taken.
LEMMA TakeTicket ==
    ASSUME TypeOK, Outstanding, NEW t \in Threads, NEW STATE l, Goto(t, l),
           pc[t] \notin TicketLabels, l \in TicketLabels,
           \/ /\ write_requests' = (write_requests + 1) % Wrap
              /\ UNCHANGED write_completions
           \/ /\ write_completions' = (write_completions + -1) % Wrap
              /\ UNCHANGED write_requests
    PROVE  Outstanding'
<1>1. Cardinality(InLabels(TicketLabels))' = Cardinality(InLabels(TicketLabels)) + 1
  BY Move, Zenon DEF TypeOK
<1>2. Ahead(write_completions, write_requests) < Wrap - 1
  BY Bounded DEF Outstanding
<1>3. write_completions \in Counters /\ write_requests \in Counters
  BY DEF TypeOK
<1> QED BY <1>1, <1>2, <1>3, AheadFacts DEF Outstanding

\* A ticket is completed.
LEMMA CompleteTicket ==
    ASSUME TypeOK, Outstanding, NEW t \in Threads, NEW STATE l, Goto(t, l),
           pc[t] \in TicketLabels, l \notin TicketLabels,
           write_completions' = (write_completions + 1) % Wrap,
           UNCHANGED write_requests
    PROVE  Outstanding'
<1>1. Cardinality(InLabels(TicketLabels))' = Cardinality(InLabels(TicketLabels)) - 1
  BY Move, Zenon DEF TypeOK
<1>2. InLabels(TicketLabels) # {}
  BY DEF InLabels
<1>3. Cardinality(InLabels(TicketLabels)) \in Nat /\ Cardinality(InLabels(TicketLabels)) # 0
  BY <1>2, InLabelsFinite, FS_EmptySet
<1>4. write_completions \in Counters /\ write_requests \in Counters
  BY DEF TypeOK
<1> QED BY <1>1, <1>3, <1>4, AheadFacts DEF Outstanding

\* The two together, for a move that does not concern the queue.
LEMMA KeepTickets ==
    ASSUME TypeOK, TicketInv, NEW t \in Threads, NEW STATE l, Goto(t, l),
           UNCHANGED <<write_requests, write_completions, prev_writer>>,
           pc[t] \in TicketLabels <=> l \in TicketLabels,
           pc[t] \in QueueLabels <=> l \in QueueLabels,
           l \in HeadLabels => pc[t] \in HeadLabels
    PROVE  TicketInv'
BY KeepLine, KeepOutstanding DEF TicketInv

\* A step of a thread keeps the queue in order.
LEMMA TicketStep ==
    ASSUME TypeOK, TicketInv, NEW t \in Threads, AnyStep(t)
    PROVE  TicketInv'
<1> USE DEF At, lockVars, TicketLabels, QueueLabels, HeadLabels
<1>1. CASE LockReadCall(t) \/ TryReadCall(t) \/ ReadTest(t) \/
         UnlockQuota(t) \/ UnlockCount(t)
  BY <1>1, KeepTickets, Zenon DEF LockReadCall, TryReadCall, ReadTest,
     UnlockQuota, UnlockCount, Branch
<1>2. CASE ReadCheck(t) \/ TryReadCheck(t) \/ WakeWritersCheck(t) \/
         UnlockCheck(t)
  BY <1>2, KeepTickets, Zenon DEF ReadCheck, TryReadCheck, WakeWritersCheck,
     UnlockCheck, Compare, CompareSecond
<1>3. CASE ReadLockMutex(t) \/ ReadReset(t) \/ WakeWriters(t) \/ UnlockReaders(t) \/
         DowngradeWake(t)
  BY <1>3, KeepTickets, Zenon DEF ReadLockMutex, ReadReset, WakeWriters, UnlockReaders, DowngradeWake
<1>4. CASE ReadRecheck(t) \/ ReadBusy(t) \/ ReadAwake(t) \/ WriteAwake(t)
  BY <1>4, KeepTickets, Zenon DEF ReadRecheck, ReadBusy, ReadAwake, CompareSecond, SleepReadable,
     WriteAwake
<1>5. CASE WriteBusy(t) \/ (~CntIsZero /\ WriteCas(t))
  BY <1>5, KeepTickets, Zenon DEF WriteBusy, SleepWriteable, WriteCas, Branch
<1>6. CASE ReadIncr(t) \/ TryReadIncr(t) \/ DowngradeCall(t) \/ UnlockReadCall(t) \/
         TryReadCancel(t)
  BY <1>6, KeepTickets, Zenon DEF ReadIncr, TryReadIncr, DowngradeCall, UnlockReadCall,
     TryReadCancel, AddReader, ReleaseRead
<1>7. CASE TryWriteCall(t) \/ TryUpgradeCall(t) \/ UnlockWriteCall(t) \/ DowngradeFlag(t)
  BY <1>7, KeepTickets, Zenon DEF TryWriteCall, TryUpgradeCall, Upgrade, SetFlag, UnlockWriteCall,
     DowngradeFlag, ClearFlag
<1>8. CASE WriteTurn(t) \/ WriteRecheck(t)
  <2>1. PICK l \in {"w_cas", "w_recheck", "w_sleep_turn"} :
          /\ Goto(t, l) /\ pc[t] \in {"w_turn", "w_recheck"}
          /\ UNCHANGED <<write_requests, write_completions, prev_writer>>
          /\ l = "w_cas" => write_completions = prev_writer[t]
    BY <1>8, Zenon DEF WriteTurn, WriteRecheck, Branch, SleepWriteable
  <2>2. t \in Queue
    BY <2>1 DEF Queue, InLabels
  <2>3. l = "w_cas" => Place(t) = Cardinality(Queue)
    BY <2>1, <2>2, Turn
  <2>4. InLine'
    BY <2>1, <2>3, KeepLine, Zenon DEF TicketInv
  <2>5. Outstanding'
    BY <2>1, KeepOutstanding DEF TicketInv
  <2> QED BY <2>4, <2>5 DEF TicketInv
<1>9. CASE LockWriteCall(t)
  <2>1. InLine'
    BY <1>9, JoinLine DEF TicketInv
  <2>2. Outstanding'
    BY <1>9, TakeTicket, Zenon DEF TicketInv, LockWriteCall
  <2> QED BY <2>1, <2>2 DEF TicketInv
<1>10. CASE CntIsZero /\ WriteCas(t)
  <2>1. /\ pc[t] = "w_cas" /\ Goto(t, "w_grant")
        /\ UNCHANGED <<write_requests, write_completions, prev_writer>>
    BY <1>10 DEF WriteCas, SetFlag
  <2>2. InLine'
    BY <2>1, LeaveLine DEF TicketInv
  <2>3. Outstanding'
    BY <2>1, KeepOutstanding DEF TicketInv
  <2> QED BY <2>2, <2>3 DEF TicketInv
<1>11. CASE WriteGrant(t)
  <2>1. /\ pc[t] = "w_grant" /\ Goto(t, "writing")
        /\ UNCHANGED <<write_requests, write_completions>>
        /\ prev_writer' = [prev_writer EXCEPT ![t] = 0]
    BY <1>11 DEF WriteGrant
  <2>2. \A u \in Queue : prev_writer'[u] = prev_writer[u]
    BY <2>1 DEF TypeOK, Queue, InLabels
  <2>3. InLine'
    BY <2>1, <2>2, KeepLine DEF TicketInv
  <2>4. Outstanding'
    BY <2>1, KeepOutstanding DEF TicketInv
  <2> QED BY <2>3, <2>4 DEF TicketInv
<1>12. CASE TryWriteJump(t) \/ UpgradeJump(t)
  <2>1. PICK l \in {"w_grant", "writing"} :
          /\ pc[t] \in {"tw_jump", "up_jump"} /\ Goto(t, l)
          /\ UNCHANGED <<write_requests, prev_writer>>
          /\ write_completions' = (write_completions + -1) % Wrap
    BY <1>12, Zenon DEF TryWriteJump, UpgradeJump, AddCompletion
  <2>2. InLine'
    BY <2>1, KeepLine, Zenon DEF TicketInv
  <2>3. Outstanding'
    BY <2>1, TakeTicket DEF TicketInv
  <2> QED BY <2>2, <2>3 DEF TicketInv
<1>13. CASE DowngradeComplete(t) \/ UnlockComplete(t)
  <2>1. PICK l \in {"dg_wake", "uw_quota"} :
          /\ pc[t] \in {"dg_comp", "uw_comp"} /\ Goto(t, l)
          /\ UNCHANGED <<write_requests, prev_writer>>
          /\ write_completions' = (write_completions + 1) % Wrap
    BY <1>13 DEF DowngradeComplete, UnlockComplete, AddCompletion
  <2>2. InLine'
    BY <2>1, KeepLine DEF TicketInv
  <2>3. Outstanding'
    BY <2>1, CompleteTicket DEF TicketInv
  <2> QED BY <2>2, <2>3 DEF TicketInv
<1>14. CASE CompareFirst(t) \/ SpuriousWakeup(t)
  BY <1>14, Zenon DEF CompareFirst, SpuriousWakeup, TicketInv, Outstanding, InLine, Place,
     Queue, InLabels, Queuers
<1> QED
  BY <1>1, <1>2, <1>3, <1>4, <1>5, <1>6, <1>7, <1>8, <1>9, <1>10, <1>11,
     <1>12, <1>13, <1>14, Zenon DEF AnyStep, Call, UnlockCall, Step

LEMMA TicketInit == Init => TicketInv
<1> SUFFICES ASSUME Init PROVE TicketInv
  OBVIOUS
<1>1. InLabels(TicketLabels) = {} /\ Queue = {} /\ InLabels(HeadLabels) = {}
  BY DEF Init, InLabels, Queue, TicketLabels, QueueLabels, HeadLabels
<1>2. Cardinality({}) = 0 /\ Ahead(0, 0) = 0
  BY FS_EmptySet DEF Ahead
<1> QED BY <1>1, <1>2 DEF Init, TicketInv, Outstanding, InLine

\* The order of the queue is inductive.
LEMMA TicketNext == IndInv /\ TicketInv /\ [Next]_vars => TicketInv'
<1> SUFFICES ASSUME IndInv, TicketInv, [Next]_vars PROVE TicketInv'
  OBVIOUS
<1>1. CASE \E t \in Threads : AnyStep(t)
  BY <1>1, TicketStep DEF IndInv
<1>2. CASE UNCHANGED vars
  BY <1>2, Zenon DEF vars, lockVars, TicketInv, Outstanding, InLine, Place, Queue, InLabels, Queuers
<1> QED BY <1>1, <1>2 DEF Next, AnyStep

\* The counters are apart by the difference of the places.
LEMMA Difference ==
    ASSUME NEW a \in Counters, NEW b \in Counters, NEW c \in Counters,
           Ahead(a, c) > Ahead(b, c)
    PROVE  (b - a) % Wrap = Ahead(a, c) - Ahead(b, c)
<1> USE RWLockAssumption DEF Counters
<1>1. Wrap \in Nat \ {0}
  BY FS_CardinalityType
<1>2. \A d \in 0 .. Wrap - 1 : d % Wrap = d
  BY <1>1
<1>3. \A d \in 0 .. Wrap - 1 : (d - Wrap) % Wrap = d
  BY <1>1
<1> DEFINE d == Ahead(a, c) - Ahead(b, c)
<1>4. d \in 0 .. Wrap - 1 /\ (b - a = d \/ b - a = d - Wrap)
  BY <1>1 DEF Ahead
<1> HIDE DEF d
<1>5. (b - a) % Wrap = d
  BY <1>2, <1>3, <1>4
<1> QED BY <1>5 DEF d

\* Write locks are granted in the order in which isc_rwlock_lock was called:
\* the queueing thread whose cmpxchg succeeds has the oldest ticket.
THEOREM TicketOrder == Spec => WriterFIFO
<1> DEFINE Oldest == \A t \in Threads :
                        pc[t] = "w_cas" /\ pc'[t] = "w_grant" =>
                            \A u \in Threads \ {t} : Queueing(u) => OlderTicket(t, u)
<1>1. IndInv /\ TicketInv => [Oldest]_vars
  <2> SUFFICES ASSUME IndInv, TicketInv, NEW t \in Threads, pc[t] = "w_cas",
                      NEW u \in Threads \ {t}, Queueing(u)
               PROVE  OlderTicket(t, u)
    BY Zenon
  <2>1. t \in Queue /\ u \in Queue /\ t \in InLabels(HeadLabels)
    BY DEF Queueing, Queue, InLabels, QueueLabels, HeadLabels
  <2>2. /\ Place(t) = Cardinality(Queue) /\ Place(u) \in 1 .. Cardinality(Queue)
        /\ prev_writer[t] # prev_writer[u]
    BY <2>1, Zenon DEF TicketInv, InLine
  <2>3. Place(u) # Place(t)
    BY <2>2, PlaceType, Zenon DEF IndInv
  <2>4. Cardinality(Queue) \in Nat /\ Cardinality(Queue) <= Cardinality(Queuers)
    <3>1. Queue \subseteq Queuers /\ Queuers \subseteq Threads
      BY Zenon DEF TicketInv, InLine, Queuers
    <3> QED BY <3>1, RWLockAssumption, FS_Subset, FS_CardinalityType, Zenon
  <2>5. (prev_writer[u] - prev_writer[t]) % Wrap = Place(t) - Place(u)
    BY <2>2, <2>3, <2>4, Difference DEF Place, IndInv, TypeOK
  <2>6. Place(t) - Place(u) \in 1 .. Cardinality(Queuers)
    <3>1. Cardinality(Queuers) \in Nat
      BY RWLockAssumption, FS_Subset, FS_CardinalityType, Zenon DEF Queuers
    <3> QED BY <2>2, <2>3, <2>4, <3>1
  <2> QED BY <2>5, <2>6 DEF OlderTicket
<1> QED BY <1>1, InitInv, NextInv, TicketInit, TicketNext, PTL DEF Spec, WriterFIFO

-----------------------------------------------------------------------------
(* Nobody is left asleep *)

WriterSleep == {"w_sleep_turn", "w_sleep_cas"}

\* Who sleeps is in a WAIT; the second check of a reader holds the mutex; and
\* a comparison half done belongs to a thread that is comparing.
PlaceInv ==
    /\ readable \subseteq InLabels(WaitLabels)
    /\ writeable \subseteq InLabels(WriterSleep)
    /\ \A t \in Threads : pc[t] = "r_recheck" => mutex = t
    /\ \A t \in Threads : half[t] # NotRead => pc[t] \in CompareLabels

LEMMA KeepPlace ==
    ASSUME TypeOK, PlaceInv, NEW t \in Threads, NEW STATE l, Goto(t, l),
           readable' \subseteq readable \cup {t},
           t \in readable' => l \in WaitLabels,
           writeable' \subseteq writeable \cup {t},
           t \in writeable' => l \in WriterSleep,
           l = "r_recheck" => mutex' = t,
           mutex' = mutex \/ mutex \in {t, NoThread},
           half' = half \/ half' = [half EXCEPT ![t] = NotRead],
           half'[t] # NotRead => l \in CompareLabels
    PROVE  PlaceInv'
<1>1. \A u \in Threads \ {t} : pc'[u] = pc[u] /\ half'[u] = half[u]
  BY Zenon DEF Goto, TypeOK
<1>2. pc'[t] = l
  BY Zenon DEF Goto, TypeOK
<1>3. readable' \subseteq InLabels(WaitLabels)' /\ writeable' \subseteq InLabels(WriterSleep)'
  BY <1>1, <1>2, Zenon DEF PlaceInv, InLabels
<1>4. \A u \in Threads : pc'[u] = "r_recheck" => mutex' = u
  BY <1>1, <1>2, RWLockAssumption, Zenon DEF PlaceInv
<1>5. \A u \in Threads : half'[u] # NotRead => pc'[u] \in CompareLabels
  BY <1>1, <1>2, Zenon DEF PlaceInv
<1> QED BY <1>3, <1>4, <1>5, Zenon DEF PlaceInv

\* What a thread outside the WAITs and comparisons leaves alone.
LEMMA NotAsleep ==
    ASSUME PlaceInv, NEW t \in Threads
    PROVE  /\ pc[t] \notin WaitLabels => t \notin readable
           /\ pc[t] \notin WriterSleep => t \notin writeable
           /\ pc[t] \notin CompareLabels => half[t] = NotRead
BY DEF PlaceInv, InLabels

LEMMA PlaceStep ==
    ASSUME TypeOK, PlaceInv, NEW t \in Threads, AnyStep(t)
    PROVE  PlaceInv'
<1> USE NotAsleep DEF At, condVars, WaitLabels, WriterSleep, CompareLabels
<1>h. half[t] \in Halves /\ [half EXCEPT ![t] = NotRead][t] = NotRead
  BY DEF TypeOK
<1>1. CASE LockReadCall(t) \/ TryReadCall(t) \/ ReadTest(t) \/
         WriteTurn(t) \/ UnlockQuota(t) \/ UnlockCount(t)
  BY <1>1, KeepPlace, Zenon DEF LockReadCall, TryReadCall, ReadTest, WriteTurn,
     UnlockQuota, UnlockCount, Branch
<1>2. CASE ReadCheck(t) \/ TryReadCheck(t) \/ WakeWritersCheck(t) \/
         UnlockCheck(t)
  BY <1>2, <1>h, KeepPlace, Zenon DEF ReadCheck, TryReadCheck, WakeWritersCheck,
     UnlockCheck, Compare, CompareSecond
<1>3. CASE ReadLockMutex(t) \/ ReadReset(t) \/ LockWriteCall(t) \/ WriteGrant(t)
  BY <1>3, KeepPlace, Zenon DEF ReadLockMutex, ReadReset, LockWriteCall, WriteGrant
<1>4. CASE ReadRecheck(t)
  <2>1. mutex = t
    BY <1>4 DEF PlaceInv, ReadRecheck, CompareSecond
  <2> QED BY <1>4, <1>h, <2>1, KeepPlace, Zenon DEF ReadRecheck, CompareSecond, SleepReadable
<1>5. CASE ReadBusy(t) \/ ReadAwake(t)
  BY <1>5, KeepPlace, Zenon DEF ReadBusy, ReadAwake, SleepReadable, MutexFree
<1>6. CASE WriteRecheck(t) \/ WriteBusy(t) \/ WriteAwake(t)
  BY <1>6, KeepPlace, Zenon DEF WriteRecheck, WriteBusy, WriteAwake, SleepWriteable, MutexFree
<1>7. CASE WakeWriters(t) \/ UnlockReaders(t) \/ DowngradeWake(t)
  BY <1>7, KeepPlace, Zenon DEF WakeWriters, UnlockReaders, DowngradeWake, WakeReaders, MutexFree
<1>8. CASE ReadIncr(t) \/ TryReadIncr(t) \/ DowngradeCall(t) \/
         UnlockReadCall(t) \/ TryReadCancel(t)
  BY <1>8, KeepPlace, Zenon DEF ReadIncr, TryReadIncr, DowngradeCall, UnlockReadCall,
     TryReadCancel, AddReader, ReleaseRead
<1>9. CASE WriteCas(t) \/ TryWriteCall(t) \/ TryUpgradeCall(t)
  BY <1>9, KeepPlace, Zenon DEF WriteCas, TryWriteCall, TryUpgradeCall, Upgrade, SetFlag, Branch
<1>10. CASE UnlockWriteCall(t) \/ DowngradeFlag(t) \/ TryWriteJump(t) \/ UpgradeJump(t) \/
          DowngradeComplete(t) \/ UnlockComplete(t)
  BY <1>10, KeepPlace, Zenon DEF UnlockWriteCall, DowngradeFlag, ClearFlag, TryWriteJump,
     UpgradeJump, DowngradeComplete, UnlockComplete, AddCompletion
<1>11. CASE CompareFirst(t)
  <2>1. \A u \in Threads \ {t} : half'[u] = half[u]
    BY <1>11, Zenon DEF CompareFirst, TypeOK
  <2> QED BY <1>11, <2>1, Zenon DEF CompareFirst, PlaceInv, InLabels
<1>12. CASE SpuriousWakeup(t)
  BY <1>12, Zenon DEF SpuriousWakeup, PlaceInv, InLabels
<1> QED
  BY <1>1, <1>2, <1>3, <1>4, <1>5, <1>6, <1>7, <1>8, <1>9, <1>10, <1>11, <1>12, Zenon
  DEF AnyStep, Call, UnlockCall, Step

\* Readers that found the flag set sleep only while there is a thread that
\* wrote, and that has still to look for readers to wake.
AgainLabels == WriterLabels \cup
    {"uw_comp", "dg_comp", "dg_wake", "uw_quota", "uw_check", "uw_count", "uw_readers"}
AgainInv ==
    (\E r \in readable : pc[r] = "r_sleep_again") => InLabels(AgainLabels) # {}

\* BROADCAST wakes every reader: who sleeps on the condition is counted.
LEMMA AllWoken ==
    ASSUME TypeOK, CountInv, PlaceInv, WakeReaders
    PROVE  readable' = {}
<1>1. CASE readers_waiting > 0
  BY <1>1 DEF WakeReaders
<1>2. CASE ~(readers_waiting > 0)
  <2>1. readers_waiting = 0
    BY <1>2 DEF TypeOK
  <2>2. InLabels(WaitLabels) = {}
    BY <2>1, InLabelsFinite, FS_EmptySet, Zenon DEF CountInv
  <2> QED BY <1>2, <2>2 DEF WakeReaders, PlaceInv
<1> QED BY <1>1, <1>2

LEMMA KeepAgain ==
    ASSUME TypeOK, AgainInv, NEW t \in Threads, NEW STATE l, Goto(t, l),
           readable \subseteq Threads, readable' \subseteq readable \cup {t},
           ~(t \in readable' /\ l = "r_sleep_again"),
           pc[t] \in AgainLabels => l \in AgainLabels
    PROVE  AgainInv'
BY DEF AgainInv, InLabels, Goto, TypeOK

LEMMA AgainStep ==
    ASSUME IndInv, FlagOwned, PlaceInv, AgainInv, NEW t \in Threads, AnyStep(t)
    PROVE  AgainInv'
<1>t. TypeOK /\ CountInv /\ readable \subseteq Threads
  BY DEF IndInv, TypeOK
<1> USE DEF At, condVars, AgainLabels, WriterLabels
<1>1. CASE LockReadCall(t) \/ TryReadCall(t) \/ ReadTest(t) \/ WriteTurn(t) \/ UnlockQuota(t)
  BY <1>1, <1>t, KeepAgain, Zenon DEF LockReadCall, TryReadCall, ReadTest, WriteTurn,
     UnlockQuota, Branch
<1>2. CASE ReadCheck(t) \/ TryReadCheck(t) \/ WakeWritersCheck(t) \/
         UnlockCheck(t)
  BY <1>2, <1>t, KeepAgain, Zenon DEF ReadCheck, TryReadCheck, WakeWritersCheck,
     UnlockCheck, Compare, CompareSecond
<1>3. CASE ReadLockMutex(t) \/ ReadReset(t) \/ LockWriteCall(t) \/ WriteGrant(t)
  BY <1>3, <1>t, KeepAgain, Zenon DEF ReadLockMutex, ReadReset, LockWriteCall, WriteGrant
<1>4. CASE ReadRecheck(t) \/ ReadAwake(t) \/ (~writer_flag /\ ReadBusy(t))
  BY <1>4, <1>t, KeepAgain, Zenon DEF ReadRecheck, ReadBusy, ReadAwake, CompareSecond, SleepReadable
<1>5. CASE WriteRecheck(t) \/ WriteBusy(t) \/ WriteAwake(t) \/ WakeWriters(t)
  BY <1>5, <1>t, KeepAgain, Zenon DEF WriteRecheck, WriteBusy, WriteAwake, SleepWriteable, WakeWriters
<1>6. CASE UnlockReaders(t) \/ DowngradeWake(t)
  BY <1>6, <1>t, AllWoken DEF UnlockReaders, DowngradeWake, AgainInv
<1>7. CASE ReadIncr(t) \/ TryReadIncr(t) \/ DowngradeCall(t) \/
         UnlockReadCall(t) \/ TryReadCancel(t)
  BY <1>7, <1>t, KeepAgain, Zenon DEF ReadIncr, TryReadIncr, DowngradeCall, UnlockReadCall,
     TryReadCancel, AddReader, ReleaseRead
<1>8. CASE WriteCas(t) \/ TryWriteCall(t) \/ TryUpgradeCall(t)
  BY <1>8, <1>t, KeepAgain, Zenon DEF WriteCas, TryWriteCall, TryUpgradeCall, Upgrade, SetFlag, Branch
<1>9. CASE UnlockWriteCall(t) \/ DowngradeFlag(t) \/ TryWriteJump(t) \/ UpgradeJump(t) \/
         DowngradeComplete(t) \/ UnlockComplete(t)
  BY <1>9, <1>t, KeepAgain, Zenon DEF UnlockWriteCall, DowngradeFlag, ClearFlag, TryWriteJump,
     UpgradeJump, DowngradeComplete, UnlockComplete, AddCompletion
<1>10. CASE writer_flag /\ ReadBusy(t)
  <2>1. PICK u \in Threads : pc[u] \in WriterLabels
    BY <1>10 DEF FlagOwned
  <2>2. pc'[u] = pc[u]
    BY <1>10, <1>t, <2>1, Zenon DEF ReadBusy, SleepReadable, Goto, TypeOK
  <2> QED BY <2>1, <2>2 DEF AgainInv, InLabels
<1>11. CASE UnlockCount(t)
  <2>1. CASE reader_count # 0
    BY <1>11, <1>t, <2>1, KeepAgain DEF UnlockCount, Branch
  <2>2. CASE reader_count = 0
    <3>1. \A u \in Threads : pc[u] # "r_sleep_again"
      BY <1>t, <2>2, NoneCounted DEF CountedLabels
    <3>2. readable' = readable /\ Goto(t, "wakew_check")
      BY <1>11, <2>2 DEF UnlockCount, Branch
    <3> QED BY <1>t, <3>1, <3>2, Zenon DEF AgainInv, Goto, TypeOK
  <2> QED BY <2>1, <2>2
<1>12. CASE CompareFirst(t) \/ SpuriousWakeup(t)
  BY <1>12, Zenon DEF CompareFirst, SpuriousWakeup, AgainInv, InLabels
<1> QED
  BY <1>1, <1>2, <1>3, <1>4, <1>5, <1>6, <1>7, <1>8, <1>9, <1>10, <1>11, <1>12, Zenon
  DEF AnyStep, Call, UnlockCall, Step

-----------------------------------------------------------------------------
(* Readers that found a writer pending *)

\* Threads on account of which the lock is not idle.
BusyLabels == TicketLabels \cup {"tw_jump", "up_jump"}

\* A reader about to sleep because of a comparison that has become wrong, and
\* a thread on its way to wake the readers: it will find no writer pending.
Doubts(t) == pc[t] = "r_recheck" /\ half[t] # NotRead /\ half[t].value # write_requests
ReaderWaker(t) ==
    \/ pc[t] \in {"dg_wake", "uw_quota", "uw_readers"}
    \/ pc[t] = "uw_check" /\ (half[t] = NotRead \/ half[t].value = write_requests)

\* When the lock is idle, readers sleep, or are about to, only if somebody is
\* about to wake them.
Unsettled == readable # {} \/ \E t \in Threads : Doubts(t)
ReadersInv ==
    Unsettled /\ InLabels(BusyLabels) = {} => \E u \in Threads : ReaderWaker(u)

\* With nobody in it, the lock has no ticket outstanding.
LEMMA NonePending ==
    ASSUME TypeOK, TicketInv, InLabels(BusyLabels) = {}
    PROVE  write_requests = write_completions
<1>1. InLabels(TicketLabels) = {}
  BY DEF InLabels, BusyLabels
<1>2. Ahead(write_completions, write_requests) = 0
  BY <1>1, FS_EmptySet DEF TicketInv, Outstanding
<1> QED BY <1>2, AheadFacts, Zenon DEF TypeOK

LEMMA KeepReaders ==
    ASSUME TypeOK, ReadersInv, NEW t \in Threads, NEW STATE l, Goto(t, l),
           UNCHANGED write_requests,
           readable' \subseteq readable,
           \A u \in Threads \ {t} : half'[u] = half[u],
           l # "r_recheck" \/ half'[t] = NotRead,
           pc[t] \in BusyLabels => l \in BusyLabels,
           InLabels(BusyLabels) = {} /\ ReaderWaker(t) => ReaderWaker(t)'
    PROVE  ReadersInv'
<1> SUFFICES ASSUME Unsettled', InLabels(BusyLabels)' = {}
             PROVE  \E u \in Threads : ReaderWaker(u)'
  BY Zenon DEF ReadersInv
<1>1. pc'[t] = l /\ \A u \in Threads \ {t} : pc'[u] = pc[u]
  BY Zenon DEF Goto, TypeOK
<1>2. InLabels(BusyLabels) = {}
  BY <1>1, Zenon DEF InLabels
<1>3. \A u \in Threads \ {t} : Doubts(u)' => Doubts(u)
  BY <1>1, Zenon DEF Doubts
<1>4. ~Doubts(t)'
  BY <1>1, Zenon DEF Doubts
<1>5. Unsettled
  BY <1>3, <1>4, Zenon DEF Unsettled
<1>6. PICK u \in Threads : ReaderWaker(u)
  BY <1>2, <1>5, Zenon DEF ReadersInv
<1>7. u # t => ReaderWaker(u)'
  BY <1>1, <1>6, Zenon DEF ReaderWaker
<1> QED BY <1>2, <1>6, <1>7, Zenon

\* A thread that is not one of those the invariant speaks of.
LEMMA PassReaders ==
    ASSUME TypeOK, PlaceInv, ReadersInv, NEW t \in Threads, NEW STATE l, Goto(t, l),
           UNCHANGED write_requests, UNCHANGED readable,
           \A u \in Threads \ {t} : half'[u] = half[u],
           half'[t] = NotRead,
           pc[t] \in BusyLabels => l \in BusyLabels,
           pc[t] \notin {"dg_wake", "uw_quota", "uw_readers", "uw_check"}
    PROVE  ReadersInv'
<1>1. ~ReaderWaker(t)
  BY DEF ReaderWaker
<1> QED BY <1>1, KeepReaders, Zenon

\* A move into the lock leaves nothing to show.
LEMMA EnterBusy ==
    ASSUME TypeOK, NEW t \in Threads, NEW STATE l, Goto(t, l), l \in BusyLabels
    PROVE  ReadersInv'
BY DEF ReadersInv, InLabels, Goto, TypeOK

\* A move that makes the thread one that will wake the readers.
LEMMA BecomeWaker ==
    ASSUME TypeOK, NEW t \in Threads, Goto(t, "dg_wake") \/ Goto(t, "uw_quota")
    PROVE  ReadersInv'
BY DEF ReadersInv, ReaderWaker, Goto, TypeOK

LEMMA ReadersStep ==
    ASSUME IndInv, FlagOwned, TicketInv, PlaceInv, ReadersInv,
           NEW t \in Threads, AnyStep(t)
    PROVE  ReadersInv'
<1>t. TypeOK /\ CountInv /\ half[t] \in Halves
  BY DEF IndInv, TypeOK
<1>h. [half EXCEPT ![t] = NotRead][t] = NotRead
      /\ \A u \in Threads \ {t} : [half EXCEPT ![t] = NotRead][u] = half[u]
  BY <1>t DEF TypeOK
<1>b. {"idle", "reading", "r_recheck", "r_sleep", "uw_quota", "uw_check", "uw_count",
       "uw_readers", "wakew_check"} \cap BusyLabels = {}
      /\ WriterLabels \subseteq BusyLabels
  BY DEF BusyLabels, TicketLabels, QueueLabels, WriterLabels
<1> USE DEF At, lockVars, condVars
<1>1. CASE writer_flag /\ ReadBusy(t)
  <2>1. PICK u \in Threads : pc[u] \in WriterLabels
    BY <1>1 DEF FlagOwned
  <2>2. pc'[u] = pc[u]
    BY <1>1, <1>t, <2>1, Zenon DEF ReadBusy, SleepReadable, Goto, TypeOK, WriterLabels
  <2> QED BY <1>b, <2>1, <2>2, Zenon DEF ReadersInv, InLabels
<1>2. CASE UnlockQuota(t)
  <2>1. PICK l \in {"uw_check", "uw_readers"} : Goto(t, l)
    BY <1>2 DEF UnlockQuota, Branch
  <2>2. half'[t] = NotRead /\ pc'[t] = l
    BY <1>2, <1>t, <2>1, NotAsleep, Zenon DEF UnlockQuota, Branch, Goto, TypeOK, CompareLabels
  <2>3. ReaderWaker(t)'
    BY <2>2 DEF ReaderWaker
  <2> QED BY <1>2, <1>t, <1>b, <2>1, <2>2, <2>3, KeepReaders, Zenon DEF UnlockQuota, Branch
<1>3. CASE UnlockCheck(t)
  <2>1. CASE Pending(t)
    <3>1. Goto(t, "uw_count")
      BY <1>3, <2>1 DEF UnlockCheck, Compare
    <3>2. InLabels(BusyLabels) = {} => ~ReaderWaker(t)
      BY <1>3, <1>t, <2>1, NonePending, Zenon
      DEF UnlockCheck, Compare, CompareSecond, Pending, ReaderWaker
    <3> QED BY <1>3, <1>t, <1>h, <1>b, <3>1, <3>2, KeepReaders, Zenon
            DEF UnlockCheck, Compare, CompareSecond
  <2>2. CASE ~Pending(t)
    <3>1. Goto(t, "uw_readers")
      BY <1>3, <2>2 DEF UnlockCheck, Compare
    <3>2. ReaderWaker(t)'
      BY <1>t, <3>1, Zenon DEF ReaderWaker, Goto, TypeOK
    <3> QED BY <1>3, <1>t, <1>h, <1>b, <3>1, <3>2, KeepReaders, Zenon
            DEF UnlockCheck, Compare, CompareSecond
  <2> QED BY <2>1, <2>2
<1>4. CASE UnlockReaders(t) \/ DowngradeWake(t)
  <2>1. readable' = {}
    BY <1>4, <1>t, AllWoken, Zenon DEF UnlockReaders, DowngradeWake
  <2>2. \A u \in Threads : pc[u] # "r_recheck"
    BY <1>4, RWLockAssumption, Zenon DEF UnlockReaders, DowngradeWake, MutexFree, PlaceInv
  <2>3. PICK l \in {"idle", "wakew_check", "reading"} : Goto(t, l)
    BY <1>4 DEF UnlockReaders, DowngradeWake
  <2>4. \A u \in Threads : pc'[u] # "r_recheck"
    BY <1>t, <2>2, <2>3, Zenon DEF Goto, TypeOK
  <2> QED BY <2>1, <2>4, Zenon DEF ReadersInv, Unsettled, Doubts
<1>5. CASE ReadRecheck(t)
  <2>1. CASE Pending(t)
    <3> SUFFICES ASSUME InLabels(BusyLabels)' = {}
                 PROVE  \E u \in Threads : ReaderWaker(u)'
      BY DEF ReadersInv
    <3>1. Goto(t, "r_sleep") /\ pc[t] = "r_recheck" /\ half[t] # NotRead
      BY <1>5, <2>1 DEF ReadRecheck, SleepReadable, CompareSecond
    <3>2. \A u \in Threads \ {t} : pc'[u] = pc[u]
      BY <1>t, <3>1 DEF Goto, TypeOK
    <3>3. InLabels(BusyLabels) = {}
      BY <1>b, <3>1, <3>2 DEF InLabels
    <3>4. Doubts(t)
      BY <1>t, <2>1, <3>1, <3>3, NonePending DEF Doubts, Pending
    <3>5. PICK u \in Threads : ReaderWaker(u)
      BY <3>3, <3>4 DEF ReadersInv, Unsettled
    <3>6. u # t
      BY <3>1, <3>5, Zenon DEF ReaderWaker
    <3>7. half'[u] = half[u] /\ write_requests' = write_requests
      BY <1>5, <1>h, <3>6 DEF ReadRecheck, CompareSecond
    <3> QED BY <3>2, <3>5, <3>6, <3>7, Zenon DEF ReaderWaker
  <2>2. CASE ~Pending(t)
    BY <1>5, <1>t, <1>h, <1>b, <2>2, PassReaders, Zenon DEF ReadRecheck, CompareSecond
  <2> QED BY <2>1, <2>2
<1>6. CASE CompareFirst(t)
  <2> SUFFICES ASSUME Unsettled', InLabels(BusyLabels)' = {}
               PROVE  \E u \in Threads : ReaderWaker(u)'
    BY DEF ReadersInv
  <2>1. InLabels(BusyLabels) = {}
    BY <1>6, Zenon DEF CompareFirst, InLabels
  <2>2. write_requests = write_completions
    BY <1>t, <2>1, NonePending
  <2>3. /\ half'[t].value = write_requests
        /\ \A u \in Threads \ {t} : half'[u] = half[u]
    BY <1>6, <1>t, <2>2 DEF CompareFirst, TypeOK
  <2>4. \A u \in Threads : Doubts(u)' => Doubts(u)
    BY <1>6, <2>3, Zenon DEF CompareFirst, Doubts
  <2>5. Unsettled
    BY <1>6, <2>4, Zenon DEF CompareFirst, Unsettled
  <2>6. PICK u \in Threads : ReaderWaker(u)
    BY <2>1, <2>5 DEF ReadersInv
  <2>7. ReaderWaker(u)'
    BY <1>6, <2>3, <2>6, Zenon DEF CompareFirst, ReaderWaker
  <2> QED BY <2>7
<1>7. CASE SpuriousWakeup(t)
  BY <1>7, Zenon DEF SpuriousWakeup, ReadersInv, Unsettled, Doubts, ReaderWaker, InLabels
<1> USE NotAsleep DEF BusyLabels, TicketLabels, QueueLabels, CompareLabels
<1>8. CASE LockReadCall(t) \/ TryReadCall(t) \/ ReadTest(t) \/ WriteTurn(t) \/ UnlockCount(t)
  BY <1>8, <1>t, PassReaders, Zenon DEF LockReadCall, TryReadCall, ReadTest, WriteTurn,
     UnlockCount, Branch
<1>9. CASE ReadCheck(t) \/ TryReadCheck(t) \/ WakeWritersCheck(t)
  BY <1>9, <1>t, <1>h, PassReaders, Zenon DEF ReadCheck, TryReadCheck, WakeWritersCheck,
     Compare, CompareSecond
<1>10. CASE ReadLockMutex(t) \/ ReadReset(t) \/ WriteGrant(t)
  BY <1>10, <1>t, PassReaders, Zenon DEF ReadLockMutex, ReadReset, WriteGrant
<1>11. CASE ReadAwake(t) \/ (~writer_flag /\ ReadBusy(t))
  BY <1>11, <1>t, PassReaders, Zenon DEF ReadBusy, ReadAwake
<1>12. CASE WriteRecheck(t) \/ WriteBusy(t) \/ WriteAwake(t) \/ WakeWriters(t)
  BY <1>12, <1>t, PassReaders, Zenon DEF WriteRecheck, WriteBusy, WriteAwake, SleepWriteable, WakeWriters
<1>13. CASE ReadIncr(t) \/ TryReadIncr(t) \/ DowngradeCall(t) \/
         UnlockReadCall(t) \/ TryReadCancel(t)
  BY <1>13, <1>t, PassReaders, Zenon DEF ReadIncr, TryReadIncr, DowngradeCall, UnlockReadCall,
     TryReadCancel, AddReader, ReleaseRead
<1>14. CASE WriteCas(t) \/ UnlockWriteCall(t) \/ DowngradeFlag(t)
  BY <1>14, <1>t, PassReaders, Zenon DEF WriteCas, SetFlag, Branch, UnlockWriteCall,
     DowngradeFlag, ClearFlag
<1>15. CASE LockWriteCall(t) \/ TryWriteCall(t) \/ TryUpgradeCall(t) \/
         TryWriteJump(t) \/ UpgradeJump(t)
  BY <1>15, <1>t, EnterBusy, Zenon DEF LockWriteCall, TryWriteCall, TryUpgradeCall, Upgrade, SetFlag,
     TryWriteJump, UpgradeJump, AddCompletion
<1>16. CASE DowngradeComplete(t) \/ UnlockComplete(t)
  BY <1>16, <1>t, BecomeWaker, Zenon DEF DowngradeComplete, UnlockComplete, AddCompletion
<1> QED
  BY <1>1, <1>2, <1>3, <1>4, <1>5, <1>6, <1>7, <1>8, <1>9, <1>10, <1>11, <1>12,
     <1>13, <1>14, <1>15, <1>16, Zenon
  DEF AnyStep, Call, UnlockCall, Step

-----------------------------------------------------------------------------
(* Writers asleep *)

\* Places from which a thread goes on, by itself or through those it wakes, to
\* look for sleeping writers.
MindLabels == WriterLabels \cup CountedLabels \cup
    {"r_incr", "uw_comp", "uw_quota", "uw_check", "uw_count", "uw_readers", "wakew"}

\* A reader that was woken does so as well; so does a thread whose comparison
\* is bound to find a writer pending; and the first in line, when it is awake,
\* takes the lock.
WriterWaker(t) ==
    \/ pc[t] \in MindLabels
    \/ pc[t] = "r_sleep" /\ t \notin readable
    \/ pc[t] = "wakew_check" /\
         \/ half[t] = NotRead
         \/ half[t].operand = "write_requests" /\ half[t].value # write_completions
         \/ half[t].operand = "write_completions" /\ half[t].value = write_completions
AwakeHead(t) ==
    pc[t] \in QueueLabels /\ t \notin writeable /\ prev_writer[t] = write_completions
Minder(t) == WriterWaker(t) \/ AwakeHead(t)

WritersInv == writeable # {} => \E u \in Threads : Minder(u)

LEMMA KeepWriters ==
    ASSUME TypeOK, WritersInv, NEW t \in Threads, NEW STATE l, Goto(t, l),
           UNCHANGED write_completions,
           readable' \subseteq readable \cup {t},
           writeable' \subseteq writeable \cup {t},
           writeable' # {} => writeable # {},
           \A u \in Threads \ {t} : half'[u] = half[u] /\ prev_writer'[u] = prev_writer[u],
           writeable # {} /\ Minder(t) => Minder(t)'
    PROVE  WritersInv'
<1> SUFFICES ASSUME writeable' # {} PROVE \E u \in Threads : Minder(u)'
  BY Zenon DEF WritersInv
<1>1. PICK u \in Threads : Minder(u)
  BY Zenon DEF WritersInv
<1>2. u # t => Minder(u)'
  BY <1>1, Zenon DEF Minder, WriterWaker, AwakeHead, Goto, TypeOK
<1> QED BY <1>1, <1>2, Zenon

\* A move of a thread on which no writer depends.
LEMMA PassWriters ==
    ASSUME TypeOK, WritersInv, NEW t \in Threads, NEW STATE l, Goto(t, l),
           UNCHANGED write_completions,
           readable' \subseteq readable \cup {t},
           writeable' = writeable,
           \A u \in Threads \ {t} : half'[u] = half[u] /\ prev_writer'[u] = prev_writer[u],
           pc[t] \notin MindLabels \cup QueueLabels \cup {"r_sleep", "wakew_check"}
    PROVE  WritersInv'
<1>1. ~Minder(t)
  BY Zenon DEF Minder, WriterWaker, AwakeHead
<1> QED BY <1>1, KeepWriters, Zenon

\* A move of a queueing thread that stays awake, and stays in the queue.
LEMMA QueueWriters ==
    ASSUME TypeOK, WritersInv, NEW t \in Threads, NEW STATE l, Goto(t, l),
           UNCHANGED <<write_completions, readable, writeable, half, prev_writer>>,
           pc[t] \in QueueLabels, l \in QueueLabels
    PROVE  WritersInv'
<1>1. ~WriterWaker(t)
  BY Zenon DEF WriterWaker, QueueLabels, MindLabels, WriterLabels, CountedLabels, HoldLabels
<1>2. AwakeHead(t) => AwakeHead(t)'
  BY DEF AwakeHead, Goto, TypeOK
<1>3. Minder(t) => Minder(t)'
  BY <1>1, <1>2 DEF Minder
<1> QED BY <1>3, KeepWriters, Zenon

\* A move to one of the places above.
LEMMA MindWriters ==
    ASSUME TypeOK, NEW t \in Threads, NEW STATE l, Goto(t, l), l \in MindLabels
    PROVE  WritersInv'
BY Zenon DEF WritersInv, Minder, WriterWaker, Goto, TypeOK

\* Somebody else minds.
LEMMA OtherMinds ==
    ASSUME TypeOK, NEW t \in Threads, NEW STATE l, Goto(t, l),
           NEW u \in Threads \ {t}, pc[u] \in MindLabels
    PROVE  WritersInv'
BY Zenon DEF WritersInv, Minder, WriterWaker, Goto, TypeOK

\* A reader that is not the only one counted leaves another one behind.
LEMMA OtherCounted ==
    ASSUME TypeOK, CountInv, NEW t \in Threads,
           IF pc[t] \in CountedLabels THEN reader_count # 1 ELSE reader_count # 0
    PROVE  \E u \in Threads \ {t} : pc[u] \in CountedLabels
<1> SUFFICES ASSUME \A u \in Threads \ {t} : pc[u] \notin CountedLabels
             PROVE  FALSE
  OBVIOUS
<1>1. CASE pc[t] \in CountedLabels
  <2>1. InLabels(CountedLabels) = {t}
    BY <1>1 DEF InLabels
  <2> QED BY <1>1, <2>1, FS_Singleton, Zenon DEF CountInv
<1>2. CASE pc[t] \notin CountedLabels
  <2>1. InLabels(CountedLabels) = {}
    BY <1>2 DEF InLabels
  <2> QED BY <1>2, <2>1, FS_EmptySet, Zenon DEF CountInv
<1> QED BY <1>1, <1>2

\* While a writer sleeps there is a ticket outstanding.
LEMMA TicketsLeft ==
    ASSUME TypeOK, TicketInv, PlaceInv, writeable # {}
    PROVE  write_requests # write_completions
<1>1. InLabels(TicketLabels) # {}
  BY DEF PlaceInv, InLabels, WriterSleep, TicketLabels, QueueLabels
<1>2. Cardinality(InLabels(TicketLabels)) # 0
  BY <1>1, InLabelsFinite, FS_EmptySet
<1> QED BY <1>2, AheadFacts DEF TypeOK, TicketInv, Outstanding

\* There is always a first in line: a thread whose turn it is, or one that has
\* been served and has not completed.
LEMMA HeadExists ==
    ASSUME TypeOK, TicketInv, Queue # {}
    PROVE  \/ \E u \in Threads : pc[u] \in TicketLabels \ QueueLabels
           \/ \E u \in Queue : prev_writer[u] = write_completions
<1> SUFFICES ASSUME ~\E u \in Threads : pc[u] \in TicketLabels \ QueueLabels
             PROVE  \E u \in Queue : prev_writer[u] = write_completions
  OBVIOUS
<1>1. InLabels(TicketLabels) = Queue
  BY QueueSets DEF InLabels, Queue
<1>2. Cardinality(Queue) \in Nat /\ Cardinality(Queue) # 0
  BY InLabelsFinite, FS_EmptySet DEF Queue
<1>3. PICK u \in Queue : Place(u) = Cardinality(Queue)
  BY <1>2 DEF TicketInv, InLine
<1>4. Ahead(prev_writer[u], write_requests) = Ahead(write_completions, write_requests)
  BY <1>1, <1>3 DEF Place, TicketInv, Outstanding
<1>5. prev_writer[u] \in Counters
  BY DEF Queue, InLabels, TypeOK
<1> QED BY <1>4, <1>5, AheadFacts DEF TypeOK

\* A WAIT for the turn, and one for the lock: there is somebody to end it.
LEMMA SleepTurn ==
    ASSUME IndInv, TicketInv, PlaceInv, WritersInv, NEW t \in Threads,
           WriteRecheck(t), write_completions # prev_writer[t]
    PROVE  WritersInv'
<1>1. /\ TypeOK /\ Goto(t, "w_sleep_turn") /\ pc[t] = "w_recheck"
      /\ writeable' = writeable \cup {t}
      /\ UNCHANGED <<write_completions, readable, half, prev_writer>>
  BY DEF IndInv, WriteRecheck, At, SleepWriteable, lockVars
<1>2. ~Minder(t)
  BY <1>1, Zenon DEF Minder, WriterWaker, AwakeHead, MindLabels, WriterLabels, CountedLabels, HoldLabels
<1>3. CASE writeable # {}
  BY <1>1, <1>2, <1>3, KeepWriters, Zenon
<1>4. CASE writeable = {}
  <2>1. Queue # {}
    BY <1>1 DEF Queue, InLabels, QueueLabels
  <2>2. CASE \E u \in Threads : pc[u] \in TicketLabels \ QueueLabels
    <3>1. PICK u \in Threads : pc[u] \in TicketLabels \ QueueLabels
      BY <2>2
    <3>2. pc[u] \in MindLabels /\ u # t
      BY <1>1, <3>1, Zenon DEF TicketLabels, QueueLabels, MindLabels, WriterLabels, CountedLabels, HoldLabels
    <3> QED BY <1>1, <3>2, OtherMinds
  <2>3. CASE \E u \in Queue : prev_writer[u] = write_completions
    <3>1. PICK u \in Queue : prev_writer[u] = write_completions
      BY <2>3
    <3>2. u \in Threads /\ pc[u] \in QueueLabels /\ u # t
      BY <3>1 DEF Queue, InLabels
    <3>3. pc'[u] = pc[u] /\ u \notin writeable'
      BY <1>1, <1>4, <3>2 DEF Goto, TypeOK
    <3>4. AwakeHead(u)'
      BY <1>1, <3>1, <3>2, <3>3, Zenon DEF AwakeHead
    <3> QED BY <3>2, <3>4, Zenon DEF WritersInv, Minder
  <2> QED BY <1>1, <2>1, <2>2, <2>3, HeadExists, Zenon
<1> QED BY <1>3, <1>4

LEMMA SleepCas ==
    ASSUME IndInv, FlagOwned, NEW t \in Threads, WriteBusy(t), ~CntIsZero
    PROVE  WritersInv'
<1>1. TypeOK /\ CountInv /\ Goto(t, "w_sleep_cas") /\ pc[t] = "w_busy"
  BY DEF IndInv, WriteBusy, At, SleepWriteable
<1>2. pc[t] \notin WriterLabels \cup CountedLabels
  BY <1>1 DEF WriterLabels, CountedLabels, HoldLabels
<1>3. PICK u \in Threads \ {t} : pc[u] \in WriterLabels \cup CountedLabels
  BY <1>1, <1>2, OtherCounted DEF CntIsZero, FlagOwned
<1> QED BY <1>1, <1>3, OtherMinds DEF MindLabels

\* A reader that leaves looks for writers, or leaves somebody who will.
LEMMA LeaveRead ==
    ASSUME IndInv, FlagOwned, PlaceInv, NEW t \in Threads,
           UnlockReadCall(t) \/ TryReadCancel(t)
    PROVE  WritersInv'
<1>1. /\ TypeOK /\ CountInv
      /\ Goto(t, IF ~writer_flag /\ reader_count = 1 THEN "wakew_check" ELSE "idle")
      /\ pc[t] \in {"reading", "tr_cancel"} /\ half' = half
  BY DEF IndInv, UnlockReadCall, TryReadCancel, ReleaseRead, At
<1>2. CASE ~writer_flag /\ reader_count = 1
  <2>1. half'[t] = NotRead /\ pc'[t] = "wakew_check"
    BY <1>1, <1>2, NotAsleep DEF CompareLabels, Goto, TypeOK
  <2> QED BY <2>1, Zenon DEF WritersInv, Minder, WriterWaker
<1>3. CASE writer_flag \/ reader_count # 1
  <2>1. pc[t] \in CountedLabels /\ pc[t] \notin WriterLabels
    BY <1>1 DEF WriterLabels, CountedLabels, HoldLabels
  <2>2. PICK u \in Threads \ {t} : pc[u] \in WriterLabels \cup CountedLabels
    BY <1>1, <1>3, <2>1, OtherCounted DEF FlagOwned
  <2> QED BY <1>1, <2>2, OtherMinds DEF MindLabels
<1> QED BY <1>2, <1>3

\* wakeup_writers is given up only in favour of readers that were woken.
LEMMA PreferReaders ==
    ASSUME IndInv, PlaceInv, NEW t \in Threads, UnlockReaders(t)
    PROVE  WritersInv'
<1>1. /\ TypeOK /\ CountInv /\ WakeReaders /\ half' = half
      /\ Goto(t, IF readers_waiting > 0 THEN "idle" ELSE "wakew_check")
      /\ pc[t] = "uw_readers"
  BY DEF IndInv, UnlockReaders, At
<1>2. CASE readers_waiting > 0
  <2>1. InLabels(WaitLabels) # {}
    BY <1>1, <1>2, FS_EmptySet DEF CountInv
  <2>2. PICK u \in Threads : pc[u] \in WaitLabels
    BY <2>1 DEF InLabels
  <2>3. readable' = {} /\ pc'[u] = pc[u]
    BY <1>1, <1>2, <2>2 DEF WakeReaders, Goto, TypeOK, WaitLabels
  <2>4. Minder(u)'
    BY <2>2, <2>3, Zenon DEF Minder, WriterWaker, WaitLabels, MindLabels, CountedLabels
  <2> QED BY <2>4 DEF WritersInv
<1>3. CASE ~(readers_waiting > 0)
  <2>1. half'[t] = NotRead /\ pc'[t] = "wakew_check"
    BY <1>1, <1>3, NotAsleep DEF CompareLabels, Goto, TypeOK
  <2> QED BY <2>1, Zenon DEF WritersInv, Minder, WriterWaker
<1> QED BY <1>2, <1>3

\* While a writer sleeps, a comparison begun on its behalf finds it pending.
LEMMA FindPending ==
    ASSUME TypeOK, TicketInv, PlaceInv, WritersInv, NEW t \in Threads, WakeWritersCheck(t)
    PROVE  WritersInv'
<1>1. /\ pc[t] = "wakew_check" /\ half[t] # NotRead
      /\ half' = [half EXCEPT ![t] = NotRead]
      /\ UNCHANGED <<write_completions, readable, writeable, prev_writer>>
  BY Zenon DEF WakeWritersCheck, Compare, CompareSecond, At, lockVars, condVars
<1>2. CASE Pending(t)
  <2>1. Goto(t, "wakew")
    BY <1>2 DEF WakeWritersCheck, Compare
  <2> QED BY <2>1, MindWriters DEF MindLabels
<1>3. CASE ~Pending(t)
  <2>1. Goto(t, "idle")
    BY <1>3 DEF WakeWritersCheck, Compare
  <2>2. writeable # {} => ~WriterWaker(t)
    BY <1>1, <1>3, TicketsLeft, Zenon
    DEF WriterWaker, Pending, MindLabels, WriterLabels, CountedLabels, HoldLabels
  <2>3. ~AwakeHead(t)
    BY <1>1 DEF AwakeHead, QueueLabels
  <2>4. \A u \in Threads \ {t} : half'[u] = half[u]
    BY <1>1 DEF TypeOK
  <2> QED BY <1>1, <2>1, <2>2, <2>3, <2>4, KeepWriters, Zenon DEF Minder
<1> QED BY <1>2, <1>3

LEMMA BeginCompare ==
    ASSUME TypeOK, TicketInv, PlaceInv, WritersInv, NEW t \in Threads, CompareFirst(t)
    PROVE  WritersInv'
<1> SUFFICES ASSUME writeable # {} PROVE \E u \in Threads : Minder(u)'
  BY Zenon DEF CompareFirst, WritersInv, condVars
<1>1. write_requests # write_completions
  BY TicketsLeft
<1>2. PICK u \in Threads : Minder(u)
  BY DEF WritersInv
<1>3. UNCHANGED <<write_completions, readable, writeable, prev_writer, pc>>
  BY Zenon DEF CompareFirst, lockVars, condVars
<1>4. CASE u = t
  <2>1. \/ half'[t] = [operand |-> "write_requests", value |-> write_requests]
        \/ half'[t] = [operand |-> "write_completions", value |-> write_completions]
    BY Zenon DEF CompareFirst, TypeOK
  <2>2. CASE AwakeHead(u)
    BY <1>3, <1>4, <2>2, Zenon DEF Minder, AwakeHead
  <2>3. CASE WriterWaker(u)
    <3>1. CASE pc[t] # "wakew_check"
      BY <1>3, <1>4, <2>3, <3>1, Zenon DEF Minder, WriterWaker
    <3>2. CASE pc[t] = "wakew_check"
      <4>1. \/ half'[t].operand = "write_requests" /\ half'[t].value # write_completions
            \/ half'[t].operand = "write_completions" /\ half'[t].value = write_completions
        BY <1>1, <2>1
      <4> QED BY <1>3, <1>4, <3>2, <4>1, Zenon DEF Minder, WriterWaker
    <3> QED BY <3>1, <3>2, Zenon
  <2> QED BY <1>2, <2>2, <2>3, Zenon DEF Minder
<1>5. CASE u # t
  <2>1. half'[u] = half[u]
    BY <1>5, Zenon DEF CompareFirst, TypeOK
  <2> QED BY <1>2, <1>3, <2>1, Zenon DEF Minder, WriterWaker, AwakeHead
<1> QED BY <1>4, <1>5

LEMMA WritersStep ==
    ASSUME IndInv, FlagOwned, TicketInv, PlaceInv, WritersInv,
           NEW t \in Threads, AnyStep(t)
    PROVE  WritersInv'
<1>t. TypeOK /\ CountInv
  BY DEF IndInv
<1>h. \A u \in Threads \ {t} : [half EXCEPT ![t] = NotRead][u] = half[u]
  BY <1>t DEF TypeOK
<1>l. pc[t] \in {"idle", "r_check", "r_lock", "r_recheck", "tr_check"} =>
          pc[t] \notin MindLabels \cup QueueLabels \cup {"r_sleep", "wakew_check"}
  BY DEF MindLabels, WriterLabels, CountedLabels, HoldLabels, QueueLabels
<1>m. {"r_incr", "r_test", "r_busy", "r_reset", "r_sleep_again", "reading", "w_grant",
       "writing", "tr_cancel", "tw_jump", "up_jump", "dg_flag", "dg_comp", "dg_wake",
       "wakew", "uw_comp", "uw_quota", "uw_check", "uw_count", "uw_readers"} \subseteq MindLabels
  BY DEF MindLabels, WriterLabels, CountedLabels, HoldLabels
<1> USE DEF At, lockVars, condVars
<1>1. CASE LockReadCall(t) \/ TryReadCall(t) \/ ReadLockMutex(t)
  BY <1>1, <1>t, <1>l, PassWriters, Zenon DEF LockReadCall, TryReadCall, Branch, ReadLockMutex
<1>2. CASE ReadCheck(t) \/ TryReadCheck(t)
  BY <1>2, <1>t, <1>h, <1>l, PassWriters, Zenon
  DEF ReadCheck, TryReadCheck, Compare, CompareSecond
<1>3. CASE ReadRecheck(t)
  BY <1>3, <1>t, <1>h, <1>l, PassWriters, Zenon DEF ReadRecheck, CompareSecond, SleepReadable
<1>4. CASE LockWriteCall(t)
  <2>1. \A u \in Threads \ {t} : prev_writer'[u] = prev_writer[u]
    BY <1>4, <1>t, Zenon DEF LockWriteCall, TypeOK
  <2> QED BY <1>4, <1>t, <1>l, <2>1, PassWriters, Zenon DEF LockWriteCall
<1>5. CASE ReadTest(t) \/ UnlockQuota(t)
  BY <1>5, <1>t, <1>m, MindWriters, Zenon DEF ReadTest, UnlockQuota, Branch
<1>6. CASE ReadAwake(t) \/ ReadBusy(t) \/ ReadReset(t) \/ WriteGrant(t)
  BY <1>6, <1>t, <1>m, MindWriters, Zenon DEF ReadAwake, ReadBusy, SleepReadable, ReadReset, WriteGrant
<1>7. CASE ReadIncr(t) \/ TryReadIncr(t) \/ DowngradeCall(t)
  BY <1>7, <1>t, <1>m, MindWriters, Zenon DEF ReadIncr, TryReadIncr, DowngradeCall, AddReader
<1>8. CASE TryWriteCall(t) \/ TryUpgradeCall(t) \/ TryWriteJump(t) \/ UpgradeJump(t)
  BY <1>8, <1>t, <1>m, MindWriters, Zenon DEF TryWriteCall, SetFlag, TryUpgradeCall, Upgrade,
     TryWriteJump, UpgradeJump, AddCompletion
<1>9. CASE DowngradeFlag(t) \/ DowngradeComplete(t) \/ DowngradeWake(t)
  BY <1>9, <1>t, <1>m, MindWriters, Zenon DEF DowngradeFlag, ClearFlag, DowngradeComplete,
     AddCompletion, DowngradeWake
<1>10. CASE UnlockWriteCall(t) \/ UnlockComplete(t) \/ UnlockCheck(t)
  BY <1>10, <1>t, <1>m, MindWriters, Zenon DEF UnlockWriteCall, ClearFlag, UnlockComplete,
     AddCompletion, UnlockCheck, Compare
<1>11. CASE UnlockCount(t)
  <2>1. CASE reader_count # 0
    BY <1>11, <1>t, <1>m, <2>1, MindWriters, Zenon DEF UnlockCount, Branch
  <2>2. CASE reader_count = 0
    <3>1. half'[t] = NotRead /\ pc'[t] = "wakew_check"
      BY <1>11, <1>t, <2>2, NotAsleep, Zenon DEF UnlockCount, Branch, CompareLabels, Goto, TypeOK
    <3> QED BY <3>1, Zenon DEF WritersInv, Minder, WriterWaker
  <2> QED BY <2>1, <2>2
<1>12. CASE WriteTurn(t) \/ WriteAwake(t)
  BY <1>12, <1>t, QueueWriters, Zenon DEF WriteTurn, Branch, WriteAwake, QueueLabels
<1>13. CASE WriteRecheck(t)
  <2>1. CASE write_completions = prev_writer[t]
    BY <1>13, <1>t, <2>1, QueueWriters, Zenon DEF WriteRecheck, QueueLabels
  <2> QED BY <1>13, <2>1, SleepTurn
<1>14. CASE WriteBusy(t)
  <2>1. CASE CntIsZero
    BY <1>14, <1>t, <2>1, QueueWriters DEF WriteBusy, QueueLabels
  <2> QED BY <1>14, <2>1, SleepCas
<1>15. CASE WriteCas(t)
  <2>1. CASE CntIsZero
    BY <1>15, <1>t, <1>m, <2>1, MindWriters DEF WriteCas, SetFlag
  <2>2. CASE ~CntIsZero
    BY <1>15, <1>t, <2>2, QueueWriters DEF WriteCas, Branch, QueueLabels
  <2> QED BY <2>1, <2>2
<1>16. CASE UnlockReadCall(t) \/ TryReadCancel(t)
  BY <1>16, LeaveRead
<1>17. CASE UnlockReaders(t)
  BY <1>17, PreferReaders
<1>18. CASE WakeWritersCheck(t)
  BY <1>18, <1>t, FindPending
<1>19. CASE WakeWriters(t)
  BY <1>19 DEF WakeWriters, WritersInv
<1>20. CASE CompareFirst(t)
  BY <1>20, <1>t, BeginCompare
<1>21. CASE SpuriousWakeup(t)
  BY <1>21, Zenon DEF SpuriousWakeup, WritersInv, Minder, WriterWaker, AwakeHead
<1> QED
  BY <1>1, <1>2, <1>3, <1>4, <1>5, <1>6, <1>7, <1>8, <1>9, <1>10, <1>11, <1>12,
     <1>13, <1>14, <1>15, <1>16, <1>17, <1>18, <1>19, <1>20, <1>21, Zenon
  DEF AnyStep, Call, UnlockCall, Step

-----------------------------------------------------------------------------
WakeInv == FlagOwned /\ PlaceInv /\ AgainInv /\ ReadersInv /\ WritersInv

LEMMA WakeInit == Init => WakeInv
BY Zenon DEF Init, WakeInv, FlagOwned, PlaceInv, AgainInv, ReadersInv, Unsettled, Doubts, WritersInv

LEMMA WakeNext == IndInv /\ TicketInv /\ WakeInv /\ [Next]_vars => WakeInv'
<1> SUFFICES ASSUME IndInv, TicketInv, WakeInv, [Next]_vars PROVE WakeInv'
  OBVIOUS
<1>1. CASE \E t \in Threads : AnyStep(t)
  BY <1>1, OwnerStep, PlaceStep, AgainStep, ReadersStep, WritersStep DEF IndInv, WakeInv
<1>2. CASE UNCHANGED vars
  <2> USE <1>2 DEF vars, lockVars, condVars, WakeInv, InLabels
  <2>1. FlagOwned' /\ PlaceInv' /\ AgainInv'
    BY Zenon DEF FlagOwned, PlaceInv, AgainInv
  <2>2. ReadersInv'
    BY Zenon DEF ReadersInv, Unsettled, Doubts, ReaderWaker
  <2>3. WritersInv'
    BY Zenon DEF WritersInv, Minder, WriterWaker, AwakeHead
  <2> QED BY <2>1, <2>2, <2>3
<1> QED BY <1>1, <1>2 DEF Next, AnyStep

\* No wakeup is lost: however the atomic operations of any number of threads
\* interleave, and with spurious wakeups, the threads are never all outside
\* the lock or asleep with one of them asleep.
THEOREM WakeupsKept == Spec => []NoLostWakeup
<1>1. IndInv /\ TicketInv /\ WakeInv => NoLostWakeup
  <2> SUFFICES ASSUME IndInv, TicketInv, WakeInv,
                      \A t \in Threads : pc[t] = "idle" \/ t \in readable \cup writeable
               PROVE  readable \cup writeable = {}
    BY DEF NoLostWakeup
  <2>1. \A t \in Threads : /\ t \in readable => pc[t] \in WaitLabels
                           /\ t \in writeable => pc[t] \in WriterSleep
    BY DEF WakeInv, PlaceInv, InLabels
  <2>2. \A t \in Threads : pc[t] \in {"idle"} \cup WaitLabels \cup WriterSleep
    BY <2>1
  <2>3. \A r \in readable : pc[r] # "r_sleep_again"
    <3>1. InLabels(AgainLabels) = {}
      BY <2>2 DEF InLabels, AgainLabels, WriterLabels, WaitLabels, WriterSleep
    <3> QED BY <3>1 DEF WakeInv, AgainInv
  <2>4. \A t \in Threads : ~Minder(t)
    <3> SUFFICES ASSUME NEW t \in Threads PROVE ~Minder(t)
      OBVIOUS
    <3>1. pc[t] \in {"idle", "r_sleep"} \cup WriterSleep
      <4>1. t \in readable => pc[t] # "r_sleep_again"
        BY <2>3
      <4> QED BY <2>1, <4>1 DEF WaitLabels, WriterSleep
    <3>2. pc[t] = "r_sleep" => t \in readable
      BY <2>1 DEF WriterSleep
    <3>3. pc[t] \in QueueLabels => t \in writeable
      BY <2>1, <3>1 DEF WaitLabels, QueueLabels, WriterSleep
    <3> QED BY <3>1, <3>2, <3>3, Zenon DEF Minder, WriterWaker, AwakeHead, WriterSleep,
            MindLabels, WriterLabels, CountedLabels, HoldLabels
  <2>5. writeable = {}
    BY <2>4 DEF WakeInv, WritersInv
  <2>6. InLabels(BusyLabels) = {} /\ \A t \in Threads : ~ReaderWaker(t)
    <3>1. \A t \in Threads : pc[t] \in {"idle"} \cup WaitLabels
      BY <2>1, <2>5
    <3> QED BY <3>1 DEF InLabels, BusyLabels, TicketLabels, QueueLabels, ReaderWaker, WaitLabels
  <2>7. readable = {}
    BY <2>6 DEF WakeInv, ReadersInv, Unsettled
  <2> QED BY <2>5, <2>7
<1> QED
  BY <1>1, InitInv, NextInv, TicketInit, TicketNext, WakeInit, WakeNext, PTL DEF Spec
=============================================================================
