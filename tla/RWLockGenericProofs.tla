------------------------ MODULE RWLockGenericProofs -------------------------
(***************************************************************************)
(* Proofs about the mutex-based reader/writer lock, for any number of      *)
(* threads and any quotas.                                                 *)
(***************************************************************************)
EXTENDS RWLockGeneric, Integers, FiniteSetTheorems, TLAPS

\* The provers of every leaf that names none, with time to spare.
USE SMTT(30), ZenonT(30)

\* The threads in one of the states S.
InStates(S) == {t \in Threads : state[t] \in S}

Holding == {"reading", "writing"}
ReadWaiting == {"rwait"}
WriteWaiting == {"wwait"}

\* active counts the holders; type is the mode they hold the lock in; and a
\* pending original mode belongs to one thread, that upgraded and is alone.
HoldInv ==
    /\ active = Cardinality(InStates(Holding))
    /\ \A t \in Threads : state[t] = "reading" => type = "read"
    /\ \A t \in Threads : state[t] = "writing" => type = "write" /\ active = 1
    /\ original # "none" =>
          original = "read" /\ \E t \in Threads : state[t] = "writing"

IndInv == TypeOK /\ HoldInv

\* The counts are right.
Counts ==
    /\ state \in [Threads -> States]
    /\ active = Cardinality(InStates(Holding))
    /\ active \in 0 .. Cardinality(Threads)
    /\ readers_waiting = Cardinality({t \in Threads : state[t] = "rwait"})
    /\ writers_waiting = Cardinality({t \in Threads : state[t] = "wwait"})

\* The counts follow thread t from its state to s.
One(b) == IF b THEN 1 ELSE 0
Follow(t, s) ==
    /\ readers_waiting' = readers_waiting + One(s = "rwait") - One(state[t] = "rwait")
    /\ writers_waiting' = writers_waiting + One(s = "wwait") - One(state[t] = "wwait")
    /\ active' = active + One(s \in Holding) - One(state[t] \in Holding)

-----------------------------------------------------------------------------
(* Populations *)

LEMMA InStatesFinite ==
    ASSUME NEW S
    PROVE  /\ IsFiniteSet(InStates(S)) /\ Cardinality(InStates(S)) \in Nat
           /\ Cardinality(InStates(S)) <= Cardinality(Threads)
           /\ (Cardinality(InStates(S)) \in Nat)'
           /\ (Cardinality(InStates(S)) <= Cardinality(Threads))'
           /\ Cardinality(Threads) \in Nat
BY GenericAssumption, FS_Subset, FS_CardinalityType DEF InStates

\* A thread's change of state changes the population of S by at most one.
LEMMA Move ==
    ASSUME NEW t \in Threads, NEW STATE s, NEW S,
           state \in [Threads -> States],
           Become(t, s)
    PROVE  /\ state[t] \in S /\ s \notin S =>
                Cardinality(InStates(S))' = Cardinality(InStates(S)) - 1
           /\ state[t] \notin S /\ s \in S =>
                Cardinality(InStates(S))' = Cardinality(InStates(S)) + 1
           /\ (state[t] \in S <=> s \in S) => InStates(S)' = InStates(S)
<1>1. CASE state[t] \in S /\ s \notin S
  <2>1. InStates(S)' = InStates(S) \ {t} /\ t \in InStates(S)
    BY <1>1 DEF InStates, Become
  <2> QED BY <1>1, <2>1, InStatesFinite, FS_RemoveElement, Zenon
<1>2. CASE state[t] \notin S /\ s \in S
  <2>1. InStates(S)' = InStates(S) \cup {t} /\ t \notin InStates(S)
    BY <1>2 DEF InStates, Become
  <2> QED BY <1>2, <2>1, InStatesFinite, FS_AddElement, Zenon
<1>3. CASE state[t] \in S <=> s \in S
  BY <1>3 DEF InStates, Become
<1> QED BY <1>1, <1>2, <1>3

\* With nobody active, nobody holds the lock.
LEMMA NoneActive ==
    ASSUME HoldInv, active = 0
    PROVE  \A u \in Threads : state[u] \notin Holding
<1>1. InStates(Holding) = {}
  BY InStatesFinite, FS_EmptySet, Zenon DEF HoldInv
<1> QED BY <1>1 DEF InStates

\* The only active thread is the only holder.
LEMMA OneActive ==
    ASSUME HoldInv, active = 1, NEW t \in Threads, state[t] \in Holding
    PROVE  \A u \in Threads \ {t} : state[u] \notin Holding
<1> DEFINE Others == InStates(Holding) \ {t}
<1>1. t \in InStates(Holding)
  BY DEF InStates
<1>2. IsFiniteSet(Others) /\ Cardinality(Others) = Cardinality(InStates(Holding)) - 1
  BY <1>1, InStatesFinite, FS_RemoveElement
<1>3. Others = {}
  BY <1>2, FS_EmptySet DEF HoldInv
<1> QED BY <1>3 DEF InStates

\* A holder is counted.
LEMMA HolderCounted ==
    ASSUME HoldInv, NEW t \in Threads, state[t] \in Holding
    PROVE  active \in Nat /\ active >= 1
<1>1. InStates(Holding) # {}
  BY DEF InStates
<1> QED BY <1>1, InStatesFinite, FS_EmptySet DEF HoldInv

\* TypeOK says of the waiting counters that they count.
LEMMA WaitCounts ==
    /\ InStates(ReadWaiting) = {t \in Threads : state[t] = "rwait"}
    /\ InStates(WriteWaiting) = {t \in Threads : state[t] = "wwait"}
    /\ InStates(ReadWaiting)' = {t \in Threads : state[t] = "rwait"}'
    /\ InStates(WriteWaiting)' = {t \in Threads : state[t] = "wwait"}'
BY DEF InStates, ReadWaiting, WriteWaiting

-----------------------------------------------------------------------------
(* What a thread's change of state does to the counts *)

\* The three counts follow the thread from one population to another.
LEMMA Counted ==
    ASSUME IndInv, NEW t \in Threads, NEW STATE s, s \in States,
           Become(t, s), Follow(t, s)
    PROVE  Counts'
<1>1. state \in [Threads -> States]
  BY DEF IndInv, TypeOK
<1>2. active' = Cardinality(InStates(Holding))'
  BY <1>1, Move, InStatesFinite DEF IndInv, HoldInv, Follow, One
<1>3. readers_waiting' = Cardinality(InStates(ReadWaiting))'
  <2>1. readers_waiting = Cardinality(InStates(ReadWaiting))
    BY WaitCounts DEF IndInv, TypeOK
  <2>2. \A x : x \in ReadWaiting <=> x = "rwait"
    BY DEF ReadWaiting
  <2> QED BY <1>1, <2>1, <2>2, Move, InStatesFinite DEF Follow, One
<1>4. writers_waiting' = Cardinality(InStates(WriteWaiting))'
  <2>1. writers_waiting = Cardinality(InStates(WriteWaiting))
    BY WaitCounts DEF IndInv, TypeOK
  <2>2. \A x : x \in WriteWaiting <=> x = "wwait"
    BY DEF WriteWaiting
  <2> QED BY <1>1, <2>1, <2>2, Move, InStatesFinite DEF Follow, One
<1>5. state' \in [Threads -> States]
  BY <1>1 DEF Become
<1>6. active' \in 0 .. Cardinality(Threads)
  BY <1>2, InStatesFinite
<1> QED BY <1>2, <1>3, <1>4, <1>5, <1>6, WaitCounts DEF Counts

\* granted stays within its bound when a grant is counted.
LEMMA GrantBound ==
    ASSUME TypeOK, CountGrant \/ granted' = 0 \/ granted' = granted
    PROVE  granted' \in 0 .. GrantedMax
BY GenericAssumption DEF TypeOK, CountGrant, GrantedMax

-----------------------------------------------------------------------------
(* One lemma for each kind of step *)

\* The lock is taken for reading, by a call or by a waiter that was woken.
LEMMA TakeReadInv ==
    ASSUME IndInv, NEW t \in Threads, TakeRead(t),
           \/ state[t] = "idle" /\ UNCHANGED readers_waiting
           \/ /\ state[t] = "rwait" /\ t \notin readable
              /\ readers_waiting' = readers_waiting - 1,
           UNCHANGED <<writers_waiting, readable, writeable>>
    PROVE  IndInv'
<1>1. /\ active' = active + 1 /\ type' = "read" /\ original' = original
      /\ Become(t, "reading") /\ CountGrant /\ CanRead
  BY DEF TakeRead
<1>2. active \in Nat /\ readers_waiting \in Nat /\ writers_waiting \in Nat
  BY InStatesFinite, WaitCounts, Zenon DEF IndInv, HoldInv, TypeOK
<1>3. Counts'
  <2>1. Follow(t, "reading")
    BY <1>1, <1>2 DEF Follow, One, Holding
  <2> QED BY <1>1, <2>1, Counted DEF States
<1>4. \A u \in Threads : state[u] # "writing"
  BY <1>1, NoneActive DEF CanRead, IndInv, HoldInv, Holding
<1>5. TypeOK'
  BY <1>1, <1>3, GrantBound DEF IndInv, TypeOK, Counts, Become
<1>6. HoldInv'
  BY <1>1, <1>3, <1>4 DEF IndInv, TypeOK, HoldInv, Counts, Become
<1> QED BY <1>5, <1>6 DEF IndInv

\* The lock is taken for writing.
LEMMA TakeWriteInv ==
    ASSUME IndInv, NEW t \in Threads, TakeWrite(t),
           \/ state[t] = "idle" /\ UNCHANGED writers_waiting
           \/ /\ state[t] = "wwait" /\ t \notin writeable
              /\ writers_waiting' = writers_waiting - 1,
           UNCHANGED <<readers_waiting, readable, writeable>>
    PROVE  IndInv'
<1>1. /\ active = 0 /\ active' = 1 /\ type' = "write" /\ original' = original
      /\ Become(t, "writing") /\ CountGrant
  BY DEF TakeWrite, CanWrite
<1>2. readers_waiting \in Nat /\ writers_waiting \in Nat
  BY InStatesFinite, WaitCounts, Zenon DEF IndInv, TypeOK
<1>3. Counts'
  <2>1. Follow(t, "writing")
    BY <1>1, <1>2 DEF Follow, One, Holding
  <2> QED BY <1>1, <2>1, Counted DEF States
<1>4. \A u \in Threads : state[u] \notin Holding
  BY <1>1, NoneActive DEF IndInv
<1>5. TypeOK'
  BY <1>1, <1>3, GrantBound DEF IndInv, TypeOK, Counts, Become
<1>6. HoldInv'
  BY <1>1, <1>3, <1>4 DEF IndInv, TypeOK, HoldInv, Counts, Become, Holding
<1> QED BY <1>5, <1>6 DEF IndInv

\* A caller goes to sleep.
LEMMA SleepInv ==
    ASSUME IndInv, NEW t \in Threads, ReadWait(t) \/ WriteWait(t)
    PROVE  IndInv'
<1> USE DEF rwl, IndInv
<1>1. /\ active \in Nat /\ active' = active /\ type' = type /\ original' = original
      /\ granted' = granted /\ state[t] = "idle"
      /\ readers_waiting \in Nat /\ writers_waiting \in Nat
  BY InStatesFinite, WaitCounts, Zenon DEF HoldInv, TypeOK, ReadWait, WriteWait
<1>2. CASE ReadWait(t)
  <2>1. /\ readers_waiting' = readers_waiting + 1 /\ writers_waiting' = writers_waiting
        /\ readable' = readable \cup {t} /\ writeable' = writeable
        /\ Become(t, "rwait")
    BY <1>2 DEF ReadWait
  <2>2. Follow(t, "rwait")
    BY <1>1, <2>1 DEF Follow, One, Holding
  <2>3. Counts'
    BY <2>1, <2>2, Counted DEF States
  <2> QED BY <1>1, <2>1, <2>3 DEF TypeOK, HoldInv, Counts, Become
<1>3. CASE WriteWait(t)
  <2>1. /\ writers_waiting' = writers_waiting + 1 /\ readers_waiting' = readers_waiting
        /\ writeable' = writeable \cup {t} /\ readable' = readable
        /\ Become(t, "wwait")
    BY <1>3 DEF WriteWait
  <2>2. Follow(t, "wwait")
    BY <1>1, <2>1 DEF Follow, One, Holding
  <2>3. Counts'
    BY <2>1, <2>2, Counted DEF States
  <2> QED BY <1>1, <2>1, <2>3 DEF TypeOK, HoldInv, Counts, Become
<1> QED BY <1>2, <1>3

\* A sleeper wakes up, or goes back to sleep: nothing else changes.
LEMMA StirInv ==
    ASSUME IndInv,
           UNCHANGED <<rwl, readers_waiting, writers_waiting, state>>,
           readable' \subseteq {u \in Threads : state[u] = "rwait"},
           writeable' \subseteq {u \in Threads : state[u] = "wwait"}
    PROVE  IndInv'
BY DEF IndInv, TypeOK, HoldInv, rwl, InStates

\* A holder changes its mode, alone in the lock.
LEMMA ChangeModeInv ==
    ASSUME IndInv, NEW t \in Threads, TryUpgradeCall(t) \/ DowngradeCall(t)
    PROVE  IndInv'
<1> USE DEF IndInv
<1>1. /\ active = 1 /\ active' = active /\ granted' = granted /\ state[t] \in Holding
      /\ readers_waiting' = readers_waiting /\ writers_waiting' = writers_waiting
      /\ readable' \in {readable, {}} /\ writeable' = writeable
      /\ readers_waiting \in Nat /\ writers_waiting \in Nat
  BY InStatesFinite, WaitCounts, Zenon
     DEF HoldInv, TypeOK, TryUpgradeCall, TryUpgradeAmongReaders, DowngradeCall, Holding, conds
<1>2. \A u \in Threads \ {t} : state[u] \notin Holding
  BY <1>1, OneActive
<1>3. CASE TryUpgradeCall(t)
  <2>1. /\ state[t] = "reading" /\ Become(t, "writing") /\ type' = "write"
        /\ original' = IF original = "none" THEN "read" ELSE "none"
    BY <1>3 DEF TryUpgradeCall, TryUpgradeAmongReaders, Toggle
  <2>2. Follow(t, "writing")
    BY <1>1, <2>1 DEF Follow, One, Holding
  <2>3. Counts'
    BY <2>1, <2>2, Counted DEF States
  <2>4. TypeOK'
    BY <1>1, <2>1, <2>3 DEF TypeOK, Counts, Become
  <2>5. HoldInv'
    BY <1>1, <1>2, <2>1, <2>3 DEF TypeOK, HoldInv, Counts, Become, Holding
  <2> QED BY <2>4, <2>5
<1>4. CASE DowngradeCall(t)
  <2>1. /\ state[t] = "writing" /\ Become(t, "reading") /\ type' = "read"
        /\ original' = "none"
    BY <1>4 DEF DowngradeCall, Toggle
  <2>2. Follow(t, "reading")
    BY <1>1, <2>1 DEF Follow, One, Holding
  <2>3. Counts'
    BY <2>1, <2>2, Counted DEF States
  <2>4. TypeOK'
    BY <1>1, <2>1, <2>3 DEF TypeOK, Counts, Become
  <2>5. HoldInv'
    BY <1>1, <1>2, <2>1, <2>3 DEF TypeOK, HoldInv, Counts, Become, Holding
  <2> QED BY <2>4, <2>5
<1> QED BY <1>3, <1>4

\* A holder lets go; the last one out hands the lock over.
LEMMA UnlockInv ==
    ASSUME IndInv, NEW t \in Threads, UnlockCall(t)
    PROVE  IndInv' /\ original' = "none"
<1> USE DEF IndInv
<1>1. /\ active \in Nat /\ active >= 1 /\ active' = active - 1
      /\ state[t] \in Holding /\ Become(t, "idle")
      /\ readers_waiting' = readers_waiting /\ writers_waiting' = writers_waiting
      /\ readers_waiting \in Nat /\ writers_waiting \in Nat
  BY HolderCounted, InStatesFinite, WaitCounts, Zenon DEF TypeOK, UnlockCall, Holding
<1>2. Counts'
  <2>1. Follow(t, "idle")
    BY <1>1 DEF Follow, One, Holding
  <2> QED BY <1>1, <2>1, Counted DEF States
<1>3. /\ readable' \subseteq readable /\ writeable' \subseteq writeable
      /\ type' \in {"read", "write"}
      /\ granted' = 0 \/ granted' = granted
  BY DEF TypeOK, UnlockCall, AfterReaders, AfterWriter, SignalWriter, WakeAllReaders, WakeNobody
<1>4. original' = "none"
  <2>1. CASE active' = 0
    BY <2>1, Zenon DEF UnlockCall
  <2>2. CASE active' # 0
    <3>1. original' = original /\ active # 1
      BY <1>1, <2>2 DEF UnlockCall
    <3> QED BY <3>1 DEF HoldInv
  <2> QED BY <2>1, <2>2
<1>5. TypeOK'
  <2>1. granted' \in 0 .. GrantedMax
    BY <1>3, GrantBound
  <2>2. /\ readable' \subseteq {u \in Threads : state'[u] = "rwait"}
        /\ writeable' \subseteq {u \in Threads : state'[u] = "wwait"}
    BY <1>1, <1>3 DEF TypeOK, Become, Holding
  <2> QED BY <1>2, <1>3, <1>4, <2>1, <2>2 DEF TypeOK, Counts
<1>6. HoldInv'
  <2>1. CASE active = 1
    <3>1. \A u \in Threads : state'[u] \notin Holding
      BY <1>1, <2>1, OneActive DEF TypeOK, Become, Holding
    <3> QED BY <1>2, <1>4, <3>1 DEF HoldInv, Counts, Holding
  <2>2. CASE active # 1
    <3>1. type' = type /\ \A u \in Threads : state[u] # "writing"
      BY <1>1, <2>2 DEF UnlockCall, HoldInv
    <3> QED BY <1>1, <1>2, <1>4, <3>1 DEF HoldInv, Counts, TypeOK, Become
  <2> QED BY <2>1, <2>2
<1> QED BY <1>4, <1>5, <1>6

-----------------------------------------------------------------------------
(* The invariant *)

LEMMA InitInv == Init => IndInv
<1> SUFFICES ASSUME Init PROVE IndInv
  OBVIOUS
<1>1. /\ InStates(Holding) = {}
      /\ {t \in Threads : state[t] = "rwait"} = {}
      /\ {t \in Threads : state[t] = "wwait"} = {}
  BY DEF Init, InStates, Holding
<1>2. Cardinality({}) = 0 /\ Cardinality(Threads) \in Nat
  BY GenericAssumption, FS_EmptySet, FS_CardinalityType
<1>3. GrantedMax \in Nat
  BY GenericAssumption DEF GrantedMax
<1>4. TypeOK
  BY <1>1, <1>2, <1>3 DEF Init, TypeOK, States
<1>5. HoldInv
  BY <1>1, <1>2 DEF Init, HoldInv
<1> QED BY <1>4, <1>5 DEF IndInv

LEMMA StepInv ==
    ASSUME IndInv, NEW t \in Threads, Call(t) \/ Step(t) \/ SpuriousWakeup(t)
    PROVE  IndInv'
<1>1. CASE ReadCall(t)
  BY <1>1, TakeReadInv DEF ReadCall, conds
<1>2. CASE WriteCall(t)
  BY <1>2, TakeWriteInv DEF WriteCall, conds
<1>3. CASE ReadWait(t) \/ WriteWait(t)
  BY <1>3, SleepInv
<1>4. CASE TryUpgradeCall(t) \/ DowngradeCall(t)
  BY <1>4, ChangeModeInv
<1>5. CASE ReadAwake(t)
  <2>1. CASE TakeRead(t) /\ readers_waiting' = readers_waiting - 1 /\ UNCHANGED readable
    BY <1>5, <2>1, TakeReadInv DEF ReadAwake
  <2>2. CASE readable' = readable \cup {t} /\ UNCHANGED <<rwl, readers_waiting, state>>
    BY <1>5, <2>2, StirInv DEF ReadAwake, IndInv, TypeOK
  <2> QED BY <1>5, <2>1, <2>2 DEF ReadAwake
<1>6. CASE WriteAwake(t)
  <2>1. CASE TakeWrite(t) /\ writers_waiting' = writers_waiting - 1 /\ UNCHANGED writeable
    BY <1>6, <2>1, TakeWriteInv DEF WriteAwake
  <2>2. CASE writeable' = writeable \cup {t} /\ UNCHANGED <<rwl, writers_waiting, state>>
    BY <1>6, <2>2, StirInv DEF WriteAwake, IndInv, TypeOK
  <2> QED BY <1>6, <2>1, <2>2 DEF WriteAwake
<1>7. CASE UnlockCall(t)
  BY <1>7, UnlockInv
<1>8. CASE SpuriousWakeup(t)
  BY <1>8, StirInv DEF SpuriousWakeup, IndInv, TypeOK
<1> QED BY <1>1, <1>2, <1>3, <1>4, <1>5, <1>6, <1>7, <1>8 DEF Call, Step

LEMMA NextInv == IndInv /\ [Next]_vars => IndInv'
<1> SUFFICES ASSUME IndInv, [Next]_vars PROVE IndInv'
  OBVIOUS
<1>1. CASE Next
  BY <1>1, StepInv DEF Next
<1>2. CASE UNCHANGED vars
  BY <1>2 DEF vars, rwl, conds, IndInv, TypeOK, HoldInv, InStates
<1> QED BY <1>1, <1>2

-----------------------------------------------------------------------------
(* The theorems *)

\* The fields of isc_rwlock_t stay within their types, and readers_waiting and
\* writers_waiting count the threads in WAIT, whatever calls interleave.
THEOREM TypeCorrect == Spec => []TypeOK
<1>1. IndInv => TypeOK
  BY DEF IndInv
<1> QED BY <1>1, InitInv, NextInv, PTL DEF Spec

\* Every unlock passes the INSIST on rwl->original at its end: with several
\* holders nobody has upgraded, and the last one puts the mode back.
THEOREM OriginalPaired == Spec => InsistOriginal
<1> DEFINE Paired == \A t \in Threads :
                        state[t] \in {"reading", "writing"} /\ state'[t] = "idle"
                            => original' = "none"
<1>1. IndInv /\ [Next]_vars => [Paired]_vars
  <2> SUFFICES ASSUME IndInv, Next PROVE Paired
    OBVIOUS
  <2>1. PICK u \in Threads : Call(u) \/ Step(u) \/ SpuriousWakeup(u)
    BY DEF Next
  <2>2. state \in [Threads -> States]
    BY DEF IndInv, TypeOK
  <2>3. CASE UnlockCall(u)
    BY <2>3, UnlockInv
  <2>4. CASE ~UnlockCall(u)
    <3>1. \A t \in Threads : state'[t] = "idle" => state[t] = "idle"
      BY <2>1, <2>2, <2>4 DEF Call, Step, ReadCall, ReadWait, WriteCall, WriteWait,
            TryUpgradeCall, TryUpgradeAmongReaders, DowngradeCall, ReadAwake, WriteAwake,
            SpuriousWakeup, TakeRead, TakeWrite, Become
    <3> QED BY <3>1
  <2> QED BY <2>3, <2>4
<1> QED BY <1>1, InitInv, NextInv, PTL DEF Spec, InsistOriginal

\* A step of the lock is a step of the abstract lock, or none.
LEMMA AbstractStep ==
    ASSUME IndInv, NEW t \in Threads, Call(t) \/ Step(t) \/ SpuriousWakeup(t)
    PROVE  [Abstract!Next]_HoldModes
<1> DEFINE Mode(s) == CASE s = "reading" -> "read" [] s = "writing" -> "write" [] OTHER -> "none"
<1>1. state \in [Threads -> States]
  BY DEF IndInv, TypeOK
<1>2. ASSUME NEW STATE s, Become(t, s)
      PROVE  HoldModes' = [HoldModes EXCEPT ![t] = Mode(s)]
  BY <1>1, <1>2, Zenon DEF HoldModes, Become
<1>3. CASE TakeRead(t) /\ state[t] \notin Holding
  <2>1. \A u \in Threads : state[u] # "writing"
    BY <1>3, NoneActive DEF TakeRead, CanRead, IndInv, HoldInv, Holding
  <2>2. HoldModes' = [HoldModes EXCEPT ![t] = "read"]
    BY <1>2, <1>3 DEF TakeRead
  <2>3. Abstract!LockRead(t)
    BY <1>3, <2>1, <2>2 DEF Abstract!LockRead, HoldModes, Holding
  <2> QED BY <2>3 DEF Abstract!Next
<1>4. CASE TakeWrite(t)
  <2>1. \A u \in Threads : state[u] \notin Holding
    BY <1>4, NoneActive DEF TakeWrite, CanWrite, IndInv
  <2>2. HoldModes' = [HoldModes EXCEPT ![t] = "write"]
    BY <1>2, <1>4 DEF TakeWrite
  <2>3. Abstract!LockWrite(t)
    BY <2>1, <2>2 DEF Abstract!LockWrite, HoldModes, Holding
  <2> QED BY <2>3 DEF Abstract!Next
<1>5. CASE TryUpgradeCall(t)
  <2>1. active = 1 /\ state[t] = "reading" /\ Become(t, "writing")
    BY <1>5 DEF TryUpgradeCall, TryUpgradeAmongReaders
  <2>2. \A u \in Threads \ {t} : state[u] \notin Holding
    BY <2>1, OneActive DEF IndInv, Holding
  <2>3. HoldModes' = [HoldModes EXCEPT ![t] = "write"]
    BY <1>2, <2>1
  <2>4. Abstract!Upgrade(t)
    BY <2>1, <2>2, <2>3 DEF Abstract!Upgrade, Abstract!Alone, HoldModes, Holding
  <2> QED BY <2>4 DEF Abstract!Next
<1>6. CASE DowngradeCall(t)
  <2>1. state[t] = "writing" /\ Become(t, "reading")
    BY <1>6 DEF DowngradeCall
  <2>2. HoldModes' = [HoldModes EXCEPT ![t] = "read"]
    BY <1>2, <2>1
  <2>3. Abstract!Downgrade(t)
    BY <2>1, <2>2 DEF Abstract!Downgrade, HoldModes
  <2> QED BY <2>3 DEF Abstract!Next
<1>7. CASE UnlockCall(t)
  <2>1. state[t] \in Holding /\ Become(t, "idle")
    BY <1>7 DEF UnlockCall, Holding
  <2>2. HoldModes' = [HoldModes EXCEPT ![t] = "none"]
    BY <1>2, <2>1
  <2>3. Abstract!Unlock(t)
    BY <2>1, <2>2 DEF Abstract!Unlock, HoldModes, Holding
  <2> QED BY <2>3 DEF Abstract!Next
<1>8. CASE \/ state' = state
           \/ state[t] \notin Holding /\ (Become(t, "rwait") \/ Become(t, "wwait"))
  BY <1>1, <1>8 DEF HoldModes, Become, Holding
<1> QED
  BY <1>3, <1>4, <1>5, <1>6, <1>7, <1>8, Zenon
     DEF Call, Step, ReadCall, ReadWait, WriteCall, WriteWait, ReadAwake, WriteAwake,
         SpuriousWakeup, Holding

\* The mutex-based lock implements the abstract reader/writer lock: a writer is
\* alone in it, and only a lone reader upgrades.
THEOREM Refinement == Spec => ImplementsRWLock
<1>1. Init => Abstract!Init
  BY DEF Init, Abstract!Init, HoldModes
<1>2. IndInv /\ [Next]_vars => [Abstract!Next]_HoldModes
  <2> SUFFICES ASSUME IndInv, [Next]_vars PROVE [Abstract!Next]_HoldModes
    OBVIOUS
  <2>1. CASE Next
    BY <2>1, AbstractStep DEF Next
  <2>2. CASE UNCHANGED vars
    BY <2>2 DEF vars, HoldModes
  <2> QED BY <2>1, <2>2
<1> QED BY <1>1, <1>2, InitInv, NextInv, PTL DEF Spec, ImplementsRWLock, Abstract!Spec
-----------------------------------------------------------------------------
(* Nobody is left asleep *)

Waiting == {"rwait", "wwait"}

\* The waiters that have been woken and are about to try again.
Stirring == {t \in Threads : state[t] \in Waiting /\ t \notin readable \cup writeable}

\* A free lock with threads waiting for it has a waiter that was woken.
WakeInv == active = 0 /\ InStates(Waiting) # {} => Stirring # {}

\* The counters tell whether somebody waits.
LEMMA WaitersCounted ==
    ASSUME IndInv
    PROVE  /\ readers_waiting \in Nat /\ writers_waiting \in Nat
           /\ readers_waiting > 0 <=> \E u \in Threads : state[u] = "rwait"
           /\ writers_waiting > 0 <=> \E u \in Threads : state[u] = "wwait"
<1>1. /\ readers_waiting = Cardinality(InStates(ReadWaiting))
      /\ writers_waiting = Cardinality(InStates(WriteWaiting))
  BY WaitCounts DEF IndInv, TypeOK
<1>2. /\ readers_waiting \in Nat /\ writers_waiting \in Nat
      /\ readers_waiting = 0 <=> InStates(ReadWaiting) = {}
      /\ writers_waiting = 0 <=> InStates(WriteWaiting) = {}
  BY <1>1, InStatesFinite, FS_EmptySet
<1> QED BY <1>2 DEF InStates, ReadWaiting, WriteWaiting

\* SIGNAL, with a writer waiting, leaves a writer awake: the one it woke, or
\* one that was awake already when nobody slept on the condition.
LEMMA SignalStirs ==
    ASSUME IndInv, writers_waiting > 0, SignalWriter,
           NEW t \in Threads, state[t] \in Holding, Become(t, "idle")
    PROVE  Stirring' # {}
<1>1. \A u \in Threads : state[u] \in Waiting => state'[u] = state[u]
  BY DEF IndInv, TypeOK, Become, Waiting, Holding
<1>2. readable \cap writeable = {} /\ readable' = readable
  BY DEF IndInv, TypeOK, SignalWriter
<1>3. CASE writeable = {}
  <2>1. PICK u \in Threads : state[u] = "wwait"
    BY WaitersCounted
  <2>2. u \notin readable' \cup writeable'
    BY <1>3, <2>1 DEF IndInv, TypeOK, SignalWriter
  <2> QED BY <1>1, <2>1, <2>2 DEF Stirring, Waiting
<1>4. CASE writeable # {}
  <2>1. PICK u \in writeable : writeable' = writeable \ {u}
    BY <1>4 DEF SignalWriter
  <2>2. u \in Threads /\ state[u] = "wwait"
    BY DEF IndInv, TypeOK
  <2> QED BY <1>1, <1>2, <2>1, <2>2 DEF Stirring, Waiting
<1> QED BY <1>3, <1>4

\* BROADCAST to the readers, with a reader waiting, leaves a reader awake.
LEMMA BroadcastStirs ==
    ASSUME IndInv, readers_waiting > 0, WakeAllReaders,
           NEW t \in Threads, state[t] \in Holding, Become(t, "idle")
    PROVE  Stirring' # {}
<1>1. PICK u \in Threads : state[u] = "rwait"
  BY WaitersCounted
<1>2. state'[u] = "rwait" /\ u \notin readable' \cup writeable'
  BY <1>1 DEF IndInv, TypeOK, Become, Holding, WakeAllReaders
<1> QED BY <1>1, <1>2 DEF Stirring, Waiting

\* The last holder out wakes a waiter if there is one.
LEMMA HandOver ==
    ASSUME IndInv, NEW t \in Threads, UnlockCall(t), active' = 0
    PROVE  WakeInv'
<1>1. /\ state[t] \in Holding /\ Become(t, "idle")
      /\ AfterReaders \/ AfterWriter
  BY Zenon DEF UnlockCall, Holding
<1>2. CASE readers_waiting = 0 /\ writers_waiting = 0
  <2>1. \A u \in Threads : state[u] \notin Waiting
    BY <1>2, WaitersCounted DEF Waiting
  <2>2. \A u \in Threads : state'[u] \notin Waiting
    BY <1>1, <2>1 DEF IndInv, TypeOK, Become, Waiting
  <2> QED BY <2>2 DEF WakeInv, InStates
<1>3. CASE writers_waiting > 0 /\ SignalWriter
  BY <1>1, <1>3, SignalStirs DEF WakeInv
<1>4. CASE readers_waiting > 0 /\ WakeAllReaders
  BY <1>1, <1>4, BroadcastStirs DEF WakeInv
<1>5. /\ writers_waiting > 0 /\ AfterReaders => SignalWriter
      /\ writers_waiting = 0 /\ AfterReaders => WakeAllReaders
      /\ AfterWriter => \/ writers_waiting > 0 /\ SignalWriter
                        \/ readers_waiting > 0 /\ WakeAllReaders
                        \/ readers_waiting = 0 /\ writers_waiting = 0
  BY WaitersCounted DEF AfterReaders, AfterWriter
<1> QED BY <1>1, <1>2, <1>3, <1>4, <1>5, WaitersCounted

\* A caller goes to sleep on a free lock only behind others that wait.
LEMMA SleepBehind ==
    ASSUME IndInv, WakeInv, NEW t \in Threads, ReadWait(t) \/ WriteWait(t)
    PROVE  WakeInv'
<1> SUFFICES ASSUME active' = 0 PROVE Stirring' # {}
  BY DEF WakeInv
<1>1. active = 0 /\ state[t] = "idle" /\ (readers_waiting > 0 \/ writers_waiting > 0)
  BY WaitersCounted DEF ReadWait, WriteWait, rwl, CanRead, CanWrite
<1>2. InStates(Waiting) # {}
  BY <1>1, WaitersCounted DEF InStates, Waiting
<1>3. PICK u \in Threads : state[u] \in Waiting /\ u \notin readable \cup writeable
  BY <1>1, <1>2 DEF WakeInv, Stirring
<1>4. u # t
  BY <1>1, <1>3 DEF Waiting
<1>5. state'[u] = state[u] /\ u \notin readable' \cup writeable'
  BY <1>3, <1>4 DEF IndInv, TypeOK, ReadWait, WriteWait, Become
<1> QED BY <1>3, <1>5 DEF Stirring

LEMMA WakeStep ==
    ASSUME IndInv, WakeInv, NEW t \in Threads, Call(t) \/ Step(t) \/ SpuriousWakeup(t)
    PROVE  WakeInv'
<1>0. active \in Nat
  BY InStatesFinite DEF IndInv, HoldInv
<1>1. CASE ReadWait(t) \/ WriteWait(t)
  BY <1>1, SleepBehind
<1>2. CASE UnlockCall(t)
  BY <1>2, HandOver DEF WakeInv
<1>3. CASE \/ ReadCall(t) \/ WriteCall(t) \/ TryUpgradeCall(t) \/ DowngradeCall(t)
           \/ ReadAwake(t) \/ WriteAwake(t)
  <2>1. active' # 0
    <3>1. DowngradeCall(t) => active = 1
      BY DEF DowngradeCall, IndInv, HoldInv
    <3>2. CASE ReadCall(t) \/ WriteCall(t) \/ ReadAwake(t) \/ WriteAwake(t)
      BY <1>0, <3>2 DEF ReadCall, WriteCall, TakeRead, TakeWrite, ReadAwake, WriteAwake,
         CanRead, CanWrite, rwl
    <3>3. CASE TryUpgradeCall(t) \/ DowngradeCall(t)
      BY <1>0, <3>1, <3>3 DEF TryUpgradeCall, TryUpgradeAmongReaders, DowngradeCall, rwl
    <3> QED BY <1>3, <3>2, <3>3, Zenon
  <2> QED BY <2>1 DEF WakeInv
<1>4. CASE SpuriousWakeup(t)
  <2>1. /\ active' = active /\ InStates(Waiting)' = InStates(Waiting)
        /\ Stirring \subseteq Stirring'
    BY <1>4 DEF SpuriousWakeup, rwl, InStates, Stirring
  <2> QED BY <2>1 DEF WakeInv
<1> QED BY <1>1, <1>2, <1>3, <1>4 DEF Call, Step

\* No wakeup is lost: it cannot happen that threads sleep on the conditions
\* while all the others are outside the lock.  Whoever leaves the lock free
\* wakes a waiter, and a waiter goes back to sleep only when the lock is held.
THEOREM WakeupsKept == Spec => []NoLostWakeup
<1>1. Init => WakeInv
  BY DEF Init, WakeInv, InStates, Waiting
<1>2. IndInv /\ WakeInv /\ [Next]_vars => WakeInv'
  <2> SUFFICES ASSUME IndInv, WakeInv, [Next]_vars PROVE WakeInv'
    OBVIOUS
  <2>1. CASE Next
    BY <2>1, WakeStep DEF Next
  <2>2. CASE UNCHANGED vars
    BY <2>2 DEF vars, rwl, conds, WakeInv, Stirring, InStates
  <2> QED BY <2>1, <2>2
<1>3. IndInv /\ WakeInv => NoLostWakeup
  <2> SUFFICES ASSUME IndInv, WakeInv,
                      \A t \in Threads : state[t] = "idle" \/ t \in readable \cup writeable,
                      NEW u \in readable \cup writeable
               PROVE  FALSE
    BY DEF NoLostWakeup
  <2>1. u \in Threads /\ state[u] \in Waiting
    BY DEF IndInv, TypeOK, Waiting
  <2>2. \A t \in Threads : state[t] \notin Holding
    BY DEF IndInv, TypeOK, Holding
  <2>3. InStates(Holding) = {}
    BY <2>2 DEF InStates
  <2>4. active = 0
    BY <2>3, FS_EmptySet DEF IndInv, HoldInv
  <2>5. PICK t \in Threads : state[t] \in Waiting /\ t \notin readable \cup writeable
    BY <2>1, <2>4 DEF WakeInv, Stirring, InStates
  <2> QED BY <2>5 DEF Waiting
<1> QED BY <1>1, <1>2, <1>3, InitInv, NextInv, PTL DEF Spec
=============================================================================
