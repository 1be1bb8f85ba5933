---------------------------- MODULE TimerProofs -----------------------------
(***************************************************************************)
(* The timer thread never sleeps past a due time, whatever calls           *)
(* interleave with it, for any set of timers.                              *)
(***************************************************************************)
EXTENDS Timer, WellFoundedInduction, TLAPS

\* The provers of every leaf that names none, with time to spare.
USE SMTT(30), ZenonT(30)

TimerRec == [type : Types \cup {"none"}, expires : Nat, interval : Nat,
             idle : Nat, due : Nat, scheduled : BOOLEAN, references : 0 .. MaxRefs]

\* Between the two halves of a round of dispatch() the timer it is about stays
\* on the heap: the calls that could take it off need the manager's lock.
ChosenInv == pc = "post" => chosen[1] \in Scheduled

IndInv == NoMissedTimer /\ ChosenInv

-----------------------------------------------------------------------------
(* What the operators return *)

\* A nonempty set of times has an earliest.
LEMMA MinIs ==
    ASSUME NEW S \in SUBSET Nat, S # {}
    PROVE  Min(S) \in S /\ \A y \in S : Min(S) <= y
<1> DEFINE R == OpToRel(<, Nat)
<1>1. IsWellFoundedOn(R, Nat)
  BY NatLessThanWellFounded, Zenon
<1>2. PICK x \in S : \A y \in S : ~ (<<y, x>> \in R)
  <2> HIDE DEF R
  <2> QED BY <1>1, WFMin, Zenon
<1>3. \A y \in S : x <= y
  <2> SUFFICES ASSUME NEW y \in S, y < x PROVE FALSE
    OBVIOUS
  <2>1. <<y, x>> \in {ss \in Nat \X Nat : ss[1] < ss[2]}
    OBVIOUS
  <2>2. R = {ss \in Nat \X Nat : ss[1] < ss[2]}
    BY DEF OpToRel
  <2> QED BY <1>2, <2>1, <2>2, Zenon
<1> QED BY <1>3, Zenon DEF Min

\* The earlier of two times.
LEMMA Min2 ==
    ASSUME NEW a \in Nat, NEW b \in Nat
    PROVE  Min({a, b}) \in Nat
BY MinIs

\* A call reads the clock at some time since the start.
LEMMA CallTimesType ==
    ASSUME clock \in Nat
    PROVE  CallTimes \subseteq Nat
<1>1. Max({1, clock - Lag}) \in {1, clock - Lag} /\ Max({1, clock - Lag}) >= 1
  <2>1. \E x \in {1, clock - Lag} : \A y \in {1, clock - Lag} : x >= y
    BY TimerAssumption
  <2> QED BY <2>1 DEF Max
<1> QED BY <1>1, TimerAssumption DEF CallTimes

\* What schedule() computes is a time.
LEMMA DueTimeType ==
    ASSUME NEW k \in TimerRec, NEW n \in Nat
    PROVE  DueTime(k, n) \in Nat
<1>1. /\ k.expires \in Nat /\ k.interval \in Nat /\ k.idle \in Nat
      /\ n + k.interval \in Nat
  BY DEF TimerRec
<1>2. Min({n + k.interval, k.expires}) \in Nat /\ Min({k.idle, k.expires}) \in Nat
  BY <1>1, Min2
<1>3. CASE k.type = "ticker"
  BY <1>1, <1>3 DEF DueTime
<1>4. CASE k.type = "limited"
  BY <1>2, <1>4 DEF DueTime
<1>5. CASE k.type \notin {"ticker", "limited"}
  BY <1>1, <1>2, <1>5 DEF DueTime
<1> QED BY <1>3, <1>4, <1>5

\* The head of the heap is due no later than any timer on it.
LEMMA EarliestIs ==
    ASSUME TypeOK, NEW S \in SUBSET Timers, S # {}
    PROVE  /\ EarliestOf(S) \in Nat
           /\ \A tm \in S : EarliestOf(S) <= timer[tm].due
           /\ \E tm \in S : EarliestOf(S) = timer[tm].due
<1> DEFINE D == {timer[tm].due : tm \in S}
<1>1. D \in SUBSET Nat /\ D # {} /\ \A tm \in S : timer[tm].due \in D
  BY DEF TypeOK
<1>2. Min(D) \in D /\ \A y \in D : Min(D) <= y
  <2> HIDE DEF D
  <2> QED BY <1>1, MinIs
<1> QED BY <1>1, <1>2, Zenon DEF EarliestOf

\* What create and reset make of a timer.
LEMMA ConfiguredType ==
    ASSUME NEW k \in TimerRec, NEW tm \in Timers, NEW x \in Args[tm], NEW n \in Nat
    PROVE  /\ Configured(k, x, n) \in TimerRec
           /\ Configured(k, x, n).type = x.type /\ x.type \in Types
<1>1. x.type \in Types /\ x.expires \in Nat /\ x.interval \in Nat
  BY TimerAssumption
<1>2. (IF x.type = "once" /\ x.interval # 0 THEN n + x.interval ELSE 0) \in Nat
  BY <1>1
<1> QED BY <1>1, <1>2, Zenon DEF Configured, TimerRec

\* A timer that is not allocated, and one fresh from isc__timer_create().
LEMMA FreeType == Free \in TimerRec /\ [Free EXCEPT !.references = 1] \in TimerRec
<1>1. 0 \in 0 .. MaxRefs /\ 1 \in 0 .. MaxRefs /\ 0 \in Nat
  BY TimerAssumption
<1>2. Free \in TimerRec
  BY <1>1 DEF Free, TimerRec
<1> QED BY <1>1, <1>2 DEF TimerRec

-----------------------------------------------------------------------------
(* The two operations on the heap *)

\* A timer that is scheduled before the time the thread waits for becomes the
\* head of the heap, and the thread is woken.
LEMMA ScheduleInv ==
    ASSUME IndInv, LockFree, NEW tm \in Timers, NEW k \in TimerRec, NEW n \in Nat,
           k.type \notin {"inactive", "none"}, Schedule(tm, k, n), pending' \subseteq pending,
           UNCHANGED <<clock, done, due, now, chosen, mgr>>
    PROVE  IndInv'
<1> DEFINE d == DueTime(k, n)
           others == Scheduled \ {tm}
<1>1. d \in Nat
  BY DueTimeType
<1> HIDE DEF d
<1>2. timer' = [timer EXCEPT ![tm] = [k EXCEPT !.due = d, !.scheduled = TRUE]]
  BY DEF Schedule, d
<1>3. PICK head \in AtHead(tm, d) : pc' = IF MustWake(head, n) THEN Signalled(pc) ELSE pc
  BY DEF Schedule, d
<1>4. TypeOK
  BY DEF IndInv, NoMissedTimer
<1>5. pc' \in {pc, "run"} /\ pc' # "post" /\ pc' # "dispatch"
  BY <1>3, <1>4 DEF Signalled, LockFree, TypeOK
<1>6. TypeOK'
  BY <1>1, <1>2, <1>4, <1>5, Zenon DEF TypeOK, TimerRec
<1>7. Scheduled' = Scheduled \cup {tm}
  BY <1>2, <1>4, Zenon DEF Scheduled, TypeOK, TimerRec
<1>8. \A u \in others : timer'[u] = timer[u]
  BY <1>2, <1>4 DEF TypeOK, Scheduled
<1>9. timer'[tm].due = d /\ timer'[tm].type = k.type
  BY <1>2, <1>4 DEF TypeOK, TimerRec
<1>10. pc' \in {"wait", "timedwait"} => pc' = pc /\ ~head
  BY <1>3, <1>5 DEF MustWake, Signalled
<1>11. ~head => others # {} /\ EarliestOf(others) <= d
  <2> SUFFICES ASSUME ~head PROVE others # {} /\ EarliestOf(others) <= d
    OBVIOUS
  <2>1. others # {} /\ ~(d < EarliestOf(others))
    BY <1>3, Zenon DEF AtHead
  <2>2. EarliestOf(others) \in Nat
    BY <1>4, <2>1, EarliestIs DEF Scheduled
  <2> QED BY <1>1, <2>1, <2>2
<1>12. pc' # "wait"
  BY <1>10, <1>11 DEF IndInv, NoMissedTimer
<1>13. pc' = "timedwait" => \A u \in Scheduled' : due' <= timer'[u].due
  <2> SUFFICES ASSUME pc' = "timedwait" PROVE \A u \in Scheduled' : due' <= timer'[u].due
    OBVIOUS
  <2>1. pc = "timedwait" /\ others # {} /\ EarliestOf(others) <= d
    BY <1>10, <1>11
  <2>2. \A u \in others : due <= timer[u].due
    BY <2>1 DEF IndInv, NoMissedTimer
  <2>3. PICK u \in others : EarliestOf(others) = timer[u].due
    BY <1>4, <2>1, EarliestIs DEF Scheduled
  <2>4. due <= d
    <3>1. due \in Nat /\ timer[u].due \in Nat
      BY <1>4 DEF TypeOK, Scheduled
    <3> QED BY <1>1, <2>1, <2>2, <2>3, <3>1
  <2> QED BY <1>7, <1>8, <1>9, <2>2, <2>4
<1>14. \A u \in Scheduled' : timer'[u].type \notin {"inactive", "none"}
  BY <1>7, <1>8, <1>9 DEF IndInv, NoMissedTimer
<1>15. \A u \in pending' : timer'[u].type # "none"
  BY <1>2, <1>4, <1>9 DEF IndInv, NoMissedTimer, TypeOK
<1> QED BY <1>5, <1>6, <1>12, <1>13, <1>14, <1>15 DEF IndInv, NoMissedTimer, ChosenInv

\* A timer that leaves the heap makes nothing due earlier.
LEMMA DescheduleInv ==
    ASSUME IndInv, LockFree, NEW tm \in Timers, NEW k \in TimerRec, Deschedule(tm, k),
           pending' \subseteq pending, tm \in pending' => k.type # "none",
           UNCHANGED <<clock, done, due, now, chosen, mgr>>
    PROVE  IndInv'
<1>1. TypeOK
  BY DEF IndInv, NoMissedTimer
<1>2. timer' = [timer EXCEPT ![tm] = [k EXCEPT !.scheduled = FALSE]]
  BY DEF Deschedule
<1>3. pc' \in {pc, "run"} /\ pc' # "post" /\ pc' # "dispatch"
  BY <1>1 DEF Deschedule, Signalled, LockFree, TypeOK
<1>4. TypeOK'
  BY <1>1, <1>2, <1>3, Zenon DEF TypeOK, TimerRec
<1>5. Scheduled' = Scheduled \ {tm}
  BY <1>1, <1>2, Zenon DEF Scheduled, TypeOK, TimerRec
<1>6. \A u \in Timers \ {tm} : timer'[u] = timer[u]
  BY <1>1, <1>2 DEF TypeOK
<1>7. timer'[tm].type = k.type
  BY <1>1, <1>2 DEF TypeOK, TimerRec
<1>8. \A u \in pending' : timer'[u].type # "none"
  BY <1>1, <1>6, <1>7, Zenon DEF IndInv, NoMissedTimer, TypeOK
<1>9. \A u \in Scheduled' : u \in Scheduled /\ timer'[u] = timer[u]
  BY <1>5, <1>6 DEF Scheduled
<1> QED BY <1>3, <1>4, <1>5, <1>8, <1>9 DEF IndInv, NoMissedTimer, ChosenInv

-----------------------------------------------------------------------------
(* One lemma for the calls, one for the thread *)

\* The timer's own lock: references and the idle time, neither of which the
\* thread's sleep depends on.
LEMMA OwnLockInv ==
    ASSUME IndInv, NEW tm \in Timers, Touch(tm) \/ Attach(tm) \/ Detach(tm)
    PROVE  IndInv'
<1>1. TypeOK /\ timer[tm] \in TimerRec
  BY DEF IndInv, NoMissedTimer, TypeOK, TimerRec
<1>2. UNCHANGED <<pending, clock, done, due, now, pc, chosen, mgr>>
  BY DEF Touch, Attach, Detach
<1>3. PICK k \in TimerRec : /\ timer' = [timer EXCEPT ![tm] = k]
                           /\ k.type = timer[tm].type /\ k.due = timer[tm].due
                           /\ k.scheduled = timer[tm].scheduled
  <2>1. CASE Touch(tm)
    <3> DEFINE k == [timer[tm] EXCEPT !.idle = clock + timer[tm].interval]
    <3>1. clock + timer[tm].interval \in Nat
      BY <1>1 DEF TypeOK, TimerRec
    <3>2. /\ k \in TimerRec /\ k.type = timer[tm].type /\ k.due = timer[tm].due
          /\ k.scheduled = timer[tm].scheduled
      BY <1>1, <3>1 DEF TimerRec
    <3>3. timer' = [timer EXCEPT ![tm] = k]
      BY <2>1 DEF Touch
    <3> HIDE DEF k
    <3> QED BY <3>2, <3>3, Zenon
  <2>2. CASE Attach(tm)
    <3> DEFINE k == [timer[tm] EXCEPT !.references = @ + 1]
    <3>1. timer[tm].references + 1 \in 0 .. MaxRefs
      BY <1>1, <2>2, TimerAssumption DEF Attach, TimerRec
    <3>2. /\ k \in TimerRec /\ k.type = timer[tm].type /\ k.due = timer[tm].due
          /\ k.scheduled = timer[tm].scheduled
      BY <1>1, <3>1 DEF TimerRec
    <3>3. timer' = [timer EXCEPT ![tm] = k]
      BY <2>2 DEF Attach
    <3> HIDE DEF k
    <3> QED BY <3>2, <3>3, Zenon
  <2>3. CASE Detach(tm)
    <3> DEFINE k == [timer[tm] EXCEPT !.references = @ - 1]
    <3>1. timer[tm].references - 1 \in 0 .. MaxRefs
      BY <1>1, <2>3, TimerAssumption DEF Detach, Known, TimerRec
    <3>2. /\ k \in TimerRec /\ k.type = timer[tm].type /\ k.due = timer[tm].due
          /\ k.scheduled = timer[tm].scheduled
      BY <1>1, <3>1 DEF TimerRec
    <3>3. timer' = [timer EXCEPT ![tm] = k]
      BY <2>3 DEF Detach
    <3> HIDE DEF k
    <3> QED BY <3>2, <3>3, Zenon
  <2> QED BY <2>1, <2>2, <2>3
<1>4. TypeOK'
  BY <1>1, <1>2, <1>3, Zenon DEF TypeOK, TimerRec
<1>5. \A u \in Timers : /\ timer'[u].type = timer[u].type /\ timer'[u].due = timer[u].due
                        /\ timer'[u].scheduled = timer[u].scheduled
  BY <1>1, <1>3, Zenon DEF TypeOK
<1>6. Scheduled' = Scheduled
  BY <1>5 DEF Scheduled
<1>7. \A u \in Scheduled : u \in Timers
  BY DEF Scheduled
<1>8. \A u \in pending : u \in Timers
  BY <1>1 DEF TypeOK
<1> QED BY <1>2, <1>4, <1>5, <1>6, <1>7, <1>8 DEF IndInv, NoMissedTimer, ChosenInv

\* create, reset and destroy, under the manager's lock
LEMMA CallInv ==
    ASSUME IndInv, NEW tm \in Timers,
           \/ \E x \in Args[tm] : Create(tm, x) \/ \E purge \in BOOLEAN : Reset(tm, x, purge)
           \/ Destroy(tm)
    PROVE  IndInv'
<1>1. TypeOK /\ timer[tm] \in TimerRec /\ clock \in Nat
  BY DEF IndInv, NoMissedTimer, TypeOK, TimerRec
<1>2. Free \in TimerRec /\ [Free EXCEPT !.references = 1] \in TimerRec
  BY FreeType
<1>3. ASSUME LockFree, NEW x \in Args[tm], NEW k \in TimerRec, NEW n \in Nat,
             Install(tm, Configured(k, x, n), n), pending' \subseteq pending,
             UNCHANGED <<clock, done, due, now, chosen, mgr>>
      PROVE  IndInv'
  <2> DEFINE c == Configured(k, x, n)
  <2>1. c \in TimerRec /\ c.type # "none"
    BY ConfiguredType DEF Types
  <2> HIDE DEF c
  <2>2. CASE c.type = "inactive"
    <3>1. Deschedule(tm, c)
      BY <1>3, <2>2 DEF Install, c
    <3> QED BY <1>3, <2>1, <3>1, DescheduleInv
  <2>3. CASE c.type # "inactive"
    <3>1. Schedule(tm, c, n)
      BY <1>3, <2>3 DEF Install, c
    <3> QED BY <1>3, <2>1, <2>3, <3>1, ScheduleInv
  <2> QED BY <2>2, <2>3
<1>4. CASE \E x \in Args[tm] : Create(tm, x)
  <2>1. PICK x \in Args[tm] : Create(tm, x)
    BY <1>4
  <2>2. PICK n \in CallTimes : Install(tm, Configured([Free EXCEPT !.references = 1], x, n), n)
    BY <2>1 DEF Create
  <2>3. n \in Nat
    BY <1>1, <2>2, CallTimesType
  <2> QED BY <1>2, <1>3, <2>1, <2>2, <2>3 DEF Create
<1>5. CASE \E x \in Args[tm], purge \in BOOLEAN : Reset(tm, x, purge)
  <2>1. PICK x \in Args[tm], purge \in BOOLEAN : Reset(tm, x, purge)
    BY <1>5
  <2>2. PICK n \in CallTimes : Install(tm, Configured(timer[tm], x, n), n)
    BY <2>1 DEF Reset
  <2>3. n \in Nat
    BY <1>1, <2>2, CallTimesType
  <2> QED BY <1>1, <1>3, <2>1, <2>2, <2>3 DEF Reset
<1>6. CASE Destroy(tm)
  BY <1>2, <1>6, DescheduleInv DEF Destroy
<1> QED BY <1>4, <1>5, <1>6

\* A round of dispatch(): the timer chosen is posted and scheduled again, or
\* leaves the heap.
LEMMA PostInv ==
    ASSUME IndInv, NEW tm \in Timers, NEW event \in EventTypes, Post(tm, event)
    PROVE  IndInv'
<1>1. TypeOK /\ timer[tm] \in TimerRec /\ now \in Nat
  BY DEF IndInv, NoMissedTimer, TypeOK, TimerRec
<1>2. tm \in Scheduled
  <2>1. pc = "post" /\ chosen = <<tm, event>>
    BY DEF Post
  <2> QED BY <2>1 DEF IndInv, ChosenInv
<1>3. timer[tm].type \notin {"inactive", "none"}
  BY <1>2 DEF IndInv, NoMissedTimer
<1>4. PICK k \in TimerRec : timer' = [timer EXCEPT ![tm] = k] /\ k.type = timer[tm].type
  <2>1. DueTime(timer[tm], now) \in Nat
    BY <1>1, DueTimeType
  <2>2. CASE event \in {"tick", "none"}
    <3>1. timer' = [timer EXCEPT ![tm].due = DueTime(timer[tm], now)]
      BY <2>2 DEF Post
    <3> DEFINE k == [timer[tm] EXCEPT !.due = DueTime(timer[tm], now)]
    <3>2. k \in TimerRec /\ k.type = timer[tm].type
      BY <1>1, <2>1 DEF TimerRec
    <3>3. timer' = [timer EXCEPT ![tm] = k]
      BY <3>1
    <3> HIDE DEF k
    <3> QED BY <3>2, <3>3, Zenon
  <2>3. CASE event \notin {"tick", "none"}
    <3>1. timer' = [timer EXCEPT ![tm].scheduled = FALSE]
      BY <2>3 DEF Post
    <3> DEFINE k == [timer[tm] EXCEPT !.scheduled = FALSE]
    <3>2. k \in TimerRec /\ k.type = timer[tm].type
      BY <1>1, Zenon DEF TimerRec
    <3>3. timer' = [timer EXCEPT ![tm] = k]
      BY <3>1
    <3> HIDE DEF k
    <3> QED BY <3>2, <3>3, Zenon
  <2> QED BY <2>2, <2>3
<1>5. TypeOK'
  <2>1. timer' \in [Timers -> TimerRec]
    BY <1>1, <1>4 DEF TypeOK, TimerRec
  <2>2. chosen' \in {<<>>} \cup (Timers \X EventTypes)
    BY Zenon DEF Post
  <2>3. pending' \subseteq Timers /\ pc' = "dispatch"
    BY <1>1 DEF Post, TypeOK
  <2>4. UNCHANGED <<clock, done, due, now, mgr>>
    BY DEF Post
  <2> QED BY <1>1, <2>1, <2>2, <2>3, <2>4, Zenon DEF TypeOK, TimerRec
<1>6. \A u \in Timers : timer'[u].type = timer[u].type
  BY <1>1, <1>4 DEF TypeOK
<1>7. Scheduled' \subseteq Scheduled
  BY <1>1, <1>2, <1>4 DEF Scheduled, TypeOK
<1>8. \A u \in Scheduled' : timer'[u].type \notin {"inactive", "none"}
  BY <1>6, <1>7 DEF IndInv, NoMissedTimer, Scheduled
<1>9. \A u \in pending' : timer'[u].type # "none"
  BY <1>1, <1>3, <1>6 DEF IndInv, NoMissedTimer, Post, TypeOK
<1>10. pc' = "dispatch"
  BY DEF Post
<1> QED BY <1>5, <1>8, <1>9, <1>10 DEF IndInv, NoMissedTimer, ChosenInv

\* The steps of the thread and of the world that leave the timers alone.
LEMMA RestInv ==
    ASSUME IndInv,
           \/ Run \/ Wait \/ Timeout \/ SpuriousWakeup \/ Tick \/ DestroyManager \/ Join
           \/ \E tm \in Timers : Choose(tm) \/ Deliver(tm)
           \/ UNCHANGED vars
    PROVE  IndInv'
<1>1. TypeOK
  BY DEF IndInv, NoMissedTimer
<1>2. timer' = timer /\ pending' \subseteq pending
  BY DEF Run, Wait, Timeout, SpuriousWakeup, Tick, DestroyManager, Join, Choose, Deliver, vars
<1>3. Scheduled' = Scheduled
  BY <1>2 DEF Scheduled
<1>4. TypeOK'
  <2>1. CASE Run \/ Timeout \/ SpuriousWakeup \/ Tick \/ Join \/ DestroyManager
    <3>1. clock' \in 1 .. MaxTime
      BY <1>1, <2>1, TimerAssumption
      DEF TypeOK, Run, Timeout, SpuriousWakeup, Tick, Join, DestroyManager
    <3>2. now' \in Nat
      BY <1>1, <2>1, TimerAssumption
      DEF TypeOK, Run, Timeout, SpuriousWakeup, Tick, Join, DestroyManager
    <3>3. /\ pc' \in {"run", "dispatch", "post", "wait", "timedwait", "exit"}
          /\ mgr' \in {"up", "joining", "gone"} /\ done' \in BOOLEAN
      BY <1>1, <2>1, Zenon
      DEF TypeOK, Run, Timeout, SpuriousWakeup, Tick, Join, DestroyManager, Signalled
    <3>4. UNCHANGED <<timer, pending, due, chosen>>
      BY <2>1, Zenon DEF Run, Timeout, SpuriousWakeup, Tick, Join, DestroyManager
    <3> QED BY <1>1, <3>1, <3>2, <3>3, <3>4 DEF TypeOK
  <2>2. CASE Wait
    <3>1. Scheduled # {} => EarliestOf(Scheduled) \in Nat
      BY <1>1, EarliestIs DEF Scheduled
    <3> QED BY <1>1, <2>2, <3>1 DEF TypeOK, Wait
  <2>3. CASE \E tm \in Timers : Choose(tm)
    <3>1. PICK tm \in Timers : Choose(tm)
      BY <2>3
    <3>2. EventOf(timer[tm]) \in EventTypes
      BY DEF EventOf, EventTypes
    <3>3. chosen' \in Timers \X EventTypes
      BY <3>1, <3>2 DEF Choose
    <3> QED BY <1>1, <3>1, <3>3, Zenon DEF TypeOK, Choose
  <2>4. CASE \E tm \in Timers : Deliver(tm)
    BY <1>1, <2>4, Zenon DEF TypeOK, Deliver
  <2>5. CASE UNCHANGED vars
    BY <1>1, <2>5 DEF TypeOK, vars
  <2> QED BY <2>1, <2>2, <2>3, <2>4, <2>5
<1>5. pc' = "wait" => Scheduled = {}
  BY DEF IndInv, NoMissedTimer, Run, Wait, Timeout, SpuriousWakeup, Tick, DestroyManager, Join,
         Choose, Deliver, Signalled, vars
<1>6. pc' = "timedwait" => \A tm \in Scheduled : due' <= timer[tm].due
  <2>1. CASE Wait
    <3>1. Scheduled # {} => \A tm \in Scheduled : EarliestOf(Scheduled) <= timer[tm].due
      BY <1>1, EarliestIs DEF Scheduled
    <3> QED BY <2>1, <3>1 DEF Wait
  <2>2. CASE ~Wait
    BY <2>2 DEF IndInv, NoMissedTimer, Run, Timeout, SpuriousWakeup, Tick, DestroyManager, Join,
           Choose, Deliver, Signalled, vars
  <2> QED BY <2>1, <2>2
<1>7. ChosenInv'
  <2>1. CASE \E tm \in Timers : Choose(tm)
    BY <1>3, <2>1 DEF Choose, ChosenInv
  <2>2. CASE ~(\E tm \in Timers : Choose(tm))
    BY <1>3, <2>2 DEF IndInv, ChosenInv, Run, Wait, Timeout, SpuriousWakeup, Tick,
           DestroyManager, Join, Deliver, Signalled, vars
  <2> QED BY <2>1, <2>2
<1> QED BY <1>2, <1>3, <1>4, <1>5, <1>6, <1>7 DEF IndInv, NoMissedTimer

-----------------------------------------------------------------------------
\* The timer thread never waits past the due time of a timer, however create,
\* reset, touch and destroy interleave with run() and dispatch(): schedule()
\* signals exactly when it must.
THEOREM NeverMissed == Spec => []NoMissedTimer
<1>1. Init => IndInv
  <2> SUFFICES ASSUME Init PROVE IndInv
    OBVIOUS
  <2>1. timer \in [Timers -> TimerRec]
    BY FreeType DEF Init
  <2>2. chosen \in {<<>>} \cup (Timers \X EventTypes)
    BY Zenon DEF Init
  <2>3. TypeOK
    <3>1. clock \in 1 .. MaxTime /\ now \in Nat /\ due \in Nat
      BY TimerAssumption DEF Init
    <3>2. /\ pc \in {"run", "dispatch", "post", "wait", "timedwait", "exit"}
          /\ mgr \in {"up", "joining", "gone"} /\ done \in BOOLEAN /\ pending \subseteq Timers
      BY Zenon DEF Init
    <3> QED BY <2>1, <2>2, <3>1, <3>2 DEF TypeOK, TimerRec
  <2>4. Scheduled = {}
    BY DEF Init, Free, Scheduled
  <2> QED BY <2>3, <2>4 DEF Init, IndInv, NoMissedTimer, ChosenInv
<1>2. IndInv /\ [Next]_vars => IndInv'
  BY OwnLockInv, CallInv, PostInv, RestInv, Zenon DEF Next, ThreadStep
<1>3. IndInv => NoMissedTimer
  BY DEF IndInv
<1> QED BY <1>1, <1>2, <1>3, PTL DEF Spec
=============================================================================
