----------------------------- MODULE TaskProofs -----------------------------
(***************************************************************************)
(* Exclusive execution really excludes, for any number of workers, clients *)
(* and tasks.  Then the invariant of the ready queues, TaskInv, and the    *)
(* proofs that the calls of the task interface preserve it; the worker     *)
(* threads' steps and what follows from it are in TaskQueueProofs.         *)
(***************************************************************************)
EXTENDS Task, Integers, FiniteSetTheorems, TLAPS

\* The provers of every leaf that names none, with time to spare.
USE SMTT(30), ZenonT(30)

Resting == {"top", "sleep", "exit"}
\* A worker between these labels has a task, counted in tasks_running.
Busy == {"popped", "action", "exwait", "excheck", "exclusive", "finish", "tail", "requeue"}
\* It has set exclusive_requested.
Requesting == {"exwait", "excheck", "exclusive"}
\* Where a client is.
Outside == {"free", "pausewait", "pausecheck", "join", "gone"}

Fields == {"ready_tasks", "ready_priority_tasks", "mode", "tasks_running",
           "pause_requested", "exclusive_requested", "exiting"}

\* m is a struct, whatever the queues hold.
IsManager(m) == m = [f \in Fields |-> m[f]]

\* p says of every thread where it is.
IsPc(p) ==
    /\ p = [a \in Actors |-> p[a]]
    /\ \A w \in Workers : p[w] \in Resting \cup Busy
    /\ \A c \in Clients : p[c] \in Outside

BusyIn(p) == {w \in Workers : p[w] \in Busy}

\* A request for exclusive access is on record and is the only one; who has been
\* granted it is the only busy worker.
ExclusiveOne(m, p) ==
    \A w \in Workers : p[w] \in Requesting =>
        /\ m.exclusive_requested
        /\ \A v \in Workers : p[v] \in Requesting => v = w
        /\ p[w] = "exclusive" => BusyIn(p) = {w}

IndInv ==
    /\ IsManager(mgr) /\ IsPc(pc)
    /\ mgr.tasks_running = Cardinality(BusyIn(pc))
    /\ ExclusiveOne(mgr, pc)

-----------------------------------------------------------------------------
(* Populations of workers *)

LEMMA BusyFinite ==
    ASSUME NEW p
    PROVE  IsFiniteSet(BusyIn(p)) /\ Cardinality(BusyIn(p)) \in Nat
BY TaskAssumption, FS_Subset, FS_CardinalityType DEF BusyIn

\* A worker that leaves the busy ones makes them one less.
LEMMA BusyLess ==
    ASSUME NEW p, NEW w \in BusyIn(p)
    PROVE  Cardinality(BusyIn(p) \ {w}) = Cardinality(BusyIn(p)) - 1
BY BusyFinite, FS_RemoveElement

\* A worker that is the only one busy according to the count is the only one.
LEMMA BusyAlone ==
    ASSUME NEW p, NEW w \in BusyIn(p), ~(Cardinality(BusyIn(p)) > 1)
    PROVE  BusyIn(p) = {w}
<1>1. Cardinality(BusyIn(p) \ {w}) = Cardinality(BusyIn(p)) - 1 /\ Cardinality(BusyIn(p)) \in Nat
  BY BusyLess, BusyFinite
<1>2. IsFiniteSet(BusyIn(p) \ {w}) /\ Cardinality(BusyIn(p) \ {w}) \in Nat
  BY BusyFinite, FS_Subset, FS_CardinalityType
<1>3. Cardinality(BusyIn(p) \ {w}) = 0
  BY <1>1, <1>2
<1>4. BusyIn(p) \ {w} = {}
  BY <1>2, <1>3, FS_EmptySet
<1> QED BY <1>4

-----------------------------------------------------------------------------
(* The kinds of step *)

\* A step in which no worker takes up or ends a task, or asks for or is granted
\* exclusive access.
Quiet(p, q) ==
    /\ IsPc(q)
    /\ \A w \in Workers :
          /\ q[w] \in Busy <=> p[w] \in Busy
          /\ q[w] \in Requesting => p[w] \in Requesting
          /\ q[w] = "exclusive" => p[w] = "exclusive"

\* The manager's count and the request are left alone.
SameCount(m, n) ==
    /\ IsManager(n) /\ n.tasks_running = m.tasks_running
    /\ n.exclusive_requested = m.exclusive_requested

LEMMA QuietInv ==
    ASSUME IndInv, Quiet(pc, pc'), SameCount(mgr, mgr')
    PROVE  IndInv'
<1>1. BusyIn(pc') = BusyIn(pc)
  BY DEF BusyIn, Quiet
<1>2. ExclusiveOne(mgr', pc')
  BY <1>1 DEF ExclusiveOne, Quiet, SameCount, IndInv
<1> QED BY <1>1, <1>2 DEF IndInv, Quiet, SameCount

\* Waking sleepers is quiet.
LEMMA BroadcastQuiet ==
    ASSUME NEW p, IsPc(p)
    PROVE  Quiet(p, Broadcast(p))
BY TaskAssumption DEF IsPc, Quiet, Broadcast, Actors, Resting, Busy, Requesting, Outside

LEMMA SignalQuiet ==
    ASSUME NEW p, IsPc(p), NEW q \in Signal(p)
    PROVE  Quiet(p, q)
<1>1. CASE q = p
  BY <1>1 DEF Quiet
<1>2. CASE \E w \in Sleeping(p) : q = [p EXCEPT ![w] = "top"]
  BY <1>2, TaskAssumption, Zenon
  DEF IsPc, Quiet, Sleeping, Actors, Resting, Busy, Requesting, Outside
<1> QED BY <1>1, <1>2 DEF Signal

\* One thread's quiet move.
LEMMA MoveQuiet ==
    ASSUME NEW p, IsPc(p), NEW a \in Actors, NEW l,
           a \in Workers => \/ p[a] \in Resting /\ l \in Resting
                            \/ p[a] \in Busy /\ l \in Busy \ Requesting
                            \/ p[a] \in Requesting /\ l \in Requesting \ {"exclusive"},
           a \in Clients => l \in Outside
    PROVE  Quiet(p, [p EXCEPT ![a] = l])
BY TaskAssumption, ZenonT(60) DEF IsPc, Quiet, Actors, Resting, Busy, Requesting, Outside

LEMMA QuietTwice ==
    ASSUME NEW p, NEW q, NEW r, Quiet(p, q), Quiet(q, r)
    PROVE  Quiet(p, r)
BY DEF Quiet

-----------------------------------------------------------------------------
(* What the operators on the manager keep *)

\* The queues and the mode are no part of the count.
LEMMA QueueSame ==
    ASSUME NEW m, IsManager(m), NEW q, NEW r, NEW t, NEW mode
    PROVE  /\ SameCount(m, [m EXCEPT !.ready_tasks = q, !.ready_priority_tasks = r])
           /\ SameCount(m, [m EXCEPT !.ready_priority_tasks = r])
           /\ SameCount(m, [m EXCEPT !.mode = mode])
           /\ SameCount(m, pop_readyq(m)) /\ SameCount(m, push_readyq(m, t))
           /\ SameCount(m, Unprivileged(m)) /\ SameCount(m, m)
<1>1. \A x, y : SameCount(m, [m EXCEPT !.ready_tasks = x, !.ready_priority_tasks = y])
  BY Zenon DEF IsManager, SameCount, Fields
<1>2. \A y : SameCount(m, [m EXCEPT !.ready_priority_tasks = y]) /\ SameCount(m, [m EXCEPT !.mode = y])
  BY DEF IsManager, SameCount, Fields
<1>3. SameCount(m, m)
  BY DEF SameCount
<1>4. SameCount(m, pop_readyq(m))
  BY <1>1, Zenon DEF pop_readyq
<1>5. SameCount(m, push_readyq(m, t))
  BY <1>1, Zenon DEF push_readyq
<1>6. SameCount(m, Unprivileged(m))
  BY <1>2, <1>3, Zenon DEF Unprivileged
<1> QED BY <1>1, <1>2, <1>3, <1>4, <1>5, <1>6, Zenon

-----------------------------------------------------------------------------
(* dispatch() *)

\* At the head of the loop the worker's own task is no longer counted; nobody
\* takes another while there is a request for exclusive access.
LEMMA LoopTopInv ==
    ASSUME NEW w \in Workers, NEW STATE m, NEW STATE p, IsManager(m), IsPc(p),
           m.tasks_running = Cardinality(BusyIn(p) \ {w}),
           p[w] \notin Requesting, ExclusiveOne(m, p), LoopTop(w, m, p)
    PROVE  IndInv'
<1>1. w \in Actors
  BY DEF Actors
<1>2. CASE /\ mgr' = m
           /\ pc' = [p EXCEPT ![w] = "exit"] \/ pc' = [p EXCEPT ![w] = "sleep"]
  <2>1. IsPc(pc') /\ pc'[w] \in Resting /\ \A v \in Workers \ {w} : pc'[v] = p[v]
    BY <1>1, <1>2, TaskAssumption, Zenon DEF IsPc, Actors, Resting
  <2>2. BusyIn(pc') = BusyIn(p) \ {w}
    BY <2>1 DEF BusyIn, Busy, Resting
  <2>3. ExclusiveOne(mgr', pc')
    <3> SUFFICES ASSUME NEW v \in Workers, pc'[v] \in Requesting
                 PROVE  /\ m.exclusive_requested
                        /\ \A u \in Workers : pc'[u] \in Requesting => u = v
                        /\ pc'[v] = "exclusive" => BusyIn(pc') = {v}
      BY <1>2 DEF ExclusiveOne
    <3>1. \A u \in Workers : pc'[u] \in Requesting => u # w /\ pc'[u] = p[u]
      BY <2>1 DEF Requesting, Resting
    <3> QED BY <2>2, <3>1 DEF ExclusiveOne
  <2> QED BY <1>2, <2>1, <2>2, <2>3 DEF IndInv
<1>3. CASE ~Blocked(m) /\ mgr' = Taken(m) /\ pc' = [p EXCEPT ![w] = "popped"]
  <2>1. IsPc(pc') /\ pc'[w] = "popped" /\ \A v \in Workers \ {w} : pc'[v] = p[v]
    BY <1>1, <1>3, TaskAssumption, Zenon DEF IsPc, Actors, Busy
  <2>2. SameCount(m, pop_readyq(m))
    BY QueueSame, Zenon
  <2>3. IsManager(mgr') /\ mgr'.tasks_running = m.tasks_running + 1
    <3> DEFINE n == pop_readyq(m)
    <3>1. mgr' = [n EXCEPT !.tasks_running = @ + 1]
      BY <1>3 DEF Taken
    <3>2. IsManager(n) /\ n.tasks_running = m.tasks_running
      BY <2>2 DEF SameCount
    <3> HIDE DEF n
    <3> QED BY <3>1, <3>2 DEF IsManager, Fields
  <2>4. \A v \in Workers : p[v] \notin Requesting
    BY <1>3 DEF ExclusiveOne, Blocked
  <2>5. ExclusiveOne(mgr', pc')
    BY <2>1, <2>4 DEF ExclusiveOne, Requesting
  <2>6. BusyIn(pc') = (BusyIn(p) \ {w}) \cup {w}
    BY <2>1 DEF BusyIn, Busy
  <2>7. IsFiniteSet(BusyIn(p) \ {w})
    BY BusyFinite, FS_Subset
  <2>8. Cardinality(BusyIn(pc')) = Cardinality(BusyIn(p) \ {w}) + 1
    BY <2>6, <2>7, FS_AddElement, Zenon
  <2> QED BY <2>1, <2>3, <2>5, <2>8 DEF IndInv
<1> QED BY <1>2, <1>3 DEF LoopTop

LEMMA TopInv ==
    ASSUME IndInv, NEW w \in Workers, Top(w)
    PROVE  IndInv'
<1>1. pc[w] = "top" /\ LoopTop(w, mgr, pc)
  BY DEF Top
<1>2. BusyIn(pc) \ {w} = BusyIn(pc)
  BY <1>1 DEF BusyIn, Busy
<1> QED BY <1>1, <1>2, LoopTopInv DEF IndInv, Requesting

\* After its task a worker counts it out, and wakes whoever waits for that.
LEMMA TailInv ==
    ASSUME IndInv, NEW w \in Workers, TailOf(w)
    PROVE  IndInv'
<1> DEFINE m1 == [mgr EXCEPT !.tasks_running = @ - 1]
           m2 == IF pc[w] = "requeue" THEN push_readyq(m1, wtask[w]) ELSE m1
           m3 == Unprivileged(m2)
<1>1. pc[w] \in {"tail", "requeue"}
  BY DEF TailOf
<1>2. PICK p \in TailSignal(m1) :
         LoopTop(w, m3, IF Stuck(m2) /\ ~empty_readyq(m3) THEN Broadcast(p) ELSE p)
  BY DEF TailOf
<1> DEFINE q == IF Stuck(m2) /\ ~empty_readyq(m3) THEN Broadcast(p) ELSE p
<1>3. /\ IsManager(m1) /\ m1.exclusive_requested = mgr.exclusive_requested
      /\ m1.tasks_running = mgr.tasks_running - 1
  BY DEF IndInv, IsManager, Fields
<1>4. Quiet(pc, p)
  <2>1. IsPc(pc)
    BY DEF IndInv
  <2>2. \/ p = pc
        \/ \E a \in Actors :
              /\ p = [pc EXCEPT ![a] = IF a \in Workers THEN "excheck" ELSE "pausecheck"]
              /\ a \in Workers => pc[a] = "exwait"
    BY TaskAssumption DEF TailSignal, Actors
  <2>3. CASE p = pc
    BY <2>1, <2>3 DEF Quiet
  <2>4. CASE p # pc
    <3>1. PICK a \in Actors :
             /\ p = [pc EXCEPT ![a] = IF a \in Workers THEN "excheck" ELSE "pausecheck"]
             /\ a \in Workers => pc[a] = "exwait"
      BY <2>2, <2>4
    <3> QED BY <2>1, <3>1, MoveQuiet, TaskAssumption, Zenon DEF Requesting, Outside
  <2> QED BY <2>3, <2>4
<1> HIDE DEF m1
<1>5. SameCount(m1, m2)
  BY <1>3, QueueSame, Zenon
<1> HIDE DEF m2
<1>6. SameCount(m2, m3)
  BY <1>5, QueueSame, Zenon DEF SameCount
<1>7. Quiet(pc, q)
  <2>1. IsPc(p)
    BY <1>4 DEF Quiet
  <2>2. Quiet(pc, Broadcast(p))
    BY <1>4, <2>1, BroadcastQuiet, QuietTwice
  <2> QED BY <1>4, <2>2
<1> HIDE DEF m3, q
<1>8. BusyIn(q) = BusyIn(pc) /\ w \in BusyIn(pc) /\ q[w] \notin Requesting
  BY <1>1, <1>7 DEF Quiet, BusyIn, Busy, Requesting
<1>9. m3.tasks_running = Cardinality(BusyIn(q) \ {w})
  BY <1>3, <1>5, <1>6, <1>8, BusyLess DEF SameCount, IndInv
<1>10. ExclusiveOne(m3, q)
  BY <1>3, <1>5, <1>6, <1>7, <1>8 DEF SameCount, ExclusiveOne, Quiet, IndInv
<1>11. LoopTop(w, m3, q)
  BY <1>2 DEF q
<1>12. IsManager(m3) /\ IsPc(q)
  BY <1>6, <1>7 DEF SameCount, Quiet
<1> QED BY <1>8, <1>9, <1>10, <1>11, <1>12, LoopTopInv

\* Taking up the task, its events and its end: one worker moves, and sleepers may
\* be woken.
LEMMA WorkInv ==
    ASSUME IndInv, NEW w \in Workers, Run(w) \/ EndAction(w) \/ Finish(w)
    PROVE  IndInv'
<1>1. mgr' = mgr /\ w \in Actors /\ w \notin Clients /\ IsPc(pc)
  BY TaskAssumption DEF Run, EndAction, Finish, Actors, IndInv
<1>2. SameCount(mgr, mgr')
  BY <1>1 DEF SameCount, IndInv
<1>3. pc[w] \in Busy
  BY DEF Run, EndAction, Finish, Busy
<1>4. \A l \in Busy \ Requesting : Quiet(pc, [pc EXCEPT ![w] = l])
  BY <1>1, <1>3, MoveQuiet
<1>5. CASE Run(w) \/ EndAction(w)
  <2>1. PICK l \in {"action", "finish", "tail", "requeue"} : pc' = [pc EXCEPT ![w] = l]
    BY <1>5, Zenon DEF Run, EndAction, AfterEvent
  <2>2. l \in Busy \ Requesting
    BY DEF Busy, Requesting
  <2> QED BY <1>2, <1>4, <2>1, <2>2, QuietInv, Zenon
<1>6. CASE Finish(w)
  <2> DEFINE p == [pc EXCEPT ![w] = "tail"]
  <2>1. Quiet(pc, p)
    BY <1>4 DEF Busy, Requesting
  <2>2. pc' = p \/ pc' = Broadcast(p)
    BY <1>6 DEF Finish
  <2> HIDE DEF p
  <2>3. Quiet(p, Broadcast(p))
    BY <2>1, BroadcastQuiet DEF Quiet
  <2>4. Quiet(pc, Broadcast(p))
    BY <2>1, <2>3, QuietTwice
  <2> QED BY <1>2, <2>1, <2>2, <2>4, QuietInv
<1> QED BY <1>5, <1>6

-----------------------------------------------------------------------------
(* Exclusive access *)

\* A worker waits while the count says that others are busy.  ExclusiveOne is
\* what it needs when the count says they are not.
LEMMA ExclusiveWaitInv ==
    ASSUME IndInv, NEW w \in Workers, pc[w] \in Busy, ExclusiveWait(w),
           IsManager(mgr'), mgr'.tasks_running = mgr.tasks_running, mgr'.exclusive_requested,
           \A v \in Workers : pc[v] \in Requesting => v = w
    PROVE  IndInv'
<1>1. w \in Actors /\ IsPc(pc) /\ w \in BusyIn(pc)
  BY DEF Actors, IndInv, BusyIn
<1>2. /\ IsPc(pc') /\ pc'[w] \in {"exwait", "exclusive"}
      /\ \A v \in Workers \ {w} : pc'[v] = pc[v]
  BY <1>1, TaskAssumption, Zenon DEF ExclusiveWait, IsPc, Actors, Busy
<1>3. BusyIn(pc') = BusyIn(pc)
  BY <1>2 DEF BusyIn, Busy
<1>4. pc'[w] = "exclusive" => BusyIn(pc) = {w}
  <2> SUFFICES ASSUME pc'[w] = "exclusive" PROVE BusyIn(pc) = {w}
    OBVIOUS
  <2>1. ~(mgr.tasks_running > 1)
    BY <1>1 DEF ExclusiveWait, IsPc
  <2> QED BY <1>1, <2>1, BusyAlone DEF IndInv
<1>5. \A v \in Workers : pc'[v] \in Requesting => v = w
  BY <1>2
<1>6. ExclusiveOne(mgr', pc')
  BY <1>3, <1>4, <1>5 DEF ExclusiveOne
<1> QED BY <1>2, <1>3, <1>6 DEF IndInv

LEMMA ExclusiveInv ==
    ASSUME IndInv, NEW w \in Workers,
           BeginExclusive(w) \/ ExclusiveCheck(w) \/ EndExclusive(w)
    PROVE  IndInv'
<1>1. IsManager(mgr) /\ IsPc(pc) /\ ExclusiveOne(mgr, pc)
  BY DEF IndInv
<1>2. CASE BeginExclusive(w)
  <2>1. pc[w] \in Busy /\ ExclusiveWait(w) /\ ~mgr.exclusive_requested
    BY <1>2 DEF BeginExclusive, Busy
  <2>2. IsManager(mgr') /\ mgr'.tasks_running = mgr.tasks_running /\ mgr'.exclusive_requested
    BY <1>1, <1>2, Zenon DEF BeginExclusive, IsManager, Fields
  <2>3. \A v \in Workers : pc[v] \notin Requesting
    BY <1>1, <2>1 DEF ExclusiveOne
  <2> QED BY <2>1, <2>2, <2>3, ExclusiveWaitInv
<1>3. CASE ExclusiveCheck(w)
  <2>1. pc[w] \in Busy /\ pc[w] \in Requesting /\ ExclusiveWait(w) /\ mgr' = mgr
    BY <1>3 DEF ExclusiveCheck, Busy, Requesting
  <2>2. mgr.exclusive_requested /\ \A v \in Workers : pc[v] \in Requesting => v = w
    BY <1>1, <2>1 DEF ExclusiveOne
  <2> QED BY <1>1, <2>1, <2>2, ExclusiveWaitInv
<1>4. CASE EndExclusive(w)
  <2> DEFINE p == Broadcast(pc)
  <2>1. pc[w] = "exclusive" /\ pc' = [p EXCEPT ![w] = "action"]
    BY <1>4 DEF EndExclusive
  <2>2. Quiet(pc, p)
    BY <1>1, BroadcastQuiet
  <2> HIDE DEF p
  <2>3. IsPc(p) /\ p[w] \in Busy /\ w \in Actors /\ w \notin Clients
    BY <2>1, <2>2, TaskAssumption DEF Quiet, Busy, Actors
  <2>4. Quiet(p, pc') /\ pc'[w] = "action"
    <3>1. "action" \in Busy \ Requesting
      BY DEF Busy, Requesting
    <3>2. pc'[w] = "action"
      BY <2>1, <2>3 DEF IsPc
    <3> QED BY <2>1, <2>3, <3>1, <3>2, MoveQuiet, Zenon
  <2>5. Quiet(pc, pc')
    BY <2>2, <2>4, QuietTwice
  <2>6. \A v \in Workers : pc'[v] \notin Requesting
    <3>1. \A v \in Workers : pc[v] \in Requesting => v = w
      BY <1>1, <2>1 DEF ExclusiveOne, Requesting
    <3> QED BY <2>4, <2>5, <3>1 DEF Quiet, Requesting
  <2>7. IsManager(mgr') /\ mgr'.tasks_running = mgr.tasks_running
    BY <1>1, <1>4, Zenon DEF EndExclusive, IsManager, Fields
  <2>8. BusyIn(pc') = BusyIn(pc)
    BY <2>5 DEF Quiet, BusyIn
  <2> QED BY <2>5, <2>6, <2>7, <2>8 DEF IndInv, ExclusiveOne, Quiet
<1> QED BY <1>2, <1>3, <1>4

-----------------------------------------------------------------------------
(* The calls, and what clients do *)

LEMMA CallInv ==
    ASSUME IndInv,
           \/ \E w \in Workers : SetMode(w)
           \/ \E a \in Actors : Call(a) \/ TaskReady(a) \/ SetPrivilegeQueue(a) \/ SpuriousWakeup(a)
           \/ \E c \in Clients : Resume(c) \/ Join(c) \/ Pause(c) \/ PauseCheck(c) \/ DestroyManager(c)
           \/ UNCHANGED vars
    PROVE  IndInv'
<1>1. IsManager(mgr) /\ IsPc(pc)
  BY DEF IndInv
<1>2. Quiet(pc, pc) /\ SameCount(mgr, mgr)
  BY <1>1 DEF Quiet, SameCount
<1>3. CASE \E a \in Actors : Call(a)
  <2>1. mgr' = mgr /\ pc' = pc
    BY <1>3, ZenonT(60) DEF Call, Create, Attach, Detach, SendAndDetach, Send, Purge, OnShutdown, Shutdown,
            SetPrivilege
  <2> QED BY <1>2, <2>1, QuietInv
<1>4. CASE UNCHANGED vars
  BY <1>2, <1>4, QuietInv DEF vars
<1>5. CASE \E w \in Workers : SetMode(w)
  <2>1. SameCount(mgr, mgr') /\ pc' = pc
    BY <1>1, <1>5 DEF SetMode, SameCount, IsManager, Fields
  <2> QED BY <1>2, <2>1, QuietInv
<1>6. CASE \E a \in Actors : TaskReady(a)
  <2>1. PICK a \in Actors : TaskReady(a)
    BY <1>6
  <2>2. SameCount(mgr, mgr')
    BY <1>1, <2>1, QueueSame, Zenon DEF TaskReady
  <2>3. pc' = pc \/ pc' \in Signal(pc)
    BY <2>1, Zenon DEF TaskReady, SignalReady
  <2>4. Quiet(pc, pc')
    BY <1>1, <1>2, <2>3, SignalQuiet
  <2> QED BY <2>2, <2>4, QuietInv
<1>7. CASE \E a \in Actors : SetPrivilegeQueue(a)
  <2>1. PICK a \in Actors : SetPrivilegeQueue(a)
    BY <1>7
  <2>2. pc' = pc /\ \/ mgr' = mgr
                    \/ \E r : mgr' = [mgr EXCEPT !.ready_priority_tasks = r]
    BY <2>1, Zenon DEF SetPrivilegeQueue
  <2>3. SameCount(mgr, mgr')
    <3>1. CASE mgr' = mgr
      BY <1>2, <3>1, Zenon
    <3>2. CASE mgr' # mgr
      <4>1. PICK r : mgr' = [mgr EXCEPT !.ready_priority_tasks = r]
        BY <2>2, <3>2, Zenon
      <4> QED BY <1>1, <4>1, QueueSame, Zenon
    <3> QED BY <3>1, <3>2, Zenon
  <2> QED BY <1>2, <2>2, <2>3, QuietInv
<1>8. CASE \E a \in Actors : SpuriousWakeup(a)
  <2>1. PICK a \in Actors : SpuriousWakeup(a)
    BY <1>8
  <2> DEFINE l == CASE pc[a] = "sleep" -> "top"
                    [] pc[a] = "exwait" -> "excheck"
                    [] pc[a] = "pausewait" -> "pausecheck"
  <2>2. pc' = [pc EXCEPT ![a] = l] /\ mgr' = mgr /\ pc[a] \in {"sleep", "exwait", "pausewait"}
    BY <2>1 DEF SpuriousWakeup
  <2>3. /\ pc[a] = "sleep" => l = "top"
        /\ pc[a] = "exwait" => l = "excheck"
        /\ pc[a] = "pausewait" => l = "pausecheck"
    OBVIOUS
  <2> HIDE DEF l
  <2>4. Quiet(pc, pc')
    <3>1. CASE a \in Workers
      <4>1. a \notin Clients
        BY <3>1, TaskAssumption
      <4>2. pc[a] = "sleep" \/ pc[a] = "exwait"
        BY <1>1, <2>2, <3>1 DEF IsPc, Resting, Busy
      <4>3. \/ pc[a] \in Resting /\ l \in Resting
            \/ pc[a] \in Requesting /\ l \in Requesting \ {"exclusive"}
        BY <2>3, <4>2 DEF Resting, Requesting
      <4> QED BY <1>1, <2>2, <4>1, <4>3, MoveQuiet, Zenon
    <3>2. CASE a \in Clients
      <4>1. a \notin Workers
        BY <3>2, TaskAssumption
      <4>2. pc[a] = "pausewait"
        BY <1>1, <2>2, <3>2 DEF IsPc, Outside
      <4>3. l \in Outside
        BY <2>3, <4>2 DEF Outside
      <4> QED BY <1>1, <2>2, <4>1, <4>3, MoveQuiet, Zenon
    <3> QED BY <3>1, <3>2 DEF Actors
  <2> QED BY <1>2, <2>2, <2>4, QuietInv
<1>9. CASE \E c \in Clients : Resume(c) \/ Join(c) \/ Pause(c) \/ PauseCheck(c) \/ DestroyManager(c)
  <2>1. PICK c \in Clients : Resume(c) \/ Join(c) \/ Pause(c) \/ PauseCheck(c) \/ DestroyManager(c)
    BY <1>9
  <2>2. c \in Actors /\ c \notin Workers
    BY TaskAssumption DEF Actors
  <2>3. SameCount(mgr, mgr')
    <3>1. \A b : SameCount(mgr, [mgr EXCEPT !.pause_requested = b])
      BY <1>1 DEF SameCount, IsManager, Fields
    <3>2. CASE Resume(c) \/ Join(c) \/ Pause(c) \/ PauseCheck(c)
      BY <1>2, <3>1, <3>2, Zenon DEF Resume, Join, Pause, PauseCheck, PauseWait
    <3>3. CASE DestroyManager(c)
      BY <1>1, <3>3, Zenon DEF DestroyManager, SameCount, IsManager, Fields
    <3> QED BY <2>1, <3>2, <3>3
  <2>4. \A p : \A l \in Outside : IsPc(p) => Quiet(p, [p EXCEPT ![c] = l])
    BY <2>2, MoveQuiet
  <2>5. Quiet(pc, Broadcast(pc)) /\ IsPc(Broadcast(pc))
    BY <1>1, BroadcastQuiet DEF Quiet
  <2>6. \/ pc' = Broadcast(pc)
        \/ \E l \in Outside : pc' = [pc EXCEPT ![c] = l] \/ pc' = [Broadcast(pc) EXCEPT ![c] = l]
    BY <2>1, Zenon DEF Resume, Join, Pause, PauseCheck, PauseWait, DestroyManager, Outside
  <2>7. Quiet(pc, pc')
    <3>1. CASE pc' = Broadcast(pc)
      BY <2>5, <3>1
    <3>2. CASE \E l \in Outside : pc' = [pc EXCEPT ![c] = l]
      BY <1>1, <2>4, <3>2, Zenon
    <3>3. CASE \E l \in Outside : pc' = [Broadcast(pc) EXCEPT ![c] = l]
      <4>1. Quiet(Broadcast(pc), pc')
        BY <2>4, <2>5, <3>3, Zenon
      <4> QED BY <2>5, <4>1, QuietTwice
    <3> QED BY <2>6, <3>1, <3>2, <3>3
  <2> QED BY <2>3, <2>7, QuietInv
<1> QED BY <1>3, <1>4, <1>5, <1>6, <1>7, <1>8, <1>9

-----------------------------------------------------------------------------
\* isc_task_beginexclusive() keeps its promise for any number of workers: when it
\* returns every other worker has finished its task, and none takes another
\* before isc_task_endexclusive().
THEOREM ExclusiveExcludes == Spec => []ExclusiveAlone
<1>1. Init => IndInv
  <2> SUFFICES ASSUME Init PROVE IndInv
    OBVIOUS
  <2>1. IsManager(mgr) /\ mgr.tasks_running = 0
    BY DEF Init, IsManager, Fields
  <2>2. IsPc(pc) /\ \A w \in Workers : pc[w] = "top"
    BY TaskAssumption DEF Init, IsPc, Actors, Resting, Outside
  <2>3. BusyIn(pc) = {}
    BY <2>2 DEF BusyIn, Busy
  <2>4. Cardinality(BusyIn(pc)) = 0
    BY <2>3, FS_EmptySet
  <2>5. ExclusiveOne(mgr, pc)
    BY <2>2 DEF ExclusiveOne, Requesting
  <2> QED BY <2>1, <2>2, <2>4, <2>5 DEF IndInv
<1>2. IndInv /\ [Next]_vars => IndInv'
  BY TopInv, TailInv, WorkInv, ExclusiveInv, CallInv DEF Next, WorkerStep
<1>3. IndInv => ExclusiveAlone
  <2> SUFFICES ASSUME IndInv, NEW w \in Workers, pc[w] = "exclusive", NEW v \in Workers \ {w}
               PROVE  pc[v] \in {"top", "sleep", "exit"}
    BY DEF ExclusiveAlone
  <2>1. BusyIn(pc) = {w}
    BY DEF IndInv, ExclusiveOne, Requesting
  <2> QED BY <2>1 DEF IndInv, IsPc, BusyIn, Resting
<1> QED BY <1>1, <1>2, <1>3, PTL DEF Spec
-----------------------------------------------------------------------------
(* The ready queues *)

NoDup(q) == \A i, j \in DOMAIN q : i # j => q[i] # q[j]

\* Taking an element out of a list moves the later ones up.
LEMMA RemovedFacts ==
    ASSUME NEW q \in Seq(Tasks), NEW i \in 1 .. Len(q)
    PROVE  /\ Removed(q, i) \in Seq(Tasks) /\ Len(Removed(q, i)) = Len(q) - 1
           /\ \A j \in 1 .. Len(q) - 1 :
                 Removed(q, i)[j] = IF j < i THEN q[j] ELSE q[j + 1]
<1> DEFINE r == Removed(q, i)
<1>1. Len(q) \in Nat /\ Len(q) - 1 \in Nat
  OBVIOUS
<1>2. r = [j \in 1 .. Len(q) - 1 |-> IF j < i THEN q[j] ELSE q[j + 1]]
  BY DEF Removed
<1>3. \A j \in 1 .. Len(q) - 1 : (IF j < i THEN q[j] ELSE q[j + 1]) \in Tasks
  BY <1>1
<1>4. r \in [1 .. Len(q) - 1 -> Tasks]
  BY <1>2, <1>3
<1> HIDE DEF r
<1>5. r \in Seq(Tasks) /\ Len(r) = Len(q) - 1
  BY <1>1, <1>4
<1> QED BY <1>2, <1>5 DEF r

\* What DEQUEUE leaves: the others, in the same order.
LEMMA DequeuedFacts ==
    ASSUME NEW q \in Seq(Tasks), NoDup(q), NEW t \in Tasks
    PROVE  /\ Dequeued(q, t) \in Seq(Tasks) /\ NoDup(Dequeued(q, t))
           /\ \A x : On(Dequeued(q, t), x) <=> On(q, x) /\ x # t
           /\ \A x, y : Before(Dequeued(q, t), x, y) <=> Before(q, x, y) /\ x # t /\ y # t
           /\ Len(Dequeued(q, t)) = IF On(q, t) THEN Len(q) - 1 ELSE Len(q)
<1>1. CASE ~On(q, t)
  BY <1>1 DEF Dequeued, On, Before
<1>2. CASE On(q, t)
  <2> DEFINE i == CHOOSE i \in DOMAIN q : q[i] = t
             r == Removed(q, i)
  <2>1. i \in 1 .. Len(q) /\ q[i] = t
    BY <1>2 DEF On
  <2>2. Dequeued(q, t) = r
    BY <1>2 DEF Dequeued
  <2> HIDE DEF i
  <2>3. r \in Seq(Tasks) /\ Len(r) = Len(q) - 1
    BY <2>1, RemovedFacts
  <2>4. \A j \in 1 .. Len(q) - 1 : r[j] = IF j < i THEN q[j] ELSE q[j + 1]
    BY <2>1, RemovedFacts
  <2> HIDE DEF r
  <2> DEFINE Old(j) == IF j < i THEN j ELSE j + 1
             New(j) == IF j < i THEN j ELSE j - 1
  <2>5. \A j \in DOMAIN r : Old(j) \in DOMAIN q /\ Old(j) # i /\ r[j] = q[Old(j)]
    BY <2>1, <2>3, <2>4
  <2>6. \A j \in DOMAIN q : j # i => New(j) \in DOMAIN r /\ r[New(j)] = q[j]
    <3> SUFFICES ASSUME NEW j \in DOMAIN q, j # i
                 PROVE  New(j) \in DOMAIN r /\ r[New(j)] = q[j]
      OBVIOUS
    <3>1. /\ j \in 1 .. Len(q) /\ i \in 1 .. Len(q) /\ Len(q) \in Nat
          /\ DOMAIN r = 1 .. Len(q) - 1
      BY <2>1, <2>3
    <3>2. New(j) \in 1 .. Len(q) - 1 /\ (IF New(j) < i THEN New(j) ELSE New(j) + 1) = j
      BY <3>1
    <3> HIDE DEF New
    <3> QED BY <2>4, <3>1, <3>2
  <2>7. \A j \in DOMAIN q : j # i => q[j] # t
    BY <2>1 DEF NoDup
  <2>8. /\ \A j, k \in DOMAIN r : j < k => Old(j) < Old(k)
        /\ \A j, k \in DOMAIN r : j # k => Old(j) # Old(k)
        /\ \A j, k \in DOMAIN q : j # i /\ k # i /\ j < k => New(j) < New(k)
    BY <2>1, <2>3
  <2> HIDE DEF Old, New
  <2>9. NoDup(r)
    BY <2>5, <2>8 DEF NoDup
  <2>10. \A x : On(r, x) <=> On(q, x) /\ x # t
    BY <2>1, <2>5, <2>6, <2>7 DEF On
  <2>11. ASSUME NEW x, NEW y PROVE Before(r, x, y) <=> Before(q, x, y) /\ x # t /\ y # t
    <3>1. ASSUME Before(r, x, y) PROVE Before(q, x, y) /\ x # t /\ y # t
      BY <2>5, <2>7, <2>8, <3>1 DEF Before
    <3>2. ASSUME Before(q, x, y), x # t, y # t PROVE Before(r, x, y)
      BY <2>1, <2>6, <2>8, <3>2 DEF Before
    <3> QED BY <3>1, <3>2
  <2> QED BY <1>2, <2>2, <2>3, <2>9, <2>10, <2>11
<1> QED BY <1>1, <1>2

\* Lists put one behind the other.
LEMMA JoinedFacts ==
    ASSUME NEW q \in Seq(Tasks), NEW r \in Seq(Tasks)
    PROVE  /\ q \o r \in Seq(Tasks) /\ Len(q \o r) = Len(q) + Len(r)
           /\ \A x : On(q \o r, x) <=> On(q, x) \/ On(r, x)
           /\ \A x, y : Before(q \o r, x, y) <=>
                            Before(q, x, y) \/ Before(r, x, y) \/ (On(q, x) /\ On(r, y))
           /\ NoDup(q) /\ NoDup(r) /\ (\A x : ~(On(q, x) /\ On(r, x))) => NoDup(q \o r)
<1> DEFINE s == q \o r
<1>1. s \in Seq(Tasks) /\ Len(s) = Len(q) + Len(r)
  OBVIOUS
<1>2. /\ \A i \in DOMAIN q : i \in DOMAIN s /\ s[i] = q[i]
      /\ \A i \in DOMAIN r : i + Len(q) \in DOMAIN s /\ s[i + Len(q)] = r[i]
      /\ \A i \in DOMAIN s : \/ i \in DOMAIN q
                             \/ i - Len(q) \in DOMAIN r /\ i = (i - Len(q)) + Len(q)
  OBVIOUS
<1>3. \A i \in DOMAIN q, j \in DOMAIN r : i < j + Len(q)
  OBVIOUS
<1>4. \A i, j \in DOMAIN r : i < j => i + Len(q) < j + Len(q)
  OBVIOUS
<1> HIDE DEF s
<1>5. \A x : On(s, x) <=> On(q, x) \/ On(r, x)
  BY <1>2 DEF On
<1>6. \A x, y : Before(q, x, y) => Before(s, x, y)
  BY <1>2 DEF Before
<1>7. \A x, y : Before(r, x, y) => Before(s, x, y)
  BY <1>2, <1>4 DEF Before
<1>8. \A x, y : On(q, x) /\ On(r, y) => Before(s, x, y)
  BY <1>2, <1>3 DEF Before, On
<1>9. ASSUME NoDup(q), NoDup(r), \A x : ~(On(q, x) /\ On(r, x)) PROVE NoDup(s)
  <2> SUFFICES ASSUME NEW i \in DOMAIN s, NEW j \in DOMAIN s, i # j, s[i] = s[j] PROVE FALSE
    BY DEF NoDup
  <2>1. CASE i \in DOMAIN q /\ j \in DOMAIN q
    BY <1>2, <1>9, <2>1 DEF NoDup
  <2>2. CASE i \notin DOMAIN q /\ j \notin DOMAIN q
    <3>1. i - Len(q) # j - Len(q)
      BY <1>1
    <3>2. /\ i - Len(q) \in DOMAIN r /\ s[i] = r[i - Len(q)]
          /\ j - Len(q) \in DOMAIN r /\ s[j] = r[j - Len(q)]
      BY <1>2, <2>2
    <3> QED BY <1>9, <3>1, <3>2, Zenon DEF NoDup
  <2>3. CASE (i \in DOMAIN q /\ j \notin DOMAIN q) \/ (i \notin DOMAIN q /\ j \in DOMAIN q)
    <3>1. \A k \in DOMAIN s : IF k \in DOMAIN q THEN On(q, s[k]) ELSE On(r, s[k])
      BY <1>2 DEF On
    <3> QED BY <1>9, <2>3, <3>1
  <2> QED BY <2>1, <2>2, <2>3
<1>10. ASSUME NEW i \in DOMAIN s, NEW j \in DOMAIN s, i < j
       PROVE  Before(q, s[i], s[j]) \/ Before(r, s[i], s[j]) \/ (On(q, s[i]) /\ On(r, s[j]))
  <2>1. CASE j \in DOMAIN q
    <3>1. i \in DOMAIN q
      BY <1>1, <1>10, <2>1
    <3> QED BY <1>2, <1>10, <2>1, <3>1 DEF Before
  <2>2. CASE i \in DOMAIN q /\ j \notin DOMAIN q
    BY <1>2, <2>2 DEF On
  <2>3. CASE i \notin DOMAIN q /\ j \notin DOMAIN q
    <3>1. i - Len(q) < j - Len(q)
      BY <1>1, <1>10
    <3>2. /\ i - Len(q) \in DOMAIN r /\ s[i] = r[i - Len(q)]
          /\ j - Len(q) \in DOMAIN r /\ s[j] = r[j - Len(q)]
      BY <1>2, <2>3
    <3> QED BY <3>1, <3>2 DEF Before
  <2> QED BY <2>1, <2>2, <2>3
<1>11. \A x, y : Before(s, x, y) => Before(q, x, y) \/ Before(r, x, y) \/ (On(q, x) /\ On(r, y))
  BY <1>10 DEF Before
<1> QED BY <1>1, <1>5, <1>6, <1>7, <1>8, <1>9, <1>11 DEF s

\* The queues of m are in step, P being the privileged tasks.
Lists(m, P) ==
    /\ m.ready_tasks \in Seq(Tasks) /\ m.ready_priority_tasks \in Seq(Tasks)
    /\ NoDup(m.ready_tasks)
    /\ InStep(m.ready_tasks, m.ready_priority_tasks)
    /\ \A t \in Tasks : On(m.ready_priority_tasks, t) <=> On(m.ready_tasks, t) /\ t \in P

Queued(m) == {t \in Tasks : On(m.ready_tasks, t)}

\* The members of a list without duplicates that is in step with it.
LEMMA StepNoDup ==
    ASSUME NEW q \in Seq(Tasks), NEW r \in Seq(Tasks), NoDup(q), InStep(q, r)
    PROVE  NoDup(r)
<1> SUFFICES ASSUME NEW i \in DOMAIN r, NEW j \in DOMAIN r, i < j, r[i] = r[j] PROVE FALSE
  BY DEF NoDup
<1>1. Before(q, r[i], r[j])
  BY DEF InStep
<1> QED BY <1>1 DEF Before, NoDup

\* The same, said of the elements.
LEMMA StepOrder ==
    ASSUME NEW q, NEW r
    PROVE  InStep(q, r) <=> /\ \A x : On(r, x) => On(q, x)
                            /\ \A x, y : Before(r, x, y) => Before(q, x, y)
BY DEF InStep, On, Before

LEMMA ListElements ==
    ASSUME NEW q \in Seq(Tasks)
    PROVE  /\ \A x : On(q, x) => x \in Tasks
           /\ q # <<>> => On(q, Head(q)) /\ Head(q) \in Tasks
           /\ \A x, y : Before(q, x, y) => On(q, x) /\ On(q, y)
<1>1. \A x : On(q, x) => x \in Tasks
  BY DEF On
<1>2. q # <<>> => 1 \in DOMAIN q /\ q[1] = Head(q)
  OBVIOUS
<1> QED BY <1>1, <1>2 DEF On, Before

\* One element more at the end.
LEMMA AppendedFacts ==
    ASSUME NEW q \in Seq(Tasks), NEW t \in Tasks
    PROVE  /\ Append(q, t) \in Seq(Tasks) /\ Len(Append(q, t)) = Len(q) + 1
           /\ \A x : On(Append(q, t), x) <=> On(q, x) \/ x = t
           /\ \A x, y : Before(Append(q, t), x, y) <=> Before(q, x, y) \/ (On(q, x) /\ y = t)
           /\ NoDup(q) /\ ~On(q, t) => NoDup(Append(q, t))
<1> DEFINE s == Append(q, t)
<1>1. s \in Seq(Tasks) /\ Len(s) = Len(q) + 1
  OBVIOUS
<1>2. /\ \A i \in DOMAIN q : i \in DOMAIN s /\ s[i] = q[i] /\ i < Len(q) + 1
      /\ Len(q) + 1 \in DOMAIN s /\ s[Len(q) + 1] = t
      /\ \A i \in DOMAIN s : i \in DOMAIN q \/ i = Len(q) + 1
      /\ \A i \in DOMAIN s : ~(Len(q) + 1 < i)
  OBVIOUS
<1> HIDE DEF s
<1>3. \A x : On(s, x) <=> On(q, x) \/ x = t
  BY <1>2 DEF On
<1>4. \A x, y : Before(s, x, y) <=> Before(q, x, y) \/ (On(q, x) /\ y = t)
  BY <1>2 DEF On, Before
<1>5. NoDup(q) /\ ~On(q, t) => NoDup(s)
  BY <1>2 DEF On, NoDup
<1> QED BY <1>1, <1>3, <1>4, <1>5 DEF s

\* push_readyq() of a task that is on no queue.
LEMMA PushLists ==
    ASSUME NEW m, IsManager(m), Lists(m, Privileged), NEW t \in Tasks, t \notin Queued(m)
    PROVE  /\ Lists(push_readyq(m, t), Privileged)
           /\ Queued(push_readyq(m, t)) = Queued(m) \cup {t}
           /\ Len(push_readyq(m, t).ready_tasks) = Len(m.ready_tasks) + 1
           /\ Len(push_readyq(m, t).ready_priority_tasks) =
                 IF task[t].privileged THEN Len(m.ready_priority_tasks) + 1 ELSE Len(m.ready_priority_tasks)
<1> DEFINE q == m.ready_tasks
           r == m.ready_priority_tasks
           n == push_readyq(m, t)
<1>1. /\ n.ready_tasks = Append(q, t)
      /\ n.ready_priority_tasks = IF task[t].privileged THEN Append(r, t) ELSE r
  BY DEF push_readyq, IsManager, Fields
<1>2. /\ q \in Seq(Tasks) /\ r \in Seq(Tasks) /\ NoDup(q) /\ InStep(q, r)
      /\ \A x \in Tasks : On(r, x) <=> On(q, x) /\ x \in Privileged
      /\ ~On(q, t)
  BY DEF Lists, Queued
<1> HIDE DEF n, q, r
<1>3. /\ Append(q, t) \in Seq(Tasks) /\ Len(Append(q, t)) = Len(q) + 1
      /\ Append(r, t) \in Seq(Tasks) /\ Len(Append(r, t)) = Len(r) + 1
      /\ NoDup(Append(q, t))
  BY <1>2, AppendedFacts
<1>4. /\ \A x : On(Append(q, t), x) <=> On(q, x) \/ x = t
      /\ \A x : On(Append(r, t), x) <=> On(r, x) \/ x = t
      /\ \A x, y : Before(Append(q, t), x, y) <=> Before(q, x, y) \/ (On(q, x) /\ y = t)
      /\ \A x, y : Before(Append(r, t), x, y) <=> Before(r, x, y) \/ (On(r, x) /\ y = t)
  BY <1>2, AppendedFacts
<1>5. /\ \A x : On(r, x) => On(q, x)
      /\ \A x, y : Before(r, x, y) => Before(q, x, y)
  BY <1>2, StepOrder
<1>6. InStep(Append(q, t), r) /\ InStep(Append(q, t), Append(r, t))
  BY <1>4, <1>5, StepOrder
<1>7. Lists(n, Privileged)
  BY <1>1, <1>2, <1>3, <1>4, <1>6, Zenon DEF Lists, Privileged
<1>8. Queued(n) = Queued(m) \cup {t}
  BY <1>1, <1>4, Zenon DEF Queued, q
<1>9. /\ Len(n.ready_tasks) = Len(q) + 1
      /\ Len(n.ready_priority_tasks) = IF task[t].privileged THEN Len(r) + 1 ELSE Len(r)
  BY <1>1, <1>2, <1>3
<1> QED BY <1>7, <1>8, <1>9 DEF n, q, r

\* pop_readyq() of a queue that is not empty.
LEMMA PopLists ==
    ASSUME NEW m, IsManager(m), NEW P, Lists(m, P), ~empty_readyq(m)
    PROVE  /\ Head(readyq(m)) \in Queued(m)
           /\ Lists(pop_readyq(m), P)
           /\ Queued(pop_readyq(m)) = Queued(m) \ {Head(readyq(m))}
           /\ Len(readyq(pop_readyq(m))) = Len(readyq(m)) - 1
<1> DEFINE q == m.ready_tasks
           r == m.ready_priority_tasks
           t == Head(readyq(m))
           n == pop_readyq(m)
<1>1. /\ n.ready_tasks = Dequeued(q, t) /\ n.ready_priority_tasks = Dequeued(r, t)
      /\ n.mode = m.mode
  BY DEF pop_readyq, IsManager, Fields
<1>2. /\ q \in Seq(Tasks) /\ r \in Seq(Tasks) /\ NoDup(q) /\ InStep(q, r) /\ NoDup(r)
      /\ \A x \in Tasks : On(r, x) <=> On(q, x) /\ x \in P
  BY StepNoDup, Zenon DEF Lists
<1>3. t \in Tasks /\ On(q, t) /\ On(readyq(m), t)
  BY <1>2, ListElements, Zenon DEF readyq, empty_readyq
<1> HIDE DEF n, q, r, t
<1>4. /\ Dequeued(q, t) \in Seq(Tasks) /\ NoDup(Dequeued(q, t))
      /\ Len(Dequeued(q, t)) = IF On(q, t) THEN Len(q) - 1 ELSE Len(q)
      /\ Dequeued(r, t) \in Seq(Tasks)
      /\ Len(Dequeued(r, t)) = IF On(r, t) THEN Len(r) - 1 ELSE Len(r)
  BY <1>2, <1>3, DequeuedFacts, Zenon
<1>5. /\ \A x : On(Dequeued(q, t), x) <=> On(q, x) /\ x # t
      /\ \A x : On(Dequeued(r, t), x) <=> On(r, x) /\ x # t
      /\ \A x, y : Before(Dequeued(q, t), x, y) <=> Before(q, x, y) /\ x # t /\ y # t
      /\ \A x, y : Before(Dequeued(r, t), x, y) <=> Before(r, x, y) /\ x # t /\ y # t
  BY <1>2, <1>3, DequeuedFacts, Zenon
<1>6. InStep(Dequeued(q, t), Dequeued(r, t))
  BY <1>2, <1>5, StepOrder
<1>7. Lists(n, P)
  BY <1>1, <1>2, <1>4, <1>5, <1>6, Zenon DEF Lists
<1>8. Queued(n) = Queued(m) \ {t} /\ t \in Queued(m)
  BY <1>1, <1>3, <1>5, Zenon DEF Queued, q
<1>9. Len(readyq(n)) = Len(readyq(m)) - 1
  BY <1>1, <1>3, <1>4, Zenon DEF readyq, q, r
<1> QED BY <1>7, <1>8, <1>9 DEF n, t

\* A list of all members of a set has none of them twice.
LEMMA OrdersFacts ==
    ASSUME NEW S \in SUBSET Tasks, NEW q \in Orders(S)
    PROVE  q \in Seq(Tasks) /\ NoDup(q) /\ \A x : On(q, x) <=> x \in S
<1>1. IsFiniteSet(S) /\ Cardinality(S) \in Nat
  BY TaskAssumption, FS_Subset, FS_CardinalityType
<1> DEFINE n == Cardinality(S)
<1>2. q \in [1 .. n -> S] /\ {q[i] : i \in DOMAIN q} = S
  BY DEF Orders
<1>3. q \in Surjection(1 .. n, S)
  BY <1>2 DEF Surjection
<1>4. IsFiniteSet(1 .. n) /\ Cardinality(1 .. n) = n
  BY <1>1, FS_Interval
<1>5. q \in Injection(1 .. n, S)
  BY <1>3, <1>4, FS_SurjSameCardinalityImpliesInj
<1> HIDE DEF n
<1>6. NoDup(q)
  BY <1>2, <1>5 DEF NoDup, Injection, IsInjective
<1>7. q \in Seq(Tasks)
  BY <1>1, <1>2 DEF n
<1> QED BY <1>2, <1>6, <1>7 DEF On

\* n has the queues of m with the tasks in S, pushed in some order.
Joins(m, n, S, P) ==
    \E q \in Orders(S), r \in Orders(S \cap P) :
        /\ InStep(q, r)
        /\ n.ready_tasks = m.ready_tasks \o q
        /\ n.ready_priority_tasks = m.ready_priority_tasks \o r

\* isc__taskmgr_destroy() pushes several tasks that are on no queue.
LEMMA JoinLists ==
    ASSUME NEW m, NEW P, Lists(m, P), NEW S \in SUBSET Tasks, \A t \in S : t \notin Queued(m),
           NEW n, Joins(m, n, S, P)
    PROVE  Lists(n, P) /\ Queued(n) = Queued(m) \cup S
<1> PICK q \in Orders(S), r \in Orders(S \cap P) :
       /\ InStep(q, r)
       /\ n.ready_tasks = m.ready_tasks \o q
       /\ n.ready_priority_tasks = m.ready_priority_tasks \o r
  BY Zenon DEF Joins
<1> DEFINE a == m.ready_tasks
           b == m.ready_priority_tasks
<1>1. /\ a \in Seq(Tasks) /\ b \in Seq(Tasks) /\ NoDup(a) /\ InStep(a, b)
      /\ \A x \in Tasks : On(b, x) <=> On(a, x) /\ x \in P
      /\ Queued(m) = {x \in Tasks : On(a, x)}
  BY Zenon DEF Lists, Queued
<1>2. q \in Seq(Tasks) /\ NoDup(q) /\ \A x : On(q, x) <=> x \in S
  BY OrdersFacts
<1>3. r \in Seq(Tasks) /\ \A x : On(r, x) <=> x \in S \cap P
  <2>1. S \cap P \in SUBSET Tasks
    OBVIOUS
  <2> QED BY <2>1, OrdersFacts, Zenon
<1> HIDE DEF a, b
<1>4. \A x : ~(On(a, x) /\ On(q, x))
  BY <1>1, <1>2
<1>5. /\ a \o q \in Seq(Tasks) /\ NoDup(a \o q)
      /\ \A x : On(a \o q, x) <=> On(a, x) \/ On(q, x)
      /\ \A x, y : Before(a, x, y) \/ Before(q, x, y) \/ (On(a, x) /\ On(q, y))
                       => Before(a \o q, x, y)
  BY <1>1, <1>2, <1>4, JoinedFacts, Zenon
<1>6. /\ b \o r \in Seq(Tasks)
      /\ \A x : On(b \o r, x) <=> On(b, x) \/ On(r, x)
      /\ \A x, y : Before(b \o r, x, y) =>
                       Before(b, x, y) \/ Before(r, x, y) \/ (On(b, x) /\ On(r, y))
  BY <1>1, <1>3, JoinedFacts, Zenon
<1>7. /\ \A x : On(b, x) => On(a, x)
      /\ \A x, y : Before(b, x, y) => Before(a, x, y)
      /\ \A x : On(r, x) => On(q, x)
      /\ \A x, y : Before(r, x, y) => Before(q, x, y)
  BY <1>1, StepOrder, Zenon
<1>8. InStep(a \o q, b \o r)
  BY <1>5, <1>6, <1>7, StepOrder, Zenon
<1>9. \A x \in Tasks : On(b \o r, x) <=> On(a \o q, x) /\ x \in P
  BY <1>1, <1>2, <1>3, <1>5, <1>6, Zenon
<1>10. Lists(n, P)
  BY <1>5, <1>6, <1>8, <1>9, Zenon DEF Lists, a, b
<1>11. Queued(n) = Queued(m) \cup S
  BY <1>1, <1>2, <1>5, Zenon DEF Queued, a
<1> QED BY <1>10, <1>11

-----------------------------------------------------------------------------
(* Who looks after a task *)

\* What a worker at the label l has made of the state of its task.
Hold(l) == IF l \in {"popped", "requeue"} THEN "ready"
           ELSE IF l \in Acting THEN "running"
           ELSE IF l = "finish" THEN "done"
           ELSE "none"

\* The caller a of task_ready() is about to queue t.
Brings(o, a, t) == o[a].call = "ready" /\ o[a].task = t

\* The tasks k, the set Q of those queued, the calls o under way and the workers'
\* places p and tasks w agree on who is to look after each task.
Custody(k, Q, o, p, w) ==
    /\ \A t \in Q : k[t].state = "ready"
    /\ \A a \in Actors : o[a].call = "ready" =>
          /\ o[a].task \in Tasks \ Q /\ k[o[a].task].state = "ready"
          /\ \A b \in Actors \ {a} : ~Brings(o, b, o[a].task)
    /\ \A v \in Workers : Hold(p[v]) # "none" =>
          /\ w[v] \in Tasks \ Q /\ k[w[v]].state = Hold(p[v])
          /\ \A a \in Actors : ~Brings(o, a, w[v])
          /\ \A u \in Workers \ {v} : Hold(p[u]) # "none" => w[u] # w[v]
    /\ \A t \in Tasks : k[t].state \in {"ready", "running", "done"} =>
          \/ t \in Q
          \/ \E a \in Actors : Brings(o, a, t)
          \/ \E v \in Workers : Hold(p[v]) # "none" /\ w[v] = t

\* Nothing in it changes.
Steady(k, k2, o, o2, p, p2, w, w2) ==
    /\ \A t \in Tasks : \/ k2[t].state = k[t].state
                        \/ k[t].state \in {"none", "idle"} /\ k2[t].state \in {"none", "idle"}
    /\ \A a \in Actors : o2[a] = o[a] \/ (o[a].call # "ready" /\ o2[a].call # "ready")
    /\ \A v \in Workers : Hold(p2[v]) = Hold(p[v]) /\ (Hold(p[v]) # "none" => w2[v] = w[v])

LEMMA CustodySame ==
    ASSUME NEW k, NEW k2, NEW Q \in SUBSET Tasks, NEW o, NEW o2, NEW p, NEW p2, NEW w, NEW w2,
           Custody(k, Q, o, p, w), Steady(k, k2, o, o2, p, p2, w, w2)
    PROVE  Custody(k2, Q, o2, p2, w2)
<1> USE DEF Steady
<1>1. \A a \in Actors : \A t \in Tasks : Brings(o2, a, t) <=> Brings(o, a, t)
  BY Zenon DEF Brings
<1>2. \A t \in Q : k2[t].state = "ready"
  BY Zenon DEF Custody
<1>3. \A a \in Actors : o2[a].call = "ready" => o2[a] = o[a]
  BY Zenon
<1>4. \A t \in Tasks : \A s \in {"ready", "running", "done"} : k2[t].state = s <=> k[t].state = s
  BY Zenon
<1>5. \A v \in Workers : Hold(p[v]) \in {"none", "ready", "running", "done"}
  BY Zenon DEF Hold
<1>6. \A a \in Actors : o2[a].call = "ready" =>
         /\ o2[a].task \in Tasks \ Q /\ k2[o2[a].task].state = "ready"
         /\ \A b \in Actors \ {a} : ~Brings(o2, b, o2[a].task)
  <2> SUFFICES ASSUME NEW a \in Actors, o2[a].call = "ready"
               PROVE  /\ o2[a].task \in Tasks \ Q /\ k2[o2[a].task].state = "ready"
                      /\ \A b \in Actors \ {a} : ~Brings(o2, b, o2[a].task)
    BY Zenon
  <2>1. o2[a] = o[a] /\ o[a].call = "ready"
    BY <1>3, Zenon
  <2>2. /\ o[a].task \in Tasks \ Q /\ k[o[a].task].state = "ready"
        /\ \A b \in Actors \ {a} : ~Brings(o, b, o[a].task)
    BY <2>1, Zenon DEF Custody
  <2> QED BY <1>1, <1>4, <2>1, <2>2, Zenon
<1>7. \A v \in Workers : Hold(p2[v]) # "none" =>
         /\ w2[v] \in Tasks \ Q /\ k2[w2[v]].state = Hold(p2[v])
         /\ \A a \in Actors : ~Brings(o2, a, w2[v])
         /\ \A u \in Workers \ {v} : Hold(p2[u]) # "none" => w2[u] # w2[v]
  <2> SUFFICES ASSUME NEW v \in Workers, Hold(p2[v]) # "none"
               PROVE  /\ w2[v] \in Tasks \ Q /\ k2[w2[v]].state = Hold(p2[v])
                      /\ \A a \in Actors : ~Brings(o2, a, w2[v])
                      /\ \A u \in Workers \ {v} : Hold(p2[u]) # "none" => w2[u] # w2[v]
    BY Zenon
  <2>1. Hold(p2[v]) = Hold(p[v]) /\ Hold(p[v]) # "none" /\ w2[v] = w[v]
    BY Zenon
  <2>2. /\ w[v] \in Tasks \ Q /\ k[w[v]].state = Hold(p[v])
        /\ \A a \in Actors : ~Brings(o, a, w[v])
        /\ \A u \in Workers \ {v} : Hold(p[u]) # "none" => w[u] # w[v]
    BY <2>1, Zenon DEF Custody
  <2>3. k2[w[v]].state = Hold(p[v])
    BY <1>4, <1>5, <2>1, <2>2, Zenon
  <2> QED BY <1>1, <2>1, <2>2, <2>3, Zenon
<1>8. \A t \in Tasks : k2[t].state \in {"ready", "running", "done"} =>
         \/ t \in Q
         \/ \E a \in Actors : Brings(o2, a, t)
         \/ \E v \in Workers : Hold(p2[v]) # "none" /\ w2[v] = t
  <2> SUFFICES ASSUME NEW t \in Tasks, k2[t].state \in {"ready", "running", "done"}
               PROVE  \/ t \in Q
                      \/ \E a \in Actors : Brings(o2, a, t)
                      \/ \E v \in Workers : Hold(p2[v]) # "none" /\ w2[v] = t
    BY Zenon
  <2>1. \/ t \in Q
        \/ \E a \in Actors : Brings(o, a, t)
        \/ \E v \in Workers : Hold(p[v]) # "none" /\ w[v] = t
    BY <1>4, Zenon DEF Custody
  <2> QED BY <1>1, <2>1, Zenon
<1> QED BY <1>2, <1>6, <1>7, <1>8, Zenon DEF Custody

\* An idle task is readied by the caller b, which had no call under way.
Readies(k, k2, o, o2, s, b) ==
    /\ k[s].state = "idle" /\ k2[s].state = "ready"
    /\ \A t \in Tasks \ {s} : k2[t].state = k[t].state
    /\ o[b].call = "none" /\ o2[b].call = "ready" /\ o2[b].task = s
    /\ \A a \in Actors \ {b} : o2[a] = o[a]

LEMMA CustodyReady ==
    ASSUME NEW k, NEW k2, NEW Q \in SUBSET Tasks, NEW o, NEW o2, NEW p, NEW w,
           NEW s \in Tasks, NEW b \in Actors,
           Custody(k, Q, o, p, w), Readies(k, k2, o, o2, s, b)
    PROVE  Custody(k2, Q, o2, p, w)
<1> USE DEF Readies
<1>1. s \notin Q /\ \A v \in Workers : Hold(p[v]) # "none" => w[v] # s
  BY Zenon DEF Custody, Hold
<1>2. \A a \in Actors : ~Brings(o, a, s)
  BY Zenon DEF Custody, Brings
<1>3. \A a \in Actors \ {b} : \A t \in Tasks : Brings(o2, a, t) <=> Brings(o, a, t)
  BY Zenon DEF Brings
<1>4. \A t : ~Brings(o, b, t) /\ (Brings(o2, b, t) <=> t = s)
  BY Zenon DEF Brings
<1>5. \A t \in Q : k2[t].state = "ready"
  BY <1>1, ZenonT(60) DEF Custody
<1>6. \A a \in Actors : o2[a].call = "ready" =>
         /\ o2[a].task \in Tasks \ Q /\ k2[o2[a].task].state = "ready"
         /\ \A c \in Actors \ {a} : ~Brings(o2, c, o2[a].task)
  <2> SUFFICES ASSUME NEW a \in Actors, o2[a].call = "ready"
               PROVE  /\ o2[a].task \in Tasks \ Q /\ k2[o2[a].task].state = "ready"
                      /\ \A c \in Actors \ {a} : ~Brings(o2, c, o2[a].task)
    BY Zenon
  <2>1. CASE a = b
    BY <1>1, <1>2, <1>3, <2>1, Zenon
  <2>2. CASE a # b
    <3>1. o2[a] = o[a] /\ Brings(o, a, o[a].task)
      BY <2>2, Zenon DEF Brings
    <3>2. /\ o[a].task \in Tasks \ Q /\ k[o[a].task].state = "ready"
          /\ \A c \in Actors \ {a} : ~Brings(o, c, o[a].task)
      BY <3>1, Zenon DEF Custody, Brings
    <3>3. o[a].task # s
      BY <1>2, <3>1, Zenon
    <3> QED BY <1>3, <1>4, <3>1, <3>2, <3>3, Zenon
  <2> QED BY <2>1, <2>2, Zenon
<1>7. \A v \in Workers : Hold(p[v]) # "none" =>
         /\ w[v] \in Tasks \ Q /\ k2[w[v]].state = Hold(p[v])
         /\ \A a \in Actors : ~Brings(o2, a, w[v])
         /\ \A u \in Workers \ {v} : Hold(p[u]) # "none" => w[u] # w[v]
  <2> SUFFICES ASSUME NEW v \in Workers, Hold(p[v]) # "none"
               PROVE  /\ w[v] \in Tasks \ Q /\ k2[w[v]].state = Hold(p[v])
                      /\ \A a \in Actors : ~Brings(o2, a, w[v])
                      /\ \A u \in Workers \ {v} : Hold(p[u]) # "none" => w[u] # w[v]
    BY Zenon
  <2>1. /\ w[v] \in Tasks \ Q /\ k[w[v]].state = Hold(p[v])
        /\ \A a \in Actors : ~Brings(o, a, w[v])
        /\ \A u \in Workers \ {v} : Hold(p[u]) # "none" => w[u] # w[v]
    BY Zenon DEF Custody
  <2>2. w[v] # s
    BY <1>1, Zenon
  <2> QED BY <1>3, <1>4, <2>1, <2>2, Zenon
<1>8. \A t \in Tasks : k2[t].state \in {"ready", "running", "done"} =>
         \/ t \in Q
         \/ \E a \in Actors : Brings(o2, a, t)
         \/ \E v \in Workers : Hold(p[v]) # "none" /\ w[v] = t
  <2> SUFFICES ASSUME NEW t \in Tasks, k2[t].state \in {"ready", "running", "done"}
               PROVE  \/ t \in Q
                      \/ \E a \in Actors : Brings(o2, a, t)
                      \/ \E v \in Workers : Hold(p[v]) # "none" /\ w[v] = t
    BY Zenon
  <2>1. CASE t = s
    BY <1>4, <2>1, Zenon
  <2>2. CASE t # s
    <3>1. \/ t \in Q
          \/ \E a \in Actors : Brings(o, a, t)
          \/ \E v \in Workers : Hold(p[v]) # "none" /\ w[v] = t
      BY <2>2, Zenon DEF Custody
    <3> QED BY <1>3, <1>4, <3>1, Zenon
  <2> QED BY <2>1, <2>2, Zenon
<1> QED BY <1>5, <1>6, <1>7, <1>8, Zenon DEF Custody

\* The caller b queues the task it brings.
Queues(o, o2, p, p2, b) ==
    /\ o[b].call = "ready" /\ o2[b].call = "none"
    /\ \A a \in Actors \ {b} : o2[a] = o[a]
    /\ \A v \in Workers : Hold(p2[v]) = Hold(p[v])

LEMMA CustodyQueue ==
    ASSUME NEW k, NEW Q \in SUBSET Tasks, NEW o, NEW o2, NEW p, NEW p2, NEW w, NEW b \in Actors,
           Custody(k, Q, o, p, w), Queues(o, o2, p, p2, b)
    PROVE  Custody(k, Q \cup {o[b].task}, o2, p2, w)
<1> USE DEF Queues
<1> DEFINE s == o[b].task
           Q2 == Q \cup {s}
<1>1. /\ s \in Tasks \ Q /\ k[s].state = "ready" /\ Brings(o, b, s)
      /\ \A a \in Actors \ {b} : ~Brings(o, a, s)
  BY Zenon DEF Custody, Brings
<1>2. \A a \in Actors \ {b} : \A t \in Tasks : Brings(o2, a, t) <=> Brings(o, a, t)
  BY Zenon DEF Brings
<1>3. \A t : ~Brings(o2, b, t)
  BY DEF Brings
<1>4. \A t : Brings(o, b, t) => t = s
  BY Zenon DEF Brings
<1>5. \A v \in Workers : Hold(p[v]) # "none" => w[v] # s
  BY <1>1, Zenon DEF Custody
<1> HIDE DEF s
<1>6. \A t \in Q2 : k[t].state = "ready"
  BY <1>1, Zenon DEF Custody
<1>7. \A a \in Actors : o2[a].call = "ready" =>
         /\ o2[a].task \in Tasks \ Q2 /\ k[o2[a].task].state = "ready"
         /\ \A c \in Actors \ {a} : ~Brings(o2, c, o2[a].task)
  <2> SUFFICES ASSUME NEW a \in Actors, o2[a].call = "ready"
               PROVE  /\ o2[a].task \in Tasks \ Q2 /\ k[o2[a].task].state = "ready"
                      /\ \A c \in Actors \ {a} : ~Brings(o2, c, o2[a].task)
    BY Zenon
  <2>1. a # b /\ o2[a] = o[a] /\ Brings(o, a, o[a].task)
    BY Zenon DEF Brings
  <2>2. /\ o[a].task \in Tasks \ Q /\ k[o[a].task].state = "ready"
        /\ \A c \in Actors \ {a} : ~Brings(o, c, o[a].task)
    BY <2>1, Zenon DEF Custody, Brings
  <2>3. o[a].task # s
    BY <1>1, <2>1, Zenon
  <2> QED BY <1>2, <1>3, <2>1, <2>2, <2>3, Zenon
<1>8. \A v \in Workers : Hold(p2[v]) # "none" =>
         /\ w[v] \in Tasks \ Q2 /\ k[w[v]].state = Hold(p2[v])
         /\ \A a \in Actors : ~Brings(o2, a, w[v])
         /\ \A u \in Workers \ {v} : Hold(p2[u]) # "none" => w[u] # w[v]
  <2> SUFFICES ASSUME NEW v \in Workers, Hold(p2[v]) # "none"
               PROVE  /\ w[v] \in Tasks \ Q2 /\ k[w[v]].state = Hold(p2[v])
                      /\ \A a \in Actors : ~Brings(o2, a, w[v])
                      /\ \A u \in Workers \ {v} : Hold(p2[u]) # "none" => w[u] # w[v]
    BY Zenon
  <2>1. Hold(p2[v]) = Hold(p[v])
    BY Zenon
  <2>2. /\ w[v] \in Tasks \ Q /\ k[w[v]].state = Hold(p[v])
        /\ \A a \in Actors : ~Brings(o, a, w[v])
        /\ \A u \in Workers \ {v} : Hold(p[u]) # "none" => w[u] # w[v]
    BY <2>1, Zenon DEF Custody
  <2>3. w[v] # s
    BY <1>5, <2>1, Zenon
  <2> QED BY <1>2, <1>3, <2>1, <2>2, <2>3, Zenon
<1>9. \A t \in Tasks : k[t].state \in {"ready", "running", "done"} =>
         \/ t \in Q2
         \/ \E a \in Actors : Brings(o2, a, t)
         \/ \E v \in Workers : Hold(p2[v]) # "none" /\ w[v] = t
  <2> SUFFICES ASSUME NEW t \in Tasks, k[t].state \in {"ready", "running", "done"},
                      t \notin Q2, \A a \in Actors : ~Brings(o2, a, t)
               PROVE  \E v \in Workers : Hold(p2[v]) # "none" /\ w[v] = t
    BY Zenon
  <2>1. \A a \in Actors : ~Brings(o, a, t)
    BY <1>2, <1>4, Zenon
  <2>2. PICK v \in Workers : Hold(p[v]) # "none" /\ w[v] = t
    BY <2>1, Zenon DEF Custody
  <2> QED BY <2>2, Zenon
<1> QED BY <1>6, <1>7, <1>8, <1>9, Zenon DEF Custody, s

\* The worker u goes on with its task, or has no more to do with it.
Moves(k, k2, p, p2, w, u) ==
    /\ Hold(p[u]) # "none"
    /\ \A t \in Tasks \ {w[u]} : k2[t].state = k[t].state
    /\ Hold(p2[u]) = "none" => k2[w[u]].state \in {"none", "idle"}
    /\ Hold(p2[u]) # "none" => k2[w[u]].state = Hold(p2[u])
    /\ \A v \in Workers \ {u} : Hold(p2[v]) = Hold(p[v])

LEMMA CustodyMove ==
    ASSUME NEW k, NEW k2, NEW Q \in SUBSET Tasks, NEW o, NEW p, NEW p2, NEW w, NEW u \in Workers,
           Custody(k, Q, o, p, w), Moves(k, k2, p, p2, w, u)
    PROVE  Custody(k2, Q, o, p2, w)
<1> USE DEF Moves
<1> DEFINE s == w[u]
<1>1. /\ s \in Tasks \ Q
      /\ \A a \in Actors : ~Brings(o, a, s)
      /\ \A v \in Workers \ {u} : Hold(p[v]) # "none" => w[v] # s
  BY Zenon DEF Custody
<1> HIDE DEF s
<1>2. \A t \in Q : k2[t].state = "ready"
  BY <1>1, Zenon DEF Custody, s
<1>3. \A a \in Actors : o[a].call = "ready" =>
         /\ o[a].task \in Tasks \ Q /\ k2[o[a].task].state = "ready"
         /\ \A c \in Actors \ {a} : ~Brings(o, c, o[a].task)
  BY <1>1, Zenon DEF Custody, Brings, s
<1>4. \A v \in Workers : Hold(p2[v]) # "none" =>
         /\ w[v] \in Tasks \ Q /\ k2[w[v]].state = Hold(p2[v])
         /\ \A a \in Actors : ~Brings(o, a, w[v])
         /\ \A x \in Workers \ {v} : Hold(p2[x]) # "none" => w[x] # w[v]
  <2> SUFFICES ASSUME NEW v \in Workers, Hold(p2[v]) # "none"
               PROVE  /\ w[v] \in Tasks \ Q /\ k2[w[v]].state = Hold(p2[v])
                      /\ \A a \in Actors : ~Brings(o, a, w[v])
                      /\ \A x \in Workers \ {v} : Hold(p2[x]) # "none" => w[x] # w[v]
    BY Zenon
  <2>1. CASE v = u
    BY <1>1, <2>1, Zenon DEF s
  <2>2. CASE v # u
    <3>1. Hold(p2[v]) = Hold(p[v])
      BY <2>2, Zenon
    <3>2. /\ w[v] \in Tasks \ Q /\ k[w[v]].state = Hold(p[v])
          /\ \A a \in Actors : ~Brings(o, a, w[v])
          /\ \A x \in Workers \ {v} : Hold(p[x]) # "none" => w[x] # w[v]
      BY <3>1, Zenon DEF Custody
    <3>3. k2[w[v]].state = k[w[v]].state
      BY <1>1, <2>2, <3>1, <3>2, Zenon DEF s
    <3>4. \A x \in Workers \ {v} : Hold(p2[x]) # "none" => Hold(p[x]) # "none"
      BY Zenon
    <3> QED BY <3>1, <3>2, <3>3, <3>4, Zenon
  <2> QED BY <2>1, <2>2, Zenon
<1>5. \A t \in Tasks : k2[t].state \in {"ready", "running", "done"} =>
         \/ t \in Q
         \/ \E a \in Actors : Brings(o, a, t)
         \/ \E v \in Workers : Hold(p2[v]) # "none" /\ w[v] = t
  <2> SUFFICES ASSUME NEW t \in Tasks, k2[t].state \in {"ready", "running", "done"},
                      t \notin Q, \A a \in Actors : ~Brings(o, a, t)
               PROVE  \E v \in Workers : Hold(p2[v]) # "none" /\ w[v] = t
    BY Zenon
  <2>1. CASE t = s
    BY <2>1, Zenon DEF s
  <2>2. CASE t # s
    <3>1. PICK v \in Workers : Hold(p[v]) # "none" /\ w[v] = t
      BY <2>2, Zenon DEF Custody, s
    <3> QED BY <2>2, <3>1, Zenon DEF s
  <2> QED BY <2>1, <2>2, Zenon
<1> QED BY <1>2, <1>3, <1>4, <1>5, Zenon DEF Custody

\* The worker u puts its task back on the queue.
Requeues(p, p2, u) ==
    /\ Hold(p[u]) = "ready" /\ Hold(p2[u]) = "none"
    /\ \A v \in Workers \ {u} : Hold(p2[v]) = Hold(p[v])

LEMMA CustodyRequeue ==
    ASSUME NEW k, NEW Q \in SUBSET Tasks, NEW o, NEW p, NEW p2, NEW w, NEW u \in Workers,
           Custody(k, Q, o, p, w), Requeues(p, p2, u)
    PROVE  Custody(k, Q \cup {w[u]}, o, p2, w)
<1> USE DEF Requeues
<1> DEFINE s == w[u]
           Q2 == Q \cup {s}
<1>1. /\ s \in Tasks \ Q /\ k[s].state = "ready"
      /\ \A a \in Actors : ~Brings(o, a, s)
      /\ \A v \in Workers \ {u} : Hold(p[v]) # "none" => w[v] # s
  BY Zenon DEF Custody
<1>2. \A t \in Q2 : k[t].state = "ready"
  BY <1>1, Zenon DEF Custody
<1>3. \A a \in Actors : o[a].call = "ready" =>
         /\ o[a].task \in Tasks \ Q2 /\ k[o[a].task].state = "ready"
         /\ \A c \in Actors \ {a} : ~Brings(o, c, o[a].task)
  BY <1>1, Zenon DEF Custody, Brings
<1>4. \A v \in Workers : Hold(p2[v]) # "none" =>
         /\ w[v] \in Tasks \ Q2 /\ k[w[v]].state = Hold(p2[v])
         /\ \A a \in Actors : ~Brings(o, a, w[v])
         /\ \A x \in Workers \ {v} : Hold(p2[x]) # "none" => w[x] # w[v]
  BY <1>1 DEF Custody
<1>5. \A t \in Tasks : k[t].state \in {"ready", "running", "done"} =>
         \/ t \in Q2
         \/ \E a \in Actors : Brings(o, a, t)
         \/ \E v \in Workers : Hold(p2[v]) # "none" /\ w[v] = t
  <2> SUFFICES ASSUME NEW t \in Tasks \ Q2, k[t].state \in {"ready", "running", "done"}
               PROVE  \/ \E a \in Actors : Brings(o, a, t)
                      \/ \E v \in Workers : Hold(p2[v]) # "none" /\ w[v] = t
    BY Zenon
  <2>1. \/ \E a \in Actors : Brings(o, a, t)
        \/ \E v \in Workers : Hold(p[v]) # "none" /\ w[v] = t
    BY Zenon DEF Custody
  <2> QED BY <2>1, Zenon
<1> QED BY <1>2, <1>3, <1>4, <1>5, Zenon DEF Custody

\* The worker u, which has no task, takes s from the queue.
Pops(p, p2, w, w2, u, s) ==
    /\ Hold(p[u]) = "none" /\ p2[u] = "popped" /\ w2[u] = s
    /\ \A v \in Workers \ {u} : Hold(p2[v]) = Hold(p[v]) /\ w2[v] = w[v]

LEMMA CustodyPop ==
    ASSUME NEW k, NEW Q \in SUBSET Tasks, NEW o, NEW p, NEW p2, NEW w, NEW w2,
           NEW u \in Workers, NEW s \in Q,
           Custody(k, Q, o, p, w), Pops(p, p2, w, w2, u, s)
    PROVE  Custody(k, Q \ {s}, o, p2, w2)
<1> USE DEF Pops
<1>1. s \in Tasks /\ k[s].state = "ready" /\ Hold(p2[u]) = "ready"
  BY Zenon DEF Custody, Hold
<1>2. \A a \in Actors : ~Brings(o, a, s)
  BY Zenon DEF Custody, Brings
<1>3. \A v \in Workers : Hold(p[v]) # "none" => w[v] # s
  BY Zenon DEF Custody
<1>4. \A a \in Actors : o[a].call = "ready" =>
         /\ o[a].task \in Tasks \ (Q \ {s}) /\ k[o[a].task].state = "ready"
         /\ \A c \in Actors \ {a} : ~Brings(o, c, o[a].task)
  BY Zenon DEF Custody
<1>5. \A v \in Workers : Hold(p2[v]) # "none" =>
         /\ w2[v] \in Tasks \ (Q \ {s}) /\ k[w2[v]].state = Hold(p2[v])
         /\ \A a \in Actors : ~Brings(o, a, w2[v])
         /\ \A x \in Workers \ {v} : Hold(p2[x]) # "none" => w2[x] # w2[v]
  <2> SUFFICES ASSUME NEW v \in Workers, Hold(p2[v]) # "none"
               PROVE  /\ w2[v] \in Tasks \ (Q \ {s}) /\ k[w2[v]].state = Hold(p2[v])
                      /\ \A a \in Actors : ~Brings(o, a, w2[v])
                      /\ \A x \in Workers \ {v} : Hold(p2[x]) # "none" => w2[x] # w2[v]
    BY Zenon
  <2>1. CASE v = u
    BY <1>1, <1>2, <1>3, <2>1, Zenon
  <2>2. CASE v # u
    <3>1. Hold(p2[v]) = Hold(p[v]) /\ w2[v] = w[v]
      BY <2>2, Zenon
    <3>2. /\ w[v] \in Tasks \ Q /\ k[w[v]].state = Hold(p[v])
          /\ \A a \in Actors : ~Brings(o, a, w[v])
          /\ \A x \in Workers \ {v} : Hold(p[x]) # "none" => w[x] # w[v]
      BY <3>1, Zenon DEF Custody
    <3> QED BY <1>3, <3>1, <3>2, Zenon
  <2> QED BY <2>1, <2>2, Zenon
<1>6. \A t \in Tasks : k[t].state \in {"ready", "running", "done"} =>
         \/ t \in Q \ {s}
         \/ \E a \in Actors : Brings(o, a, t)
         \/ \E v \in Workers : Hold(p2[v]) # "none" /\ w2[v] = t
  <2> SUFFICES ASSUME NEW t \in Tasks, k[t].state \in {"ready", "running", "done"},
                      t \notin Q \ {s}, \A a \in Actors : ~Brings(o, a, t)
               PROVE  \E v \in Workers : Hold(p2[v]) # "none" /\ w2[v] = t
    BY Zenon
  <2>1. CASE t = s
    BY <1>1, <2>1, Zenon
  <2>2. CASE t # s
    <3>1. PICK v \in Workers : Hold(p[v]) # "none" /\ w[v] = t
      BY <2>2, Zenon DEF Custody
    <3> QED BY <3>1, Zenon
  <2> QED BY <2>1, <2>2, Zenon
<1> QED BY <1>4, <1>5, <1>6, Zenon DEF Custody

\* The idle tasks in S are readied and queued at once.
QueuesAll(k, k2, p, p2, S) ==
    /\ \A t \in S : k[t].state = "idle" /\ k2[t].state = "ready"
    /\ \A t \in Tasks \ S : k2[t].state = k[t].state
    /\ \A v \in Workers : Hold(p2[v]) = Hold(p[v])

LEMMA CustodyJoin ==
    ASSUME NEW k, NEW k2, NEW Q \in SUBSET Tasks, NEW o, NEW p, NEW p2, NEW w, NEW S \in SUBSET Tasks,
           Custody(k, Q, o, p, w), QueuesAll(k, k2, p, p2, S)
    PROVE  Custody(k2, Q \cup S, o, p2, w)
<1> USE DEF QueuesAll
<1>1. \A v \in Workers : Hold(p[v]) # "none" => w[v] \notin S
  BY Zenon DEF Custody, Hold
<1>2. \A a \in Actors : o[a].call = "ready" => o[a].task \notin S
  BY Zenon DEF Custody
<1>3. \A t \in Q \cup S : k2[t].state = "ready"
  BY ZenonT(60) DEF Custody
<1>4. \A a \in Actors : o[a].call = "ready" =>
         /\ o[a].task \in Tasks \ (Q \cup S) /\ k2[o[a].task].state = "ready"
         /\ \A b \in Actors \ {a} : ~Brings(o, b, o[a].task)
  <2> SUFFICES ASSUME NEW a \in Actors, o[a].call = "ready"
               PROVE  /\ o[a].task \in Tasks \ (Q \cup S) /\ k2[o[a].task].state = "ready"
                      /\ \A b \in Actors \ {a} : ~Brings(o, b, o[a].task)
    BY Zenon
  <2>1. /\ o[a].task \in Tasks \ Q /\ k[o[a].task].state = "ready"
        /\ \A b \in Actors \ {a} : ~Brings(o, b, o[a].task)
    BY Zenon DEF Custody
  <2> QED BY <1>2, <2>1, Zenon
<1>5. \A v \in Workers : Hold(p2[v]) # "none" =>
         /\ w[v] \in Tasks \ (Q \cup S) /\ k2[w[v]].state = Hold(p2[v])
         /\ \A a \in Actors : ~Brings(o, a, w[v])
         /\ \A u \in Workers \ {v} : Hold(p2[u]) # "none" => w[u] # w[v]
  <2> SUFFICES ASSUME NEW v \in Workers, Hold(p2[v]) # "none"
               PROVE  /\ w[v] \in Tasks \ (Q \cup S) /\ k2[w[v]].state = Hold(p2[v])
                      /\ \A a \in Actors : ~Brings(o, a, w[v])
                      /\ \A u \in Workers \ {v} : Hold(p2[u]) # "none" => w[u] # w[v]
    BY Zenon
  <2>1. Hold(p2[v]) = Hold(p[v])
    BY Zenon
  <2>2. /\ w[v] \in Tasks \ Q /\ k[w[v]].state = Hold(p[v])
        /\ \A a \in Actors : ~Brings(o, a, w[v])
        /\ \A u \in Workers \ {v} : Hold(p[u]) # "none" => w[u] # w[v]
    BY <2>1, Zenon DEF Custody
  <2> QED BY <1>1, <2>1, <2>2, Zenon
<1>6. \A t \in Tasks : k2[t].state \in {"ready", "running", "done"} =>
         \/ t \in Q \cup S
         \/ \E a \in Actors : Brings(o, a, t)
         \/ \E v \in Workers : Hold(p2[v]) # "none" /\ w[v] = t
  <2> SUFFICES ASSUME NEW t \in Tasks \ S, k2[t].state \in {"ready", "running", "done"}
               PROVE  \/ t \in Q
                      \/ \E a \in Actors : Brings(o, a, t)
                      \/ \E v \in Workers : Hold(p2[v]) # "none" /\ w[v] = t
    BY Zenon
  <2>1. \/ t \in Q
        \/ \E a \in Actors : Brings(o, a, t)
        \/ \E v \in Workers : Hold(p[v]) # "none" /\ w[v] = t
    BY Zenon DEF Custody
  <2> QED BY <2>1, Zenon
<1> QED BY <1>3, <1>4, <1>5, <1>6, Zenon DEF Custody

-----------------------------------------------------------------------------
(* The fields of a task *)

Referenced(t) == \E r \in Refs : ref[r] = t

\* task->references, compared with nothing, one and two.
LEMMA ReferencesFacts ==
    ASSUME NEW t
    PROVE  /\ References(t) \in Nat /\ (References(t) = 0 <=> ~Referenced(t))
           /\ References(t) > 0 <=> Referenced(t)
           /\ \A r \in Refs : ref[r] = t =>
                 (References(t) = 1 <=> \A s \in Refs \ {r} : ref[s] # t)
<1> DEFINE S == {r \in Refs : ref[r] = t}
<1>1. IsFiniteSet(S) /\ References(t) = Cardinality(S) /\ Cardinality(S) \in Nat
  BY TaskAssumption, FS_Subset, FS_CardinalityType, Zenon DEF References
<1>2. References(t) = 0 <=> ~Referenced(t)
  BY <1>1, FS_EmptySet DEF Referenced
<1>3. ASSUME NEW r \in Refs, ref[r] = t
      PROVE  References(t) = 1 <=> \A s \in Refs \ {r} : ref[s] # t
  <2>1. r \in S
    BY <1>3
  <2>2. IsFiniteSet(S \ {r}) /\ Cardinality(S \ {r}) = Cardinality(S) - 1
    BY <1>1, <2>1, FS_RemoveElement, Zenon
  <2>3. Cardinality(S \ {r}) = 0 <=> S \ {r} = {}
    BY <2>2, FS_EmptySet, Zenon
  <2>4. S \ {r} = {} <=> \A s \in Refs \ {r} : ref[s] # t
    OBVIOUS
  <2> HIDE DEF S
  <2> QED BY <1>1, <2>2, <2>3, <2>4
<1> QED BY <1>1, <1>2, <1>3

\* What holds of a task k, referenced by the program or not.
FieldsOK(k, referenced) ==
    /\ k.shuttingdown => k.on_shutdown = 0
    /\ ~k.shuttingdown => k.nevents <= MaxEvents
    /\ k.state = "idle" => referenced /\ k.nevents = 0
    /\ k.state \in {"none", "done"} => ~referenced
    /\ k.state = "done" => k.nevents = 0 /\ k.shuttingdown

Usable == {"idle", "ready", "running"}

\* k2 differs from k in no more than the events, and in being ready.
Posted(k, k2) ==
    /\ k2 \in Task /\ k2.privileged = k.privileged
    /\ k2.state = IF WasIdle(k, k2) THEN "ready" ELSE k.state

LEMMA ReadiedFacts ==
    ASSUME NEW k \in Task
    PROVE  /\ Posted(k, Readied(k)) /\ Readied(k).state # "idle"
           /\ Readied(k) = [k EXCEPT !.state = Readied(k).state]
BY DEF Task, Readied, Posted, WasIdle

LEMMA ShutDownFacts ==
    ASSUME NEW k \in Task, NEW b \in BOOLEAN, FieldsOK(k, b), k.state \in Usable
    PROVE  /\ Posted(k, ShutDown(k)) /\ FieldsOK(ShutDown(k), b)
           /\ ShutDown(k).shuttingdown
           /\ k.state = "running" => ShutDown(k).state = "running"
<1>1. CASE k.shuttingdown
  BY <1>1 DEF ShutDown, Posted, WasIdle
<1>2. CASE ~k.shuttingdown
  <2>1. /\ Readied(k).nevents = k.nevents /\ Readied(k).privileged = k.privileged
        /\ Readied(k) \in Task
        /\ Readied(k).state = IF k.state = "idle" THEN "ready" ELSE k.state
    BY DEF Task, Readied
  <2> DEFINE k2 == [Readied(k) EXCEPT !.shuttingdown = TRUE,
                                      !.nevents = @ + k.on_shutdown, !.on_shutdown = 0]
  <2>2. /\ k2.shuttingdown = TRUE /\ k2.nevents = k.nevents + k.on_shutdown
        /\ k2.on_shutdown = 0 /\ k2.privileged = k.privileged
        /\ k2.state = IF k.state = "idle" THEN "ready" ELSE k.state
    BY <2>1 DEF Task
  <2>3. k.nevents + k.on_shutdown \in 0 .. MaxEvents + MaxShutdown
    BY <1>2, TaskAssumption DEF FieldsOK, Task
  <2>4. k2 \in Task
    <3> DEFINE j == Readied(k)
               n == k.nevents + k.on_shutdown
    <3>1. k2 = [j EXCEPT !.shuttingdown = TRUE, !.nevents = n, !.on_shutdown = 0]
      BY <2>1
    <3>2. j \in Task /\ n \in 0 .. MaxEvents + MaxShutdown /\ 0 \in 0 .. MaxShutdown
      BY <2>1, <2>3, TaskAssumption
    <3> HIDE DEF j, n, k2
    <3> QED BY <3>1, <3>2, Zenon DEF Task
  <2>5. ShutDown(k) = k2
    BY <1>2 DEF ShutDown
  <2> HIDE DEF k2
  <2> QED BY <2>2, <2>4, <2>5, Zenon DEF Posted, FieldsOK, WasIdle, Usable, Task
<1> QED BY <1>1, <1>2

LEMMA SentFacts ==
    ASSUME NEW k \in Task, NEW b \in BOOLEAN, FieldsOK(k, b), k.state \in Usable,
           k.nevents < MaxEvents
    PROVE  Posted(k, Sent(k)) /\ \A c \in BOOLEAN : FieldsOK(Sent(k), c)
<1>1. /\ Readied(k).nevents = k.nevents /\ Readied(k).privileged = k.privileged
      /\ Readied(k).on_shutdown = k.on_shutdown /\ Readied(k).shuttingdown = k.shuttingdown
      /\ Readied(k) \in Task
      /\ Readied(k).state = IF k.state = "idle" THEN "ready" ELSE k.state
  BY DEF Task, Readied
<1> DEFINE k2 == [Readied(k) EXCEPT !.nevents = @ + 1]
<1>2. /\ k2.nevents = k.nevents + 1 /\ k2.privileged = k.privileged
      /\ k2.on_shutdown = k.on_shutdown /\ k2.shuttingdown = k.shuttingdown
      /\ k2.state = IF k.state = "idle" THEN "ready" ELSE k.state
  BY <1>1 DEF Task
<1>3. k.nevents + 1 \in 0 .. MaxEvents + MaxShutdown /\ k.nevents + 1 <= MaxEvents
  BY TaskAssumption DEF Task
<1>4. k2 \in Task
  BY <1>1, <1>3, TaskAssumption DEF Task
<1>5. Sent(k) = k2
  BY DEF Sent
<1> HIDE DEF k2
<1> QED BY <1>2, <1>3, <1>4, <1>5, Zenon DEF Posted, FieldsOK, WasIdle, Usable, Task

\* Who drops the last reference leaves no idle task behind.
LEMMA DetachedFacts ==
    ASSUME NEW t, NEW k \in Task, NEW b \in BOOLEAN, NEW c \in BOOLEAN,
           FieldsOK(k, b), k.state \in Usable, References(t) # 1 => c
    PROVE  Posted(k, Detached(t, k)) /\ FieldsOK(Detached(t, k), c)
<1>1. CASE References(t) # 1
  BY <1>1, Zenon DEF Detached, Posted, WasIdle, FieldsOK, Usable
<1>2. CASE References(t) = 1
  <2>1. /\ Posted(k, Readied(k)) /\ Readied(k).state # "idle"
        /\ Readied(k).nevents = k.nevents /\ Readied(k).on_shutdown = k.on_shutdown
        /\ Readied(k).shuttingdown = k.shuttingdown
        /\ Readied(k).state \in Usable
    BY ReadiedFacts DEF Task, Readied, Usable
  <2> QED BY <1>2, <2>1, Zenon DEF Detached, FieldsOK, Usable
<1> QED BY <1>1, <1>2

-----------------------------------------------------------------------------
(* The invariant *)

FlagsOK(m) ==
    /\ m.mode \in {"normal", "privileged"}
    /\ m.pause_requested \in BOOLEAN /\ m.exclusive_requested \in BOOLEAN
    /\ m.exiting \in BOOLEAN

Calls == [call : {"none", "ready", "privilege", "unprivilege"}, task : Tasks \cup {NoTask}]

\* Types, and what the fields of a task say together.
DataInv ==
    /\ task \in [Tasks -> Task]
    /\ ref \in [Refs -> Tasks \cup {NoTask}]
    /\ op \in [Actors -> Calls]
    /\ wtask \in [Workers -> Tasks \cup {NoTask}]
    /\ count \in [Workers -> 0 .. Quantum]
    /\ FlagsOK(mgr)
    /\ \A t \in Tasks : FieldsOK(task[t], Referenced(t))

CustodyInv == Custody(task, Queued(mgr), op, pc, wtask) /\ Lists(mgr, Privileged)

\* The second half of a call is done where the first was, and the task it is
\* about is still there; a task that is given privileges stays idle.
OpInv ==
    \A a \in Actors : op[a].call # "none" =>
        /\ pc[a] \in {"free", "action", "exclusive"}
        /\ op[a].task \in Tasks
        /\ op[a].call # "ready" => task[op[a].task].state = "idle"

\* A worker leaves, and so the manager goes, only when no task is left.
EndInv ==
    (\E w \in Workers : pc[w] = "exit") \/ (\E c \in Clients : pc[c] = "gone")
        => mgr.exiting /\ Live = {}

RestInv == \A w \in Workers : pc[w] \in Resting => wtask[w] = NoTask

TaskInv == DataInv /\ CustodyInv /\ OpInv /\ EndInv /\ RestInv

\* Nobody can use a task that is done or freed.
LEMMA KnownUsable ==
    ASSUME IndInv, TaskInv, NEW a \in Actors, CanCall(a), NEW t \in Tasks,
           Referenced(t) \/ t \in Known(a)
    PROVE  task[t].state \in Usable
<1>1. CASE Referenced(t)
  BY <1>1, Zenon DEF TaskInv, DataInv, FieldsOK, Task, Usable
<1>2. CASE a \in Workers /\ wtask[a] = t
  <2>1. pc[a] \in {"action", "exclusive"}
    BY <1>2 DEF CanCall, IndInv, IsPc, Resting, Busy
  <2>2. Hold(pc[a]) = "running"
    BY <2>1 DEF Hold, Acting
  <2> QED BY <1>2, <2>2, Zenon DEF TaskInv, CustodyInv, Custody, Usable
<1> QED BY <1>1, <1>2, ReferencesFacts DEF Known

\* A call by a that makes k of the task t.
LEMMA CallKeeps ==
    ASSUME TaskInv, NEW a \in Actors, CanCall(a), NEW t \in Tasks, ~Privileging(t),
           NEW STATE k, k \in Task, NEW STATE o, o \in Calls,
           task' = [task EXCEPT ![t] = k], op' = [op EXCEPT ![a] = o],
           ref' \in [Refs -> Tasks \cup {NoTask}],
           UNCHANGED <<mgr, pc, wtask, count>>,
           \A u \in Tasks \ {t} : Referenced(u)' <=> Referenced(u),
           FieldsOK(k, Referenced(t)'),
           k.privileged = task[t].privileged \/ task[t].state \in {"none", "idle"},
           \/ k.state = task[t].state /\ o = op[a]
           \/ k.state = "idle" /\ task[t].state = "none" /\ ~mgr.exiting /\ o = op[a]
           \/ k.state = "ready" /\ task[t].state = "idle" /\ o.call = "ready" /\ o.task = t
           \/ /\ k.state = "idle" /\ task[t].state = "idle"
              /\ o.call \in {"privilege", "unprivilege"} /\ o.task = t
    PROVE  TaskInv'
<1>1. /\ task \in [Tasks -> Task] /\ op \in [Actors -> Calls] /\ op[a].call = "none"
      /\ pc[a] \in {"free", "action", "exclusive"}
  BY Zenon DEF TaskInv, DataInv, CanCall
<1>2. task'[t] = k /\ \A u \in Tasks \ {t} : task'[u] = task[u]
  BY <1>1, Zenon
<1>3. op'[a] = o /\ \A b \in Actors \ {a} : op'[b] = op[b]
  BY <1>1, Zenon
<1>4. DataInv'
  <2>1. \A u \in Tasks : FieldsOK(task[u], Referenced(u))'
    <3> SUFFICES ASSUME NEW u \in Tasks PROVE FieldsOK(task'[u], Referenced(u)')
      BY Zenon DEF FieldsOK
    <3> QED BY <1>2, Zenon DEF TaskInv, DataInv, FieldsOK
  <2> QED BY <1>1, <2>1, Zenon DEF TaskInv, DataInv, FlagsOK
<1>5. CustodyInv'
  <2>1. Custody(task, Queued(mgr), op, pc, wtask) /\ Lists(mgr, Privileged)
    BY Zenon DEF TaskInv, CustodyInv
  <2>2. Queued(mgr) \in SUBSET Tasks
    BY Zenon DEF Queued
  <2>3. Custody(task', Queued(mgr), op', pc, wtask)
    <3>1. CASE k.state = "ready" /\ task[t].state = "idle" /\ o.call = "ready" /\ o.task = t
      <4>1. op'[a].call = "ready" /\ op'[a].task = t /\ task'[t].state = "ready"
        BY <1>2, <1>3, <3>1, Zenon
      <4>2. /\ \A u \in Tasks \ {t} : task'[u].state = task[u].state
            /\ \A b \in Actors \ {a} : op'[b] = op[b]
        BY <1>2, <1>3, Zenon
      <4> DEFINE k2 == task'
                 o2 == op'
      <4>3. /\ o2[a].call = "ready" /\ o2[a].task = t /\ k2[t].state = "ready"
            /\ \A u \in Tasks \ {t} : k2[u].state = task[u].state
            /\ \A b \in Actors \ {a} : o2[b] = op[b]
        BY <4>1, <4>2, Zenon
      <4> HIDE DEF k2, o2
      <4>4. Readies(task, k2, op, o2, t, a)
        BY <1>1, <3>1, <4>3, Zenon DEF Readies
      <4>5. Custody(k2, Queued(mgr), o2, pc, wtask)
        BY <2>1, <2>2, <4>4, CustodyReady, Zenon
      <4> QED BY <4>5, Zenon DEF k2, o2
    <3>2. CASE ~(k.state = "ready" /\ task[t].state = "idle" /\ o.call = "ready" /\ o.task = t)
      <4>1. \A u \in Tasks : \/ task'[u].state = task[u].state
                             \/ task[u].state \in {"none", "idle"} /\ task'[u].state \in {"none", "idle"}
        BY <1>2, <3>2, Zenon
      <4>2. \A b \in Actors : op'[b] = op[b] \/ (op[b].call # "ready" /\ op'[b].call # "ready")
        BY <1>1, <1>3, <3>2, Zenon
      <4> DEFINE k2 == task'
                 o2 == op'
      <4>3. /\ \A u \in Tasks : \/ k2[u].state = task[u].state
                                \/ task[u].state \in {"none", "idle"} /\ k2[u].state \in {"none", "idle"}
            /\ \A b \in Actors : o2[b] = op[b] \/ (op[b].call # "ready" /\ o2[b].call # "ready")
        BY <4>1, <4>2, Zenon
      <4> HIDE DEF k2, o2
      <4>4. Steady(task, k2, op, o2, pc, pc, wtask, wtask)
        BY <4>3, Zenon DEF Steady
      <4>5. Custody(k2, Queued(mgr), o2, pc, wtask)
        BY <2>1, <2>2, <4>4, CustodySame, Zenon
      <4> QED BY <4>5 DEF k2, o2
    <3> QED BY <3>1, <3>2, Zenon
  <2>4. Lists(mgr, Privileged')
    <3>1. \A u \in Tasks : On(mgr.ready_tasks, u) => (u \in Privileged' <=> u \in Privileged)
      <4>1. \A u \in Tasks \ {t} : u \in Privileged' <=> u \in Privileged
        BY <1>2, Zenon DEF Privileged
      <4>2. On(mgr.ready_tasks, t) => task[t].state = "ready"
        BY <2>1, Zenon DEF Custody, Queued
      <4> QED BY <1>2, <4>1, <4>2, Zenon DEF Privileged
    <3> QED BY <2>1, <3>1, Zenon DEF Lists
  <2>5. Queued(mgr)' = Queued(mgr) /\ Lists(mgr, Privileged)' = Lists(mgr, Privileged')
    BY Zenon DEF Queued, Lists
  <2> QED BY <2>3, <2>4, <2>5, Zenon DEF CustodyInv
<1>6. OpInv'
  <2> SUFFICES ASSUME NEW b \in Actors, op'[b].call # "none"
               PROVE  /\ pc'[b] \in {"free", "action", "exclusive"}
                      /\ op'[b].task \in Tasks
                      /\ op'[b].call # "ready" => task'[op'[b].task].state = "idle"
    BY Zenon DEF OpInv
  <2>1. CASE b = a
    BY <1>1, <1>2, <1>3, <2>1, Zenon
  <2>2. CASE b # a
    <3>1. op'[b] = op[b] /\ op[b] \in Calls
      BY <1>1, <1>3, <2>2, Zenon
    <3>2. op[b].call # "ready" => op[b].task # t
      BY <2>2, <3>1, Zenon DEF Privileging, Calls
    <3>3. /\ pc[b] \in {"free", "action", "exclusive"} /\ op[b].task \in Tasks
          /\ op[b].call # "ready" => task[op[b].task].state = "idle"
      BY <2>2, <3>1, Zenon DEF TaskInv, OpInv
    <3> QED BY <1>2, <3>1, <3>2, <3>3, ZenonT(60)
  <2> QED BY <2>1, <2>2, Zenon
<1>7. EndInv'
  <2>1. mgr.exiting /\ Live = {} => Live' = {}
    <3> SUFFICES ASSUME mgr.exiting, Live = {}, NEW u \in Tasks PROVE task'[u].state = "none"
      BY Zenon DEF Live
    <3>1. task[u].state = "none" /\ task[t].state = "none"
      BY Zenon DEF Live
    <3> QED BY <1>2, <3>1, Zenon
  <2> QED BY <2>1, Zenon DEF TaskInv, EndInv
<1>8. RestInv'
  BY Zenon DEF TaskInv, RestInv
<1> QED BY <1>4, <1>5, <1>6, <1>7, <1>8, Zenon DEF TaskInv

\* The calls that post events or drop a reference.
LEMMA PostKeeps ==
    ASSUME TaskInv, NEW a \in Actors, CanCall(a), NEW t \in Tasks, ~Privileging(t),
           NEW STATE k, Posted(task[t], k), Locked(a, t, k),
           ref' \in [Refs -> Tasks \cup {NoTask}],
           UNCHANGED <<mgr, pc, wtask, count>>,
           \A u \in Tasks \ {t} : Referenced(u)' <=> Referenced(u),
           FieldsOK(k, Referenced(t)')
    PROVE  TaskInv'
<1>1. k \in Task /\ k.privileged = task[t].privileged /\ task' = [task EXCEPT ![t] = k]
  BY Zenon DEF Posted, Locked
<1>2. CASE WasIdle(task[t], k)
  <2> DEFINE o == [call |-> "ready", task |-> t]
  <2>1. o \in Calls /\ o.call = "ready" /\ o.task = t /\ op' = [op EXCEPT ![a] = o]
    BY <1>2, Zenon DEF Calls, Locked
  <2>2. k.state = "ready" /\ task[t].state = "idle"
    BY <1>2, Zenon DEF WasIdle
  <2> HIDE DEF o
  <2> QED BY <1>1, <2>1, <2>2, CallKeeps, Zenon
<1>3. CASE ~WasIdle(task[t], k)
  <2> DEFINE o == op[a]
  <2>1. o \in Calls /\ op' = [op EXCEPT ![a] = o]
    BY <1>3, Zenon DEF TaskInv, DataInv, Locked
  <2>2. k.state = task[t].state /\ o = op[a]
    BY <1>3, Zenon DEF Posted
  <2> HIDE DEF o
  <2> QED BY <1>1, <2>1, <2>2, CallKeeps, Zenon
<1> QED BY <1>2, <1>3

\* The calls that only edit a task, and those that only take a reference.
LEMMA EditKeeps ==
    ASSUME TaskInv, NEW a \in Actors, CanCall(a), NEW t \in Tasks, ~Privileging(t),
           NEW STATE k, k \in Task, task' = [task EXCEPT ![t] = k],
           ref' \in [Refs -> Tasks \cup {NoTask}],
           UNCHANGED <<op, mgr, pc, wtask, count>>,
           \A u \in Tasks \ {t} : Referenced(u)' <=> Referenced(u),
           FieldsOK(k, Referenced(t)'),
           k.privileged = task[t].privileged \/ task[t].state \in {"none", "idle"},
           \/ k.state = task[t].state
           \/ k.state = "idle" /\ task[t].state = "none" /\ ~mgr.exiting
    PROVE  TaskInv'
<1> DEFINE o == op[a]
<1>1. o \in Calls /\ op' = [op EXCEPT ![a] = o] /\ o = op[a]
  BY Zenon DEF TaskInv, DataInv
<1> HIDE DEF o
<1> QED BY <1>1, CallKeeps, Zenon

\* What taking and dropping a reference changes.
LEMMA RefFacts ==
    ASSUME TaskInv, NEW r \in Refs, NEW t \in Tasks
    PROVE  /\ ref[r] = NoTask /\ ref' = [ref EXCEPT ![r] = t] =>
                 /\ ref' \in [Refs -> Tasks \cup {NoTask}] /\ Referenced(t)'
                 /\ \A u \in Tasks \ {t} : Referenced(u)' <=> Referenced(u)
           /\ ref[r] = t /\ ref' = [ref EXCEPT ![r] = NoTask] =>
                 /\ ref' \in [Refs -> Tasks \cup {NoTask}]
                 /\ References(t) # 1 => Referenced(t)'
                 /\ \A u \in Tasks \ {t} : Referenced(u)' <=> Referenced(u)
<1>1. ref \in [Refs -> Tasks \cup {NoTask}] /\ NoTask \notin Tasks
  BY TaskAssumption DEF TaskInv, DataInv
<1>2. ASSUME ref[r] = NoTask, ref' = [ref EXCEPT ![r] = t]
      PROVE  /\ ref' \in [Refs -> Tasks \cup {NoTask}] /\ Referenced(t)'
             /\ \A u \in Tasks \ {t} : Referenced(u)' <=> Referenced(u)
  BY <1>1, <1>2 DEF Referenced
<1>3. ASSUME ref[r] = t, ref' = [ref EXCEPT ![r] = NoTask]
      PROVE  /\ ref' \in [Refs -> Tasks \cup {NoTask}]
             /\ References(t) # 1 => Referenced(t)'
             /\ \A u \in Tasks \ {t} : Referenced(u)' <=> Referenced(u)
  <2>1. References(t) # 1 => \E s \in Refs \ {r} : ref[s] = t
    BY <1>3, ReferencesFacts
  <2>2. \A s \in Refs \ {r} : ref'[s] = ref[s]
    BY <1>1, <1>3
  <2>3. References(t) # 1 => Referenced(t)'
    BY <2>1, <2>2 DEF Referenced
  <2> QED BY <1>1, <1>3, <2>3 DEF Referenced
<1> QED BY <1>2, <1>3, Zenon

LEMMA CallStep ==
    ASSUME IndInv, TaskInv, NEW a \in Actors, Call(a)
    PROVE  TaskInv'
<1>1. /\ task \in [Tasks -> Task] /\ ref \in [Refs -> Tasks \cup {NoTask}]
      /\ op \in [Actors -> Calls]
      /\ \A t \in Tasks : FieldsOK(task[t], Referenced(t)) /\ Referenced(t) \in BOOLEAN
  BY Zenon DEF TaskInv, DataInv, Referenced
<1>2. CanCall(a)
  BY DEF Call, Create, Attach, Detach, SendAndDetach, Send, Purge, OnShutdown, Shutdown, SetPrivilege
<1>3. \A t \in Known(a) : t \in Tasks /\ task[t].state \in Usable /\ ~Privileging(t)
  BY <1>2, KnownUsable, Zenon DEF Known
<1>4. ASSUME NEW r \in Refs, ref[r] # NoTask
      PROVE  ref[r] \in Tasks /\ Referenced(ref[r]) /\ task[ref[r]].state \in Usable
  <2>1. ref[r] \in Tasks /\ Referenced(ref[r])
    BY <1>1, <1>4, Zenon DEF Referenced
  <2> QED BY <1>2, <2>1, KnownUsable, Zenon
<1>5. ref' = ref => \A t \in Tasks : Referenced(t)' = Referenced(t)
  BY DEF Referenced
<1>6. ASSUME NEW r \in Refs, NEW t \in Tasks, Create(a, r, t) PROVE TaskInv'
  <2> DEFINE k == NewTask
  <2>1. /\ k \in Task /\ k.state = "idle" /\ k.nevents = 0 /\ k.on_shutdown = 0
        /\ k.shuttingdown = FALSE
    BY TaskAssumption DEF NewTask, Task
  <2>2. ~Privileging(t)
    BY <1>1, <1>6, Zenon DEF Create, Privileging, TaskInv, OpInv
  <2>3. /\ task' = [task EXCEPT ![t] = k] /\ task[t].state = "none" /\ ~mgr.exiting
        /\ ref[r] = NoTask /\ ref' = [ref EXCEPT ![r] = t] /\ UNCHANGED <<op, mgr, pc, wtask, count>>
    BY <1>6 DEF Create
  <2>4. /\ ref' \in [Refs -> Tasks \cup {NoTask}] /\ Referenced(t)'
        /\ \A u \in Tasks \ {t} : Referenced(u)' <=> Referenced(u)
    BY <2>3, RefFacts, Zenon
  <2> HIDE DEF k
  <2>5. FieldsOK(k, Referenced(t)')
    BY <2>1, <2>4, TaskAssumption DEF FieldsOK
  <2> QED BY <1>2, <2>1, <2>2, <2>3, <2>4, <2>5, EditKeeps, Zenon
<1>7. ASSUME NEW r \in Refs, NEW t \in Tasks, Attach(a, r, t) PROVE TaskInv'
  <2> DEFINE k == task[t]
  <2>1. k \in Task /\ task' = [task EXCEPT ![t] = k]
    BY <1>1, <1>7 DEF Attach
  <2>2. /\ ref[r] = NoTask /\ ref' = [ref EXCEPT ![r] = t] /\ UNCHANGED <<op, mgr, pc, wtask, count>>
        /\ k.state \in Usable /\ ~Privileging(t)
    BY <1>3, <1>7 DEF Attach
  <2>3. /\ ref' \in [Refs -> Tasks \cup {NoTask}] /\ Referenced(t)'
        /\ \A u \in Tasks \ {t} : Referenced(u)' <=> Referenced(u)
    BY <2>2, RefFacts, Zenon
  <2>4. FieldsOK(k, Referenced(t)')
    BY <1>1, <2>2, <2>3, Zenon DEF FieldsOK, Usable
  <2>5. k = task[t]
    OBVIOUS
  <2> HIDE DEF k
  <2> QED BY <1>2, <2>1, <2>2, <2>3, <2>4, <2>5, EditKeeps, Zenon
<1>8. ASSUME NEW r \in Refs, Detach(a, r) \/ SendAndDetach(a, r) PROVE TaskInv'
  <2>0. ref[r] # NoTask
    BY <1>8, Zenon DEF Detach, SendAndDetach
  <2> PICK t \in Tasks : t = ref[r]
    BY <1>4, <2>0
  <2> DEFINE b == Referenced(t)'
  <2>1. /\ ~Privileging(t) /\ ref' = [ref EXCEPT ![r] = NoTask]
        /\ UNCHANGED <<mgr, pc, wtask, count>>
    BY <1>8, Zenon DEF Detach, SendAndDetach
  <2>2. task[t].state \in Usable /\ task[t] \in Task /\ FieldsOK(task[t], Referenced(t))
    BY <1>1, <1>4, <2>0
  <2>3. /\ ref' \in [Refs -> Tasks \cup {NoTask}] /\ (References(t) # 1 => b) /\ b \in BOOLEAN
        /\ \A u \in Tasks \ {t} : Referenced(u)' <=> Referenced(u)
    BY <2>1, <2>2, RefFacts, Zenon DEF Referenced
  <2>4. CASE Detach(a, r)
    <3> DEFINE k == Detached(t, task[t])
    <3>1. Posted(task[t], k) /\ FieldsOK(k, b)
      BY <1>1, <2>2, <2>3, DetachedFacts
    <3>2. Locked(a, t, k)
      BY <2>4, Zenon DEF Detach
    <3> HIDE DEF k
    <3> QED BY <1>2, <2>1, <2>2, <2>3, <3>1, <3>2, PostKeeps
  <2>5. CASE SendAndDetach(a, r)
    <3> DEFINE j == Sent(task[t])
               k == Detached(t, j)
    <3>1. Posted(task[t], j) /\ FieldsOK(j, TRUE)
      BY <1>1, <2>2, <2>5, SentFacts, Zenon DEF SendAndDetach
    <3>2. j \in Task /\ j.state \in Usable
      BY <2>2, <3>1, Zenon DEF Posted, Usable
    <3>3. Locked(a, t, k)
      BY <2>5, Zenon DEF SendAndDetach
    <3> HIDE DEF j
    <3>4. Posted(j, k) /\ FieldsOK(k, b)
      BY <2>3, <3>1, <3>2, DetachedFacts, Zenon
    <3> HIDE DEF k
    <3>5. Posted(task[t], k)
      BY <2>2, <3>1, <3>4, Zenon DEF Posted, WasIdle
    <3> QED BY <1>2, <2>1, <2>2, <2>3, <3>3, <3>4, <3>5, PostKeeps, Zenon
  <2> QED BY <1>8, <2>4, <2>5
<1>9. ASSUME NEW t \in Tasks,
             Send(a, t) \/ Purge(a, t) \/ OnShutdown(a, t) \/ Shutdown(a, t) \/ SetPrivilege(a, t)
      PROVE  TaskInv'
  <2>1. /\ t \in Known(a) /\ ref' = ref /\ UNCHANGED <<mgr, pc, wtask, count>>
    BY <1>9 DEF Send, Purge, OnShutdown, Shutdown, SetPrivilege
  <2>2. task[t].state \in Usable /\ ~Privileging(t) /\ task[t] \in Task
    BY <1>1, <1>3, <2>1
  <2>3. /\ ref' \in [Refs -> Tasks \cup {NoTask}] /\ Referenced(t)' = Referenced(t)
        /\ FieldsOK(task[t], Referenced(t)')
        /\ \A u \in Tasks \ {t} : Referenced(u)' <=> Referenced(u)
    BY <1>1, <1>5, <2>1
  <2>4. CASE Send(a, t)
    <3> DEFINE k == Sent(task[t])
    <3>1. Posted(task[t], k) /\ FieldsOK(k, Referenced(t)') /\ Locked(a, t, k)
      BY <1>1, <2>2, <2>3, <2>4, SentFacts, Zenon DEF Send
    <3> HIDE DEF k
    <3> QED BY <1>2, <2>1, <2>2, <2>3, <3>1, PostKeeps, Zenon
  <2>5. CASE Shutdown(a, t)
    <3> DEFINE k == ShutDown(task[t])
    <3>1. Posted(task[t], k) /\ FieldsOK(k, Referenced(t)') /\ Locked(a, t, k)
      BY <1>1, <2>2, <2>3, <2>5, ShutDownFacts, Zenon DEF Shutdown
    <3> HIDE DEF k
    <3> QED BY <1>2, <2>1, <2>2, <2>3, <3>1, PostKeeps
  <2>6. CASE Purge(a, t)
    <3>1. PICK n \in 1 .. task[t].nevents : task' = [task EXCEPT ![t].nevents = @ - n]
      BY <2>6, Zenon DEF Purge
    <3> DEFINE j == task[t].nevents - n
               k == [task[t] EXCEPT !.nevents = j]
    <3>2. task' = [task EXCEPT ![t] = k] /\ op' = op
      BY <2>6, <3>1, Zenon DEF Purge
    <3>3. j \in 0 .. MaxEvents + MaxShutdown /\ j <= task[t].nevents
      <4>1. task[t].nevents \in 0 .. MaxEvents + MaxShutdown
        BY <2>2, Zenon DEF Task
      <4> QED BY <4>1, TaskAssumption
    <3> HIDE DEF j
    <3>4. /\ k \in Task /\ k.state = task[t].state /\ k.privileged = task[t].privileged
          /\ k.nevents = j /\ k.on_shutdown = task[t].on_shutdown
          /\ k.shuttingdown = task[t].shuttingdown
      BY <2>2, <3>3 DEF Task
    <3> HIDE DEF k
    <3>5. /\ task[t].shuttingdown => task[t].on_shutdown = 0
          /\ ~task[t].shuttingdown => task[t].nevents <= MaxEvents
          /\ task[t].state = "idle" => Referenced(t)' /\ task[t].nevents = 0
      BY <2>3, Zenon DEF FieldsOK
    <3>6. /\ task[t].nevents = 0 => j = 0
          /\ task[t].nevents <= MaxEvents => j <= MaxEvents
      <4>1. task[t].nevents \in Nat /\ MaxEvents \in Nat /\ j \in Nat /\ j <= task[t].nevents
        BY <2>2, <3>3, TaskAssumption DEF Task
      <4> QED BY <4>1
    <3>7. k.state \notin {"none", "done"}
      BY <2>2, <3>4, Zenon DEF Usable
    <3>8. FieldsOK(k, Referenced(t)')
      BY <3>4, <3>5, <3>6, <3>7, Zenon DEF FieldsOK
    <3> QED BY <1>2, <2>1, <2>2, <2>3, <3>2, <3>4, <3>8, EditKeeps, Zenon
  <2>7. CASE OnShutdown(a, t)
    <3> DEFINE j == task[t].on_shutdown + 1
               k == [task[t] EXCEPT !.on_shutdown = j]
    <3>2. task' = [task EXCEPT ![t] = k] /\ op' = op /\ ~task[t].shuttingdown
      BY <2>7 DEF OnShutdown
    <3>3. j \in 0 .. MaxShutdown
      BY <2>2, <2>7, TaskAssumption DEF Task, OnShutdown
    <3> HIDE DEF j
    <3>4. /\ k \in Task /\ k.state = task[t].state /\ k.privileged = task[t].privileged
          /\ k.nevents = task[t].nevents /\ k.shuttingdown = task[t].shuttingdown
      BY <2>2, <3>3 DEF Task
    <3> HIDE DEF k
    <3>6. FieldsOK(k, Referenced(t)')
      BY <2>2, <2>3, <3>2, <3>4, Zenon DEF FieldsOK
    <3> QED BY <1>2, <2>1, <2>2, <2>3, <3>2, <3>4, <3>6, EditKeeps, Zenon
  <2>8. CASE SetPrivilege(a, t)
    <3> DEFINE j == ~task[t].privileged
               k == [task[t] EXCEPT !.privileged = j]
               o == [call |-> IF task[t].privileged THEN "unprivilege" ELSE "privilege", task |-> t]
    <3>2. task' = [task EXCEPT ![t] = k] /\ op' = [op EXCEPT ![a] = o] /\ task[t].state = "idle"
      BY <2>8 DEF SetPrivilege
    <3>3. o \in Calls /\ o.call \in {"privilege", "unprivilege"} /\ o.task = t
      BY DEF Calls
    <3>4. j \in BOOLEAN
      OBVIOUS
    <3> HIDE DEF j, o
    <3>5. /\ k \in Task /\ k.state = task[t].state
          /\ k.nevents = task[t].nevents /\ k.shuttingdown = task[t].shuttingdown
          /\ k.on_shutdown = task[t].on_shutdown
      BY <2>2, <3>4 DEF Task
    <3> HIDE DEF k
    <3>6. FieldsOK(k, Referenced(t)')
      BY <2>3, <3>5, Zenon DEF FieldsOK
    <3> QED BY <1>2, <2>1, <2>2, <2>3, <3>2, <3>3, <3>5, <3>6, CallKeeps, Zenon
  <2> QED BY <1>9, <2>4, <2>5, <2>6, <2>7, <2>8
<1> QED BY <1>6, <1>7, <1>8, <1>9 DEF Call

-----------------------------------------------------------------------------
(* Waking threads *)

\* From p to q the threads in A are where they were or have been woken.
Woken(p, q, A) ==
    \A a \in A : \/ q[a] = p[a]
                 \/ p[a] = "sleep" /\ q[a] = "top"
                 \/ p[a] = "exwait" /\ q[a] = "excheck"
                 \/ p[a] = "pausewait" /\ q[a] = "pausecheck"

\* What being woken does not change.
LEMMA WokenFacts ==
    ASSUME NEW p, NEW q, NEW A, Woken(p, q, A), NEW a \in A
    PROVE  /\ Hold(q[a]) = Hold(p[a])
           /\ q[a] \in Resting <=> p[a] \in Resting
           /\ p[a] \in {"free", "action", "exclusive", "join"} => q[a] = p[a]
           /\ q[a] \in {"exit", "gone"} => q[a] = p[a]
BY Zenon DEF Woken, Hold, Acting, Resting

\* What the proofs use of threads that are at most woken.
Unmoved(p, q, A) ==
    \A a \in A : /\ Hold(q[a]) = Hold(p[a])
                 /\ q[a] \in Resting <=> p[a] \in Resting
                 /\ p[a] \in {"free", "action", "exclusive"} => q[a] = p[a]
                 /\ q[a] \in {"exit", "gone"} => q[a] = p[a]

LEMMA WokenAll ==
    ASSUME NEW p, NEW q, NEW A, Woken(p, q, A)
    PROVE  Unmoved(p, q, A)
BY WokenFacts DEF Unmoved

LEMMA WokenTwice ==
    ASSUME NEW p, NEW q, NEW r, NEW A, Woken(p, q, A), Woken(q, r, A)
    PROVE  Woken(p, r, A)
BY Zenon DEF Woken

LEMMA WakeFacts ==
    ASSUME NEW p
    PROVE  /\ Woken(p, Broadcast(p), Actors)
           /\ IsPc(p) => \A q \in Signal(p) : Woken(p, q, Actors)
<1>1. Woken(p, Broadcast(p), Actors)
  BY DEF Woken, Broadcast
<1>2. ASSUME IsPc(p), NEW q \in Signal(p) PROVE Woken(p, q, Actors)
  <2>1. CASE q = p
    BY <2>1 DEF Woken
  <2>2. CASE q # p
    <3>1. PICK w \in Sleeping(p) : q = [p EXCEPT ![w] = "top"]
      BY <2>2 DEF Signal
    <3> QED BY <1>2, <3>1 DEF Woken, IsPc, Sleeping
  <2> QED BY <2>1, <2>2
<1> QED BY <1>1, <1>2

LEMMA TailSignalFacts ==
    ASSUME IndInv, NEW m, NEW p \in TailSignal(m)
    PROVE  Woken(pc, p, Actors) /\ IsPc(p) /\ Sleeping(p) = Sleeping(pc)
<1>1. CASE p = pc
  BY <1>1 DEF Woken, IndInv
<1>2. CASE p # pc
  <2>1. PICK a \in Actors :
           /\ p = [pc EXCEPT ![a] = IF a \in Workers THEN "excheck" ELSE "pausecheck"]
           /\ IF a \in Workers THEN pc[a] = "exwait" ELSE a \in Clients /\ pc[a] = "pausewait"
    BY <1>2, TaskAssumption, Zenon DEF TailSignal, Actors
  <2>2. IsPc(pc)
    BY DEF IndInv
  <2>3. Woken(pc, p, Actors)
    BY <2>1, <2>2 DEF Woken, IsPc
  <2>4. IsPc(p)
    BY <2>1, <2>2, TaskAssumption, Zenon DEF IsPc, Actors, Resting, Busy, Outside
  <2>5. \A w \in Workers : p[w] = "sleep" <=> pc[w] = "sleep"
    BY <2>1, <2>2, Zenon DEF IsPc, Actors
  <2> QED BY <2>3, <2>4, <2>5, Zenon DEF Sleeping
<1> QED BY <1>1, <1>2

\* The thread a moves without taking up or leaving a task, and others are woken.
LEMMA MoveKeeps ==
    ASSUME TaskInv, NEW a \in Actors, Woken(pc, pc', Actors \ {a}),
           op[a].call # "none" => pc'[a] \in {"free", "action", "exclusive"},
           a \in Workers => Hold(pc'[a]) = Hold(pc[a]) /\ pc'[a] # "exit"
                            /\ (pc'[a] \in Resting => pc[a] \in Resting),
           a \in Clients => pc'[a] # "gone",
           FlagsOK(mgr'), mgr'.exiting = mgr.exiting,
           mgr'.ready_tasks = mgr.ready_tasks,
           mgr'.ready_priority_tasks = mgr.ready_priority_tasks,
           UNCHANGED <<task, ref, op, wtask, count>>
    PROVE  TaskInv'
<1>1. DataInv'
  BY Zenon DEF TaskInv, DataInv, FlagsOK, Referenced, FieldsOK
<1>2. \A b \in Actors \ {a} :
         /\ Hold(pc'[b]) = Hold(pc[b])
         /\ pc'[b] \in Resting <=> pc[b] \in Resting
         /\ pc[b] \in {"free", "action", "exclusive"} => pc'[b] = pc[b]
         /\ pc'[b] \in {"exit", "gone"} => pc'[b] = pc[b]
  <2> DEFINE q == pc'
             A == Actors \ {a}
  <2>1. Woken(pc, q, A)
    BY Zenon
  <2> HIDE DEF q, A
  <2>2. Unmoved(pc, q, A)
    BY <2>1, WokenAll, Zenon
  <2> QED BY <2>2, Zenon DEF Unmoved, q, A
<1>3. CustodyInv'
  <2>1. Custody(task, Queued(mgr), op, pc, wtask) /\ Lists(mgr, Privileged) /\ Queued(mgr) \in SUBSET Tasks
    BY Zenon DEF TaskInv, CustodyInv, Queued
  <2> DEFINE q == pc'
  <2>2. Steady(task, task, op, op, pc, q, wtask, wtask)
    BY <1>2, Zenon DEF Actors, Steady
  <2> HIDE DEF q
  <2>3. Custody(task, Queued(mgr), op, q, wtask)
    BY <2>1, <2>2, CustodySame, Zenon
  <2>4. Queued(mgr)' = Queued(mgr) /\ Lists(mgr, Privileged)'
    BY <2>1, Zenon DEF Queued, Lists, Privileged
  <2> QED BY <2>3, <2>4, Zenon DEF CustodyInv, q
<1>4. OpInv'
  BY <1>2, Zenon DEF TaskInv, OpInv
<1>5. EndInv'
  BY <1>2, Zenon DEF TaskInv, EndInv, Live, Actors
<1>6. RestInv'
  BY <1>2, Zenon DEF TaskInv, RestInv, Actors
<1> QED BY <1>1, <1>3, <1>4, <1>5, <1>6, Zenon DEF TaskInv

LEMMA MoveStep ==
    ASSUME IndInv, TaskInv,
           \/ \E w \in Workers : BeginExclusive(w) \/ ExclusiveCheck(w) \/ EndExclusive(w) \/ SetMode(w)
           \/ \E a \in Actors : SpuriousWakeup(a)
           \/ \E c \in Clients : Pause(c) \/ PauseCheck(c) \/ Resume(c)
    PROVE  TaskInv'
<1>1. IsManager(mgr) /\ IsPc(pc) /\ FlagsOK(mgr)
  BY Zenon DEF IndInv, TaskInv, DataInv
<1>2. \A a \in Actors : op[a].call # "none" => pc[a] \in {"free", "action", "exclusive"}
  BY Zenon DEF TaskInv, OpInv
<1>3. \A b \in BOOLEAN :
         LET m1 == [mgr EXCEPT !.exclusive_requested = b]
             m2 == [mgr EXCEPT !.pause_requested = b]
             m3 == [mgr EXCEPT !.mode = "privileged"]
         IN  \A m \in {mgr, m1, m2, m3} :
                /\ FlagsOK(m) /\ m.exiting = mgr.exiting /\ m.ready_tasks = mgr.ready_tasks
                /\ m.ready_priority_tasks = mgr.ready_priority_tasks
  BY <1>1 DEF IsManager, Fields, FlagsOK
<1>4. ASSUME NEW w \in Workers, BeginExclusive(w) \/ ExclusiveCheck(w) PROVE TaskInv'
  <2>1. w \in Actors /\ w \notin Clients /\ op[w].call = "none"
    BY <1>2, <1>4, TaskAssumption DEF Actors, BeginExclusive, CanCall, ExclusiveCheck
  <2>2. /\ pc[w] \in {"action", "excheck"} /\ pc'[w] \in {"exwait", "exclusive"}
        /\ \A b \in Actors \ {w} : pc'[b] = pc[b]
    BY <1>1, <1>4, <2>1 DEF BeginExclusive, ExclusiveCheck, ExclusiveWait, IsPc
  <2>3. /\ mgr' = mgr \/ mgr' = [mgr EXCEPT !.exclusive_requested = TRUE]
        /\ UNCHANGED <<task, ref, op, wtask, count>>
    BY <1>4 DEF BeginExclusive, ExclusiveCheck
  <2>4. /\ FlagsOK(mgr') /\ mgr'.exiting = mgr.exiting /\ mgr'.ready_tasks = mgr.ready_tasks
        /\ mgr'.ready_priority_tasks = mgr.ready_priority_tasks
    BY <1>3, <2>3, Zenon
  <2> QED BY <2>1, <2>2, <2>3, <2>4, MoveKeeps DEF Woken, Hold, Acting, Resting
<1>5. ASSUME NEW w \in Workers, EndExclusive(w) PROVE TaskInv'
  <2>1. w \in Actors /\ w \notin Clients /\ op[w].call = "none" /\ pc[w] = "exclusive"
    BY <1>5, TaskAssumption DEF Actors, EndExclusive, CanCall
  <2>2. pc'[w] = "action" /\ \A b \in Actors \ {w} : pc'[b] = Broadcast(pc)[b]
    BY <1>5, <2>1 DEF EndExclusive, Broadcast
  <2>3. Woken(pc, pc', Actors \ {w})
    <3>1. Woken(pc, Broadcast(pc), Actors)
      BY WakeFacts, Zenon
    <3> QED BY <2>2, <3>1, Zenon DEF Woken
  <2>4. /\ mgr' = [mgr EXCEPT !.exclusive_requested = FALSE]
        /\ UNCHANGED <<task, ref, op, wtask, count>>
    BY <1>5 DEF EndExclusive
  <2>5. /\ FlagsOK(mgr') /\ mgr'.exiting = mgr.exiting /\ mgr'.ready_tasks = mgr.ready_tasks
        /\ mgr'.ready_priority_tasks = mgr.ready_priority_tasks
    BY <1>3, <2>4, Zenon
  <2> QED BY <2>1, <2>2, <2>3, <2>4, <2>5, MoveKeeps, Zenon DEF Hold, Acting, Resting
<1>6. ASSUME NEW w \in Workers, SetMode(w) PROVE TaskInv'
  <2>1. w \in Actors /\ w \notin Clients /\ pc[w] = "exclusive" /\ pc' = pc
    BY <1>6, TaskAssumption DEF Actors, SetMode
  <2>2. mgr' = [mgr EXCEPT !.mode = "privileged"] /\ UNCHANGED <<task, ref, op, wtask, count>>
    BY <1>6 DEF SetMode
  <2>3. /\ FlagsOK(mgr') /\ mgr'.exiting = mgr.exiting /\ mgr'.ready_tasks = mgr.ready_tasks
        /\ mgr'.ready_priority_tasks = mgr.ready_priority_tasks
    BY <1>3, <2>2, Zenon
  <2> QED BY <2>1, <2>2, <2>3, MoveKeeps DEF Woken, Hold, Resting
<1>7. ASSUME NEW a \in Actors, SpuriousWakeup(a) PROVE TaskInv'
  <2>1. /\ op[a].call = "none" /\ Woken(pc, pc', Actors)
        /\ UNCHANGED <<task, mgr, ref, op, wtask, count>>
        /\ pc'[a] \in {"top", "excheck", "pausecheck"}
    BY <1>1, <1>2, <1>7 DEF SpuriousWakeup, Woken, IsPc
  <2>2. Woken(pc, pc', Actors \ {a}) /\ Hold(pc'[a]) = Hold(pc[a])
        /\ (pc'[a] \in Resting => pc[a] \in Resting)
    BY <2>1, Zenon DEF Woken, Hold, Acting, Resting
  <2>3. /\ FlagsOK(mgr') /\ mgr'.exiting = mgr.exiting /\ mgr'.ready_tasks = mgr.ready_tasks
        /\ mgr'.ready_priority_tasks = mgr.ready_priority_tasks
    BY <1>1, <2>1, Zenon
  <2> QED BY <2>1, <2>2, <2>3, MoveKeeps, Zenon
<1>8. ASSUME NEW c \in Clients, Pause(c) \/ PauseCheck(c) \/ Resume(c) PROVE TaskInv'
  <2>1. c \in Actors /\ c \notin Workers /\ pc[c] \in {"free", "pausecheck"} /\ op[c].call = "none"
    BY <1>2, <1>8, TaskAssumption DEF Actors, Pause, PauseCheck, Resume, CanCall
  <2>2. /\ pc'[c] \in {"free", "pausewait"}
        /\ \/ \A b \in Actors \ {c} : pc'[b] = pc[b]
           \/ \A b \in Actors \ {c} : pc'[b] = Broadcast(pc)[b]
    BY <1>1, <1>8, <2>1 DEF Pause, PauseCheck, PauseWait, Resume, IsPc, Broadcast
  <2>3. Woken(pc, pc', Actors \ {c})
    <3>1. Woken(pc, Broadcast(pc), Actors)
      BY WakeFacts, Zenon
    <3> QED BY <2>2, <3>1, Zenon DEF Woken
  <2>4. /\ \/ mgr' = mgr \/ mgr' = [mgr EXCEPT !.pause_requested = TRUE]
           \/ mgr' = [mgr EXCEPT !.pause_requested = FALSE]
        /\ UNCHANGED <<task, ref, op, wtask, count>>
    BY <1>8 DEF Pause, PauseCheck, PauseWait, Resume
  <2>5. /\ FlagsOK(mgr') /\ mgr'.exiting = mgr.exiting /\ mgr'.ready_tasks = mgr.ready_tasks
        /\ mgr'.ready_priority_tasks = mgr.ready_priority_tasks
    BY <1>3, <2>4, Zenon
  <2> QED BY <2>1, <2>2, <2>3, <2>4, <2>5, MoveKeeps
<1> QED BY <1>4, <1>5, <1>6, <1>7, <1>8

\* task_ready(): the task the caller brings is queued, and a sleeper is woken.
LEMMA TaskReadyStep ==
    ASSUME IndInv, TaskInv, NEW a \in Actors, TaskReady(a)
    PROVE  TaskInv'
<1> DEFINE t == op[a].task
           none == [call |-> "none", task |-> NoTask]
<1>1. /\ IsManager(mgr) /\ IsPc(pc) /\ FlagsOK(mgr) /\ op \in [Actors -> Calls]
      /\ Custody(task, Queued(mgr), op, pc, wtask) /\ Lists(mgr, Privileged)
      /\ Queued(mgr) \in SUBSET Tasks
  BY Zenon DEF IndInv, TaskInv, DataInv, CustodyInv, Queued
<1>2. /\ op[a].call = "ready" /\ mgr' = push_readyq(mgr, t)
      /\ op' = [op EXCEPT ![a] = none] /\ UNCHANGED <<task, ref, wtask, count>>
      /\ pc' = pc \/ pc' \in Signal(pc)
  BY Zenon DEF TaskReady, SignalReady
<1>3. none \in Calls /\ none.call = "none"
  BY DEF Calls
<1> HIDE DEF none
<1>4. op'[a].call = "none" /\ op' \in [Actors -> Calls] /\ \A b \in Actors \ {a} : op'[b] = op[b]
  BY <1>1, <1>2, <1>3, Zenon
<1>5. t \in Tasks /\ t \notin Queued(mgr)
  BY <1>1, <1>2, Zenon DEF Custody
<1>6. \A b \in Actors : /\ Hold(pc'[b]) = Hold(pc[b])
                        /\ pc'[b] \in Resting <=> pc[b] \in Resting
                        /\ pc[b] \in {"free", "action", "exclusive"} => pc'[b] = pc[b]
                        /\ pc'[b] \in {"exit", "gone"} => pc'[b] = pc[b]
  <2> DEFINE q == pc'
  <2>1. Woken(pc, q, Actors)
    <3>1. Woken(pc, pc, Actors)
      BY DEF Woken
    <3>2. pc' \in Signal(pc) => Woken(pc, pc', Actors)
      BY <1>1, WakeFacts, Zenon
    <3> QED BY <1>2, <3>1, <3>2
  <2> HIDE DEF q
  <2>2. Unmoved(pc, q, Actors)
    BY <2>1, WokenAll, Zenon
  <2> QED BY <2>2, Zenon DEF Unmoved, q
<1>7. CustodyInv'
  <2> DEFINE m == push_readyq(mgr, t)
             q == pc'
             o2 == op'
  <2>1. Lists(m, Privileged) /\ Queued(m) = Queued(mgr) \cup {t}
    BY <1>1, <1>5, PushLists, Zenon
  <2>2. /\ o2[a].call = "none" /\ \A b \in Actors \ {a} : o2[b] = op[b]
        /\ \A v \in Workers : Hold(q[v]) = Hold(pc[v])
    BY <1>4, <1>6, Zenon DEF Actors
  <2> HIDE DEF m, q, o2
  <2>3. Queues(op, o2, pc, q, a)
    BY <1>1, <1>2, <2>2, Zenon DEF Queues
  <2>4. Custody(task, Queued(m), o2, q, wtask)
    <3>1. Custody(task, Queued(mgr) \cup {op[a].task}, o2, q, wtask)
      BY <1>1, <2>3, CustodyQueue, Zenon
    <3> QED BY <2>1, <3>1
  <2>5. Queued(mgr)' = Queued(m) /\ Lists(mgr, Privileged)' = Lists(m, Privileged)
    BY <1>2, Zenon DEF Queued, Lists, Privileged, m
  <2> QED BY <1>2, <2>1, <2>4, <2>5, Zenon DEF CustodyInv, o2, q
<1>8. FlagsOK(mgr') /\ mgr'.exiting = mgr.exiting
  BY <1>1, <1>2 DEF push_readyq, IsManager, Fields, FlagsOK
<1>9. DataInv'
  BY <1>2, <1>4, <1>8, ZenonT(60) DEF TaskInv, DataInv, Referenced, FieldsOK
<1>10. OpInv'
  <2> SUFFICES ASSUME NEW b \in Actors, op'[b].call # "none"
               PROVE  /\ pc'[b] \in {"free", "action", "exclusive"}
                      /\ op'[b].task \in Tasks
                      /\ op'[b].call # "ready" => task'[op'[b].task].state = "idle"
    BY Zenon DEF OpInv
  <2> QED BY <1>2, <1>4, <1>6, Zenon DEF TaskInv, OpInv
<1>11. EndInv'
  BY <1>2, <1>6, <1>8, Zenon DEF TaskInv, EndInv, Live, Actors
<1>12. RestInv'
  BY <1>2, <1>6, Zenon DEF TaskInv, RestInv, Actors
<1> QED BY <1>7, <1>9, <1>10, <1>11, <1>12 DEF TaskInv

\* isc__task_setprivilege()'s second half finds the task on no queue.
LEMMA PrivilegeStep ==
    ASSUME IndInv, TaskInv, NEW a \in Actors, SetPrivilegeQueue(a)
    PROVE  TaskInv' /\ mgr' = mgr
<1> DEFINE t == op[a].task
           none == [call |-> "none", task |-> NoTask]
<1>1. /\ op[a].call \in {"privilege", "unprivilege"} /\ t \in Tasks /\ task[t].state = "idle"
  BY DEF SetPrivilegeQueue, TaskInv, OpInv
<1>2. ~On(mgr.ready_tasks, t) /\ ~On(mgr.ready_priority_tasks, t)
  BY <1>1, Zenon DEF TaskInv, CustodyInv, Custody, Queued, Lists
<1>3. mgr' = mgr /\ op' = [op EXCEPT ![a] = none] /\ UNCHANGED <<task, ref, pc, wtask, count>>
  BY <1>2 DEF SetPrivilegeQueue
<1>4. none \in Calls /\ none.call = "none"
  BY DEF Calls
<1> HIDE DEF none
<1>5. op \in [Actors -> Calls] /\ Queued(mgr) \in SUBSET Tasks
  BY DEF TaskInv, DataInv, Queued
<1>6. op' \in [Actors -> Calls] /\ op'[a].call = "none" /\ \A b \in Actors \ {a} : op'[b] = op[b]
  BY <1>3, <1>4, <1>5
<1>7. CustodyInv'
  <2> DEFINE o2 == op'
  <2>1. Steady(task, task, op, o2, pc, pc, wtask, wtask)
    BY <1>1, <1>6, Zenon DEF Steady
  <2> HIDE DEF o2
  <2>2. Custody(task, Queued(mgr), o2, pc, wtask)
    BY <1>5, <2>1, CustodySame, Zenon DEF TaskInv, CustodyInv
  <2>3. Queued(mgr)' = Queued(mgr) /\ Lists(mgr, Privileged)' = Lists(mgr, Privileged)
    BY <1>3, Zenon DEF Queued, Lists, Privileged
  <2> QED BY <1>3, <2>2, <2>3, Zenon DEF TaskInv, CustodyInv, o2
<1>8. DataInv'
  BY <1>3, <1>6, Zenon DEF TaskInv, DataInv, Referenced, FieldsOK
<1>9. OpInv' /\ EndInv' /\ RestInv'
  BY <1>3, <1>6, ZenonT(60) DEF TaskInv, OpInv, EndInv, Live, RestInv
<1> QED BY <1>3, <1>7, <1>8, <1>9 DEF TaskInv

\* The manager goes when all workers have left, so no task is left either.
LEMMA JoinStep ==
    ASSUME IndInv, TaskInv, NEW c \in Clients, Join(c)
    PROVE  TaskInv'
<1>1. /\ pc[c] = "join" /\ pc' = [pc EXCEPT ![c] = "gone"]
      /\ \A w \in Workers : pc[w] = "exit"
      /\ UNCHANGED <<task, mgr, ref, op, wtask, count>>
  BY DEF Join
<1>2. c \in Actors /\ c \notin Workers /\ IsPc(pc)
  BY TaskAssumption DEF Actors, IndInv
<1>3. pc'[c] = "gone" /\ \A b \in Actors \ {c} : pc'[b] = pc[b]
  BY <1>1, <1>2 DEF IsPc
<1>4. EndInv'
  BY <1>1, TaskAssumption, Zenon DEF TaskInv, EndInv, Live
<1>5. CustodyInv'
  <2> DEFINE q == pc'
  <2>1. Steady(task, task, op, op, pc, q, wtask, wtask)
    BY <1>2, <1>3, Zenon DEF Actors, Steady
  <2>2. Queued(mgr) \in SUBSET Tasks
    BY DEF Queued
  <2> HIDE DEF q
  <2>3. Custody(task, Queued(mgr), op, q, wtask)
    BY <2>1, <2>2, CustodySame, Zenon DEF TaskInv, CustodyInv
  <2>4. Queued(mgr)' = Queued(mgr) /\ Lists(mgr, Privileged)' = Lists(mgr, Privileged)
    BY <1>1, Zenon DEF Queued, Lists, Privileged
  <2> QED BY <1>1, <2>3, <2>4, Zenon DEF TaskInv, CustodyInv, q
<1>6. DataInv'
  BY <1>1, Zenon DEF TaskInv, DataInv, Referenced, FieldsOK
<1>7. OpInv' /\ RestInv'
  BY <1>1, <1>2, <1>3, Zenon DEF TaskInv, OpInv, RestInv, Actors
<1> QED BY <1>4, <1>5, <1>6, <1>7 DEF TaskInv
=============================================================================
