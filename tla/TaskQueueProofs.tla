-------------------------- MODULE TaskQueueProofs --------------------------
(***************************************************************************)
(* The ready queues of the task manager, for any number of workers,        *)
(* clients, tasks and references: a task that is to run is looked after    *)
(* once, it is freed once and safely, no wakeup is lost, and privileged    *)
(* tasks come first.                                                       *)
(*                                                                         *)
(* IndInv and TaskInv (module TaskProofs) together are the inductive       *)
(* invariant.  What is left of it to show is that the steps of the worker  *)
(* threads and the destruction of the manager preserve TaskInv.            *)
(***************************************************************************)
EXTENDS TaskProofs

\* The provers of every leaf that names none, with time to spare.
USE SMTT(30), ZenonT(30)

\* What a worker makes of the manager when it takes a task.
LEMMA TakenFacts ==
    ASSUME NEW m, IsManager(m), FlagsOK(m), NEW P, Lists(m, P), ~empty_readyq(m)
    PROVE  /\ Head(readyq(m)) \in Queued(m)
           /\ Lists(Taken(m), P) /\ Queued(Taken(m)) = Queued(m) \ {Head(readyq(m))}
           /\ Len(readyq(Taken(m))) = Len(readyq(m)) - 1
           /\ FlagsOK(Taken(m)) /\ Taken(m).exiting = m.exiting /\ Taken(m).mode = m.mode
<1> DEFINE n == pop_readyq(m)
<1>1. /\ Head(readyq(m)) \in Queued(m)
      /\ Lists(n, P) /\ Queued(n) = Queued(m) \ {Head(readyq(m))}
      /\ Len(readyq(n)) = Len(readyq(m)) - 1
  BY PopLists
<1>2. FlagsOK(n) /\ n.exiting = m.exiting /\ n.mode = m.mode /\ IsManager(n)
  BY Zenon DEF pop_readyq, IsManager, Fields, FlagsOK
<1>3. Taken(m) = [n EXCEPT !.tasks_running = @ + 1]
  BY DEF Taken
<1> HIDE DEF n
<1>4. /\ Taken(m).ready_tasks = n.ready_tasks
      /\ Taken(m).ready_priority_tasks = n.ready_priority_tasks
      /\ FlagsOK(Taken(m)) /\ Taken(m).exiting = n.exiting /\ Taken(m).mode = n.mode
  BY <1>2, <1>3 DEF IsManager, Fields, FlagsOK
<1>5. readyq(Taken(m)) = readyq(n)
  BY <1>4 DEF readyq
<1>6. Lists(Taken(m), P) /\ Queued(Taken(m)) = Queued(n)
  BY <1>1, <1>4 DEF Lists, Queued
<1> QED BY <1>1, <1>2, <1>4, <1>5, <1>6

\* The head of dispatch()'s outer loop, which the worker w reaches without a task.
LEMMA LoopTopKeeps ==
    ASSUME TaskInv, NEW w \in Workers, op[w].call = "none",
           NEW STATE m, NEW STATE p, IsManager(m), IsPc(p), FlagsOK(m), m.exiting = mgr.exiting,
           Lists(m, Privileged), Woken(pc, p, Actors \ {w}),
           Custody(task, Queued(m), op, [p EXCEPT ![w] = "top"], wtask),
           LoopTop(w, m, p), UNCHANGED <<task, ref, op, count>>
    PROVE  TaskInv'
<1> DEFINE p0 == [p EXCEPT ![w] = "top"]
<1>1. /\ w \in Actors /\ w \notin Clients /\ Queued(m) \in SUBSET Tasks
      /\ wtask \in [Workers -> Tasks \cup {NoTask}]
  BY TaskAssumption DEF Actors, Queued, TaskInv, DataInv
<1>2. Custody(task, Queued(m), op, p0, wtask)
  OBVIOUS
<1>3. p0[w] = "top" /\ \A a \in Actors \ {w} : p0[a] = p[a]
  BY <1>1 DEF IsPc
<1> HIDE DEF p0
<1>4. \A b \in Actors \ {w} :
         /\ p[b] \in Resting <=> pc[b] \in Resting
         /\ pc[b] \in {"free", "action", "exclusive"} => p[b] = pc[b]
         /\ p[b] \in {"exit", "gone"} => p[b] = pc[b]
  <2> DEFINE A == Actors \ {w}
  <2> HIDE DEF A
  <2>1. Woken(pc, p, A)
    BY DEF A
  <2>2. \A b \in A : /\ p[b] \in Resting <=> pc[b] \in Resting
                     /\ pc[b] \in {"free", "action", "exclusive"} => p[b] = pc[b]
                     /\ p[b] \in {"exit", "gone"} => p[b] = pc[b]
    BY <2>1, WokenFacts
  <2> QED BY <2>2, Zenon DEF A
<1>5. \E l \in {"exit", "sleep", "popped"} : pc' = [p EXCEPT ![w] = l]
  BY DEF LoopTop
<1>6. pc'[w] \in {"exit", "sleep", "popped"} /\ \A a \in Actors \ {w} : pc'[a] = p[a]
  BY <1>1, <1>5 DEF IsPc
<1>7. \A a \in Actors \ {w} : p0[a] = pc'[a]
  BY <1>3, <1>6
<1>8. OpInv'
  BY <1>4, <1>6, Zenon DEF TaskInv, OpInv
<1>9. CASE /\ mgr' = m /\ wtask' = [wtask EXCEPT ![w] = NoTask]
           /\ \/ pc' = [p EXCEPT ![w] = "exit"] /\ Finished(m, Live)
              \/ pc' = [p EXCEPT ![w] = "sleep"]
  <2>1. /\ wtask'[w] = NoTask /\ wtask' \in [Workers -> Tasks \cup {NoTask}]
        /\ \A v \in Workers \ {w} : wtask'[v] = wtask[v]
    BY <1>1, <1>9
  <2>2. pc'[w] = "sleep" \/ (pc'[w] = "exit" /\ Finished(m, Live))
    BY <1>1, <1>9, Zenon DEF IsPc
  <2>3. CustodyInv'
    <3> DEFINE q == pc'
               w2 == wtask'
    <3>1. Steady(task, task, op, op, p0, q, wtask, w2)
      <4>1. Hold(q[w]) = "none" /\ Hold(p0[w]) = "none"
        BY <1>3, <2>2, Zenon DEF Hold, Acting
      <4>2. \A v \in Workers \ {w} : q[v] = p0[v] /\ w2[v] = wtask[v]
        BY <1>7, <2>1 DEF Actors
      <4> HIDE DEF q, w2
      <4> QED BY <4>1, <4>2 DEF Steady
    <3> HIDE DEF q, w2
    <3>2. Custody(task, Queued(m), op, q, w2)
      BY <1>1, <1>2, <3>1, CustodySame
    <3>3. Queued(mgr)' = Queued(m) /\ Lists(mgr, Privileged)' = Lists(m, Privileged)
      BY <1>9, Zenon DEF Queued, Lists, Privileged
    <3> QED BY <3>2, <3>3, Zenon DEF CustodyInv, q, w2
  <2>4. DataInv'
    BY <1>9, <2>1, ZenonT(60) DEF TaskInv, DataInv, FlagsOK, Referenced, FieldsOK
  <2>5. EndInv'
    <3>1. Finished(m, Live) => mgr'.exiting /\ Live' = {}
      BY <1>9, Zenon DEF Finished, Live
    <3> QED BY <1>1, <1>4, <1>6, <1>9, <2>2, <3>1, Zenon DEF TaskInv, EndInv, Live, Actors
  <2>6. RestInv'
    BY <1>4, <1>6, <2>1 DEF TaskInv, RestInv, Actors
  <2> QED BY <1>8, <2>3, <2>4, <2>5, <2>6 DEF TaskInv
<1>10. CASE /\ ~Blocked(m) /\ mgr' = Taken(m) /\ pc' = [p EXCEPT ![w] = "popped"]
            /\ wtask' = [wtask EXCEPT ![w] = Head(readyq(m))]
  <2> DEFINE t == Head(readyq(m))
             n == Taken(m)
  <2>1. /\ t \in Queued(m) /\ Lists(n, Privileged) /\ Queued(n) = Queued(m) \ {t}
        /\ FlagsOK(n) /\ n.exiting = m.exiting
    BY <1>10, TakenFacts, Zenon DEF Blocked
  <2>2. mgr' = n /\ wtask' = [wtask EXCEPT ![w] = t]
    BY <1>10, Zenon
  <2> HIDE DEF t, n
  <2>3. /\ wtask'[w] = t /\ wtask' \in [Workers -> Tasks \cup {NoTask}]
        /\ \A v \in Workers \ {w} : wtask'[v] = wtask[v]
    BY <1>1, <2>1, <2>2, Zenon
  <2>4. pc'[w] = "popped"
    BY <1>1, <1>10, Zenon DEF IsPc
  <2>5. CustodyInv'
    <3> DEFINE q == pc'
               w2 == wtask'
    <3>1. /\ q[w] = "popped" /\ w2[w] = t
          /\ \A v \in Workers \ {w} : Hold(q[v]) = Hold(p0[v]) /\ w2[v] = wtask[v]
      BY <1>7, <2>3, <2>4, Zenon DEF Actors
    <3>2. Hold(p0[w]) = "none"
      BY <1>3 DEF Hold, Acting
    <3> HIDE DEF q, w2
    <3>3. Custody(task, Queued(m) \ {t}, op, q, w2)
      <4>1. Pops(p0, q, wtask, w2, w, t)
        BY <3>1, <3>2, Zenon DEF Pops
      <4> QED BY <1>1, <1>2, <2>1, <4>1, CustodyPop, Zenon
    <3>4. Queued(mgr)' = Queued(n) /\ Lists(mgr, Privileged)' = Lists(n, Privileged)
      BY <2>2, Zenon DEF Queued, Lists, Privileged
    <3> QED BY <2>1, <3>3, <3>4, Zenon DEF CustodyInv, q, w2
  <2>6. DataInv'
    BY <2>1, <2>2, <2>3, ZenonT(60) DEF TaskInv, DataInv, FlagsOK, Referenced, FieldsOK
  <2>7. EndInv'
    BY <1>1, <1>4, <1>6, <2>1, <2>2, <2>4, Zenon DEF TaskInv, EndInv, Live, Actors
  <2>8. RestInv'
    BY <1>4, <1>6, <2>3, <2>4, Zenon DEF TaskInv, RestInv, Resting, Actors
  <2> QED BY <1>8, <2>5, <2>6, <2>7, <2>8 DEF TaskInv
<1> QED BY <1>9, <1>10, Zenon DEF LoopTop

LEMMA TopStep ==
    ASSUME IndInv, TaskInv, NEW w \in Workers, Top(w)
    PROVE  TaskInv'
<1>1. pc[w] = "top" /\ LoopTop(w, mgr, pc) /\ UNCHANGED <<task, ref, op, count>> /\ w \in Actors
  BY DEF Top, Actors
<1>2. op[w].call = "none"
  BY <1>1, Zenon DEF TaskInv, OpInv
<1>3. [pc EXCEPT ![w] = "top"] = pc
  BY <1>1 DEF IndInv, IsPc
<1>4. /\ IsManager(mgr) /\ IsPc(pc) /\ FlagsOK(mgr) /\ Lists(mgr, Privileged)
      /\ Custody(task, Queued(mgr), op, [pc EXCEPT ![w] = "top"], wtask)
      /\ Woken(pc, pc, Actors \ {w})
  BY <1>3, Zenon DEF IndInv, TaskInv, DataInv, CustodyInv, Woken
<1> QED BY <1>1, <1>2, <1>4, LoopTopKeeps, Zenon

\* The manager after a task, before the worker looks for its next one, and the
\* threads it has woken by then.
LEMMA TailFacts ==
    ASSUME IndInv, TaskInv, NEW w \in Workers, pc[w] \in {"tail", "requeue"},
           NEW m1, m1 = [mgr EXCEPT !.tasks_running = @ - 1],
           NEW m2, m2 = IF pc[w] = "requeue" THEN push_readyq(m1, wtask[w]) ELSE m1
    PROVE  /\ IsManager(m2) /\ FlagsOK(m2) /\ m2.exiting = mgr.exiting /\ m2.mode = mgr.mode
           /\ m2.exclusive_requested = mgr.exclusive_requested
           /\ m2.pause_requested = mgr.pause_requested
           /\ m2.tasks_running = mgr.tasks_running - 1
           /\ Lists(m2, Privileged)
           /\ \A p : (\A v \in Workers \ {w} : Hold(p[v]) = Hold(pc[v])) /\ p[w] = "top"
                 => Custody(task, Queued(m2), op, p, wtask)
           /\ Len(m2.ready_tasks) \in Len(mgr.ready_tasks) .. Len(mgr.ready_tasks) + 1
           /\ Len(m2.ready_priority_tasks)
                 \in Len(mgr.ready_priority_tasks) .. Len(mgr.ready_priority_tasks) + 1
<1>1. IsManager(mgr) /\ FlagsOK(mgr) /\ Lists(mgr, Privileged) /\ Queued(mgr) \in SUBSET Tasks
  BY DEF IndInv, TaskInv, DataInv, CustodyInv, Queued
<1>2. Custody(task, Queued(mgr), op, pc, wtask)
  BY DEF TaskInv, CustodyInv
<1>3. /\ IsManager(m1) /\ m1.exiting = mgr.exiting /\ m1.mode = mgr.mode /\ FlagsOK(m1)
      /\ m1.exclusive_requested = mgr.exclusive_requested
      /\ m1.pause_requested = mgr.pause_requested /\ m1.tasks_running = mgr.tasks_running - 1
      /\ m1.ready_tasks = mgr.ready_tasks /\ m1.ready_priority_tasks = mgr.ready_priority_tasks
  BY <1>1 DEF IsManager, Fields, FlagsOK
<1>4. Lists(m1, Privileged) /\ Queued(m1) = Queued(mgr)
  BY <1>1, <1>3 DEF Lists, Queued
<1>5. /\ Hold("top") = "none"
      /\ Len(mgr.ready_tasks) \in Nat /\ Len(mgr.ready_priority_tasks) \in Nat
  BY <1>1 DEF Hold, Acting, Lists
<1> DEFINE i == Len(mgr.ready_tasks)
           j == Len(mgr.ready_priority_tasks)
<1>6. CASE pc[w] = "tail"
  <2>1. m2 = m1 /\ Hold(pc[w]) = "none"
    BY <1>6 DEF Hold, Acting
  <2>2. ASSUME NEW p, \A v \in Workers \ {w} : Hold(p[v]) = Hold(pc[v]), p[w] = "top"
        PROVE  Custody(task, Queued(m2), op, p, wtask)
    <3>1. Steady(task, task, op, op, pc, p, wtask, wtask)
      BY <1>5, <2>1, <2>2 DEF Steady
    <3>2. Custody(task, Queued(mgr), op, p, wtask)
      BY <1>1, <1>2, <3>1, CustodySame
    <3> QED BY <1>4, <2>1, <3>2
  <2>3. i \in Nat /\ j \in Nat /\ Len(m2.ready_tasks) = i /\ Len(m2.ready_priority_tasks) = j
    BY <1>3, <1>5, <2>1, Zenon
  <2>4. Len(m2.ready_tasks) \in i .. i + 1 /\ Len(m2.ready_priority_tasks) \in j .. j + 1
    <3> HIDE DEF i, j
    <3> QED BY <2>3
  <2> QED BY <1>3, <1>4, <2>1, <2>2, <2>4, Zenon
<1>7. CASE pc[w] = "requeue"
  <2> DEFINE t == wtask[w]
  <2>1. m2 = push_readyq(m1, t) /\ Hold(pc[w]) = "ready"
    BY <1>7 DEF Hold
  <2>2. t \in Tasks /\ t \notin Queued(m1)
    BY <1>2, <1>4, <2>1, Zenon DEF Custody
  <2>3. /\ Lists(m2, Privileged) /\ Queued(m2) = Queued(mgr) \cup {t}
        /\ Len(m2.ready_tasks) = Len(mgr.ready_tasks) + 1
        /\ Len(m2.ready_priority_tasks) =
              IF task[t].privileged THEN Len(mgr.ready_priority_tasks) + 1 ELSE Len(mgr.ready_priority_tasks)
    <3>1. /\ Lists(push_readyq(m1, t), Privileged)
          /\ Queued(push_readyq(m1, t)) = Queued(m1) \cup {t}
          /\ Len(push_readyq(m1, t).ready_tasks) = Len(m1.ready_tasks) + 1
          /\ Len(push_readyq(m1, t).ready_priority_tasks) =
                IF task[t].privileged THEN Len(m1.ready_priority_tasks) + 1 ELSE Len(m1.ready_priority_tasks)
      <4> HIDE DEF t
      <4> QED BY <1>3, <1>4, <2>2, PushLists, Zenon
    <3> QED BY <1>3, <1>4, <2>1, <3>1, Zenon
  <2>4. /\ IsManager(m2) /\ FlagsOK(m2) /\ m2.exiting = m1.exiting /\ m2.mode = m1.mode
        /\ m2.exclusive_requested = m1.exclusive_requested
        /\ m2.pause_requested = m1.pause_requested
        /\ m2.tasks_running = m1.tasks_running
    BY <1>3, <2>1, Zenon DEF push_readyq, IsManager, Fields, FlagsOK
  <2>5. ASSUME NEW p, \A v \in Workers \ {w} : Hold(p[v]) = Hold(pc[v]), p[w] = "top"
        PROVE  Custody(task, Queued(m2), op, p, wtask)
    <3>1. Requeues(pc, p, w)
      BY <1>5, <2>1, <2>5 DEF Requeues
    <3>2. Custody(task, Queued(mgr) \cup {wtask[w]}, op, p, wtask)
      BY <1>1, <1>2, <3>1, CustodyRequeue
    <3> QED BY <2>3, <3>2, Zenon
  <2>6. Len(m2.ready_tasks) \in i .. i + 1 /\ Len(m2.ready_priority_tasks) \in j .. j + 1
    <3>1. /\ i \in Nat /\ j \in Nat /\ Len(m2.ready_tasks) = i + 1
          /\ Len(m2.ready_priority_tasks) = j \/ Len(m2.ready_priority_tasks) = j + 1
      BY <1>5, <2>3
    <3> HIDE DEF i, j, t
    <3> QED BY <3>1
  <2> QED BY <1>3, <2>3, <2>4, <2>5, <2>6, Zenon
<1> QED BY <1>6, <1>7, Zenon

LEMMA UnprivilegedFacts ==
    ASSUME NEW m, IsManager(m), FlagsOK(m), Lists(m, Privileged)
    PROVE  LET n == Unprivileged(m)
           IN  /\ IsManager(n) /\ FlagsOK(n) /\ n.exiting = m.exiting
               /\ n.exclusive_requested = m.exclusive_requested
               /\ n.pause_requested = m.pause_requested /\ n.tasks_running = m.tasks_running
               /\ n.ready_tasks = m.ready_tasks
               /\ n.ready_priority_tasks = m.ready_priority_tasks
               /\ Lists(n, Privileged) /\ Queued(n) = Queued(m)
               /\ n.mode = IF Stuck(m) THEN "normal" ELSE m.mode
<1> DEFINE n == Unprivileged(m)
<1>1. /\ IsManager(n) /\ FlagsOK(n) /\ n.exiting = m.exiting
      /\ n.exclusive_requested = m.exclusive_requested
      /\ n.pause_requested = m.pause_requested /\ n.tasks_running = m.tasks_running
      /\ n.ready_tasks = m.ready_tasks /\ n.ready_priority_tasks = m.ready_priority_tasks
      /\ n.mode = IF Stuck(m) THEN "normal" ELSE m.mode
  BY DEF Unprivileged, IsManager, Fields, FlagsOK
<1> HIDE DEF n
<1>2. Lists(n, Privileged) /\ Queued(n) = Queued(m)
  BY <1>1, Zenon DEF Lists, Queued
<1>3. n = Unprivileged(m)
  BY DEF n
<1> QED BY <1>1, <1>2, <1>3, Zenon

\* After a task: TailOf() with its signals, and on to the head of the loop.
LEMMA TailStep ==
    ASSUME IndInv, TaskInv, NEW w \in Workers, TailOf(w)
    PROVE  TaskInv'
<1> DEFINE m1 == [mgr EXCEPT !.tasks_running = @ - 1]
           m2 == IF pc[w] = "requeue" THEN push_readyq(m1, wtask[w]) ELSE m1
           m3 == Unprivileged(m2)
<1>1. pc[w] \in {"tail", "requeue"} /\ UNCHANGED <<task, ref, op, count>> /\ w \in Actors
  BY DEF TailOf, Actors
<1>2. PICK p \in TailSignal(m1) :
         LoopTop(w, m3, IF Stuck(m2) /\ ~empty_readyq(m3) THEN Broadcast(p) ELSE p)
  BY DEF TailOf
<1> DEFINE q == IF Stuck(m2) /\ ~empty_readyq(m3) THEN Broadcast(p) ELSE p
           p0 == [q EXCEPT ![w] = "top"]
<1>3. Woken(pc, p, Actors) /\ IsPc(p)
  BY TailSignalFacts
<1>4. /\ IsManager(m2) /\ FlagsOK(m2) /\ m2.exiting = mgr.exiting /\ Lists(m2, Privileged)
      /\ \A x : (\A v \in Workers \ {w} : Hold(x[v]) = Hold(pc[v])) /\ x[w] = "top"
            => Custody(task, Queued(m2), op, x, wtask)
  BY <1>1, TailFacts
<1> HIDE DEF m2
<1>5. /\ IsManager(m3) /\ FlagsOK(m3) /\ m3.exiting = m2.exiting
      /\ Lists(m3, Privileged) /\ Queued(m3) = Queued(m2)
  BY <1>4, UnprivilegedFacts
<1> HIDE DEF m3
<1>6. Woken(pc, q, Actors) /\ IsPc(q)
  <2>1. Woken(p, Broadcast(p), Actors) /\ IsPc(Broadcast(p))
    BY <1>3, WakeFacts, BroadcastQuiet DEF Quiet
  <2>2. Woken(pc, Broadcast(p), Actors)
    BY <1>3, <2>1, WokenTwice
  <2> QED BY <1>3, <2>1, <2>2
<1>7. LoopTop(w, m3, q)
  BY <1>2
<1> HIDE DEF q
<1>8. \A v \in Workers \ {w} : Hold(q[v]) = Hold(pc[v])
  BY <1>6, WokenFacts DEF Actors
<1>9. p0[w] = "top" /\ \A v \in Workers \ {w} : Hold(p0[v]) = Hold(pc[v])
  BY <1>1, <1>6, <1>8 DEF IsPc, Actors
<1> HIDE DEF p0
<1>10. Custody(task, Queued(m3), op, p0, wtask)
  BY <1>4, <1>5, <1>9
<1>11. Custody(task, Queued(m3), op, [q EXCEPT ![w] = "top"], wtask)
  BY <1>10 DEF p0
<1>12. Woken(pc, q, Actors \ {w}) /\ op[w].call = "none"
  BY <1>1, <1>6 DEF Woken, TaskInv, OpInv
<1> QED BY <1>1, <1>4, <1>5, <1>6, <1>7, <1>11, <1>12, LoopTopKeeps, Zenon

\* The worker w makes k of its task t, and goes to l.
LEMMA EventKeeps ==
    ASSUME IndInv, TaskInv, NEW w \in Workers, Hold(pc[w]) # "none",
           op[w].call # "none" => pc'[w] \in {"free", "action", "exclusive"},
           NEW t \in Tasks, t = wtask[w], NEW STATE k, k \in Task, FieldsOK(k, Referenced(t)),
           task' = [task EXCEPT ![t] = k], Woken(pc, pc', Actors \ {w}),
           pc'[w] \notin Resting,
           IF Hold(pc'[w]) = "none" THEN k.state \in {"none", "idle"} ELSE k.state = Hold(pc'[w]),
           count' \in [Workers -> 0 .. Quantum], UNCHANGED <<mgr, ref, op, wtask>>
    PROVE  TaskInv'
<1>1. /\ task \in [Tasks -> Task] /\ op \in [Actors -> Calls] /\ Queued(mgr) \in SUBSET Tasks
      /\ Custody(task, Queued(mgr), op, pc, wtask) /\ Lists(mgr, Privileged)
      /\ w \in Actors /\ w \notin Clients
  BY TaskAssumption, Zenon DEF TaskInv, DataInv, CustodyInv, Queued, Actors
<1>2. task'[t] = k /\ \A u \in Tasks \ {t} : task'[u] = task[u]
  BY <1>1, Zenon
<1>3. t \notin Queued(mgr) /\ task[t].state \in {"ready", "running", "done"}
  BY <1>1, ZenonT(60) DEF Custody, Hold
<1>4. \A b \in Actors \ {w} :
         /\ Hold(pc'[b]) = Hold(pc[b])
         /\ pc'[b] \in Resting <=> pc[b] \in Resting
         /\ pc[b] \in {"free", "action", "exclusive"} => pc'[b] = pc[b]
         /\ pc'[b] \in {"exit", "gone"} => pc'[b] = pc[b]
  <2> DEFINE q == pc'
             A == Actors \ {w}
  <2>1. Woken(pc, q, A)
    OBVIOUS
  <2> HIDE DEF q, A
  <2>2. \A b \in A : /\ Hold(q[b]) = Hold(pc[b])
                     /\ q[b] \in Resting <=> pc[b] \in Resting
                     /\ pc[b] \in {"free", "action", "exclusive"} => q[b] = pc[b]
                     /\ q[b] \in {"exit", "gone"} => q[b] = pc[b]
    BY <2>1, WokenFacts
  <2> QED BY <2>2 DEF q, A
<1>5. DataInv'
  <2>1. \A u \in Tasks : Referenced(u)' = Referenced(u)
    BY Zenon DEF Referenced
  <2>2. \A u \in Tasks : FieldsOK(task[u], Referenced(u))'
    <3> SUFFICES ASSUME NEW u \in Tasks PROVE FieldsOK(task'[u], Referenced(u)')
      BY Zenon DEF FieldsOK
    <3> QED BY <1>2, <2>1, ZenonT(60) DEF TaskInv, DataInv
  <2>3. task' \in [Tasks -> Task]
    BY <1>1, Zenon
  <2> QED BY <2>2, <2>3, Zenon DEF TaskInv, DataInv, FlagsOK
<1>6. CustodyInv'
  <2> DEFINE q == pc'
             k2 == task'
  <2>1. /\ \A u \in Tasks \ {wtask[w]} : k2[u].state = task[u].state
        /\ Hold(q[w]) = "none" => k2[wtask[w]].state \in {"none", "idle"}
        /\ Hold(q[w]) # "none" => k2[wtask[w]].state = Hold(q[w])
        /\ \A v \in Workers \ {w} : Hold(q[v]) = Hold(pc[v])
    BY <1>2, <1>4, Zenon DEF Actors
  <2> HIDE DEF q, k2
  <2>2. Custody(k2, Queued(mgr), op, q, wtask)
    <3>1. Moves(task, k2, pc, q, wtask, w)
      BY <2>1, Zenon DEF Moves
    <3> QED BY <1>1, <3>1, CustodyMove, Zenon
  <2>3. Queued(mgr)' = Queued(mgr) /\ Lists(mgr, Privileged)' = Lists(mgr, Privileged')
    BY DEF Queued, Lists
  <2>4. Lists(mgr, Privileged')
    <3>1. \A u \in Tasks \ {t} : u \in Privileged' <=> u \in Privileged
      BY <1>2, Zenon DEF Privileged
    <3> QED BY <1>1, <1>3, <3>1, Zenon DEF Lists, Queued
  <2> QED BY <2>2, <2>3, <2>4, Zenon DEF CustodyInv, q, k2
<1>7. OpInv'
  <2> SUFFICES ASSUME NEW b \in Actors, op[b].call # "none"
               PROVE  /\ pc'[b] \in {"free", "action", "exclusive"}
                      /\ op[b].task \in Tasks
                      /\ op[b].call # "ready" => task'[op[b].task].state = "idle"
    BY Zenon DEF OpInv
  <2> QED BY <1>2, <1>3, <1>4, ZenonT(60) DEF TaskInv, OpInv
<1>8. EndInv'
  <2>1. Live = {} => FALSE
    BY <1>3 DEF Live
  <2> QED BY <1>1, <1>4, <2>1, Zenon DEF TaskInv, EndInv, Actors, Resting
<1>9. RestInv'
  BY <1>4 DEF TaskInv, RestInv, Actors
<1> QED BY <1>5, <1>6, <1>7, <1>8, <1>9 DEF TaskInv

\* An unreferenced task without events is shut down before dispatch() looks at it.
LEMMA CollectedFacts ==
    ASSUME NEW t, NEW k \in Task, k.state = "running", FieldsOK(k, Referenced(t))
    PROVE  LET k2 == Collected(t, k)
           IN  /\ k2 \in Task /\ k2.state = "running" /\ FieldsOK(k2, Referenced(t))
               /\ k2.nevents = 0 /\ ~Referenced(t) => k2.shuttingdown
<1>1. (References(t) = 0 <=> ~Referenced(t)) /\ Referenced(t) \in BOOLEAN
  BY ReferencesFacts, Zenon DEF Referenced
<1>2. CASE References(t) = 0 /\ k.nevents = 0
  <2>1. /\ Posted(k, ShutDown(k)) /\ FieldsOK(ShutDown(k), Referenced(t))
        /\ ShutDown(k).shuttingdown /\ ShutDown(k).state = "running"
    BY <1>1, ShutDownFacts, Zenon DEF Usable
  <2> QED BY <1>2, <2>1, Zenon DEF Collected, Posted
<1>3. CASE ~(References(t) = 0 /\ k.nevents = 0)
  BY <1>1, <1>3, Zenon DEF Collected
<1> QED BY <1>2, <1>3, Zenon

LEMMA AfterEventKeeps ==
    ASSUME IndInv, TaskInv, NEW w \in Workers, Hold(pc[w]) # "none", op[w].call = "none",
           NEW STATE k0, k0 \in Task, k0.state = "running", FieldsOK(k0, Referenced(wtask[w])),
           NEW STATE n, n \in Nat, AfterEvent(w, k0, n), UNCHANGED <<mgr, ref, op, wtask>>
    PROVE  TaskInv'
<1>1. wtask[w] \in Tasks /\ IsPc(pc) /\ count \in [Workers -> 0 .. Quantum] /\ w \in Actors
  BY Zenon DEF TaskInv, DataInv, CustodyInv, Custody, IndInv, Actors
<1> PICK t \in Tasks : t = wtask[w]
  BY <1>1, Zenon
<1> DEFINE k == Collected(t, k0)
<1>2. /\ k \in Task /\ k.state = "running" /\ FieldsOK(k, Referenced(t))
      /\ k.nevents = 0 /\ ~Referenced(t) => k.shuttingdown
  BY CollectedFacts, Zenon
<1>3. References(t) = 0 <=> ~Referenced(t)
  BY ReferencesFacts, Zenon
<1>4. \A l : LET q == [pc EXCEPT ![w] = l]
             IN  q[w] = l /\ Woken(pc, q, Actors \ {w})
  BY <1>1, Zenon DEF IsPc, Woken
<1>5. ASSUME NEW state, NEW l, task' = [task EXCEPT ![t] = [k EXCEPT !.state = state]],
             pc' = [pc EXCEPT ![w] = l], count' = [count EXCEPT ![w] = 0],
             \/ state = "done" /\ l = "finish" /\ k.nevents = 0 /\ References(t) = 0 /\ k.shuttingdown
             \/ state = "idle" /\ l = "tail" /\ k.nevents = 0 /\ ~(References(t) = 0 /\ k.shuttingdown)
             \/ state = "ready" /\ l = "requeue"
      PROVE  TaskInv'
  <2> DEFINE k2 == [k EXCEPT !.state = state]
  <2> HIDE DEF k
  <2>1. /\ k2 \in Task /\ k2.state = state /\ k2.nevents = k.nevents
        /\ k2.shuttingdown = k.shuttingdown /\ k2.on_shutdown = k.on_shutdown
    BY <1>2, <1>5 DEF Task
  <2>2. task' = [task EXCEPT ![t] = k2]
    BY <1>5
  <2> HIDE DEF k2
  <2>3. FieldsOK(k2, Referenced(t))
    BY <1>2, <1>3, <1>5, <2>1, Zenon DEF FieldsOK
  <2>4. pc'[w] = l /\ Woken(pc, pc', Actors \ {w}) /\ l \notin Resting
        /\ Hold(l) = IF state = "idle" THEN "none" ELSE state
    BY <1>4, <1>5, Zenon DEF Resting, Hold, Acting
  <2>5. count' \in [Workers -> 0 .. Quantum]
    BY <1>1, <1>5, TaskAssumption
  <2> QED BY <1>5, <2>1, <2>2, <2>3, <2>4, <2>5, EventKeeps, Zenon
<1>6. ASSUME k.nevents > 0, n < Quantum, pc' = [pc EXCEPT ![w] = "action"],
             task' = [task EXCEPT ![t] = [k EXCEPT !.nevents = @ - 1]],
             count' = [count EXCEPT ![w] = n]
      PROVE  TaskInv'
  <2> HIDE DEF k
  <2> DEFINE j == k.nevents - 1
             k2 == [k EXCEPT !.nevents = j]
  <2>1. j \in 0 .. MaxEvents + MaxShutdown /\ j <= k.nevents
    BY <1>2, <1>6, TaskAssumption DEF Task
  <2>2. task' = [task EXCEPT ![t] = k2]
    BY <1>6
  <2> HIDE DEF j
  <2>3. /\ k2 \in Task /\ k2.state = "running" /\ k2.nevents = j
        /\ k2.shuttingdown = k.shuttingdown /\ k2.on_shutdown = k.on_shutdown
    BY <1>2, <2>1 DEF Task
  <2> HIDE DEF k2
  <2>4. FieldsOK(k2, Referenced(t))
    <3>1. k.nevents <= MaxEvents => j <= MaxEvents
      BY <1>2, <2>1, TaskAssumption DEF Task
    <3> QED BY <1>2, <2>3, <3>1, Zenon DEF FieldsOK
  <2>5. pc'[w] = "action" /\ Woken(pc, pc', Actors \ {w}) /\ "action" \notin Resting
        /\ Hold("action") = "running"
    BY <1>4, <1>6, Zenon DEF Resting, Hold, Acting
  <2>6. count' \in [Workers -> 0 .. Quantum]
    BY <1>1, <1>6, TaskAssumption
  <2> QED BY <2>2, <2>3, <2>4, <2>5, <2>6, EventKeeps, Zenon
<1> QED BY <1>5, <1>6, Zenon DEF AfterEvent

\* What task_finished() leaves.
LEMMA FreedFacts ==
    /\ Freed \in Task /\ Freed.state = "none" /\ Freed.nevents = 0 /\ Freed.on_shutdown = 0
    /\ Freed.shuttingdown = FALSE /\ Freed.privileged = FALSE
<1>1. /\ NewTask \in Task /\ NewTask.nevents = 0 /\ NewTask.on_shutdown = 0
      /\ NewTask.shuttingdown = FALSE /\ NewTask.privileged = FALSE
  BY TaskAssumption DEF NewTask, Task
<1> QED BY <1>1 DEF Freed, Task

LEMMA WorkStep ==
    ASSUME IndInv, TaskInv, NEW w \in Workers, Run(w) \/ EndAction(w) \/ Finish(w)
    PROVE  TaskInv'
<1>1. /\ w \in Actors /\ IsPc(pc) /\ task \in [Tasks -> Task]
      /\ count \in [Workers -> 0 .. Quantum] /\ UNCHANGED <<mgr, ref, op, wtask>>
      /\ \A u \in Tasks : FieldsOK(task[u], Referenced(u))
  BY DEF Actors, IndInv, TaskInv, DataInv, Run, EndAction, Finish
<1>2. Hold(pc[w]) # "none"
  BY DEF Run, EndAction, Finish, Hold, Acting
<1>3. wtask[w] \in Tasks /\ task[wtask[w]].state = Hold(pc[w])
  BY <1>2, Zenon DEF TaskInv, CustodyInv, Custody
<1>4. op[w].call = "none"
  BY <1>1, Zenon DEF TaskInv, OpInv, Run, EndAction, Finish
<1> PICK t \in Tasks : t = wtask[w]
  BY <1>3, Zenon
<1>5. CASE Run(w)
  <2> DEFINE k0 == [task[t] EXCEPT !.state = "running"]
  <2>1. Hold(pc[w]) = "ready"
    BY <1>5, Zenon DEF Run, Hold
  <2>2. /\ k0 \in Task /\ k0.state = "running" /\ k0.nevents = task[t].nevents
        /\ k0.shuttingdown = task[t].shuttingdown /\ k0.on_shutdown = task[t].on_shutdown
    BY <1>1, ZenonT(60) DEF Task
  <2>3. \/ /\ k0.nevents > 0
           /\ task' = [task EXCEPT ![t] = [k0 EXCEPT !.nevents = @ - 1]]
           /\ pc' = [pc EXCEPT ![w] = "action"] /\ count' = count
        \/ AfterEvent(w, k0, 0)
    BY <1>5, Zenon DEF Run
  <2> HIDE DEF k0
  <2>4. FieldsOK(k0, Referenced(t))
    BY <1>1, <1>3, <2>1, <2>2, Zenon DEF FieldsOK
  <2>5. CASE AfterEvent(w, k0, 0)
    BY <1>1, <1>2, <1>4, <2>2, <2>4, <2>5, AfterEventKeeps, Zenon
  <2>6. CASE ~AfterEvent(w, k0, 0)
    <3> DEFINE j == k0.nevents - 1
               k2 == [k0 EXCEPT !.nevents = j]
    <3>1. j \in 0 .. MaxEvents + MaxShutdown /\ j <= k0.nevents
      BY <2>2, <2>3, <2>6, TaskAssumption DEF Task
    <3>2. task' = [task EXCEPT ![t] = k2] /\ pc' = [pc EXCEPT ![w] = "action"] /\ count' = count
      BY <2>3, <2>6
    <3> HIDE DEF j
    <3>3. /\ k2 \in Task /\ k2.state = "running" /\ k2.nevents = j
          /\ k2.shuttingdown = k0.shuttingdown /\ k2.on_shutdown = k0.on_shutdown
      BY <2>2, <3>1, Zenon DEF Task
    <3> HIDE DEF k2
    <3>4. FieldsOK(k2, Referenced(t))
      <4>1. k0.nevents <= MaxEvents => j <= MaxEvents
        BY <2>2, <3>1, TaskAssumption DEF Task
      <4> QED BY <2>4, <3>3, <4>1, Zenon DEF FieldsOK
    <3>5. pc'[w] = "action" /\ Woken(pc, pc', Actors \ {w}) /\ "action" \notin Resting
          /\ Hold("action") = "running"
      BY <1>1, <3>2, Zenon DEF IsPc, Woken, Resting, Hold, Acting
    <3> QED BY <1>1, <1>2, <1>4, <3>2, <3>3, <3>4, <3>5, EventKeeps, Zenon
  <2> QED BY <2>5, <2>6
<1>6. CASE EndAction(w)
  <2> DEFINE k0 == task[t]
             n == count[w] + 1
  <2>1. AfterEvent(w, k0, n) /\ n \in Nat /\ k0 \in Task /\ FieldsOK(k0, Referenced(wtask[w]))
    <3>1. AfterEvent(w, task[wtask[w]], count[w] + 1)
      BY <1>6, Zenon DEF EndAction
    <3>2. AfterEvent(w, k0, n)
      BY <3>1, Zenon
    <3>3. n \in Nat
      <4>1. count[w] \in 0 .. Quantum
        BY <1>1, Zenon
      <4> QED BY <4>1, TaskAssumption
    <3> QED BY <1>1, <3>2, <3>3, Zenon
  <2>2. k0.state = "running"
    BY <1>3, <1>6, Zenon DEF EndAction, Hold, Acting
  <2> HIDE DEF k0, n
  <2> QED BY <1>1, <1>2, <1>4, <2>1, <2>2, AfterEventKeeps, Zenon
<1>7. CASE Finish(w)
  <2> DEFINE k == Freed
             p == [pc EXCEPT ![w] = "tail"]
  <2>1. /\ k \in Task /\ k.state = "none" /\ k.nevents = 0 /\ k.shuttingdown = FALSE
    BY FreedFacts
  <2>2. pc[w] = "finish" /\ task[t].state = "done"
    BY <1>3, <1>7 DEF Finish, Hold, Acting
  <2>3. ~Referenced(t)
    BY <1>1, <2>2, Zenon DEF FieldsOK
  <2>4. task' = [task EXCEPT ![t] = k] /\ count' = count /\ (pc' = p \/ pc' = Broadcast(p))
    BY <1>7 DEF Finish
  <2>5. p[w] = "tail" /\ \A b \in Actors \ {w} : p[b] = pc[b]
    BY <1>1 DEF IsPc
  <2> HIDE DEF k, p
  <2>6. Broadcast(p)[w] = "tail"
    BY <1>1, <2>5, Zenon DEF Broadcast
  <2>7. pc'[w] = "tail" /\ Woken(pc, pc', Actors \ {w})
    BY <2>4, <2>5, <2>6, WakeFacts DEF Woken
  <2>8. FieldsOK(k, Referenced(t)) /\ "tail" \notin Resting /\ Hold("tail") = "none"
    BY <2>1, <2>3, TaskAssumption DEF FieldsOK, Resting, Hold, Acting
  <2> QED BY <1>1, <1>2, <1>4, <2>1, <2>4, <2>7, <2>8, EventKeeps, Zenon
<1> QED BY <1>5, <1>6, <1>7

\* isc__taskmgr_destroy(): every task is shut down and the idle ones are queued.
LEMMA DestroyStep ==
    ASSUME IndInv, TaskInv, NEW c \in Clients, DestroyManager(c)
    PROVE  TaskInv'
<1> DEFINE S == {t \in Live : WasIdle(task[t], ShutDown(task[t]))}
<1>1. /\ task \in [Tasks -> Task] /\ op \in [Actors -> Calls]
      /\ Queued(mgr) \in SUBSET Tasks /\ Custody(task, Queued(mgr), op, pc, wtask)
      /\ Lists(mgr, Privileged) /\ IsManager(mgr) /\ IsPc(pc) /\ FlagsOK(mgr)
      /\ \A t \in Tasks : FieldsOK(task[t], Referenced(t)) /\ Referenced(t) \in BOOLEAN
  BY Zenon DEF IndInv, TaskInv, DataInv, CustodyInv, Queued, Referenced
<1>2. c \in Actors /\ c \notin Workers /\ op[c].call = "none" /\ pc[c] = "free" /\ ~mgr.exiting
  BY TaskAssumption DEF Actors, DestroyManager, CanCall
<1>3. /\ task' = [t \in Tasks |-> IF t \in Live THEN ShutDown(task[t]) ELSE task[t]]
      /\ pc' = [Broadcast(pc) EXCEPT ![c] = "join"] /\ UNCHANGED <<ref, op, wtask, count>>
      /\ \A t \in Tasks : ~Privileging(t)
  BY DEF DestroyManager
<1>4. PICK q \in Orders(S), r \in Orders(S \cap Privileged) :
         /\ InStep(q, r)
         /\ mgr' = [mgr EXCEPT !.exiting = TRUE, !.mode = "normal",
                               !.ready_tasks = @ \o q,
                               !.ready_priority_tasks = @ \o r]
  BY Zenon DEF DestroyManager
<1>5. ASSUME NEW t \in Tasks
      PROVE  /\ task'[t] \in Task /\ FieldsOK(task'[t], Referenced(t))
             /\ task'[t].privileged = task[t].privileged
             /\ t \in S => task[t].state = "idle" /\ task'[t].state = "ready"
             /\ t \notin S => task'[t].state = task[t].state
  <2> DEFINE k == task[t]
  <2>1. k \in Task /\ FieldsOK(k, Referenced(t)) /\ Referenced(t) \in BOOLEAN
    BY <1>1, Zenon
  <2>2. task'[t] = IF k.state # "none" THEN ShutDown(k) ELSE k
    BY <1>3, Zenon DEF Live
  <2>3. t \in S <=> k.state # "none" /\ WasIdle(k, ShutDown(k))
    BY Zenon DEF Live
  <2> HIDE DEF k, S
  <2>4. k = task[t]
    BY DEF k
  <2>5. CASE k.state \in Usable
    <3>1. Posted(k, ShutDown(k)) /\ FieldsOK(ShutDown(k), Referenced(t))
      BY <2>1, <2>5, ShutDownFacts
    <3> QED BY <2>2, <2>3, <2>4, <2>5, <3>1, Zenon DEF Posted, WasIdle, Usable
  <2>6. CASE k.state = "done"
    <3>1. ShutDown(k) = k
      BY <2>1, <2>6 DEF FieldsOK, ShutDown
    <3> QED BY <2>1, <2>2, <2>3, <2>4, <2>6, <3>1, Zenon DEF WasIdle
  <2>7. CASE k.state = "none"
    BY <2>1, <2>2, <2>3, <2>4, <2>7
  <2> QED BY <2>1, <2>5, <2>6, <2>7, Zenon DEF Task, Usable
<1>6. S \in SUBSET Tasks /\ S \cap Queued(mgr) = {}
  <2>1. S \in SUBSET Tasks
    BY DEF Live
  <2>2. \A t \in Queued(mgr) : task[t].state = "ready"
    BY <1>1, Zenon DEF Custody
  <2> QED BY <2>1, <2>2 DEF WasIdle
<1>7. pc'[c] = "join" /\ \A b \in Actors \ {c} : pc'[b] = Broadcast(pc)[b]
  BY <1>2, <1>3, Zenon DEF Broadcast
<1>8. \A b \in Actors \ {c} :
         /\ Hold(pc'[b]) = Hold(pc[b])
         /\ pc'[b] \in Resting <=> pc[b] \in Resting
         /\ pc[b] \in {"free", "action", "exclusive"} => pc'[b] = pc[b]
         /\ pc'[b] \in {"exit", "gone"} => pc'[b] = pc[b]
  <2> DEFINE p2 == Broadcast(pc)
  <2>1. Woken(pc, p2, Actors)
    BY WakeFacts
  <2> HIDE DEF p2
  <2>2. \A b \in Actors : /\ Hold(p2[b]) = Hold(pc[b])
                          /\ p2[b] \in Resting <=> pc[b] \in Resting
                          /\ pc[b] \in {"free", "action", "exclusive"} => p2[b] = pc[b]
                          /\ p2[b] \in {"exit", "gone"} => p2[b] = pc[b]
    BY <2>1, WokenFacts
  <2> QED BY <1>7, <2>2, Zenon DEF p2
<1> HIDE DEF S
<1>9. /\ mgr'.ready_tasks = mgr.ready_tasks \o q
      /\ mgr'.ready_priority_tasks = mgr.ready_priority_tasks \o r
      /\ FlagsOK(mgr') /\ mgr'.exiting = TRUE
  BY <1>1, <1>4 DEF IsManager, Fields, FlagsOK
<1>10. Privileged' = Privileged
  BY <1>5, Zenon DEF Privileged
<1>11. CustodyInv'
  <2> DEFINE n == mgr'
             k2 == task'
             p2 == pc'
  <2>1. Joins(mgr, n, S, Privileged)
    BY <1>4, <1>9, Zenon DEF Joins
  <2>2. /\ \A t \in S : task[t].state = "idle" /\ k2[t].state = "ready"
        /\ \A t \in Tasks \ S : k2[t].state = task[t].state
        /\ \A v \in Workers : Hold(p2[v]) = Hold(pc[v])
    BY <1>2, <1>5, <1>6, <1>8, Zenon DEF Actors
  <2> DEFINE Q == Queued(mgr)
  <2>3. /\ Custody(task, Q, op, pc, wtask) /\ Q \in SUBSET Tasks /\ S \in SUBSET Tasks
        /\ Lists(mgr, Privileged) /\ \A t \in S : t \notin Queued(mgr)
    BY <1>1, <1>6, Zenon
  <2> HIDE DEF n, k2, p2
  <2>4. Lists(n, Privileged) /\ Queued(n) = Queued(mgr) \cup S
    BY <2>1, <2>3, JoinLists, Zenon
  <2> HIDE DEF Q
  <2>5. Custody(k2, Q \cup S, op, p2, wtask)
    <3>1. QueuesAll(task, k2, pc, p2, S)
      BY <2>2, Zenon DEF QueuesAll
    <3> QED BY <2>3, <3>1, CustodyJoin, Zenon
  <2>6. Queued(mgr)' = Queued(n) /\ Lists(mgr, Privileged)' = Lists(n, Privileged)
    BY <1>10, Zenon DEF Queued, Lists, n
  <2> QED BY <1>3, <2>4, <2>5, <2>6, Zenon DEF CustodyInv, k2, p2, Q
<1>12. DataInv'
  <2>1. \A t \in Tasks : Referenced(t)' = Referenced(t)
    BY <1>3, Zenon DEF Referenced
  <2>2. \A t \in Tasks : FieldsOK(task[t], Referenced(t))'
    <3> SUFFICES ASSUME NEW t \in Tasks PROVE FieldsOK(task'[t], Referenced(t)')
      BY Zenon DEF FieldsOK
    <3> QED BY <1>5, <2>1, Zenon
  <2>3. task' \in [Tasks -> Task]
    BY <1>3, <1>5, Zenon
  <2> QED BY <1>3, <1>9, <2>2, <2>3, Zenon DEF TaskInv, DataInv
<1>13. OpInv'
  <2> SUFFICES ASSUME NEW b \in Actors, op[b].call # "none"
               PROVE  /\ pc'[b] \in {"free", "action", "exclusive"}
                      /\ op[b].task \in Tasks /\ op[b].call = "ready"
    BY <1>3, Zenon DEF OpInv
  <2>1. op[b].task \in Tasks /\ pc[b] \in {"free", "action", "exclusive"}
    BY Zenon DEF TaskInv, OpInv
  <2>2. op[b].call = "ready"
    BY <1>1, <1>3, <2>1, Zenon DEF Privileging, Calls
  <2> QED BY <1>2, <1>8, <2>1, <2>2, Zenon
<1>14. EndInv'
  <2>1. /\ \A w \in Workers : pc[w] # "exit"
        /\ \A d \in Clients : pc[d] # "gone"
    BY <1>2 DEF TaskInv, EndInv
  <2> QED BY <1>2, <1>7, <1>8, <2>1, Zenon DEF EndInv, Actors
<1>15. RestInv'
  BY <1>2, <1>3, <1>8, Zenon DEF TaskInv, RestInv, Actors
<1> QED BY <1>11, <1>12, <1>13, <1>14, <1>15 DEF TaskInv

LEMMA TaskInit == Init => IndInv /\ TaskInv
<1> SUFFICES ASSUME Init PROVE IndInv /\ TaskInv
  OBVIOUS
<1>1. IsManager(mgr) /\ mgr.tasks_running = 0
  BY Zenon DEF Init, IsManager, Fields
<1>2. IsPc(pc) /\ \A w \in Workers : pc[w] = "top"
  BY TaskAssumption, Zenon DEF Init, IsPc, Actors, Resting, Outside
<1>3. BusyIn(pc) = {} /\ Cardinality(BusyIn(pc)) = 0
  BY <1>2, FS_EmptySet DEF BusyIn, Busy
<1>4. IndInv
  BY <1>1, <1>2, <1>3 DEF IndInv, ExclusiveOne, Requesting
<1>5. /\ \A t \in Tasks : task[t] = Freed
      /\ \A r \in Refs : ref[r] = NoTask
      /\ \A a \in Actors : op[a].call = "none" /\ op[a].task = NoTask
  BY Zenon DEF Init
<1>6. DataInv
  <2>1. task \in [Tasks -> Task]
    BY FreedFacts, Zenon DEF Init
  <2>2. op \in [Actors -> Calls]
    BY Zenon DEF Init, Calls
  <2>3. \A t \in Tasks : FieldsOK(task[t], Referenced(t))
    BY <1>5, FreedFacts, TaskAssumption DEF FieldsOK, Referenced
  <2>4. count \in [Workers -> 0 .. Quantum]
    BY TaskAssumption DEF Init
  <2> QED BY <2>1, <2>2, <2>3, <2>4, Zenon DEF DataInv, Init, FlagsOK
<1>7. CustodyInv
  <2>1. mgr.ready_tasks = <<>> /\ mgr.ready_priority_tasks = <<>>
    BY Zenon DEF Init
  <2>2. Lists(mgr, Privileged) /\ Queued(mgr) = {}
    BY <2>1 DEF Lists, Queued, NoDup, InStep, On
  <2>3. \A v \in Workers : Hold(pc[v]) = "none"
    BY <1>2 DEF Hold, Acting
  <2>4. \A t \in Tasks : task[t].state = "none"
    BY <1>5, FreedFacts
  <2> QED BY <1>5, <2>2, <2>3, <2>4, Zenon DEF CustodyInv, Custody
<1>8. OpInv /\ EndInv /\ RestInv
  <2>1. \A c \in Clients : pc[c] = "free"
    BY TaskAssumption, Zenon DEF Init, Actors
  <2>2. RestInv
    BY Zenon DEF Init, RestInv
  <2> QED BY <1>2, <1>5, <2>1, <2>2 DEF OpInv, EndInv
<1> QED BY <1>4, <1>6, <1>7, <1>8 DEF TaskInv

LEMMA TaskNext == IndInv /\ TaskInv /\ [Next]_vars => IndInv' /\ TaskInv'
<1> SUFFICES ASSUME IndInv, TaskInv, [Next]_vars PROVE IndInv' /\ TaskInv'
  OBVIOUS
<1>1. IndInv'
  BY TopInv, TailInv, WorkInv, ExclusiveInv, CallInv DEF Next, WorkerStep
<1>2. CASE UNCHANGED vars
  <2>1. DataInv'
    BY <1>2, Zenon DEF vars, TaskInv, DataInv, Referenced, FieldsOK, FlagsOK
  <2>2. CustodyInv'
    BY <1>2, ZenonT(60) DEF vars, TaskInv, CustodyInv, Queued, Lists, Privileged, Custody, Brings
  <2>3. OpInv' /\ EndInv' /\ RestInv'
    BY <1>2, Zenon DEF vars, TaskInv, OpInv, EndInv, RestInv, Live
  <2> QED BY <1>1, <2>1, <2>2, <2>3 DEF TaskInv
<1>3. CASE Next
  BY <1>1, <1>3, CallStep, MoveStep, TaskReadyStep, PrivilegeStep, JoinStep, TopStep, TailStep,
     WorkStep, DestroyStep, Zenon DEF Next, WorkerStep
<1> QED BY <1>2, <1>3

-----------------------------------------------------------------------------
(* What the invariant says *)

LEMMA InvType == IndInv /\ TaskInv => TypeOK
<1> SUFFICES ASSUME IndInv, TaskInv PROVE TypeOK
  OBVIOUS
<1>1. mgr \in Manager
  <2>1. /\ mgr.ready_tasks \in Seq(Tasks) /\ mgr.ready_priority_tasks \in Seq(Tasks)
        /\ FlagsOK(mgr) /\ IsManager(mgr)
    BY Zenon DEF TaskInv, DataInv, CustodyInv, Lists, IndInv
  <2>2. mgr.tasks_running \in Nat
    BY BusyFinite DEF IndInv
  <2> QED BY <2>1, <2>2 DEF Manager, FlagsOK, IsManager, Fields
<1>2. pc \in [Actors -> {"top", "sleep", "popped", "action", "exwait", "excheck", "exclusive",
                         "finish", "tail", "requeue", "exit",
                         "free", "pausewait", "pausecheck", "join", "gone"}]
  <2>1. \A a \in Actors : pc[a] \in Resting \cup Busy \cup Outside
    BY DEF IndInv, IsPc, Actors
  <2> QED BY <2>1 DEF IndInv, IsPc, Resting, Busy, Outside
<1> QED BY <1>1, <1>2, Zenon DEF TypeOK, TaskInv, DataInv, Calls

LEMMA AtMostOne ==
    ASSUME NEW S, \A x, y \in S : x = y
    PROVE  Cardinality(S) = IF S = {} THEN 0 ELSE 1
<1>1. CASE S = {}
  BY <1>1, FS_EmptySet
<1>2. CASE S # {}
  <2>1. PICK x \in S : TRUE
    BY <1>2
  <2>2. S = {x}
    BY <2>1
  <2> QED BY <1>2, <2>2, FS_Singleton
<1> QED BY <1>1, <1>2

LEMMA InvCustodian == IndInv /\ TaskInv => OneCustodian
<1> SUFFICES ASSUME IndInv, TaskInv PROVE OneCustodian
  OBVIOUS
<1>1. /\ Custody(task, Queued(mgr), op, pc, wtask) /\ Lists(mgr, Privileged)
      /\ op \in [Actors -> Calls] /\ task \in [Tasks -> Task]
  BY DEF TaskInv, CustodyInv, DataInv
<1>2. ASSUME NEW t \in Tasks
      PROVE  LET places == Cardinality({i \in DOMAIN mgr.ready_tasks : mgr.ready_tasks[i] = t})
                           + Cardinality({a \in Actors : op[a] = [call |-> "ready", task |-> t]})
                           + Cardinality(Holding(t, {"popped", "requeue"}))
             IN  /\ places = IF task[t].state = "ready" THEN 1 ELSE 0
                 /\ Cardinality(Holding(t, Acting)) = IF task[t].state = "running" THEN 1 ELSE 0
                 /\ Cardinality(Holding(t, {"finish"})) = IF task[t].state = "done" THEN 1 ELSE 0
  <2> DEFINE I == {i \in DOMAIN mgr.ready_tasks : mgr.ready_tasks[i] = t}
             A == {a \in Actors : op[a] = [call |-> "ready", task |-> t]}
             R == Holding(t, {"popped", "requeue"})
             X == Holding(t, Acting)
             D == Holding(t, {"finish"})
  <2>1. Cardinality(I) = IF t \in Queued(mgr) THEN 1 ELSE 0
    <3>1. \A i, j \in I : i = j
      BY <1>1, Zenon DEF Lists, NoDup
    <3>2. I = {} <=> t \notin Queued(mgr)
      BY DEF Queued, On
    <3> QED BY <3>1, <3>2, AtMostOne
  <2>2. \A a : a \in A <=> a \in Actors /\ Brings(op, a, t)
    BY <1>1 DEF Brings, Calls
  <2> HIDE DEF A
  <2>3. Cardinality(A) = IF \E a \in Actors : Brings(op, a, t) THEN 1 ELSE 0
    <3>1. \A a, b \in A : a = b
      <4> SUFFICES ASSUME NEW a \in A, NEW b \in A, a # b PROVE FALSE
        BY Zenon
      <4>1. a \in Actors /\ b \in Actors \ {a} /\ Brings(op, a, t) /\ Brings(op, b, t)
        BY <2>2, Zenon
      <4>2. op[a].call = "ready" /\ op[a].task = t
        BY <4>1, Zenon DEF Brings
      <4>3. ~Brings(op, b, op[a].task)
        BY <1>1, <4>1, <4>2, Zenon DEF Custody
      <4> QED BY <4>1, <4>2, <4>3, Zenon
    <3> QED BY <2>2, <3>1, AtMostOne
  <2>4. /\ \A w : w \in R <=> w \in Workers /\ wtask[w] = t /\ Hold(pc[w]) = "ready"
        /\ \A w : w \in X <=> w \in Workers /\ wtask[w] = t /\ Hold(pc[w]) = "running"
        /\ \A w : w \in D <=> w \in Workers /\ wtask[w] = t /\ Hold(pc[w]) = "done"
    BY Zenon DEF Holding, Hold, Acting
  <2> HIDE DEF R, X, D, I
  <2>5. \A v, w \in Workers : Hold(pc[v]) # "none" /\ wtask[v] = t /\ Hold(pc[w]) # "none" /\ wtask[w] = t
                              => v = w
    BY <1>1, Zenon DEF Custody
  <2>6. /\ Cardinality(R) = IF R = {} THEN 0 ELSE 1
        /\ Cardinality(X) = IF X = {} THEN 0 ELSE 1
        /\ Cardinality(D) = IF D = {} THEN 0 ELSE 1
    <3>1. \A v, w \in R : v = w
      BY <2>4, <2>5
    <3>2. \A v, w \in X : v = w
      BY <2>4, <2>5
    <3>3. \A v, w \in D : v = w
      BY <2>4, <2>5
    <3> QED BY <3>1, <3>2, <3>3, AtMostOne
  <2>7. \A w \in Workers : Hold(pc[w]) # "none" /\ wtask[w] = t =>
           /\ t \notin Queued(mgr) /\ ~\E a \in Actors : Brings(op, a, t)
           /\ task[t].state = Hold(pc[w])
    BY <1>1, ZenonT(60) DEF Custody
  <2>8. \A a \in Actors : Brings(op, a, t) => t \notin Queued(mgr) /\ task[t].state = "ready"
    BY <1>1 DEF Custody, Brings
  <2>9. t \in Queued(mgr) => task[t].state = "ready"
    BY <1>1, Zenon DEF Custody
  <2>10. task[t].state \in {"ready", "running", "done"} =>
            \/ t \in Queued(mgr) \/ \E a \in Actors : Brings(op, a, t)
            \/ \E w \in Workers : Hold(pc[w]) # "none" /\ wtask[w] = t
    BY <1>1, Zenon DEF Custody
  <2>11. X # {} <=> task[t].state = "running"
    BY <2>4, <2>7, <2>8, <2>9, <2>10, Zenon
  <2>12. D # {} <=> task[t].state = "done"
    BY <2>4, <2>7, <2>8, <2>9, <2>10, Zenon
  <2>13. Cardinality(I) + Cardinality(A) + Cardinality(R) = IF task[t].state = "ready" THEN 1 ELSE 0
    <3>1. CASE R # {}
      <4>1. /\ t \notin Queued(mgr) /\ ~\E a \in Actors : Brings(op, a, t)
            /\ task[t].state = "ready"
        BY <2>4, <2>7, <3>1, Zenon
      <4> QED BY <2>1, <2>3, <2>6, <3>1, <4>1
    <3>2. CASE R = {}
      <4>1. task[t].state = "ready" => t \in Queued(mgr) \/ \E a \in Actors : Brings(op, a, t)
        BY <2>4, <2>7, <2>10, <3>2, Zenon
      <4> QED BY <2>1, <2>3, <2>6, <2>8, <2>9, <3>2, <4>1
    <3> QED BY <3>1, <3>2, Zenon
  <2> QED BY <2>6, <2>11, <2>12, <2>13, Zenon DEF I, A, R, X, D
<1>3. /\ InStep(mgr.ready_tasks, mgr.ready_priority_tasks)
      /\ \A t \in Tasks : On(mgr.ready_priority_tasks, t) <=>
                             On(mgr.ready_tasks, t) /\ task[t].privileged
  BY <1>1, Zenon DEF Lists, Privileged
<1> QED BY <1>2, <1>3, Zenon DEF OneCustodian

LEMMA InvFreed == IndInv /\ TaskInv => FreedOnce
<1> SUFFICES ASSUME IndInv, TaskInv PROVE FreedOnce
  OBVIOUS
<1>1. /\ Custody(task, Queued(mgr), op, pc, wtask) /\ Lists(mgr, Privileged)
      /\ op \in [Actors -> Calls] /\ task \in [Tasks -> Task]
      /\ ref \in [Refs -> Tasks \cup {NoTask}]
      /\ \A t \in Tasks : FieldsOK(task[t], Referenced(t))
      /\ \A t \in Tasks : /\ References(t) = 0 <=> ~Referenced(t)
                          /\ References(t) > 0 <=> Referenced(t)
  BY ReferencesFacts DEF TaskInv, CustodyInv, DataInv
<1>2. TypeOK
  BY InvType
<1>3. \A w \in Workers : pc[w] = "finish" =>
         LET k == task[wtask[w]]
         IN  /\ References(wtask[w]) = 0 /\ k.state = "done"
             /\ k.nevents = 0 /\ k.on_shutdown = 0 /\ k.shuttingdown
  <2> SUFFICES ASSUME NEW w \in Workers, pc[w] = "finish"
               PROVE  LET k == task[wtask[w]]
                      IN  /\ References(wtask[w]) = 0 /\ k.state = "done"
                          /\ k.nevents = 0 /\ k.on_shutdown = 0 /\ k.shuttingdown
    OBVIOUS
  <2>1. Hold(pc[w]) = "done"
    BY DEF Hold, Acting
  <2>2. wtask[w] \in Tasks /\ task[wtask[w]].state = "done"
    BY <1>1, <2>1, Zenon DEF Custody
  <2> QED BY <1>1, <2>2, Zenon DEF FieldsOK
<1>4. \A t \in Tasks : task[t].state = "idle" => References(t) > 0 /\ task[t].nevents = 0
  BY <1>1 DEF FieldsOK
<1>5. \A r \in Refs : ref[r] # NoTask => task[ref[r]].state \notin {"none", "done"}
  BY <1>1 DEF FieldsOK, Referenced
<1>6. \A a \in Actors : op[a].call # "none" => op[a].task \in Live
  BY <1>1, Zenon DEF Custody, TaskInv, OpInv, Live
<1>7. \A i \in DOMAIN mgr.ready_tasks : mgr.ready_tasks[i] \in Live
  <2> SUFFICES ASSUME NEW i \in DOMAIN mgr.ready_tasks PROVE mgr.ready_tasks[i] \in Live
    OBVIOUS
  <2>1. On(mgr.ready_tasks, mgr.ready_tasks[i])
    BY DEF On
  <2>2. mgr.ready_tasks[i] \in Tasks
    BY <1>1, <2>1, ListElements, Zenon DEF Lists
  <2> QED BY <1>1, <2>1, <2>2, Zenon DEF Custody, Queued, Live
<1>8. (\E c \in Clients : pc[c] = "gone") => Live = {}
  BY DEF TaskInv, EndInv
<1> QED BY <1>2, <1>3, <1>4, <1>5, <1>6, <1>7, <1>8, Zenon DEF FreedOnce

\* A ready task is looked after by exactly one of the queue, a caller of
\* task_ready() and a worker, a running or a done one by exactly one worker, and
\* the two ready queues agree, for any number of tasks, threads and references.
THEOREM Custodian == Spec => []OneCustodian
BY TaskInit, TaskNext, InvCustodian, PTL DEF Spec

\* task_finished() frees a task once, with nothing left in it and nobody left to
\* point to it; what is neither queued nor run can be reached.
THEOREM FreedSafely == Spec => []FreedOnce
BY TaskInit, TaskNext, InvFreed, PTL DEF Spec

\* isc__taskmgr's mode goes back to normal only when the priority queue is empty
\* and the worker that ends the mode was the last one with a task.
THEOREM PrivilegedFirst == Spec => PrivilegedDone
<1>1. ASSUME IndInv, TaskInv, Next,
             mgr.mode = "privileged", mgr'.mode = "normal", ~mgr'.exiting
      PROVE  /\ mgr.ready_priority_tasks = <<>>
             /\ \E w \in Workers : \A v \in Workers \ {w} : wtask[v] = NoTask
  <2>1. IsManager(mgr) /\ FlagsOK(mgr) /\ Lists(mgr, Privileged)
    BY <1>1 DEF IndInv, TaskInv, DataInv, CustodyInv
  <2>2. ASSUME NEW w \in Workers, NEW STATE m, NEW STATE p, LoopTop(w, m, p),
               IsManager(m), FlagsOK(m), Lists(m, Privileged)
        PROVE  mgr'.mode = m.mode
    BY <2>2, TakenFacts, Zenon DEF LoopTop, Blocked
  <2>3. \A w \in Workers : ~Top(w)
    BY <1>1, <2>1, <2>2 DEF Top
  <2>4. ASSUME NEW w \in Workers, ~TailOf(w), WorkerStep(w) \/ BeginExclusive(w) \/ SetMode(w)
        PROVE  FALSE
    BY <1>1, <2>1, <2>3, <2>4 DEF WorkerStep, Run, EndAction, Finish, ExclusiveCheck, EndExclusive,
       BeginExclusive, SetMode, IsManager, Fields
  <2>5. ASSUME NEW a \in Actors, Call(a) \/ TaskReady(a) \/ SetPrivilegeQueue(a) \/ SpuriousWakeup(a)
        PROVE  FALSE
    <3>1. CASE Call(a) \/ SpuriousWakeup(a)
      BY <1>1, <3>1, Zenon DEF Call, SpuriousWakeup, Create, Attach, Detach, SendAndDetach, Send, Purge,
         OnShutdown, Shutdown, SetPrivilege
    <3>2. CASE TaskReady(a)
      BY <1>1, <2>1, <3>2 DEF TaskReady, push_readyq, IsManager, Fields
    <3>3. CASE SetPrivilegeQueue(a)
      BY <1>1, <3>3, PrivilegeStep
    <3> QED BY <2>5, <3>1, <3>2, <3>3
  <2>6. ASSUME NEW c \in Clients, Pause(c) \/ PauseCheck(c) \/ Resume(c) \/ DestroyManager(c) \/ Join(c)
        PROVE  FALSE
    BY <1>1, <2>1, <2>6, Zenon DEF Pause, PauseCheck, PauseWait, Resume, DestroyManager, Join,
       IsManager, Fields
  <2>7. PICK w \in Workers : TailOf(w)
    BY <1>1, <2>4, <2>5, <2>6 DEF Next
  <2> DEFINE m1 == [mgr EXCEPT !.tasks_running = @ - 1]
             m2 == IF pc[w] = "requeue" THEN push_readyq(m1, wtask[w]) ELSE m1
             m3 == Unprivileged(m2)
  <2>8. PICK p : pc[w] \in {"tail", "requeue"} /\ LoopTop(w, m3, p)
    BY <2>7 DEF TailOf
  <2>9. /\ IsManager(m2) /\ FlagsOK(m2) /\ Lists(m2, Privileged)
        /\ m2.mode = mgr.mode /\ m2.tasks_running = mgr.tasks_running - 1
        /\ Len(m2.ready_priority_tasks)
              \in Len(mgr.ready_priority_tasks) .. Len(mgr.ready_priority_tasks) + 1
    BY <1>1, <2>8, TailFacts
  <2> HIDE DEF m2
  <2>10. /\ IsManager(m3) /\ FlagsOK(m3) /\ Lists(m3, Privileged)
         /\ m3.mode = IF Stuck(m2) THEN "normal" ELSE m2.mode
    BY <2>9, UnprivilegedFacts, Zenon
  <2> HIDE DEF m3
  <2>11. m2.tasks_running = 0 /\ m2.ready_priority_tasks = <<>>
    <3>1. mgr'.mode = m3.mode
      BY <2>2, <2>8, <2>10
    <3>2. Stuck(m2)
      BY <1>1, <2>9, <2>10, <3>1
    <3> QED BY <1>1, <2>9, <3>2, Zenon DEF Stuck, empty_readyq, readyq
  <2>12. mgr.ready_priority_tasks = <<>>
    <3>1. mgr.ready_priority_tasks \in Seq(Tasks)
      BY <2>1, Zenon DEF Lists
    <3>2. Len(mgr.ready_priority_tasks) = 0
      BY <2>9, <2>11, <3>1
    <3> QED BY <3>1, <3>2
  <2>13. BusyIn(pc) = {w}
    <3>1. w \in BusyIn(pc)
      BY <2>8 DEF BusyIn, Busy
    <3>2. ~(Cardinality(BusyIn(pc)) > 1)
      BY <1>1, <2>9, <2>11, BusyFinite DEF IndInv
    <3> QED BY <3>1, <3>2, BusyAlone
  <2>14. \A v \in Workers \ {w} : wtask[v] = NoTask
    BY <1>1, <2>13 DEF IndInv, IsPc, BusyIn, TaskInv, RestInv
  <2> QED BY <2>12, <2>14, Zenon
<1>2. IndInv /\ TaskInv /\ [Next]_vars =>
         [(mgr.mode = "privileged" /\ mgr'.mode = "normal" /\ ~mgr'.exiting)
            => /\ mgr.ready_priority_tasks = <<>>
               /\ \E w \in Workers : \A v \in Workers \ {w} : wtask[v] = NoTask]_vars
  BY <1>1
<1> QED BY <1>2, TaskInit, TaskNext, PTL DEF Spec, PrivilegedDone

-----------------------------------------------------------------------------
(* No wakeup is lost *)

Tops(p) == {w \in Workers : p[w] = "top"}

\* WorkConserving of a manager m and threads p.
Enough(m, p) ==
    (Sleeping(p) # {} /\ ~m.pause_requested /\ ~m.exclusive_requested)
    => Cardinality(Tops(p)) >= Len(readyq(m))

LEMMA TopsFinite ==
    ASSUME NEW p
    PROVE  IsFiniteSet(Tops(p)) /\ Cardinality(Tops(p)) \in Nat
BY TaskAssumption, FS_Subset, FS_CardinalityType, Zenon DEF Tops

LEMMA QueueLength ==
    ASSUME NEW m, NEW P, Lists(m, P)
    PROVE  /\ readyq(m) \in Seq(Tasks) /\ Len(readyq(m)) \in Nat
           /\ Queued(m) = {} => Len(readyq(m)) = 0
<1>1. readyq(m) \in Seq(Tasks) /\ \A x \in Tasks : On(readyq(m), x) => x \in Queued(m)
  BY Zenon DEF Lists, readyq, Queued
<1> DEFINE q == readyq(m)
<1> HIDE DEF q
<1>2. q \in Seq(Tasks) /\ \A x \in Tasks : On(q, x) => x \in Queued(m)
  BY <1>1 DEF q
<1>3. Queued(m) = {} => q = <<>>
  BY <1>2, ListElements
<1>4. Len(q) \in Nat /\ (q = <<>> => Len(q) = 0)
  BY <1>2
<1> QED BY <1>2, <1>3, <1>4 DEF q

\* The queue is no longer than before, and no fewer workers are on their way to it.
LEMMA EnoughKept ==
    ASSUME NEW m, NEW n, NEW p, NEW q, Enough(m, p), readyq(n) = readyq(m), Len(readyq(m)) \in Nat,
           Tops(p) \subseteq Tops(q), Sleeping(q) \subseteq Sleeping(p),
           m.pause_requested => n.pause_requested,
           m.exclusive_requested => n.exclusive_requested
    PROVE  Enough(n, q)
<1>1. Cardinality(Tops(p)) <= Cardinality(Tops(q))
  BY TopsFinite, FS_Subset
<1> QED BY <1>1, TopsFinite DEF Enough

\* All sleepers have been woken.
LEMMA EnoughAwake ==
    ASSUME NEW m, NEW p, \A w \in Workers : p[w] # "sleep"
    PROVE  Enough(m, p)
BY DEF Enough, Sleeping

\* One sleeper was woken, or is not needed, for one task more on the queue.
LEMMA EnoughSignal ==
    ASSUME NEW m, NEW n, NEW p, IsPc(p), NEW q \in Signal(p), Enough(m, p),
           Len(readyq(m)) \in Nat, Len(readyq(n)) \in Nat, Len(readyq(n)) <= Len(readyq(m)) + 1,
           n.pause_requested = m.pause_requested, n.exclusive_requested = m.exclusive_requested
    PROVE  Enough(n, q)
<1>1. CASE Sleeping(p) = {}
  BY <1>1, Zenon DEF Signal, Enough
<1>2. CASE Sleeping(p) # {}
  <2>1. PICK w \in Sleeping(p) : q = [p EXCEPT ![w] = "top"]
    BY <1>2 DEF Signal
  <2>2. w \in Workers /\ w \notin Tops(p) /\ Tops(q) = Tops(p) \cup {w}
    BY <2>1 DEF Sleeping, Tops, IsPc, Actors
  <2>3. Cardinality(Tops(q)) = Cardinality(Tops(p)) + 1
    BY <2>2, TopsFinite, FS_AddElement, Zenon
  <2> QED BY <1>2, <2>3, TopsFinite DEF Enough
<1> QED BY <1>1, <1>2, Zenon

\* At the head of the loop a worker takes a task, or has no reason to.
LEMMA LoopTopEnough ==
    ASSUME NEW w \in Workers, NEW STATE m, NEW STATE p, IsManager(m), IsPc(p), FlagsOK(m),
           Lists(m, Privileged), Live = {} => Queued(m) = {},
           Enough(m, [p EXCEPT ![w] = "top"]), LoopTop(w, m, p)
    PROVE  Enough(mgr', pc')
<1> DEFINE p0 == [p EXCEPT ![w] = "top"]
<1>1. p0[w] = "top" /\ \A v \in Workers \ {w} : p0[v] = p[v]
  BY Zenon DEF IsPc, Actors
<1>2. Enough(m, p0) /\ readyq(m) \in Seq(Tasks) /\ Len(readyq(m)) \in Nat
  BY QueueLength, Zenon
<1> HIDE DEF p0
<1>3. CASE mgr' = m /\ (Finished(m, Live) \/ Blocked(m))
  <2>1. \/ m.pause_requested \/ m.exclusive_requested \/ Len(readyq(m)) = 0
    BY <1>3, QueueLength DEF Finished, Blocked, empty_readyq
  <2> QED BY <1>3, <2>1, TopsFinite DEF Enough
<1>4. CASE ~Blocked(m) /\ mgr' = Taken(m) /\ pc' = [p EXCEPT ![w] = "popped"]
  <2>1. pc'[w] = "popped" /\ \A v \in Workers \ {w} : pc'[v] = p0[v]
    BY <1>1, <1>4, Zenon DEF IsPc, Actors
  <2> DEFINE q == pc'
             n == Taken(m)
  <2>2. Tops(q) = Tops(p0) \ {w} /\ w \in Tops(p0) /\ Sleeping(q) = Sleeping(p0)
    BY <1>1, <2>1, Zenon DEF Tops, Sleeping
  <2> HIDE DEF q
  <2>3. Cardinality(Tops(q)) = Cardinality(Tops(p0)) - 1
    BY <2>2, TopsFinite, FS_RemoveElement, Zenon
  <2>4. Len(readyq(n)) = Len(readyq(m)) - 1
    BY <1>4, TakenFacts, Zenon DEF Blocked
  <2>5. ~m.pause_requested /\ ~m.exclusive_requested
    BY <1>4 DEF Blocked
  <2> HIDE DEF n
  <2>6. Enough(n, q)
    <3>1. Sleeping(q) = Sleeping(p0) /\ Cardinality(Tops(p0)) \in Nat
      BY <2>2, TopsFinite, Zenon
    <3>2. Sleeping(p0) # {} => Cardinality(Tops(p0)) >= Len(readyq(m))
      BY <1>2, <2>5, Zenon DEF Enough
    <3>3. Cardinality(Tops(p0)) >= Len(readyq(m)) => Cardinality(Tops(q)) >= Len(readyq(n))
      BY <1>2, <2>3, <2>4, <3>1
    <3> QED BY <3>1, <3>2, <3>3, Zenon DEF Enough
  <2> QED BY <1>4, <2>6, Zenon DEF n, q
<1> QED BY <1>3, <1>4, Zenon DEF LoopTop

LEMMA QueuedLive ==
    ASSUME NEW m, NEW p, Custody(task, Queued(m), op, p, wtask), Live = {}
    PROVE  Queued(m) = {}
BY Zenon DEF Custody, Queued, Live

LEMMA TopEnough ==
    ASSUME IndInv, TaskInv, WorkConserving, NEW w \in Workers, Top(w)
    PROVE  Enough(mgr', pc')
<1>1. pc[w] = "top" /\ LoopTop(w, mgr, pc)
  BY DEF Top
<1>2. [pc EXCEPT ![w] = "top"] = pc
  BY <1>1, Zenon DEF IndInv, IsPc, Actors
<1>3. Enough(mgr, [pc EXCEPT ![w] = "top"])
  BY <1>2, Zenon DEF WorkConserving, Enough, Tops
<1>4. Live = {} => Queued(mgr) = {}
  BY QueuedLive, Zenon DEF TaskInv, CustodyInv
<1>5. IsManager(mgr) /\ IsPc(pc) /\ FlagsOK(mgr) /\ Lists(mgr, Privileged)
  BY Zenon DEF IndInv, TaskInv, DataInv, CustodyInv
<1> QED BY <1>1, <1>3, <1>4, <1>5, LoopTopEnough, Zenon

LEMMA TailEnough ==
    ASSUME IndInv, TaskInv, WorkConserving, NEW w \in Workers, TailOf(w)
    PROVE  Enough(mgr', pc')
<1> DEFINE m1 == [mgr EXCEPT !.tasks_running = @ - 1]
           m2 == IF pc[w] = "requeue" THEN push_readyq(m1, wtask[w]) ELSE m1
           m3 == Unprivileged(m2)
<1>1. pc[w] \in {"tail", "requeue"} /\ w \in Actors
  BY DEF TailOf, Actors
<1>2. PICK p \in TailSignal(m1) :
         LoopTop(w, m3, IF Stuck(m2) /\ ~empty_readyq(m3) THEN Broadcast(p) ELSE p)
  BY DEF TailOf
<1> DEFINE q == IF Stuck(m2) /\ ~empty_readyq(m3) THEN Broadcast(p) ELSE p
           q0 == [q EXCEPT ![w] = "top"]
<1>3. Woken(pc, p, Actors) /\ IsPc(p) /\ Sleeping(p) = Sleeping(pc)
  BY TailSignalFacts
<1>4. /\ IsManager(m2) /\ FlagsOK(m2) /\ Lists(m2, Privileged) /\ m2.mode = mgr.mode
      /\ m2.exclusive_requested = mgr.exclusive_requested
      /\ m2.pause_requested = mgr.pause_requested
      /\ Len(m2.ready_tasks) \in Len(mgr.ready_tasks) .. Len(mgr.ready_tasks) + 1
      /\ Len(m2.ready_priority_tasks)
            \in Len(mgr.ready_priority_tasks) .. Len(mgr.ready_priority_tasks) + 1
      /\ \A x : (\A v \in Workers \ {w} : Hold(x[v]) = Hold(pc[v])) /\ x[w] = "top"
            => Custody(task, Queued(m2), op, x, wtask)
  BY <1>1, TailFacts, ZenonT(60)
<1> HIDE DEF m2
<1>5. /\ IsManager(m3) /\ FlagsOK(m3) /\ Lists(m3, Privileged) /\ Queued(m3) = Queued(m2)
      /\ m3.exclusive_requested = m2.exclusive_requested
      /\ m3.pause_requested = m2.pause_requested
      /\ m3.ready_tasks = m2.ready_tasks /\ m3.ready_priority_tasks = m2.ready_priority_tasks
      /\ m3.mode = IF Stuck(m2) THEN "normal" ELSE m2.mode
  BY <1>4, UnprivilegedFacts
<1> HIDE DEF m3
<1>6. /\ Len(readyq(mgr)) \in Nat /\ Len(readyq(m2)) \in Nat /\ Len(readyq(m3)) \in Nat
      /\ Len(readyq(m2)) <= Len(readyq(mgr)) + 1
      /\ ~Stuck(m2) => readyq(m3) = readyq(m2)
  <2>1. Len(readyq(mgr)) \in Nat /\ Len(readyq(m2)) \in Nat /\ Len(readyq(m3)) \in Nat
    BY <1>4, <1>5, QueueLength DEF TaskInv, CustodyInv
  <2>2. Len(readyq(m2)) \in Len(readyq(mgr)) .. Len(readyq(mgr)) + 1
    BY <1>4 DEF readyq
  <2>3. ~Stuck(m2) => readyq(m3) = readyq(m2)
    BY <1>5 DEF readyq
  <2> QED BY <2>1, <2>2, <2>3
<1>7. IsPc(q)
  BY <1>3, BroadcastQuiet DEF Quiet
<1>8. q0[w] = "top" /\ \A v \in Workers \ {w} : q0[v] = q[v]
  BY <1>1, <1>7 DEF IsPc, Actors
<1>9. Enough(m3, q0)
  <2>1. CASE Stuck(m2) /\ ~empty_readyq(m3)
    <3>1. \A v \in Workers : q[v] # "sleep"
      BY <2>1 DEF Broadcast, Actors
    <3> HIDE DEF q, q0
    <3> QED BY <1>8, <3>1, EnoughAwake
  <2>2. CASE Stuck(m2) /\ empty_readyq(m3)
    <3>1. Len(readyq(m3)) = 0
      BY <2>2 DEF empty_readyq
    <3> HIDE DEF q, q0
    <3> QED BY <3>1, TopsFinite DEF Enough
  <2>3. CASE ~Stuck(m2)
    <3>1. \A v \in Workers \ {w} : q0[v] = p[v]
      BY <1>8, <2>3
    <3> HIDE DEF q, q0
    <3>2. p[w] \notin {"top", "sleep"}
      BY <1>1, <1>3 DEF Woken
    <3>3. Sleeping(q0) = Sleeping(pc)
      BY <1>3, <1>8, <3>1, <3>2 DEF Sleeping
    <3>4. Tops(p) = Tops(pc)
      <4>1. \A v \in Workers : p[v] = "top" <=> pc[v] = "top"
        <5> SUFFICES ASSUME NEW v \in Workers PROVE p[v] = "top" <=> pc[v] = "top"
          OBVIOUS
        <5>1. p[v] = "sleep" <=> pc[v] = "sleep"
          BY <1>3 DEF Sleeping
        <5> QED BY <1>3, <5>1 DEF Woken, Actors
      <4> QED BY <4>1 DEF Tops
    <3>5. Tops(q0) = Tops(pc) \cup {w} /\ w \notin Tops(pc)
      BY <1>8, <3>1, <3>2, <3>4 DEF Tops
    <3>6. Cardinality(Tops(q0)) = Cardinality(Tops(pc)) + 1
      BY <3>5, TopsFinite, FS_AddElement, Zenon
    <3>7. Len(readyq(m3)) <= Len(readyq(mgr)) + 1
      BY <1>6, <2>3
    <3>8. Enough(mgr, pc)
      BY DEF WorkConserving, Enough, Tops
    <3> QED BY <1>4, <1>5, <1>6, <3>3, <3>6, <3>7, <3>8, TopsFinite DEF Enough
  <2> QED BY <2>1, <2>2, <2>3
<1>10. Live = {} => Queued(m3) = {}
  <2>1. Woken(p, q, Actors)
    BY <1>3, WakeFacts DEF Woken
  <2> HIDE DEF q, q0
  <2>2. Woken(pc, q, Actors)
    BY <1>3, <2>1, WokenTwice
  <2>3. \A v \in Workers \ {w} : Hold(q0[v]) = Hold(pc[v])
    BY <1>8, <2>2, WokenFacts DEF Actors
  <2>4. Custody(task, Queued(m2), op, q0, wtask)
    BY <1>4, <1>8, <2>3
  <2> QED BY <1>5, <2>4, QueuedLive
<1>11. LoopTop(w, m3, q)
  BY <1>2
<1> HIDE DEF q
<1> QED BY <1>5, <1>7, <1>9, <1>10, <1>11, LoopTopEnough

\* The steps that neither queue a task nor take one off the queue.
LEMMA OtherEnough ==
    ASSUME IndInv, TaskInv, WorkConserving,
           \/ \E w \in Workers : \/ Run(w) \/ EndAction(w) \/ Finish(w) \/ ExclusiveCheck(w)
                                 \/ EndExclusive(w) \/ BeginExclusive(w) \/ SetMode(w)
           \/ \E a \in Actors : Call(a) \/ SetPrivilegeQueue(a) \/ SpuriousWakeup(a)
           \/ \E c \in Clients : Pause(c) \/ PauseCheck(c) \/ Resume(c) \/ DestroyManager(c) \/ Join(c)
    PROVE  Enough(mgr', pc')
<1>1. /\ IsManager(mgr) /\ IsPc(pc) /\ Enough(mgr, pc) /\ Len(readyq(mgr)) \in Nat
  BY QueueLength, Zenon DEF IndInv, TaskInv, CustodyInv, WorkConserving, Enough, Tops
<1>2. ASSUME NEW a \in Actors, NEW l, pc' = [pc EXCEPT ![a] = l], mgr' = mgr,
             a \in Workers => pc[a] # "top" /\ l # "sleep"
      PROVE  Enough(mgr', pc')
  <2> DEFINE q == pc'
  <2>1. \A w \in Workers : (pc[w] = "top" => q[w] = "top") /\ (q[w] = "sleep" => pc[w] = "sleep")
    BY <1>1, <1>2 DEF IsPc
  <2> HIDE DEF q
  <2>2. Tops(pc) \subseteq Tops(q) /\ Sleeping(q) \subseteq Sleeping(pc)
    BY <2>1, Zenon DEF Tops, Sleeping
  <2>3. Enough(mgr, q)
    BY <1>1, <2>2, EnoughKept
  <2> QED BY <1>2, <2>3 DEF q
<1>3. \A a \in Actors : \A l : LET q == [Broadcast(pc) EXCEPT ![a] = l]
                           IN  l # "sleep" => \A w \in Workers : q[w] # "sleep"
  BY DEF Broadcast, Actors
<1>4. ASSUME mgr' = mgr, pc' = pc PROVE Enough(mgr', pc')
  BY <1>1, <1>4
<1>5. ASSUME NEW w \in Workers, Run(w) \/ EndAction(w) \/ Finish(w) PROVE Enough(mgr', pc')
  <2>1. mgr' = mgr /\ pc[w] \in {"popped", "action", "finish"} /\ w \in Actors
    BY <1>5, Zenon DEF Run, EndAction, Finish, Actors
  <2>2. \/ \E l \in {"action", "finish", "tail", "requeue"} : pc' = [pc EXCEPT ![w] = l]
        \/ pc' = Broadcast([pc EXCEPT ![w] = "tail"])
    BY <1>5, Zenon DEF Run, EndAction, Finish, AfterEvent
  <2>3. CASE pc' = Broadcast([pc EXCEPT ![w] = "tail"])
    <3>1. \A v \in Workers : pc'[v] # "sleep"
      BY <2>3 DEF Broadcast, Actors
    <3> QED BY <3>1, EnoughAwake
  <2>4. CASE \E l \in {"action", "finish", "tail", "requeue"} : pc' = [pc EXCEPT ![w] = l]
    BY <1>2, <2>1, <2>4, Zenon
  <2> QED BY <2>2, <2>3, <2>4
<1>6. ASSUME NEW w \in Workers, ExclusiveCheck(w) PROVE Enough(mgr', pc')
  <2>1. w \in Actors /\ pc[w] = "excheck" /\ mgr' = mgr
    BY <1>6 DEF ExclusiveCheck, Actors
  <2>2. \E l \in {"exwait", "exclusive"} : pc' = [pc EXCEPT ![w] = l]
    BY <1>6, Zenon DEF ExclusiveCheck, ExclusiveWait
  <2> QED BY <1>2, <2>1, <2>2, Zenon
<1>7. ASSUME NEW w \in Workers, BeginExclusive(w) \/ SetMode(w) PROVE Enough(mgr', pc')
  <2>1. mgr'.exclusive_requested
    BY <1>1, <1>7 DEF BeginExclusive, SetMode, IsManager, Fields, IndInv, ExclusiveOne, Requesting
  <2> QED BY <2>1 DEF Enough
<1>8. ASSUME NEW w \in Workers, EndExclusive(w) PROVE Enough(mgr', pc')
  <2>1. \A v \in Workers : pc'[v] # "sleep"
    BY <1>3, <1>8 DEF EndExclusive, Actors
  <2> QED BY <2>1, EnoughAwake
<1>9. ASSUME NEW a \in Actors, Call(a) \/ SetPrivilegeQueue(a) PROVE Enough(mgr', pc')
  <2>1. pc' = pc
    BY <1>9, Zenon DEF SetPrivilegeQueue, Call, Create, Attach, Detach, SendAndDetach, Send, Purge,
       OnShutdown, Shutdown, SetPrivilege
  <2>2. CASE SetPrivilegeQueue(a)
    BY <1>4, <2>1, <2>2, PrivilegeStep
  <2>3. CASE Call(a)
    <3>1. mgr' = mgr
      BY <2>3, Zenon DEF Call, Create, Attach, Detach, SendAndDetach, Send, Purge, OnShutdown, Shutdown,
         SetPrivilege
    <3> QED BY <1>4, <2>1, <3>1
  <2> QED BY <1>9, <2>2, <2>3
<1>10. ASSUME NEW a \in Actors, SpuriousWakeup(a) PROVE Enough(mgr', pc')
  <2>1. mgr' = mgr /\ pc[a] # "top"
    BY <1>10 DEF SpuriousWakeup
  <2>2. \E l \in {"top", "excheck", "pausecheck"} : pc' = [pc EXCEPT ![a] = l]
    BY <1>10, Zenon DEF SpuriousWakeup
  <2> QED BY <1>2, <2>1, <2>2, Zenon
<1>11. ASSUME NEW c \in Clients, Pause(c) \/ PauseCheck(c) \/ Join(c) PROVE Enough(mgr', pc')
  <2>1. c \in Actors /\ c \notin Workers
    BY TaskAssumption DEF Actors
  <2>2. CASE mgr' = mgr
    <3>1. \E l : pc' = [pc EXCEPT ![c] = l]
      BY <1>11 DEF Pause, PauseCheck, PauseWait, Join
    <3> QED BY <1>2, <2>1, <2>2, <3>1, Zenon
  <2>3. CASE mgr' # mgr
    <3>1. mgr'.pause_requested
      BY <1>1, <1>11, <2>3 DEF Pause, PauseCheck, PauseWait, Join, IsManager, Fields
    <3> QED BY <3>1 DEF Enough
  <2> QED BY <2>2, <2>3
<1>12. ASSUME NEW c \in Clients, Resume(c) \/ DestroyManager(c) PROVE Enough(mgr', pc')
  <2>1. \A v \in Workers : pc'[v] # "sleep"
    BY <1>3, <1>12, Zenon DEF Resume, DestroyManager, Actors, Broadcast
  <2> QED BY <2>1, EnoughAwake
<1> QED BY <1>5, <1>6, <1>7, <1>8, <1>9, <1>10, <1>11, <1>12, Zenon

\* task_ready() wakes a sleeper, unless the task has to wait for privileged ones.
LEMMA ReadyEnough ==
    ASSUME IndInv, TaskInv, WorkConserving, NEW a \in Actors, TaskReady(a)
    PROVE  Enough(mgr', pc')
<1>1. /\ IsManager(mgr) /\ IsPc(pc) /\ Enough(mgr, pc) /\ Lists(mgr, Privileged)
      /\ Custody(task, Queued(mgr), op, pc, wtask) /\ FlagsOK(mgr)
  BY Zenon DEF IndInv, TaskInv, DataInv, CustodyInv, WorkConserving, Enough, Tops
<1> PICK t \in Tasks : t = op[a].task
  BY <1>1, Zenon DEF TaskReady, Custody
<1> DEFINE n == push_readyq(mgr, t)
<1>2. mgr' = n /\ pc' \in (IF mgr.mode = "normal" \/ task[t].privileged THEN Signal(pc) ELSE {pc})
  BY Zenon DEF TaskReady, SignalReady
<1>3. t \notin Queued(mgr)
  BY <1>1, Zenon DEF TaskReady, Custody
<1>4. /\ Lists(n, Privileged)
      /\ Len(n.ready_tasks) = Len(mgr.ready_tasks) + 1
      /\ Len(n.ready_priority_tasks) =
            IF task[t].privileged THEN Len(mgr.ready_priority_tasks) + 1
                                  ELSE Len(mgr.ready_priority_tasks)
  BY <1>1, <1>3, PushLists, Zenon
<1>5. /\ n.mode = mgr.mode /\ n.pause_requested = mgr.pause_requested
      /\ n.exclusive_requested = mgr.exclusive_requested
      /\ ~task[t].privileged => n.ready_priority_tasks = mgr.ready_priority_tasks
  BY <1>1 DEF push_readyq, IsManager, Fields
<1> HIDE DEF n
<1>6. Len(readyq(mgr)) \in Nat /\ Len(readyq(n)) \in Nat
  BY <1>1, <1>4, QueueLength, Zenon
<1>7. Len(readyq(n)) <= Len(readyq(mgr)) + 1
  BY <1>4, <1>5, <1>6 DEF readyq
<1>8. CASE mgr.mode = "normal" \/ task[t].privileged
  <2> DEFINE q == pc'
  <2>1. q \in Signal(pc)
    BY <1>2, <1>8, Zenon
  <2> HIDE DEF q
  <2>2. Enough(n, q)
    BY <1>1, <1>5, <1>6, <1>7, <2>1, EnoughSignal, Zenon
  <2> QED BY <1>2, <2>2, Zenon DEF q
<1>9. CASE ~(mgr.mode = "normal" \/ task[t].privileged)
  <2>1. pc' = pc /\ readyq(n) = readyq(mgr)
    BY <1>2, <1>5, <1>9, Zenon DEF readyq
  <2>2. Enough(n, pc)
    BY <1>1, <1>5, <2>1, Zenon DEF Enough
  <2> QED BY <1>2, <2>1, <2>2
<1> QED BY <1>8, <1>9

\* Whenever tasks may be dispatched and a worker sleeps, as many workers as there
\* are tasks on the queue are awake and on their way to it: the signals of
\* task_ready() and the broadcasts of task.c lose no wakeup, however many
\* workers, tasks and callers there are.
THEOREM WakeupsKept == Spec => []WorkConserving
<1>1. WorkConserving <=> Enough(mgr, pc)
  BY DEF WorkConserving, Enough, Tops
<1>2. Init => WorkConserving
  BY TaskAssumption, EnoughAwake, <1>1, Zenon DEF Init, Actors
<1>3. IndInv /\ TaskInv /\ WorkConserving /\ [Next]_vars => WorkConserving'
  <2> SUFFICES ASSUME IndInv, TaskInv, WorkConserving, [Next]_vars PROVE WorkConserving'
    OBVIOUS
  <2>1. CASE UNCHANGED vars
    BY <2>1, Zenon DEF vars, WorkConserving, Sleeping
  <2>2. CASE Next
    <3>1. Enough(mgr', pc')
      BY <2>2, TopEnough, TailEnough, OtherEnough, ReadyEnough, Zenon DEF Next, WorkerStep
    <3> QED BY <3>1, Zenon DEF WorkConserving, Enough, Tops, Sleeping
  <2> QED BY <2>1, <2>2
<1> QED BY <1>2, <1>3, TaskInit, TaskNext, PTL DEF Spec
=============================================================================
