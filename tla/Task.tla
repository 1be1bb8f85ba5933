-------------------------------- MODULE Task --------------------------------
(***************************************************************************)
(* The task manager of lib/isc/task.c in its threaded build                *)
(* (USE_WORKER_THREADS): tasks with event queues, the ready queues, the    *)
(* worker threads that run dispatch(), exclusive and privileged execution, *)
(* pausing, and the shutdown of a task and of the manager.                 *)
(*                                                                         *)
(* A task's fields change under the task's lock and the manager's fields   *)
(* under the manager's lock, so one step is one critical section; a call   *)
(* that makes a task ready takes two of them, one per lock, and other      *)
(* threads run between the two.  WAIT, SIGNAL and BROADCAST are modelled   *)
(* on the set of sleeping threads, with spurious wakeups.                  *)
(*                                                                         *)
(* Events carry no data here: a queue is its length (nevents), an event's  *)
(* action is the sequence of calls the worker makes until EndAction.       *)
(* tasks_ready, which the code only reports, is left out.                  *)
(***************************************************************************)
EXTENDS Naturals, Sequences, FiniteSets

CONSTANTS
    Tasks,        \* the memory a task may be allocated in
    Workers,      \* the threads of the manager, each running dispatch()
    Clients,      \* the other threads of the program
    Refs,         \* pointers to tasks held by the program (isc_task_attach)
    NoTask,
    Quantum,      \* task->quantum
    MaxEvents,    \* bound on a task's nevents
    MaxShutdown,  \* bound on the length of a task's on_shutdown list
    Ops           \* the optional calls this instance makes

Actors == Workers \cup Clients

AllOps == {"attach", "purge", "onshutdown", "shutdown", "exclusive",
           "privileged", "pause", "destroy", "sendlate"}

ASSUME TaskAssumption ==
    /\ IsFiniteSet(Tasks) /\ IsFiniteSet(Workers) /\ IsFiniteSet(Refs)
    /\ NoTask \notin Tasks
    /\ Workers \cap Clients = {} /\ Workers # {}
    /\ Quantum \in Nat \ {0} /\ MaxEvents \in Nat \ {0} /\ MaxShutdown \in Nat
    /\ Ops \subseteq AllOps

VARIABLES
    task,   \* struct isc__task of every t \in Tasks
    mgr,    \* struct isc__taskmgr
    ref,    \* what each pointer of the program points to
    op,     \* the second half, still to be done, of an actor's call
    pc,     \* where a thread is
    wtask,  \* dispatch(): task
    count   \* dispatch(): dispatch_count

vars == <<task, mgr, ref, op, pc, wtask, count>>

-----------------------------------------------------------------------------
(* Tasks                                                                   *)

Task == [state : {"none", "idle", "ready", "running", "done"},
         nevents : 0 .. MaxEvents + MaxShutdown,
         on_shutdown : 0 .. MaxShutdown,
         shuttingdown : BOOLEAN, privileged : BOOLEAN]

NewTask == [state |-> "idle", nevents |-> 0, on_shutdown |-> 0,
            shuttingdown |-> FALSE, privileged |-> FALSE]

Freed == [NewTask EXCEPT !.state = "none"]

\* task->references
References(t) == Cardinality({r \in Refs : ref[r] = t})

\* manager->tasks
Live == {t \in Tasks : task[t].state # "none"}

\* Make an idle task ready; others keep their state.
Readied(k) == [k EXCEPT !.state = IF @ = "idle" THEN "ready" ELSE @]

\* task_shutdown(): the first call marks the task and posts its shutdown events.
ShutDown(k) ==
    IF k.shuttingdown THEN k
    ELSE [Readied(k) EXCEPT !.shuttingdown = TRUE,
                            !.nevents = @ + k.on_shutdown,
                            !.on_shutdown = 0]

\* The step of dispatch() that shuts a task down when it has neither
\* references nor events left, "to prevent it from becoming a zombie".
Collected(t, k) == IF References(t) = 0 /\ k.nevents = 0 THEN ShutDown(k) ELSE k

\* Slip: by the task's new state alone.
IsReady(k, k2) == k2.state = "ready"

\* Whether a call made the task ready, so that the caller has to queue it
WasIdle(k, k2) == k.state = "idle" /\ k2.state = "ready"

-----------------------------------------------------------------------------
(* The manager                                                             *)

Manager == [ready_tasks : Seq(Tasks), ready_priority_tasks : Seq(Tasks),
            mode : {"normal", "privileged"}, tasks_running : Nat,
            pause_requested : BOOLEAN, exclusive_requested : BOOLEAN,
            exiting : BOOLEAN]

\* FINISHED(), for the tasks l still allocated
Finished(m, l) == m.exiting /\ l = {}

readyq(m) == IF m.mode = "normal" THEN m.ready_tasks ELSE m.ready_priority_tasks

empty_readyq(m) == readyq(m) = <<>>

\* Slip: exclusive_requested is not looked at.
BlockedNotExclusive(m) == empty_readyq(m) \/ m.pause_requested

\* The inner loop's condition for waiting.
Blocked(m) == empty_readyq(m) \/ m.pause_requested \/ m.exclusive_requested

\* A task is linked on the list q.
On(q, t) == \E i \in DOMAIN q : q[i] = t

\* ISC_LIST_DEQUEUE: the list q without its i-th element, and without the task t
\* if that is linked on it.
Removed(q, i) == [j \in 1 .. Len(q) - 1 |-> IF j < i THEN q[j] ELSE q[j + 1]]
Dequeued(q, t) == IF On(q, t) THEN Removed(q, CHOOSE i \in DOMAIN q : q[i] = t) ELSE q

pop_readyq(m) ==
    LET t == Head(readyq(m))
    IN  [m EXCEPT !.ready_tasks = Dequeued(@, t),
                  !.ready_priority_tasks = Dequeued(@, t)]

\* A worker takes the task it popped.
Taken(m) == [pop_readyq(m) EXCEPT !.tasks_running = @ + 1]

push_readyq(m, t) ==
    [m EXCEPT !.ready_tasks = Append(@, t),
              !.ready_priority_tasks = IF task[t].privileged THEN Append(@, t) ELSE @]

\* The threads asleep on work_available, and the two ways of waking them:
\* every function a SIGNAL may turn p into, and what a BROADCAST turns it into.
Sleeping(p) == {w \in Workers : p[w] = "sleep"}

Signal(p) ==
    IF Sleeping(p) = {} THEN {p}
    ELSE {[p EXCEPT ![w] = "top"] : w \in Sleeping(p)}

Broadcast(p) == [a \in Actors |-> IF p[a] = "sleep" THEN "top" ELSE p[a]]

-----------------------------------------------------------------------------
Init ==
    /\ task = [t \in Tasks |-> Freed]
    /\ mgr = [ready_tasks |-> <<>>, ready_priority_tasks |-> <<>>, mode |-> "normal",
              tasks_running |-> 0, pause_requested |-> FALSE,
              exclusive_requested |-> FALSE, exiting |-> FALSE]
    /\ ref = [r \in Refs |-> NoTask]
    /\ op = [a \in Actors |-> [call |-> "none", task |-> NoTask]]
    /\ pc = [a \in Actors |-> IF a \in Workers THEN "top" ELSE "free"]
    /\ wtask = [w \in Workers |-> NoTask]
    /\ count = [w \in Workers |-> 0]

-----------------------------------------------------------------------------
(* dispatch(), run by every worker                                         *)

\* The head of the outer loop, reached with the manager's lock held and the
\* manager and the threads in states m and p.
LoopTop(w, m, p) ==
    \/ /\ Finished(m, Live)
       /\ mgr' = m /\ pc' = [p EXCEPT ![w] = "exit"]
       /\ wtask' = [wtask EXCEPT ![w] = NoTask]
    \/ /\ ~Finished(m, Live) /\ Blocked(m)
       /\ mgr' = m /\ pc' = [p EXCEPT ![w] = "sleep"]
       /\ wtask' = [wtask EXCEPT ![w] = NoTask]
    \/ /\ ~Finished(m, Live) /\ ~Blocked(m)
       /\ mgr' = Taken(m)
       /\ pc' = [p EXCEPT ![w] = "popped"]
       /\ wtask' = [wtask EXCEPT ![w] = Head(readyq(m))]

\* The thread starts, or comes back from WAIT(work_available).
Top(w) ==
    /\ pc[w] = "top"
    /\ LoopTop(w, mgr, pc)
    /\ UNCHANGED <<task, ref, op, count>>

\* The rest of a round of the do loop, with the task's lock held: k is the
\* task and n the number of events dispatched.  An empty task goes idle or is
\* done; one that has used its quantum is to be requeued; any other starts
\* its next event.
AfterEvent(w, k0, n) ==
    LET t == wtask[w]
        k == Collected(t, k0)
        done == References(t) = 0 /\ k.shuttingdown
        Leave(state, l) ==
            /\ task' = [task EXCEPT ![t] = [k EXCEPT !.state = state]]
            /\ pc' = [pc EXCEPT ![w] = l]
            /\ count' = [count EXCEPT ![w] = 0]
    IN  \/ k.nevents = 0 /\ done /\ Leave("done", "finish")
        \/ k.nevents = 0 /\ ~done /\ Leave("idle", "tail")
        \/ k.nevents > 0 /\ n >= Quantum /\ Leave("ready", "requeue")
        \/ /\ k.nevents > 0 /\ n < Quantum
           /\ task' = [task EXCEPT ![t] = [k EXCEPT !.nevents = @ - 1]]
           /\ pc' = [pc EXCEPT ![w] = "action"]
           /\ count' = [count EXCEPT ![w] = n]

\* The task just popped becomes running; its first event, if it still has
\* one, is taken off the queue and its action starts.
Run(w) ==
    /\ pc[w] = "popped"
    /\ LET t == wtask[w]
           k == [task[t] EXCEPT !.state = "running"]
       IN  \/ /\ k.nevents > 0
              /\ task' = [task EXCEPT ![t] = [k EXCEPT !.nevents = @ - 1]]
              /\ pc' = [pc EXCEPT ![w] = "action"]
              /\ UNCHANGED count
           \/ k.nevents = 0 /\ AfterEvent(w, k, 0)
    /\ UNCHANGED <<mgr, ref, op, wtask>>

\* The event's action returns.
EndAction(w) ==
    /\ pc[w] = "action" /\ op[w].call = "none"
    /\ AfterEvent(w, task[wtask[w]], count[w] + 1)
    /\ UNCHANGED <<mgr, ref, op, wtask>>

\* Slip: the workers of an exiting manager are not woken.
FinishQuiet(w) ==
    /\ pc[w] = "finish"
    /\ task' = [task EXCEPT ![wtask[w]] = Freed]
    /\ pc' = [pc EXCEPT ![w] = "tail"]
    /\ UNCHANGED <<mgr, ref, op, wtask, count>>

\* task_finished()
Finish(w) ==
    /\ pc[w] = "finish"
    /\ task' = [task EXCEPT ![wtask[w]] = Freed]
    /\ LET p == [pc EXCEPT ![w] = "tail"]
       IN  pc' = IF Finished(mgr, Live \ {wtask[w]}) THEN Broadcast(p) ELSE p
    /\ UNCHANGED <<mgr, ref, op, wtask, count>>

\* "If we are in privileged execution mode and there are no tasks remaining
\* on the current ready queue, then we're stuck."
Stuck(m) == m.tasks_running = 0 /\ empty_readyq(m)

\* Slip: the mode is dropped although tasks still run.
UnprivilegedEarly(m) == IF empty_readyq(m) THEN [m EXCEPT !.mode = "normal"] ELSE m

Unprivileged(m) == IF Stuck(m) THEN [m EXCEPT !.mode = "normal"] ELSE m

\* Slip: nobody is told that the last other task has stopped.
TailSignalNone(m) == {pc}

\* The wakeups after a task: first the thread that waits for exclusive access
\* or for the pause, then, when privileged mode ends with ordinary tasks ready,
\* every sleeping worker.
TailSignal(m) ==
    LET waiting == IF m.exclusive_requested /\ m.tasks_running = 1
                   THEN {a \in Workers : pc[a] = "exwait"}
                   ELSE IF m.pause_requested /\ m.tasks_running = 0
                   THEN {a \in Clients : pc[a] = "pausewait"}
                   ELSE {}
    IN  IF waiting = {} THEN {pc}
        ELSE {[pc EXCEPT ![a] = IF a \in Workers THEN "excheck" ELSE "pausecheck"] :
                 a \in waiting}

\* After a task: with the manager's lock, which is then held into LoopTop.
TailOf(w) ==
    /\ pc[w] \in {"tail", "requeue"}
    /\ LET m1 == [mgr EXCEPT !.tasks_running = @ - 1]
           m2 == IF pc[w] = "requeue" THEN push_readyq(m1, wtask[w]) ELSE m1
           m3 == Unprivileged(m2)
       IN  \E p \in TailSignal(m1) :
              LoopTop(w, m3, IF Stuck(m2) /\ ~empty_readyq(m3) THEN Broadcast(p) ELSE p)
    /\ UNCHANGED <<task, ref, op, count>>

SpuriousWakeup(a) ==
    /\ pc[a] \in {"sleep", "exwait", "pausewait"}
    /\ pc' = [pc EXCEPT ![a] = CASE @ = "sleep" -> "top"
                                 [] @ = "exwait" -> "excheck"
                                 [] @ = "pausewait" -> "pausecheck"]
    /\ UNCHANGED <<task, mgr, ref, op, wtask, count>>

-----------------------------------------------------------------------------
(* The calls of clients and of event actions                               *)

CanCall(a) == op[a].call = "none" /\ pc[a] \in {"free", "action", "exclusive"}

\* A task whose isc__task_setprivilege() is between its two halves
Privileging(t) ==
    \E a \in Actors : op[a].call \in {"privilege", "unprivilege"} /\ op[a].task = t

\* The tasks an actor has a valid pointer to: those the program holds
\* references to, and the task whose event action it is.  Only the thread that
\* made a task uses it while its privilege is being set.
Known(a) ==
    {t \in Tasks : /\ References(t) > 0 \/ (a \in Workers /\ wtask[a] = t)
                   /\ ~Privileging(t)}

\* A call changes t to k under the task's lock; when that made it ready, the
\* caller still has to do task_ready().
Locked(a, t, k) ==
    /\ task' = [task EXCEPT ![t] = k]
    /\ op' = IF WasIdle(task[t], k)
             THEN [op EXCEPT ![a] = [call |-> "ready", task |-> t]] ELSE op

\* isc__task_create(); it fails once the manager exits
Create(a, r, t) ==
    /\ CanCall(a) /\ ref[r] = NoTask /\ task[t].state = "none"
    /\ ~mgr.exiting
    /\ task' = [task EXCEPT ![t] = NewTask]
    /\ ref' = [ref EXCEPT ![r] = t]
    /\ UNCHANGED <<mgr, op, pc, wtask, count>>

\* isc__task_attach()
Attach(a, r, t) ==
    /\ "attach" \in Ops
    /\ CanCall(a) /\ ref[r] = NoTask /\ t \in Known(a)
    /\ ref' = [ref EXCEPT ![r] = t]
    /\ UNCHANGED <<task, mgr, op, pc, wtask, count>>

\* task_detach(): whoever drops the last reference of an idle task readies it.
Detached(t, k) == IF References(t) = 1 THEN Readied(k) ELSE k

\* isc__task_detach()
Detach(a, r) ==
    /\ CanCall(a) /\ ref[r] # NoTask /\ ~Privileging(ref[r])
    /\ Locked(a, ref[r], Detached(ref[r], task[ref[r]]))
    /\ ref' = [ref EXCEPT ![r] = NoTask]
    /\ UNCHANGED <<mgr, pc, wtask, count>>

\* task_send()
Sent(k) == [Readied(k) EXCEPT !.nevents = @ + 1]

\* isc__task_send(); without "sendlate" the program stops sending once the
\* manager exits
Send(a, t) ==
    /\ mgr.exiting => "sendlate" \in Ops
    /\ CanCall(a) /\ t \in Known(a) /\ task[t].nevents < MaxEvents
    /\ Locked(a, t, Sent(task[t]))
    /\ UNCHANGED <<mgr, ref, pc, wtask, count>>

\* isc__task_sendanddetach()
SendAndDetach(a, r) ==
    /\ CanCall(a) /\ ref[r] # NoTask /\ ~Privileging(ref[r])
    /\ task[ref[r]].nevents < MaxEvents
    /\ Locked(a, ref[r], Detached(ref[r], Sent(task[ref[r]])))
    /\ ref' = [ref EXCEPT ![r] = NoTask]
    /\ UNCHANGED <<mgr, pc, wtask, count>>

\* dequeue_events() and isc_task_purgeevent(): some n of the events match.
\* "Note that purging never changes the state of the task."
Purge(a, t) ==
    /\ "purge" \in Ops
    /\ CanCall(a) /\ t \in Known(a)
    /\ \E n \in 1 .. task[t].nevents : task' = [task EXCEPT ![t].nevents = @ - n]
    /\ UNCHANGED <<mgr, ref, op, pc, wtask, count>>

\* Slip: shuttingdown is not looked at.
OnShutdownLate(a, t) ==
    /\ "onshutdown" \in Ops
    /\ CanCall(a) /\ t \in Known(a)
    /\ task[t].on_shutdown < MaxShutdown
    /\ task' = [task EXCEPT ![t].on_shutdown = @ + 1]
    /\ UNCHANGED <<mgr, ref, op, pc, wtask, count>>

\* isc__task_onshutdown(); it fails once the task is shutting down
OnShutdown(a, t) ==
    /\ "onshutdown" \in Ops
    /\ CanCall(a) /\ t \in Known(a)
    /\ ~task[t].shuttingdown /\ task[t].on_shutdown < MaxShutdown
    /\ task' = [task EXCEPT ![t].on_shutdown = @ + 1]
    /\ UNCHANGED <<mgr, ref, op, pc, wtask, count>>

\* isc__task_shutdown(); isc__task_destroy() is this and Detach
Shutdown(a, t) ==
    /\ "shutdown" \in Ops
    /\ CanCall(a) /\ t \in Known(a)
    /\ Locked(a, t, ShutDown(task[t]))
    /\ UNCHANGED <<mgr, ref, pc, wtask, count>>

\* Slip: nobody is woken.
SignalReadyNever(t) == {pc}

\* task_ready(): the second half of the calls above
SignalReady(t) == IF mgr.mode = "normal" \/ task[t].privileged THEN Signal(pc) ELSE {pc}

TaskReady(a) ==
    /\ op[a].call = "ready"
    /\ mgr' = push_readyq(mgr, op[a].task)
    /\ pc' \in SignalReady(op[a].task)
    /\ op' = [op EXCEPT ![a] = [call |-> "none", task |-> NoTask]]
    /\ UNCHANGED <<task, ref, wtask, count>>

-----------------------------------------------------------------------------
(* Exclusive and privileged execution, pausing, and the manager's end      *)

\* isc__task_beginexclusive(): the request, and the wait for the other workers.
\* A second request, answered with ISC_R_LOCKBUSY, changes nothing.
ExclusiveWait(w) ==
    pc' = [pc EXCEPT ![w] = IF mgr.tasks_running > 1 THEN "exwait" ELSE "exclusive"]

BeginExclusive(w) ==
    /\ "exclusive" \in Ops
    /\ pc[w] = "action" /\ CanCall(w) /\ ~mgr.exclusive_requested
    /\ mgr' = [mgr EXCEPT !.exclusive_requested = TRUE]
    /\ ExclusiveWait(w)
    /\ UNCHANGED <<task, ref, op, wtask, count>>

ExclusiveCheck(w) ==
    /\ pc[w] = "excheck"
    /\ ExclusiveWait(w)
    /\ UNCHANGED <<task, mgr, ref, op, wtask, count>>

\* Slip: no worker is woken.
EndExclusiveQuiet(w) ==
    /\ pc[w] = "exclusive" /\ CanCall(w)
    /\ mgr' = [mgr EXCEPT !.exclusive_requested = FALSE]
    /\ pc' = [pc EXCEPT ![w] = "action"]
    /\ UNCHANGED <<task, ref, op, wtask, count>>

\* isc__task_endexclusive()
EndExclusive(w) ==
    /\ pc[w] = "exclusive" /\ CanCall(w)
    /\ mgr' = [mgr EXCEPT !.exclusive_requested = FALSE]
    /\ pc' = [Broadcast(pc) EXCEPT ![w] = "action"]
    /\ UNCHANGED <<task, ref, op, wtask, count>>

\* isc__taskmgr_setmode(), called as include/isc/task.h asks: in exclusive
\* mode, with a privileged task ready.
SetMode(w) ==
    /\ "privileged" \in Ops
    /\ pc[w] = "exclusive" /\ CanCall(w) /\ ~mgr.exiting
    /\ mgr.ready_priority_tasks # <<>>
    /\ mgr' = [mgr EXCEPT !.mode = "privileged"]
    /\ UNCHANGED <<task, ref, op, pc, wtask, count>>

\* isc__task_setprivilege(): the flag under the task's lock, then the queue
\* under the manager's.  The program calls it on new tasks (isc_taskpool), and
\* must: a task made ready between the two halves would be linked twice.
SetPrivilege(a, t) ==
    /\ "privileged" \in Ops
    /\ CanCall(a) /\ t \in Known(a) /\ References(t) > 0
    /\ task[t].state = "idle"
    /\ task' = [task EXCEPT ![t].privileged = ~@]
    /\ op' = [op EXCEPT ![a] = [call |-> IF task[t].privileged THEN "unprivilege" ELSE "privilege",
                                task |-> t]]
    /\ UNCHANGED <<mgr, ref, pc, wtask, count>>

SetPrivilegeQueue(a) ==
    /\ op[a].call \in {"privilege", "unprivilege"}
    /\ LET t == op[a].task
       IN  mgr' = CASE op[a].call = "privilege" /\ On(mgr.ready_tasks, t) ->
                           [mgr EXCEPT !.ready_priority_tasks = Append(@, t)]
                    [] op[a].call = "unprivilege" /\ On(mgr.ready_priority_tasks, t) ->
                           [mgr EXCEPT !.ready_priority_tasks = Dequeued(@, t)]
                    [] OTHER -> mgr
    /\ op' = [op EXCEPT ![a] = [call |-> "none", task |-> NoTask]]
    /\ UNCHANGED <<task, ref, pc, wtask, count>>

\* isc__taskmgr_pause(): wait until no task runs, then stop the dispatching
PauseWait(c) ==
    \/ /\ mgr.tasks_running > 0
       /\ pc' = [pc EXCEPT ![c] = "pausewait"]
       /\ UNCHANGED mgr
    \/ /\ mgr.tasks_running = 0
       /\ pc' = [pc EXCEPT ![c] = "free"]
       /\ mgr' = [mgr EXCEPT !.pause_requested = TRUE]

Pause(c) ==
    /\ "pause" \in Ops
    /\ pc[c] = "free" /\ CanCall(c) /\ ~mgr.pause_requested /\ ~mgr.exiting
    /\ PauseWait(c)
    /\ UNCHANGED <<task, ref, op, wtask, count>>

PauseCheck(c) ==
    /\ pc[c] = "pausecheck"
    /\ PauseWait(c)
    /\ UNCHANGED <<task, ref, op, wtask, count>>

\* isc__taskmgr_resume()
Resume(c) ==
    /\ pc[c] = "free" /\ CanCall(c) /\ mgr.pause_requested
    /\ mgr' = [mgr EXCEPT !.pause_requested = FALSE]
    /\ pc' = Broadcast(pc)
    /\ UNCHANGED <<task, ref, op, wtask, count>>

\* The orders in which the manager's list may hold the tasks in S
Orders(S) == {q \in [1 .. Cardinality(S) -> S] : {q[i] : i \in DOMAIN q} = S}

Privileged == {t \in Tasks : task[t].privileged}

\* The list r is the list q without some of its elements.
Before(q, t, u) == \E i, j \in DOMAIN q : i < j /\ q[i] = t /\ q[j] = u
InStep(q, r) ==
    /\ \A i \in DOMAIN r : On(q, r[i])
    /\ \A i, j \in DOMAIN r : i < j => Before(q, r[i], r[j])

\* isc__taskmgr_destroy(): every task is shut down under both locks and the
\* workers are woken, then joined.
DestroyManager(c) ==
    /\ "destroy" \in Ops
    /\ pc[c] = "free" /\ CanCall(c) /\ ~mgr.exiting /\ ~mgr.pause_requested
    /\ \A t \in Tasks : ~Privileging(t)
    /\ task' = [t \in Tasks |-> IF t \in Live THEN ShutDown(task[t]) ELSE task[t]]
    /\ LET woken == {t \in Live : WasIdle(task[t], ShutDown(task[t]))}
       IN  \E q \in Orders(woken), r \in Orders(woken \cap Privileged) :
              /\ InStep(q, r)
              /\ mgr' = [mgr EXCEPT !.exiting = TRUE, !.mode = "normal",
                                    !.ready_tasks = @ \o q,
                                    !.ready_priority_tasks = @ \o r]
    /\ pc' = [Broadcast(pc) EXCEPT ![c] = "join"]
    /\ UNCHANGED <<ref, op, wtask, count>>

Join(c) ==
    /\ pc[c] = "join" /\ \A w \in Workers : pc[w] = "exit"
    /\ pc' = [pc EXCEPT ![c] = "gone"]
    /\ UNCHANGED <<task, mgr, ref, op, wtask, count>>

-----------------------------------------------------------------------------
WorkerStep(w) ==
    \/ Top(w) \/ Run(w) \/ EndAction(w) \/ Finish(w) \/ TailOf(w)
    \/ ExclusiveCheck(w) \/ EndExclusive(w)

Call(a) ==
    \/ \E r \in Refs, t \in Tasks : Create(a, r, t) \/ Attach(a, r, t)
    \/ \E r \in Refs : Detach(a, r) \/ SendAndDetach(a, r)
    \/ \E t \in Tasks :
          \/ Send(a, t) \/ Purge(a, t) \/ OnShutdown(a, t) \/ Shutdown(a, t)
          \/ SetPrivilege(a, t)

Next ==
    \/ \E w \in Workers : WorkerStep(w) \/ BeginExclusive(w) \/ SetMode(w)
    \/ \E a \in Actors :
          Call(a) \/ TaskReady(a) \/ SetPrivilegeQueue(a) \/ SpuriousWakeup(a)
    \/ \E c \in Clients :
          Pause(c) \/ PauseCheck(c) \/ Resume(c) \/ DestroyManager(c) \/ Join(c)

Spec == Init /\ [][Next]_vars

\* The threads keep running, an event action returns whatever calls it makes,
\* exclusive access is given back, and once the manager exits the program drops its references.
FairSpec ==
    /\ Spec
    /\ \A w \in Workers : WF_vars(WorkerStep(w)) /\ SF_vars(EndAction(w))
    /\ \A a \in Actors : WF_vars(TaskReady(a))
    /\ \A c \in Clients : /\ WF_vars(PauseCheck(c)) /\ WF_vars(Join(c))
                          /\ \A r \in Refs : WF_vars(mgr.exiting /\ Detach(c, r))

-----------------------------------------------------------------------------
(* Properties                                                              *)

\* The types of struct isc__task, struct isc__taskmgr and the threads' states.
TypeOK ==
    /\ task \in [Tasks -> Task]
    /\ mgr \in Manager
    /\ ref \in [Refs -> Tasks \cup {NoTask}]
    /\ op \in [Actors -> [call : {"none", "ready", "privilege", "unprivilege"},
                          task : Tasks \cup {NoTask}]]
    /\ pc \in [Actors -> {"top", "sleep", "popped", "action", "exwait", "excheck", "exclusive",
                          "finish", "tail", "requeue", "exit",
                          "free", "pausewait", "pausecheck", "join", "gone"}]
    /\ wtask \in [Workers -> Tasks \cup {NoTask}]
    /\ count \in [Workers -> 0 .. Quantum]

Holding(t, labels) == {w \in Workers : wtask[w] = t /\ pc[w] \in labels}

Acting == {"action", "exwait", "excheck", "exclusive"}

\* "We've changed the state to ready, so no one else will be trying to add this
\* task to the ready queue" (isc__task_send): a ready task is in exactly one
\* place (on the queue once, in the hands of one caller of task_ready(), or with
\* one worker), a running task is run by exactly one worker, a done task is
\* freed by exactly one, and no task in another state is in any of those places.
\* The priority queue holds exactly the privileged tasks of the ready queue, in
\* the same order: pop_readyq() and push_readyq() keep the two in step.
OneCustodian ==
    /\ \A t \in Tasks :
          LET places == Cardinality({i \in DOMAIN mgr.ready_tasks : mgr.ready_tasks[i] = t})
                        + Cardinality({a \in Actors : op[a] = [call |-> "ready", task |-> t]})
                        + Cardinality(Holding(t, {"popped", "requeue"}))
          IN  /\ places = IF task[t].state = "ready" THEN 1 ELSE 0
              /\ Cardinality(Holding(t, Acting)) = IF task[t].state = "running" THEN 1 ELSE 0
              /\ Cardinality(Holding(t, {"finish"})) = IF task[t].state = "done" THEN 1 ELSE 0
    /\ InStep(mgr.ready_tasks, mgr.ready_priority_tasks)
    /\ \A t \in Tasks : On(mgr.ready_priority_tasks, t) <=>
                           On(mgr.ready_tasks, t) /\ task[t].privileged

\* isc_task_beginexclusive() returns only when every other worker has finished
\* its task, and none starts another before isc_task_endexclusive().
ExclusiveAlone ==
    \A w \in Workers : pc[w] = "exclusive" =>
        \A v \in Workers \ {w} : pc[v] \in {"top", "sleep", "exit"}

\* A task is freed without events, shutdown events or references, and only after
\* it was shut down (the REQUIREs of task_finished()); a task that is not queued
\* anywhere can still be reached, with a reference and no events, or nobody would
\* ever run or free it; and no pointer outlives its task: not those the program
\* holds, not those on the queues, not the one a caller is about to pass to
\* push_readyq(), and the manager goes last.
FreedOnce ==
    /\ TypeOK
    /\ \A w \in Workers : pc[w] = "finish" =>
          LET k == task[wtask[w]]
          IN  /\ References(wtask[w]) = 0 /\ k.state = "done"
              /\ k.nevents = 0 /\ k.on_shutdown = 0 /\ k.shuttingdown
    /\ \A t \in Tasks : task[t].state = "idle" => References(t) > 0 /\ task[t].nevents = 0
    /\ \A r \in Refs : ref[r] # NoTask => task[ref[r]].state \notin {"none", "done"}
    /\ \A a \in Actors : op[a].call # "none" => op[a].task \in Live
    /\ \A i \in DOMAIN mgr.ready_tasks : mgr.ready_tasks[i] \in Live
    /\ (\E c \in Clients : pc[c] = "gone") => Live = {}

\* No wakeup is lost: while dispatching is allowed and a worker sleeps, there
\* are at least as many awake workers on their way to the queue as tasks on it.
WorkConserving ==
    (/\ Sleeping(pc) # {} /\ ~mgr.pause_requested /\ ~mgr.exclusive_requested)
    => Cardinality({w \in Workers : pc[w] = "top"}) >= Len(readyq(mgr))

\* "only tasks with the flag set will be executed, and all other tasks will wait
\* until they're done" (task.h): dispatch() leaves privileged mode only when no
\* privileged task is queued and no worker has a task.
PrivilegedDone ==
    [][(mgr.mode = "privileged" /\ mgr'.mode = "normal" /\ ~mgr'.exiting)
       => /\ mgr.ready_priority_tasks = <<>>
          /\ \E w \in Workers : \A v \in Workers \ {w} : wtask[v] = NoTask]_vars

\* Every task made ready is taken off the queue and run.
ReadyRuns == \A t \in Tasks : task[t].state = "ready" ~> task[t].state # "ready"

\* A request for exclusive access is granted.
ExclusiveGranted ==
    \A w \in Workers : pc[w] \in {"exwait", "excheck"} ~> pc[w] = "exclusive"

\* isc__taskmgr_destroy() returns once the program has dropped its references.
DestroyReturns == \A c \in Clients : pc[c] = "join" ~> pc[c] = "gone"
=============================================================================
