------------------------------- MODULE Timer -------------------------------
(***************************************************************************)
(* The timer manager of lib/isc/timer.c in its threaded build              *)
(* (USE_TIMER_THREAD): timers on a heap ordered by due time, the thread    *)
(* that posts their events, and the calls that create, reset, touch,       *)
(* attach, detach and destroy.                                             *)
(*                                                                         *)
(* The thread holds the manager's lock except while it waits, so the       *)
(* calls that take that lock happen while it is in WAIT or WAITUNTIL or on *)
(* its way back; isc_timer_touch() and the count of references use the     *)
(* timer's own lock and may come in the middle of dispatch().  A call      *)
(* reads the clock before it gets the manager's lock, hence up to Lag      *)
(* ticks early.  Time 0 is the epoch, which stands for "not set".          *)
(***************************************************************************)
EXTENDS Integers, FiniteSets, FiniteSetsExt

CONSTANTS
    Timers,     \* the memory a timer may be allocated in
    Args,       \* the type, expires and interval each is given by create and reset
    MaxTime,    \* the clock stops here
    MaxRefs,    \* bound on timer->references
    Lag,        \* how many ticks a caller may wait for the manager's lock
    Fifteen     \* the slack of the watchdog in schedule()

Types == {"inactive", "ticker", "once", "limited"}

\* The REQUIREs of isc__timer_create() and isc__timer_reset(); a ticker needs
\* an interval for time to pass between its ticks.
ASSUME TimerAssumption ==
    /\ MaxTime \in Nat \ {0} /\ MaxRefs \in Nat \ {0} /\ Lag \in Nat /\ Fifteen \in Nat
    /\ \A tm \in Timers : \A x \in Args[tm] :
          /\ x.type \in Types /\ x.expires \in Nat /\ x.interval \in Nat
          /\ x.type # "inactive" => x.expires # 0 \/ x.interval # 0
          /\ x.type = "limited" => x.expires # 0 /\ x.interval # 0
          /\ x.type = "ticker" => x.interval # 0

VARIABLES
    timer,      \* struct isc__timer of every tm \in Timers
    pending,    \* the timers with an event on their task's queue
    clock,
    done, due,  \* manager->done, manager->due
    now,        \* run(): now
    pc,         \* where the timer thread is
    chosen,     \* dispatch(): timer and type
    mgr         \* "up", "joining" or "gone": isc__timermgr_destroy()

vars == <<timer, pending, clock, done, due, now, pc, chosen, mgr>>

Free == [type |-> "none", expires |-> 0, interval |-> 0, idle |-> 0,
         due |-> 0, scheduled |-> FALSE, references |-> 0]

Scheduled == {tm \in Timers : timer[tm].scheduled}

EarliestOf(S) == Min({timer[tm].due : tm \in S})

\* Whether tm, due at d, has index 1 in the heap; of equals any may.
AtHead(tm, d) ==
    LET others == Scheduled \ {tm}
    IN  IF others = {} \/ d < EarliestOf(others) THEN {TRUE}
        ELSE IF d = EarliestOf(others) THEN BOOLEAN ELSE {FALSE}

Init ==
    /\ timer = [tm \in Timers |-> Free]
    /\ pending = {}
    /\ clock = 1 /\ now = 0
    /\ done = FALSE /\ due = 0
    /\ pc = "run" /\ chosen = <<>> /\ mgr = "up"

-----------------------------------------------------------------------------
\* SIGNAL(&manager->wakeup)
Signalled(p) == IF p \in {"wait", "timedwait"} THEN "run" ELSE p

\* The due time schedule() computes for k at time n
DueTime(k, n) ==
    CASE k.type = "ticker"  -> n + k.interval
      [] k.type = "limited" -> Min({n + k.interval, k.expires})
      [] OTHER -> IF k.idle = 0 THEN k.expires
                  ELSE IF k.expires = 0 THEN k.idle ELSE Min({k.idle, k.expires})

\* Slip: only the watchdog wakes the thread.
MustWakeLate(head, n) == Scheduled # {} /\ due # 0 /\ due + Fifteen < n

\* Whether schedule(), given a head of the heap, wakes the thread: for a new
\* head, and as a watchdog when the thread is long overdue.
MustWake(head, n) ==
    head \/ (Scheduled # {} /\ due # 0 /\ due + Fifteen < n)

\* schedule(timer, &now, ISC_TRUE) of the timer whose new fields are k
Schedule(tm, k, n) ==
    LET d == DueTime(k, n)
    IN  /\ timer' = [timer EXCEPT ![tm] = [k EXCEPT !.due = d, !.scheduled = TRUE]]
        /\ \E head \in AtHead(tm, d) :
              pc' = IF MustWake(head, n) THEN Signalled(pc) ELSE pc

\* deschedule() of the timer, which becomes k
Deschedule(tm, k) ==
    /\ timer' = [timer EXCEPT ![tm] = [k EXCEPT !.scheduled = FALSE]]
    /\ IF timer[tm].scheduled
       THEN \E head \in AtHead(tm, timer[tm].due) : pc' = IF head THEN Signalled(pc) ELSE pc
       ELSE UNCHANGED pc

-----------------------------------------------------------------------------
(* The program's calls                                                     *)

LockFree == pc \notin {"dispatch", "post"}

Known(tm) == timer[tm].references > 0

\* TIME_NOW() at the start of a call that then waits for the lock
CallTimes == Max({1, clock - Lag}) .. clock

\* The fields of k after a call with the argument x at time n; only a once
\* timer has an idle time.
Configured(k, x, n) ==
    [k EXCEPT !.type = x.type, !.expires = x.expires, !.interval = x.interval,
              !.idle = IF x.type = "once" /\ x.interval # 0 THEN n + x.interval ELSE 0]

\* The end of create and reset: a timer that becomes inactive leaves the heap.
Install(tm, k, n) ==
    IF k.type = "inactive" THEN Deschedule(tm, k) ELSE Schedule(tm, k, n)

\* isc__timer_create()
Create(tm, x) ==
    /\ LockFree /\ mgr = "up" /\ timer[tm].type = "none"
    /\ \E n \in CallTimes : Install(tm, Configured([Free EXCEPT !.references = 1], x, n), n)
    /\ UNCHANGED <<pending, clock, done, due, now, chosen, mgr>>

\* isc__timer_reset()
Reset(tm, x, purge) ==
    /\ LockFree /\ Known(tm)
    /\ \E n \in CallTimes : Install(tm, Configured(timer[tm], x, n), n)
    /\ pending' = IF purge THEN pending \ {tm} ELSE pending
    /\ UNCHANGED <<clock, done, due, now, chosen, mgr>>

\* isc__timer_touch(), under the timer's lock only
Touch(tm) ==
    /\ Known(tm) /\ timer[tm].type = "once"
    /\ timer' = [timer EXCEPT ![tm].idle = clock + timer[tm].interval]
    /\ UNCHANGED <<pending, clock, done, due, now, pc, chosen, mgr>>

\* isc__timer_attach()
Attach(tm) ==
    /\ Known(tm) /\ timer[tm].references < MaxRefs
    /\ timer' = [timer EXCEPT ![tm].references = @ + 1]
    /\ UNCHANGED <<pending, clock, done, due, now, pc, chosen, mgr>>

\* isc__timer_detach(); whoever drops the last reference goes on to destroy()
Detach(tm) ==
    /\ Known(tm)
    /\ timer' = [timer EXCEPT ![tm].references = @ - 1]
    /\ UNCHANGED <<pending, clock, done, due, now, pc, chosen, mgr>>

\* destroy(): the timer's events are purged and it leaves the heap.
Destroy(tm) ==
    /\ LockFree /\ timer[tm].type # "none" /\ timer[tm].references = 0
    /\ Deschedule(tm, Free)
    /\ pending' = pending \ {tm}
    /\ UNCHANGED <<clock, done, due, now, chosen, mgr>>

\* Slip: the thread is not woken.
DestroyManagerQuiet ==
    /\ LockFree /\ mgr = "up" /\ \A tm \in Timers : timer[tm].type = "none"
    /\ done' = TRUE /\ mgr' = "joining"
    /\ UNCHANGED <<timer, pending, clock, due, now, chosen, pc>>

\* isc__timermgr_destroy(): "REQUIRE(EMPTY(manager->timers))"
DestroyManager ==
    /\ LockFree /\ mgr = "up" /\ \A tm \in Timers : timer[tm].type = "none"
    /\ done' = TRUE /\ mgr' = "joining"
    /\ pc' = Signalled(pc)
    /\ UNCHANGED <<timer, pending, clock, due, now, chosen>>

Join ==
    /\ mgr = "joining" /\ pc = "exit"
    /\ mgr' = "gone"
    /\ UNCHANGED <<timer, pending, clock, done, due, now, chosen, pc>>

-----------------------------------------------------------------------------
(* The timer thread: run() and dispatch()                                  *)

\* The loop of run(), up to the call of dispatch()
Run ==
    /\ pc = "run"
    /\ \/ done /\ pc' = "exit" /\ UNCHANGED now
       \/ ~done /\ pc' = "dispatch" /\ now' = clock
    /\ UNCHANGED <<timer, pending, clock, done, due, chosen, mgr>>

\* dispatch() has nothing left to do now, and run() waits.
Wait ==
    /\ pc = "dispatch"
    /\ \/ Scheduled = {} /\ pc' = "wait" /\ UNCHANGED due
       \/ /\ Scheduled # {} /\ EarliestOf(Scheduled) > now
          /\ due' = EarliestOf(Scheduled)
          /\ pc' = "timedwait"
    /\ now' = 0
    /\ UNCHANGED <<timer, pending, clock, done, chosen, mgr>>

EventTypes == {"tick", "life", "idle", "none"}

\* Slip: an idle timer must be past its idle time, not at it.
EventOfStrict(k) ==
    CASE k.type = "ticker" -> "tick"
      [] k.type = "limited" -> IF now >= k.expires THEN "life" ELSE "tick"
      [] OTHER -> IF k.expires # 0 /\ now >= k.expires THEN "life"
                  ELSE IF k.idle # 0 /\ now > k.idle THEN "idle" ELSE "none"

\* The event dispatch() posts for a timer that is due, or "none" for an idle
\* timer that has been touched
EventOf(k) ==
    CASE k.type = "ticker" -> "tick"
      [] k.type = "limited" -> IF now >= k.expires THEN "life" ELSE "tick"
      [] OTHER -> IF k.expires # 0 /\ now >= k.expires THEN "life"
                  ELSE IF k.idle # 0 /\ now >= k.idle THEN "idle" ELSE "none"

\* One round of dispatch() for a timer at the head of the heap.  The timer's
\* lock, held while the idle time is compared, is released before the post.
Choose(tm) ==
    /\ pc = "dispatch" /\ tm \in Scheduled
    /\ timer[tm].due = EarliestOf(Scheduled) /\ timer[tm].due <= now
    /\ chosen' = <<tm, EventOf(timer[tm])>>
    /\ pc' = "post"
    /\ UNCHANGED <<timer, pending, clock, done, due, now, mgr>>

\* The rest of the round: the event is posted, and a timer that goes on is
\* scheduled again, without a signal.
Post(tm, event) ==
    /\ pc = "post" /\ chosen = <<tm, event>>
    /\ pending' = IF event = "none" THEN pending ELSE pending \cup {tm}
    /\ timer' = IF event \in {"tick", "none"}
                THEN [timer EXCEPT ![tm].due = DueTime(timer[tm], now)]
                ELSE [timer EXCEPT ![tm].scheduled = FALSE]
    /\ pc' = "dispatch" /\ chosen' = <<>>
    /\ UNCHANGED <<clock, done, due, now, mgr>>

\* WAITUNTIL(&manager->wakeup, &manager->lock, &manager->due) times out.
Timeout ==
    /\ pc = "timedwait" /\ clock >= due
    /\ pc' = "run"
    /\ UNCHANGED <<timer, pending, clock, done, due, now, chosen, mgr>>

\* isc_timermgr_poke(), or a wakeup without a cause
SpuriousWakeup ==
    /\ pc \in {"wait", "timedwait"}
    /\ pc' = "run"
    /\ UNCHANGED <<timer, pending, clock, done, due, now, chosen, mgr>>

Tick ==
    /\ clock < MaxTime
    /\ clock' = clock + 1
    /\ UNCHANGED <<timer, pending, done, due, now, pc, chosen, mgr>>

\* The task takes the last event of the timer off its queue.
Deliver(tm) ==
    /\ tm \in pending
    /\ pending' = pending \ {tm}
    /\ UNCHANGED <<timer, clock, done, due, now, pc, chosen, mgr>>

ThreadStep ==
    \/ Run \/ Wait \/ Timeout
    \/ \E tm \in Timers : Choose(tm) \/ \E event \in EventTypes : Post(tm, event)

Next ==
    \/ ThreadStep \/ SpuriousWakeup \/ Tick \/ DestroyManager \/ Join
    \/ \E tm \in Timers :
          \/ \E x \in Args[tm] : Create(tm, x) \/ \E purge \in BOOLEAN : Reset(tm, x, purge)
          \/ Touch(tm) \/ Attach(tm) \/ Detach(tm) \/ Destroy(tm) \/ Deliver(tm)

Spec == Init /\ [][Next]_vars

\* The timer thread keeps running and time passes.
FairSpec == Spec /\ WF_vars(ThreadStep) /\ WF_vars(Tick) /\ WF_vars(Join)

-----------------------------------------------------------------------------
(* Properties                                                              *)

\* The types of struct isc__timer, of the manager and of the thread.
TypeOK ==
    /\ timer \in [Timers -> [type : Types \cup {"none"}, expires : Nat, interval : Nat,
                             idle : Nat, due : Nat, scheduled : BOOLEAN, references : 0 .. MaxRefs]]
    /\ pending \subseteq Timers
    /\ clock \in 1 .. MaxTime /\ now \in Nat /\ due \in Nat /\ done \in BOOLEAN
    /\ pc \in {"run", "dispatch", "post", "wait", "timedwait", "exit"}
    /\ chosen \in {<<>>} \cup (Timers \X EventTypes)
    /\ mgr \in {"up", "joining", "gone"}

\* "We need to ensure that we won't miss it": while the thread waits without a
\* wakeup on its way, no timer is due before the time it waits for; what is on
\* the heap is active, as dispatch() asserts; and a freed timer neither is there
\* nor has an event on its task's queue.
NoMissedTimer ==
    /\ TypeOK
    /\ pc = "wait" => Scheduled = {}
    /\ pc = "timedwait" => \A tm \in Scheduled : due <= timer[tm].due
    /\ \A tm \in Scheduled : timer[tm].type \notin {"inactive", "none"}
    /\ \A tm \in pending : timer[tm].type # "none"

\* A timer that is due is dispatched, unless it is reset or destroyed first.
TimerFires ==
    \A tm \in Timers :
        (timer[tm].scheduled /\ timer[tm].due <= clock)
        ~> (~timer[tm].scheduled \/ timer[tm].due > clock)

\* isc__timermgr_destroy() returns.
DestroyReturns == mgr = "joining" ~> mgr = "gone"
=============================================================================
