------------------------------- MODULE Request -------------------------------
(***************************************************************************)
(* Requests (lib/dns/request.c) on a dispatch (module Dispatch), with the  *)
(* request manager.  A request's events are handled one at a time by its   *)
(* task, in the order of queue[r], each under the request's lock; calls of *)
(* the dispatch made under that lock belong to the same step, since they   *)
(* only meet steps of the dispatch, with which the rest of the handler     *)
(* commutes.  A request is created by code that runs in its task (zone.c,  *)
(* client.c), so its events wait until dns_request_create*() has returned; *)
(* the manager may be shut down between any two locks it takes.            *)
(*                                                                         *)
(* sock models the interface of isc/socket.h as request.c uses it: a       *)
(* connect or send completes at once or is pending; a pending one          *)
(* completes later or is canceled, together with everybody else's on the   *)
(* same socket (isc_socket_cancel() is called with no task).               *)
(***************************************************************************)
EXTENDS Dispatch

CONSTANTS
  Resends,   \* udpretries of a request
  Blocks,    \* the kinds of dispatch on whose sockets a send may not complete at once
  MaxUpsets, \* bound: a shutdown, cancels, timeouts, errors, stray or repeated answers in a behaviour
  CreateKinds \* the kinds of dispatch that exist

VARIABLES req, mgr, sock

vars == <<disp, queue, req, mgr, sock>>

Requests == Entries

Results == {"ok", "canceled", "timedout", "error", "unexpected"}

NewRequest ==
  [pc |-> "new", linked |-> FALSE, connected |-> FALSE,
   connecting |-> FALSE, sending |-> FALSE, canceled |-> FALSE, timedout |-> FALSE,
   canceling |-> FALSE, result |-> "none", dispentry |-> FALSE, dispatch |-> FALSE,
   timer |-> FALSE, udpcount |-> Resends, expired |-> FALSE]

\* Whoever creates the manager asks at once to be told of its shutdown
\* (dns_requestmgr_whenshutdown(), as dns_view_createresolver() does).
Init ==
  /\ \E kind \in CreateKinds : disp = DispInit(kind)
  /\ queue = [r \in Requests |-> <<>>]
  /\ req = [r \in Requests |-> NewRequest]
  /\ mgr = [eref |-> 1, iref |-> 0, exiting |-> FALSE, walk |-> {}, locked |-> FALSE,
            when |-> "waiting", freed |-> FALSE]
  /\ sock = [upsets |-> 0, conn |-> "idle", sending |-> {}, connecting |-> {}]

Now == [disp |-> disp, queue |-> queue, req |-> req, mgr |-> mgr, sock |-> sock]

Become(s) ==
  /\ disp' = s.disp /\ queue' = s.queue /\ req' = s.req
  /\ mgr' = s.mgr /\ sock' = s.sock

Tcp == disp.kind = "tcp"

CanUpset(s) == s.sock.upsets < MaxUpsets

Upset(s) == [s EXCEPT !.sock.upsets = @ + 1]

-----------------------------------------------------------------------------
\* The socket.

SockEvent(type, res) == [type |-> type, res |-> res]

\* isc_socket_cancel(sock, NULL, how) by r.
SocketCancelSend(s, rs) ==
  [s EXCEPT !.sock.sending = @ \ rs,
            !.queue = [x \in Requests |->
               IF x \in rs \cap s.sock.sending THEN Append(@[x], SockEvent("senddone", "canceled"))
               ELSE @[x]]]

SocketCancelConnect(s) ==
  [s EXCEPT !.sock.connecting = {}, !.sock.conn = IF @ = "connecting" THEN "idle" ELSE @,
            !.queue = [x \in Requests |->
               IF x \in s.sock.connecting THEN Append(@[x], SockEvent("connected", "canceled"))
               ELSE @[x]]]

\* isc_socket_sendto2(): done at once, well or badly, or left pending.
SocketSend(s, r) ==
  {Send(s, r, SockEvent("senddone", "ok"))}
  \cup {Send(t, r, SockEvent("senddone", "error")) : t \in IF CanUpset(s) THEN {Upset(s)} ELSE {}}
  \cup {[t EXCEPT !.sock.sending = @ \cup {r}] : t \in IF s.disp.kind \in Blocks THEN {s} ELSE {}}

\* isc_socket_connect(): pending; a refusal at once looks like one later.
SocketConnect(s, r) == [s EXCEPT !.sock.conn = "connecting", !.sock.connecting = {r}]

\* The watcher finds the socket writable, or connected, or failed.
SocketSent(r) ==
  /\ r \in sock.sending
  /\ LET s == [Now EXCEPT !.sock.sending = @ \ {r}]
     IN \/ Become(Send(s, r, SockEvent("senddone", "ok")))
        \/ CanUpset(s) /\ Become(Send(Upset(s), r, SockEvent("senddone", "error")))

SocketConnected(r) ==
  /\ r \in sock.connecting
  /\ LET s == [Now EXCEPT !.sock.connecting = {}]
     IN \/ Become(Send([s EXCEPT !.sock.conn = "up"], r, SockEvent("connected", "ok")))
        \/ /\ CanUpset(s)
           /\ Become(Send(Upset([s EXCEPT !.sock.conn = "idle"]), r, SockEvent("connected", "error")))

\* What can arrive on socket x: the answer to a request, a second one, something
\* that matches no entry, or a failure (end of file included).
SocketReceived(x) ==
  /\ disp.rx[x] = "armed"
  /\ \/ \E r \in disp.entries \ disp.item_out :
           /\ req[r].pc = "live" /\ x \in {Shared, r}
           /\ Tcp => sock.conn = "up"
           /\ Become([Now EXCEPT !.disp.rx[x] = r])
     \/ \E a \in {"junk", "error"} \cup {r \in disp.item_out : x \in {Shared, r}} :
           /\ CanUpset(Now)
           /\ Tcp /\ sock.conn # "up" => a = "error"
           /\ a \in Entries => Len(disp.items[a]) < MaxItems
           /\ Become([Upset(Now) EXCEPT !.disp.rx[x] = a])

\* The dispatch's tasks.
DispatchReceive(x) ==
  /\ disp.rx[x] \notin {"none", "armed"}
  /\ \E s \in Receive(Now, x) : Become(s)

DispatchControl ==
  /\ disp.ctl = "sent"
  /\ Become(destroy_disp(Now))

-----------------------------------------------------------------------------
\* Slip: the completion event is sent although a cancelation is under way.
send_at_once(s, r, result) ==
  IF s.req[r].result = "none"
  THEN Send([s EXCEPT !.req[r].result = result], r, [type |-> "done"])
  ELSE s

send_if_done(s, r, result) ==
  IF s.req[r].result = "none" /\ ~s.req[r].canceling
  THEN Send([s EXCEPT !.req[r].result = result], r, [type |-> "done"])
  ELSE s

\* Slip: a send or connect that is pending is left to itself.
cancel_lazily(s, r) ==
  LET t == [s EXCEPT !.req[r].canceled = TRUE, !.req[r].timer = FALSE,
                     !.queue[r] = SelectSeq(@, LAMBDA ev : ev.type # "timer")]
  IN {[Detach(u) EXCEPT !.req[r].dispatch = FALSE] :
        u \in IF s.req[r].dispentry
              THEN removeresponse([t EXCEPT !.req[r].dispentry = FALSE], r, {})
              ELSE {t}}

\* isc_timer_detach() takes back the timer's events.
req_cancel(s, r) ==
  LET q  == s.req[r]
      onsock == IF s.disp.kind # "ex" THEN Requests
                ELSE IF q.dispentry /\ r \in s.disp.dispsocket THEN {r} ELSE {}
      t1 == [s EXCEPT !.req[r].canceled = TRUE, !.req[r].timer = FALSE,
                      !.queue[r] = SelectSeq(@, LAMBDA ev : ev.type # "timer")]
      t2 == IF q.connecting THEN SocketCancelConnect(t1) ELSE t1
      t3 == IF q.sending THEN SocketCancelSend(t2, onsock) ELSE t2
  IN {[Detach(u) EXCEPT !.req[r].dispatch = FALSE] :
        u \in IF q.dispentry
              THEN removeresponse([t3 EXCEPT !.req[r].dispentry = FALSE], r, {})
              ELSE {t3}}

\* req_cancel() and send_if_done().
Stop(s, r, result) == {send_if_done(t, r, result) : t \in req_cancel(s, r)}

req_send(s, r) == SocketSend([s EXCEPT !.req[r].sending = TRUE], r)

-----------------------------------------------------------------------------
\* The manager.

send_shutdown_events(s) == [s EXCEPT !.mgr.when = IF @ = "waiting" THEN "sent" ELSE @]

\* mgr_destroy(): the manager's own reference to a UDP dispatch goes.
mgr_destroy(s) ==
  LET t == [s EXCEPT !.mgr.freed = TRUE]
  IN IF s.disp.kind = "tcp" THEN t ELSE Detach(t)

requestmgr_detach(s) ==
  LET t == [s EXCEPT !.mgr.iref = @ - 1]
  IN IF t.mgr.iref = 0 /\ t.mgr.exiting
     THEN LET u == send_shutdown_events(t) IN IF u.mgr.eref = 0 THEN mgr_destroy(u) ELSE u
     ELSE t

\* dns_request_cancel() from any thread.
request_cancel(s, r) ==
  IF s.req[r].canceling \/ s.req[r].canceled THEN s
  ELSE Send([s EXCEPT !.req[r].canceling = TRUE], r, [type |-> "control"])

\* mgr_shutdown(): with the manager locked, the requests are canceled one by one.
RequestmgrShutdown ==
  /\ ~mgr.locked /\ mgr.eref > 0 /\ ~mgr.exiting /\ CanUpset(Now)
  /\ Become([Upset(Now) EXCEPT !.mgr.exiting = TRUE, !.mgr.locked = TRUE,
                        !.mgr.walk = {r \in Requests : req[r].linked}])

ShutdownCancels(r) ==
  /\ r \in mgr.walk
  /\ Become([request_cancel(Now, r) EXCEPT !.mgr.walk = @ \ {r}])

ShutdownReturns ==
  /\ mgr.locked /\ mgr.walk = {}
  /\ LET s == [Now EXCEPT !.mgr.locked = FALSE]
     IN Become(IF mgr.iref = 0 THEN send_shutdown_events(s) ELSE s)

\* dns_requestmgr_detach(), after the shutdown, by an owner that creates no more.
RequestmgrDetach ==
  /\ mgr.eref > 0 /\ mgr.exiting /\ ~mgr.locked
  /\ \A r \in Requests : req[r].pc \notin {"got", "added"}
  /\ LET s == [Now EXCEPT !.mgr.eref = @ - 1]
     IN Become(IF s.mgr.eref = 0 /\ s.mgr.iref = 0 THEN mgr_destroy(s) ELSE s)

-----------------------------------------------------------------------------
\* dns_request_create*(), one step per lock.

\* get_dispatch(): the manager's UDP dispatch, a TCP dispatch that is connected
\* (dns_dispatch_gettcp()), or a new one.
GetDispatch(r) ==
  /\ req[r].pc = "new" /\ mgr.eref > 0
  /\ LET s == [Now EXCEPT !.req[r].pc = "got", !.req[r].dispatch = TRUE]
         found == disp.connected /\ ~disp.shutting_down /\ sock.conn = "up"
     IN \/ ~Tcp /\ Become(Attach(s))
        \/ Tcp /\ found /\ Become(Attach([s EXCEPT !.req[r].connected = TRUE]))
        \/ /\ Tcp /\ \A x \in Requests : req[x].pc = "new"
           /\ Become([s EXCEPT !.disp.refcount = 1])

\* req_destroy() of a request that was never linked.
Cleanup(s, r) ==
  LET q == s.req[r]
  IN {[Detach(t) EXCEPT !.req[r].dispatch = FALSE, !.req[r].pc = "gone"] :
        t \in IF q.dispentry
              THEN removeresponse([s EXCEPT !.req[r].dispentry = FALSE], r, {}) ELSE {s}}

AddResponse(r) ==
  /\ req[r].pc = "got"
  /\ LET a == addresponse(Now, r)
     IN IF a.ok THEN Become([a.s EXCEPT !.req[r].pc = "added", !.req[r].dispentry = TRUE])
        ELSE \E s \in Cleanup(a.s, r) : Become(s)

\* The message cannot be rendered, or does not fit and goes to another dispatch.
RenderFails(r) ==
  /\ req[r].pc = "added" /\ CanUpset(Now)
  /\ \E s \in Cleanup(Upset(Now), r) : Become(s)

Link(r) ==
  /\ req[r].pc = "added" /\ ~mgr.locked
  /\ IF mgr.exiting THEN \E s \in Cleanup(Now, r) : Become(s)
     ELSE Become([Now EXCEPT !.mgr.iref = @ + 1,
                             !.req[r].pc = "linked", !.req[r].linked = TRUE])

\* set_timer(), then connect or send.
Start(r) ==
  /\ req[r].pc = "linked"
  /\ LET s == [Now EXCEPT !.req[r].pc = "live", !.req[r].timer = TRUE]
     IN IF Tcp /\ ~req[r].connected
        THEN Become([SocketConnect(s, r) EXCEPT !.req[r].connecting = TRUE])
        ELSE \E t \in req_send(s, r) : Become(t)

\* The owner of a request cancels it.
RequestCancel(r) ==
  /\ req[r].pc = "live" /\ CanUpset(Now)
  /\ Become(request_cancel(Upset(Now), r))

\* The timer of a request: ticks of a UDP request that is to be resent, then the end.
TimerFires(r) ==
  /\ req[r].timer /\ req[r].pc = "live" /\ CanUpset(Now)
  /\ \/ /\ ~Tcp /\ Resends > 0
        /\ Become(Send(Upset(Now), r, [type |-> "timer", res |-> "tick"]))
     \/ /\ ~req[r].expired
        /\ Become(Send([Upset(Now) EXCEPT !.req[r].expired = TRUE], r,
                       [type |-> "timer", res |-> "life"]))

-----------------------------------------------------------------------------
\* The handlers, in the request's task.  Take(r) is the state without the event.

Event(r) == Head(queue[r])

Ready(r, type) == req[r].pc = "live" /\ queue[r] # <<>> /\ Event(r).type = type

Take(r) == [Now EXCEPT !.queue[r] = Tail(@)]

DelayedResult(r) == IF req[r].timedout THEN "timedout" ELSE "canceled"

Connected(r) ==
  /\ Ready(r, "connected")
  /\ LET s == [Take(r) EXCEPT !.req[r].connecting = FALSE]
     IN IF req[r].canceled THEN Become(send_if_done(s, r, DelayedResult(r)))
        ELSE IF Event(r).res = "ok" THEN \E t \in req_send(starttcp(s), r) : Become(t)
        ELSE \E t \in Stop(starttcp(s), r, "canceled") : Become(t)

SendDone(r) ==
  /\ Ready(r, "senddone")
  /\ LET s == [Take(r) EXCEPT !.req[r].sending = FALSE]
     IN IF req[r].canceled THEN Become(send_if_done(s, r, DelayedResult(r)))
        ELSE IF Event(r).res = "ok" THEN Become(s)
        ELSE \E t \in Stop(s, r, "canceled") : Become(t)

Response(r) ==
  /\ Ready(r, "dispatch")
  /\ \E s \in removeresponse([Take(r) EXCEPT !.req[r].dispentry = FALSE], r, {Event(r)}) :
       \E t \in Stop(s, r, Event(r).res) : Become(t)

Timeout(r) ==
  /\ Ready(r, "timer")
  /\ LET s == [Take(r) EXCEPT !.req[r].udpcount =
                 IF Event(r).res = "tick" /\ @ > 0 THEN @ - 1 ELSE @]
     IN IF Event(r).res = "tick" /\ req[r].udpcount # 0
        THEN IF req[r].sending THEN Become(s) ELSE \E t \in req_send(s, r) : Become(t)
        ELSE \E t \in Stop([s EXCEPT !.req[r].timedout = TRUE], r, "timedout") : Become(t)

DoCancel(r) ==
  /\ Ready(r, "control")
  /\ LET s == [Take(r) EXCEPT !.req[r].canceling = FALSE]
     IN IF req[r].canceled THEN Become(send_if_done(s, r, "canceled"))
        ELSE \E t \in Stop(s, r, "canceled") : Become(t)

\* The owner gets the completion event and calls dns_request_destroy(): the
\* request is unlinked, then the manager detached.
Destroy(r) ==
  /\ Ready(r, "done") /\ ~mgr.locked
  /\ Become([Take(r) EXCEPT !.req[r].pc = "unlinked", !.req[r].linked = FALSE])

Destroyed(r) ==
  /\ req[r].pc = "unlinked" /\ ~mgr.locked
  /\ Become(requestmgr_detach([Now EXCEPT !.req[r].pc = "gone"]))

-----------------------------------------------------------------------------
Handle(r) ==
  \/ Connected(r) \/ SendDone(r) \/ Response(r) \/ Timeout(r) \/ DoCancel(r)
  \/ Destroy(r) \/ Destroyed(r)

Create(r) == GetDispatch(r) \/ AddResponse(r) \/ RenderFails(r) \/ Link(r) \/ Start(r)

Socket ==
  \/ \E r \in Requests : SocketSent(r) \/ SocketConnected(r)
  \/ \E x \in Sockets : SocketReceived(x)

DispatchTask == DispatchControl \/ \E x \in Sockets : DispatchReceive(x)

Shutdown == ShutdownReturns \/ \E r \in Requests : ShutdownCancels(r)

Manager == RequestmgrShutdown \/ RequestmgrDetach

Next ==
  \/ Socket \/ DispatchTask \/ Manager \/ Shutdown
  \/ \E r \in Requests : Create(r) \/ RequestCancel(r) \/ TimerFires(r) \/ Handle(r)

Spec == Init /\ [][Next]_vars

-----------------------------------------------------------------------------
\* When its owner gets the completion event, and so may destroy it, a request
\* has nothing outstanding: no connect, no send, no entry, no reference to the
\* dispatch, no timer (the INSISTs of dns_request_destroy(), request.c:1336-1349)
\* and no event still in its task's queue that would find it freed.
DestroyInsists ==
  \A r \in Requests :
    /\ Ready(r, "done") =>
         /\ ~req[r].connecting /\ ~req[r].sending /\ ~req[r].dispentry
         /\ ~req[r].dispatch /\ ~req[r].timer /\ Len(queue[r]) = 1
    /\ req[r].pc \in {"unlinked", "gone"} => queue[r] = <<>> /\ r \notin sock.sending

\* What request.h promises (module RequestSpec): one completion event per
\* request, saying "canceled" after dns_request_cancel() or a shutdown, none
\* created after a shutdown, and the manager down with the last of them.
Promise ==
  INSTANCE RequestSpec WITH
    st <- [r \in Requests |->
             CASE \/ req[r].pc \in {"new", "got", "added"}
                  \/ req[r].pc = "gone" /\ req[r].result = "none" -> "none"
               [] req[r].pc = "gone" /\ req[r].result # "none" -> "gone"
               [] req[r].pc \in {"linked", "live", "unlinked"} ->
                    IF req[r].result # "none" THEN req[r].result
                    ELSE IF req[r].canceling THEN "canceling" ELSE "active"],
    mgrst <- CASE ~mgr.exiting \/ mgr.locked -> "up"
               [] mgr.exiting /\ ~mgr.locked ->
                    IF mgr.when = "sent" THEN "down" ELSE "closing"

ImplementsRequests == Promise!Spec

\* When a TCP connection fails, everybody who waits on it hears of it without
\* waiting for a timer: there is one failsafe event, and as long as entries are
\* left somebody has an event to handle, after which it moves on (do_cancel()
\* and removeresponse(), dispatch.c:3525-3581).  And a dispatch that nobody
\* uses is on its way to be freed: its control event has been sent, or a
\* receive has come back whose handler will send it.
FailureHeard ==
  disp.shutting_down =>
    /\ disp.entries # {} => disp.item_out # {}
    /\ disp.refcount = 0 =>
         \/ disp.ctl \in {"sent", "gone"}
         \/ \E x \in Sockets : disp.rx[x] \notin {"none", "armed"}
=============================================================================
