------------------------------ MODULE Dispatch ------------------------------
(***************************************************************************)
(* A dispatch of lib/dns/dispatch.c: the object that owns a socket, or a   *)
(* socket per query, and hands the answers to the entries that wait for    *)
(* them.  disp.kind is "tcp", "udp" (one shared socket) or "ex" (UDP with  *)
(* an exclusive socket per entry) and does not change.                     *)
(*                                                                         *)
(* Every operation runs under the dispatch's lock and is one operator on a *)
(* record s that has at least the fields disp and queue, so that a caller  *)
(* that makes several calls in one critical section of its own composes    *)
(* them.  An operator that makes a choice yields a set of records.         *)
(*                                                                         *)
(* queue[e] is the event queue of the task of entry e.  disp.rx[x] is the  *)
(* receive on the shared socket or on the socket of entry x: "none",       *)
(* "armed" (pending in the socket), or the result of one that is done and  *)
(* whose event waits in the dispatch's task.  recv_pending is              *)
(* rx[Shared] # "none", requests is the number of entries.                 *)
(***************************************************************************)
EXTENDS Integers, Sequences, FiniteSets, FiniteSetsExt

CONSTANTS
  Entries,      \* the users' entries; an entry is used once
  Shared,       \* names the dispatch's own socket among the sockets
  MaxRequests,  \* disp->maxrequests
  SocksQuota,   \* DNS_DISPATCH_SOCKSQUOTA
  PoolSocks,    \* DNS_DISPATCH_POOLSOCKS
  MaxBuffers,   \* mgr->maxbuffers, for each kind
  MaxItems      \* bound: answers queued behind one that is out

VARIABLES disp, queue

ASSUME DispatchAssumption ==
  /\ Shared \notin Entries
  /\ PoolSocks \in Nat /\ SocksQuota \in Nat /\ PoolSocks <= SocksQuota

Sockets == Entries \cup {Shared}

Kinds == {"tcp", "udp", "ex"}

\* What a receive can end with.
RecvResults == Entries \cup {"junk", "error", "canceled"}

\* A DNS_EVENT_DISPATCH event; fs marks the failsafe event, buf a buffer.
DispatchEvent(res, buf, fs) == [type |-> "dispatch", res |-> res, buf |-> buf, fs |-> fs]

IsDispatch(ev) == ev.type = "dispatch"

DispInit(kind) ==
  [kind |-> kind, refcount |-> IF kind = "tcp" THEN 0 ELSE 1,
   shutting_down |-> FALSE, shutdown_why |-> "unexpected", shutdown_out |-> FALSE,
   connected |-> FALSE, ctl |-> "idle",
   entries |-> {}, item_out |-> {}, items |-> [e \in Entries |-> <<>>],
   active |-> <<>>, nsockets |-> 0, resp |-> {}, dispsocket |-> {},
   rx |-> [x \in Sockets |-> "none"]]

-----------------------------------------------------------------------------
\* isc_task_send() to the task of e.
Send(s, e, ev) == [s EXCEPT !.queue[e] = Append(@, ev)]

Count(seq, Test(_)) == Cardinality({i \in DOMAIN seq : Test(seq[i])})

HasBuffer(ev) == IsDispatch(ev) /\ ev.buf

\* mgr->buffers: UDP receives and the events that carry their buffers.
Buffers(s) ==
  IF s.disp.kind = "tcp" THEN 0
  ELSE Cardinality({x \in Sockets : s.disp.rx[x] # "none"})
       + MapThenSumSet(LAMBDA e : Count(s.queue[e], HasBuffer) + Len(s.disp.items[e]), Entries)

destroy_disp_ok(d) ==
  /\ d.refcount = 0
  /\ d.rx[Shared] = "none"
  /\ d.active = <<>>
  /\ d.shutting_down

\* The end of every operation: send ctlevent to task[0].
KillIfDone(s) ==
  IF destroy_disp_ok(s.disp)
  THEN [s EXCEPT !.disp.ctl = IF @ = "idle" THEN "sent" ELSE "resent"]
  ELSE s

\* isc_socket_cancel(..., ISC_SOCKCANCEL_RECV) on each socket of xs.
CancelRecv(s, xs) ==
  [s EXCEPT !.disp.rx = [x \in Sockets |->
     IF x \in xs /\ @[x] = "armed" THEN "canceled" ELSE @[x]]]

ActiveSockets(d) == {d.active[i] : i \in DOMAIN d.active}

\* What dns_dispatch_detach() and dns_dispatch_removeresponse() share.
Deref(s) ==
  LET t == [s EXCEPT !.disp.refcount = @ - 1]
  IN IF t.disp.refcount = 0
     THEN CancelRecv([t EXCEPT !.disp.shutting_down = TRUE],
                     {Shared} \cup ActiveSockets(t.disp))
     ELSE t

Attach(s) == [s EXCEPT !.disp.refcount = @ + 1]

Detach(s) == KillIfDone(Deref(s))

-----------------------------------------------------------------------------
\* Slip: the failsafe event goes to an entry whose answer is still out.
cancel_any(s) ==
  IF s.disp.shutdown_out \/ s.disp.entries = {} THEN {s}
  ELSE {Send([s EXCEPT !.disp.shutdown_out = TRUE, !.disp.item_out = @ \cup {e}],
             e, DispatchEvent(s.disp.shutdown_why, FALSE, TRUE)) : e \in s.disp.entries}

\* Slip: the entries are left to their timers.
cancel_nobody(s) == {s}

\* The order of the hash table is anything, so the first entry is any entry.
do_cancel(s) ==
  LET silent == s.disp.entries \ s.disp.item_out
  IN IF s.disp.shutdown_out \/ silent = {} THEN {s}
     ELSE {Send([s EXCEPT !.disp.shutdown_out = TRUE, !.disp.item_out = @ \cup {e}],
                e, DispatchEvent(s.disp.shutdown_why, FALSE, TRUE)) : e \in silent}

\* Whether startrecv(disp, x) returns an error.
NoReceive(s, x) ==
  /\ ~s.disp.shutting_down
  /\ x = Shared => s.disp.rx[x] = "none"
  /\ Buffers(s) >= MaxBuffers[s.disp.kind]

startrecv(s, x) ==
  IF \/ s.disp.shutting_down
     \/ NoReceive(s, x)
     \/ x = Shared /\ (s.disp.rx[x] # "none" \/ s.disp.kind = "ex")
  THEN s ELSE [s EXCEPT !.disp.rx[x] = "armed"]

starttcp(s) ==
  IF s.disp.connected THEN s ELSE startrecv([s EXCEPT !.disp.connected = TRUE], Shared)

-----------------------------------------------------------------------------
\* The oldest exclusive socket is given up when there are too many of them.
KillOldest(s) ==
  LET oldest == Head(s.disp.active)
      t == IF oldest \in s.disp.resp \ s.disp.item_out
           THEN Send([s EXCEPT !.disp.item_out = @ \cup {oldest}],
                     oldest, DispatchEvent("canceled", FALSE, FALSE))
           ELSE s
  IN [t EXCEPT !.disp.active = Append(Tail(@), oldest)]

\* get_dispsocket(): one of the pool, or a new one.
get_dispsocket(s, e) ==
  [s EXCEPT !.disp.nsockets = IF @ > Len(s.disp.active) THEN @ ELSE @ + 1,
            !.disp.resp = @ \cup {e}, !.disp.dispsocket = @ \cup {e}]

\* Taken off the active list; kept in the pool if that is not full.
deactivate_dispsocket(s, e) ==
  [s EXCEPT !.disp.active = SelectSeq(@, LAMBDA x : x # e),
            !.disp.dispsocket = @ \ {e}, !.disp.resp = @ \ {e},
            !.disp.nsockets = IF @ > PoolSocks THEN @ - 1 ELSE @]

\* dns_dispatch_addresponse3(): [ok, s].
addresponse(s, e) ==
  LET ex == s.disp.kind = "ex"
      t1 == IF ex /\ s.disp.nsockets > SocksQuota THEN KillOldest(s) ELSE s
      t2 == IF ex THEN get_dispsocket(t1, e) ELSE t1
      x  == IF ex THEN e ELSE Shared
      t3 == [t2 EXCEPT !.disp.refcount = @ + 1, !.disp.entries = @ \cup {e}]
      listens == s.disp.kind # "tcp" \/ s.disp.connected
      failed == [t1 EXCEPT !.disp.nsockets =
                   IF ex /\ t2.disp.nsockets = @ THEN @ - 1 ELSE @]
  IN CASE s.disp.shutting_down \/ Cardinality(s.disp.entries) >= MaxRequests ->
            [ok |-> FALSE, s |-> s]
       [] ~(s.disp.shutting_down \/ Cardinality(s.disp.entries) >= MaxRequests)
          /\ listens /\ NoReceive(t3, x) -> [ok |-> FALSE, s |-> failed]
       [] OTHER ->
            LET t4 == IF listens THEN startrecv(t3, x) ELSE t3
            IN [ok |-> TRUE,
                s |-> IF ex THEN [t4 EXCEPT !.disp.active = Append(@, e)] ELSE t4]

\* free_devent(): the failsafe event can be sent again.
FreeEvents(s, evs) ==
  IF \E ev \in evs : ev.fs THEN [s EXCEPT !.disp.shutdown_out = FALSE] ELSE s

\* dns_dispatch_removeresponse().  evs is the set with the event the caller
\* hands back, or empty; then an event that is out is taken back.
removeresponse(s, e, evs) ==
  LET out == {s.queue[e][i] : i \in {j \in DOMAIN s.queue[e] : IsDispatch(s.queue[e][j])}}
      t1 == Deref([s EXCEPT !.disp.entries = @ \ {e}])
      t2 == IF evs # {} \/ e \notin s.disp.item_out THEN FreeEvents(t1, evs)
            ELSE FreeEvents([t1 EXCEPT !.queue[e] = SelectSeq(@, LAMBDA ev : ~IsDispatch(ev))], out)
      t3 == [t2 EXCEPT !.disp.item_out = @ \ {e}, !.disp.items[e] = <<>>]
      t4 == IF e \in t3.disp.dispsocket
            THEN CancelRecv([t3 EXCEPT !.disp.resp = @ \ {e}, !.disp.dispsocket = @ \ {e}], {e})
            ELSE t3
  IN {KillIfDone(t) : t \in IF t4.disp.shutting_down THEN do_cancel(t4)
                            ELSE {startrecv(t4, Shared)}}

-----------------------------------------------------------------------------
\* An answer for e: sent, or queued behind the one that is out.
Deliver(s, e, res, buf) ==
  IF e \in s.disp.item_out
  THEN [s EXCEPT !.disp.items[e] = Append(@, res)]
  ELSE Send([s EXCEPT !.disp.item_out = @ \cup {e}], e, DispatchEvent(res, buf, FALSE))

\* tcp_recv() on the result of a receive.
tcp_recv(s) ==
  LET t == [s EXCEPT !.disp.rx[Shared] = "none"]
      result == IF s.disp.refcount = 0 THEN "canceled" ELSE s.disp.rx[Shared]
      failed(u) == KillIfDone([u EXCEPT !.disp.shutting_down = TRUE,
                                        !.disp.shutdown_why = result])
  IN CASE result = "canceled" -> {failed(t)}
       [] result = "error" -> {failed(u) : u \in do_cancel(t)}
       [] result \in t.disp.entries -> {startrecv(Deliver(t, result, "ok", TRUE), Shared)}
       [] OTHER -> {startrecv(t, Shared)}

\* udp_shrecv(): udp_recv() on the shared socket.
udp_shrecv(s) ==
  LET t == [s EXCEPT !.disp.rx[Shared] = "none"]
      result == s.disp.rx[Shared]
  IN CASE t.disp.shutting_down -> {KillIfDone(t)}
       [] ~t.disp.shutting_down /\ result \in {"canceled", "error"} -> {t}
       [] ~t.disp.shutting_down /\ result \in t.disp.entries ->
            {startrecv(Deliver(t, result, "ok", TRUE), Shared)}
       [] OTHER -> {startrecv(t, Shared)}

\* udp_exrecv(): udp_recv() on the socket of entry e.
udp_exrecv(s, e) ==
  LET result == s.disp.rx[e]
      gone == result = "canceled" \/ e \notin s.disp.resp
      t == IF gone THEN deactivate_dispsocket([s EXCEPT !.disp.rx[e] = "none"], e)
           ELSE [s EXCEPT !.disp.rx[e] = "none"]
      res == IF result = e THEN "ok" ELSE "error"
      u == IF result \in {e, "error"} THEN Deliver(t, e, res, TRUE) ELSE t
  IN CASE t.disp.shutting_down -> {KillIfDone(t)}
       [] ~t.disp.shutting_down /\ gone -> {t}
       [] OTHER -> {IF NoReceive(u, e) THEN deactivate_dispsocket(u, e) ELSE startrecv(u, e)}

Receive(s, x) ==
  CASE s.disp.kind = "tcp" -> tcp_recv(s)
    [] s.disp.kind = "udp" -> udp_shrecv(s)
    [] OTHER -> udp_exrecv(s, x)

\* destroy_disp(), in task[0].
destroy_disp(s) == [s EXCEPT !.disp.ctl = "gone"]

-----------------------------------------------------------------------------
\* The assertions of dispatch.c hold.  An entry has an event out exactly if its
\* task's queue holds one, INSIST(n == 1) of removeresponse(), and the failsafe
\* event is out exactly if it is in some queue, as free_devent() asserts.  A
\* dispatch is destroyed once, when nobody uses it and no receive is pending in a
\* socket or on its way (dispatch_free()); and where addresponse() takes the
\* oldest active socket there is one.
DispatchInsists ==
  /\ \A e \in Entries :
       Count(queue[e], IsDispatch) = IF e \in disp.item_out THEN 1 ELSE 0
  /\ disp.item_out \subseteq disp.entries
  /\ Cardinality({e \in Entries : \E i \in DOMAIN queue[e] :
                     IsDispatch(queue[e][i]) /\ queue[e][i].fs})
       = IF disp.shutdown_out THEN 1 ELSE 0
  /\ disp.ctl # "resent"
  /\ disp.ctl \in {"sent", "gone"} =>
       /\ disp.entries = {} /\ disp.refcount = 0 /\ disp.active = <<>>
       /\ \A x \in Sockets : disp.rx[x] = "none"
  /\ disp.nsockets > SocksQuota => disp.active # <<>>
  /\ disp.resp = disp.entries \cap ActiveSockets(disp)
=============================================================================
