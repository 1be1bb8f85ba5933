---------------------------- MODULE ZoneTransfer ----------------------------
(***************************************************************************)
(* How slave zones stay current (lib/dns/zone.c): the refresh timer and    *)
(* NOTIFY start a refresh; it asks the zone's masters for their SOA one by *)
(* one through the rate limiter; a master that is ahead puts the zone in   *)
(* line for a transfer; the transfer's end starts the next zone in line    *)
(* and, when it failed, goes on with the next master.  Composes ZoneTask   *)
(* (references, rate limiter) and Xfrin (transfers).                       *)
(*                                                                         *)
(* Every zone has a task of its own, which handles one event at a time.    *)
(* The request that carries an SOA query (module Request) and the masters  *)
(* are the environment.                                                    *)
(***************************************************************************)
EXTENDS Xfrin, FiniteSets

CONSTANTS
  Zones,
  Masters,      \* the masters of every zone, in order, as a sequence
  TransfersIn,  \* transfers-in
  PerNs,        \* transfers-per-ns
  MaxSerial,    \* bound: the masters' last serial
  AltZones,     \* zones with use-alt-transfer-source
  IxfrZones,    \* zones with request-ixfr
  RawZones,     \* zones that are signed inline
  Scenarios     \* initial states: how each zone starts ("loaded", "empty" or
                \* "absent"), the masters' serial, and the bound on upsets

VARIABLES zone, zmgr, rl, xfr, queue, todo, master, upsets, failed

vars == <<zone, zmgr, rl, xfr, queue, todo, master, upsets, failed>>

Now == [zone |-> zone, zmgr |-> zmgr, rl |-> rl, xfr |-> xfr, queue |-> queue, todo |-> todo,
        master |-> master, upsets |-> upsets, insist |-> failed]

Become(s) ==
  /\ zone' = s.zone /\ zmgr' = s.zmgr /\ rl' = s.rl /\ xfr' = s.xfr /\ queue' = s.queue
  /\ todo' = s.todo /\ master' = s.master /\ upsets' = s.upsets /\ failed' = s.insist

MasterSet == {Masters[i] : i \in DOMAIN Masters}
masterscnt == Len(Masters)
NoCtxId == "none"

\* A zone just managed holds a reference for its timer.  curmaster counts
\* from 1.  A slave is loaded from its file before anything else happens, and
\* never again: zone_load() leaves a database that is there alone.
ZoneInit(start) ==
  LET here == start # "absent" IN
  [refresh |-> FALSE, needrefresh |-> FALSE, noedns |-> FALSE, usealt |-> FALSE,
   exiting |-> ~here, shutdown |-> ~here, freed |-> ~here,
   forcexfer |-> FALSE, noixfr |-> FALSE, soafirst |-> FALSE,
   irefs |-> IF here THEN 1 ELSE 0, erefs |-> IF here THEN 1 ELSE 0,
   db |-> IF start = "loaded" THEN Version(1) ELSE NoDb,
   curmaster |-> 1, mastersok |-> [i \in DOMAIN Masters |-> FALSE], masteraddr |-> Masters[1],
   request |-> "none", xfr |-> NoCtxId, statelist |-> "none", managed |-> here,
   timer |-> (IF here THEN {"refresh"} ELSE {}) \cup (IF start = "loaded" THEN {"expire"} ELSE {}),
   clients |-> 0, served |-> here]

Init ==
  /\ \E sc \in Scenarios :
       /\ zone = [z \in Zones |-> ZoneInit(sc.start[z])]
       /\ master = [m \in MasterSet |-> sc.serial]
       /\ upsets = sc.upsets
  /\ zmgr = [waiting |-> <<>>, progress |-> {}, transfersin |-> TransfersIn, resume |-> FALSE]
  /\ rl = RlInit
  /\ xfr = [c \in Ctxs |-> NoCtx]
  /\ queue = [z \in Zones |-> <<>>]
  /\ todo = [z \in Zones |-> <<>>]
  /\ failed = {}

-----------------------------------------------------------------------------
(* The refresh timer.                                                      *)

\* What the timer is set for; resetting it takes back what it has posted.
zone_settimer(s, z) ==
  LET v == s.zone[z]
      next == (IF ~v.refresh THEN {"refresh"} ELSE {}) \cup (IF v.db # NoDb THEN {"expire"} ELSE {})
  IN  IF v.exiting THEN s
      ELSE [s EXCEPT !.zone[z].timer = next,
                     !.queue[z] = SelectSeq(@, LAMBDA e : e.type # "zone_timer")]

cancel_refresh(s, z) == zone_settimer([s EXCEPT !.zone[z].refresh = FALSE], z)

queue_soa_query(s, z) ==
  IF s.zone[z].exiting \/ ~enqueue_ok(s)
  THEN cancel_refresh(s, z)
  ELSE isc_ratelimiter_enqueue(zone_iattach(s, z), z, [type |-> "soa_query", canceled |-> FALSE])

\* Slip: nobody looks whether a refresh is already going on.
refresh_again(s, z) ==
  LET v == s.zone[z]
      w == [v EXCEPT !.refresh = TRUE, !.noedns = FALSE, !.usealt = FALSE]
  IN  IF v.exiting THEN s
      ELSE queue_soa_query([s EXCEPT !.zone[z] =
             [w EXCEPT !.curmaster = 1, !.mastersok = [i \in DOMAIN Masters |-> FALSE]]], z)

\* Starts a refresh unless one is going on; that one is told to use EDNS, and
\* the primary source address, again.
dns_zone_refresh(s, z) ==
  LET v == s.zone[z]
      w == [v EXCEPT !.refresh = TRUE, !.noedns = FALSE, !.usealt = FALSE]
  IN  IF v.exiting THEN s
      ELSE IF v.refresh THEN [s EXCEPT !.zone[z] = w]
      ELSE queue_soa_query([s EXCEPT !.zone[z] =
             [w EXCEPT !.curmaster = 1, !.mastersok = [i \in DOMAIN Masters |-> FALSE]]], z)

zone_expire(s, z) == [s EXCEPT !.zone[z].db = NoDb]

\* zone_timer() and zone_maintenance(): due is the time that has come.  An
\* expired zone is to be refreshed at once.
zone_maintenance(s, z, due) ==
  LET t == IF due = "expire" THEN zone_expire(s, z) ELSE s
  IN  then(dns_zone_refresh(t, z), z, <<[sec |-> "settimer"]>>)

-----------------------------------------------------------------------------
(* The line for transfers.                                                 *)

quota_left(s, z) ==
  LET same == {x \in s.zmgr.progress : s.zone[x].masteraddr = s.zone[z].masteraddr}
  IN  Cardinality(s.zmgr.progress) < s.zmgr.transfersin /\ Cardinality(same) < PerNs

\* An exiting zone is let through, to be cleaned up in its own task.
may_start(s, z) == s.zone[z].exiting \/ quota_left(s, z)

start_xfrin(s, z) ==
  send([insist(s, s.zone[z].statelist = "waiting", "start_xfrin") EXCEPT
          !.zmgr.waiting = SelectSeq(@, LAMBDA x : x # z), !.zmgr.progress = @ \cup {z},
          !.zone[z].statelist = "progress"], z, [type |-> "got_transfer_quota"])

zmgr_start_xfrin_ifquota(s, z) == IF may_start(s, z) THEN start_xfrin(s, z) ELSE s

\* The slot that was vacated goes to the first zone in line that may have it.
zmgr_resume_xfrs(s) ==
  LET able == {i \in DOMAIN s.zmgr.waiting : may_start(s, s.zmgr.waiting[i])}
      first == CHOOSE i \in able : \A j \in able : i <= j
  IN  IF able = {} THEN s ELSE start_xfrin(s, s.zmgr.waiting[first])

\* zmgr_resume_xfrs() with multi set: everybody in line who may have a slot.
dns_zonemgr_resumexfrs(s) == FoldLeft(zmgr_start_xfrin_ifquota, s, s.zmgr.waiting)

\* Slip: nobody in line is told that the slot is free.
leave_progress_quiet(s, z) ==
  [s EXCEPT !.zmgr.progress = @ \ {z}, !.zone[z].statelist = "none"]

leave_progress(s, z) ==
  zmgr_resume_xfrs([s EXCEPT !.zmgr.progress = @ \ {z}, !.zone[z].statelist = "none"])

queue_xfrin(s, z) ==
  LET t == insist(s, s.zone[z].statelist = "none", "queue_xfrin")
  IN  zmgr_start_xfrin_ifquota(
        [t EXCEPT !.zmgr.waiting = Append(@, z), !.zone[z].irefs = @ + 1,
                  !.zone[z].statelist = "waiting"], z)

-----------------------------------------------------------------------------
(* The SOA query.                                                          *)

\* The next master that has not said the zone is up to date, from i on.
skip(v, i) ==
  CHOOSE j \in i .. masterscnt + 1 : /\ j > masterscnt \/ ~v.mastersok[j]
                                     /\ \A k \in i .. j - 1 : v.mastersok[k]

next_master(v) == skip(v, v.curmaster + 1)

\* soa_query() asks the current master, or the next one for which a request
\* can be made; when there is none the refresh is over.
soa_query(s, z, canceled) ==
  LET v == s.zone[z]
      ask(t, i) == [zone_iattach(t, z) EXCEPT !.zone[z].curmaster = i, !.zone[z].request = "sent",
                                              !.zone[z].masteraddr = Masters[i]]
      others == {i \in v.curmaster + 1 .. masterscnt : ~v.mastersok[i]}
      none(t) == cancel_refresh([t EXCEPT !.zone[z].curmaster = 1], z)
      next == IF v.exiting THEN {[s EXCEPT !.zone[z].refresh = FALSE]}
              ELSE IF canceled THEN {cancel_refresh(s, z)}
              ELSE IF v.curmaster > masterscnt THEN {insist(s, FALSE, "soa_query")}
              ELSE {ask(s, v.curmaster)}
                   \cup (IF CanUpset(s) THEN {ask(Upset(s), i) : i \in others} \cup {none(Upset(s))}
                         ELSE {})
  IN  {dns_zone_idetach(t, z) : t \in next}

\* What is left of refresh_callback() when this master is done with: the next
\* one, a second pass from the alternate address over those that have not
\* answered, or the end of the refresh.
refresh_next(s, z) ==
  LET v == [s.zone[z] EXCEPT !.request = "none", !.noedns = FALSE, !.curmaster = next_master(s.zone[z])]
      alt == z \in AltZones /\ ~v.usealt /\ \E i \in DOMAIN Masters : ~v.mastersok[i]
  IN  IF v.curmaster <= masterscnt THEN queue_soa_query([s EXCEPT !.zone[z] = v], z)
      ELSE IF alt
      THEN queue_soa_query([s EXCEPT !.zone[z] = [v EXCEPT !.usealt = TRUE, !.curmaster = skip(v, 1)]], z)
      ELSE zone_settimer([s EXCEPT !.zone[z] =
             [v EXCEPT !.refresh = FALSE, !.needrefresh = FALSE, !.usealt = FALSE]], z)

same_master(s, z) == queue_soa_query([s EXCEPT !.zone[z].request = "none", !.zone[z].noedns = TRUE], z)

tcp_transfer(s, z, soafirst) ==
  then([s EXCEPT !.zone[z].request = "none", !.zone[z].soafirst = @ \/ soafirst], z,
       <<[sec |-> "queue_xfrin"]>>)

\* Whether the cache of unreachable masters, which other zones' transfers fill,
\* tells against this one.
dns_zonemgr_unreachable(s, yes, no) == {no} \cup IF CanUpset(s) THEN {yes} ELSE {}

newer(v, n) == v.db = NoDb \/ v.forcexfer \/ n > SerialOf(v.db)

\* answer: "serial" for an SOA with this serial, or an answer without one.
refresh_callback(s, z, answer, serial) ==
  LET v == s.zone[z]
      ok == [s EXCEPT !.zone[z].mastersok[v.curmaster] = TRUE]
      next == IF v.exiting THEN {[s EXCEPT !.zone[z].request = "none"]}
              ELSE IF answer \in {"timedout", "servfail"} /\ ~v.noedns THEN {same_master(s, z)}
              ELSE IF answer = "timedout"
              THEN dns_zonemgr_unreachable(s, refresh_next(Upset(s), z), tcp_transfer(s, z, TRUE))
              ELSE IF answer = "refused" THEN {tcp_transfer(s, z, FALSE)}
              ELSE IF answer = "truncated" THEN {tcp_transfer(s, z, TRUE)}
              ELSE IF answer # "serial" THEN {refresh_next(s, z)}
              ELSE IF newer(v, serial)
              THEN dns_zonemgr_unreachable(s, refresh_next(Upset(s), z), tcp_transfer(s, z, FALSE))
              ELSE {refresh_next(ok, z)}
  IN  {IF t.todo[z] = <<>> THEN dns_zone_idetach(t, z) ELSE t : t \in next}

-----------------------------------------------------------------------------
(* The transfer.                                                           *)

xfrtype(v, z) ==
  IF v.db = NoDb \/ v.forcexfer \/ v.noixfr THEN "axfr"
  ELSE IF z \in IxfrZones THEN "ixfr"
  ELSE IF v.soafirst THEN "soa" ELSE "axfr"

\* NOIXFR is spent when it decides.
spend(v) == [v EXCEPT !.noixfr = @ /\ (v.db = NoDb \/ v.forcexfer)]

\* Any failure is handled like a failed transfer.
got_transfer_quota(s, z) ==
  LET v == s.zone[z]
      fail(t, result) == then(t, z, <<[sec |-> "zone_xfrdone", result |-> result]>>)
      free == {c \in Ctxs : s.xfr[c] = NoCtx}
      c == CHOOSE x \in free : TRUE
      made == {IF r.ok THEN r.s ELSE fail(r.s, "error") :
                 r \in dns_xfrin_create3([s EXCEPT !.zone[z] = spend(v)], c, z, xfrtype(v, z))}
  IN  IF v.exiting THEN {fail(s, "canceled")}
      ELSE made \cup IF CanUpset(s) THEN {fail(Upset(s), "canceled")} ELSE {}

\* Slip: a failed transfer is the end of the refresh.
after_failure_stop(v, z) == [again |-> FALSE, v |-> v]

\* Slip: the last master is followed by another one.
after_failure_on(v, z) == [again |-> TRUE, v |-> [v EXCEPT !.refresh = TRUE]]

\* After a failure: the next master, a second pass from the alternate address,
\* or the end of the refresh.
after_failure(v, z) ==
  IF v.curmaster <= masterscnt
  THEN [again |-> TRUE, v |-> [v EXCEPT !.refresh = TRUE]]
  ELSE IF z \in AltZones /\ ~v.usealt
  THEN [again |-> TRUE, v |-> [v EXCEPT !.refresh = TRUE, !.usealt = TRUE, !.curmaster = skip(v, 1)]]
  ELSE [again |-> FALSE, v |-> [v EXCEPT !.usealt = FALSE, !.curmaster = 1]]

\* What zone_xfrdone() makes of the result; "no NS" is a transfer that worked
\* and brought a zone without NS records.
outcome(v, z, result) ==
  IF result \in {"success", "uptodate"}
  THEN IF v.db = NoDb
       THEN after_failure([v EXCEPT !.forcexfer = FALSE], z)
       ELSE [again |-> FALSE, v |-> [v EXCEPT !.forcexfer = FALSE, !.needrefresh = FALSE]]
  ELSE IF result = "no NS"
  THEN after_failure([v EXCEPT !.forcexfer = FALSE, !.db = NoDb, !.curmaster = next_master(v)], z)
  ELSE IF result = "badixfr"
  THEN after_failure([v EXCEPT !.noixfr = TRUE], z)
  ELSE after_failure([v EXCEPT !.curmaster = next_master(v)], z)

xfrdone_end(s, z, again) ==
  LET t == IF again /\ ~s.zone[z].exiting THEN queue_soa_query(s, z) ELSE s
  IN  dns_zone_idetach(t, z)

\* The first section, under the zone's lock; that of an inline-signed zone
\* takes the lock of the signed version too, and the result of that attempt
\* takes the place of the transfer's.  The slot is given back in a section of
\* its own, unless zone_shutdown() has done it.
zone_xfrdone(s, z, xfrresult) ==
  LET t == insist(s, s.zone[z].refresh, "zone_xfrdone")
      result == IF z \in RawZones /\ xfrresult # "no NS" THEN "success" ELSE xfrresult
      o == outcome([t.zone[z] EXCEPT !.refresh = FALSE, !.soafirst = FALSE], z, result)
      u == zone_settimer([t EXCEPT !.zone[z] = [o.v EXCEPT !.xfr = NoCtxId]], z)
      w == IF t.zone[z].xfr = NoCtxId THEN u ELSE dns_xfrin_detach(u, t.zone[z].xfr)
  IN  IF w.zone[z].managed /\ w.zone[z].statelist = "progress"
      THEN then(w, z, <<[sec |-> "leave_progress"], [sec |-> "xfrdone_end", again |-> o.again]>>)
      ELSE xfrdone_end(w, z, o.again)

-----------------------------------------------------------------------------
(* The end of a zone.                                                      *)

zone_shutdown(s, z) ==
  then([insist(s, s.zone[z].erefs = 0, "zone_shutdown") EXCEPT !.zone[z].exiting = TRUE], z,
       <<[sec |-> "leave_line"]>>)

\* Out of the line, or out of the transfers in progress; then the transfer
\* itself is shut down.
leave_line(s, z) ==
  LET list == s.zone[z].statelist
      t == IF list = "waiting"
           THEN [s EXCEPT !.zmgr.waiting = SelectSeq(@, LAMBDA x : x # z), !.zone[z].statelist = "none"]
           ELSE IF list = "progress" THEN leave_progress(s, z) ELSE s
      u == then(t, z, <<[sec |-> "shutdown_end", linked |-> list = "waiting"]>>)
  IN  IF u.zone[z].xfr = NoCtxId THEN u ELSE dns_xfrin_shutdown(u, u.zone[z].xfr)

\* Everything still outstanding has been canceled: exit_check() may succeed.
shutdown_end(s, z, linked) ==
  LET v == s.zone[z]
      refs == 1 + (IF linked THEN 1 ELSE 0)
  IN  exit_check([insist(s, v.irefs >= refs, "shutdown_end") EXCEPT
        !.zone[z] = [v EXCEPT !.managed = FALSE, !.irefs = @ - refs, !.timer = {}, !.shutdown = TRUE,
                              !.request = IF @ = "sent" THEN "canceled" ELSE @],
        !.queue[z] = SelectSeq(@, LAMBDA e : e.type # "zone_timer")], z)

-----------------------------------------------------------------------------
(* The steps of a zone's task.                                             *)

section(s, z, k) ==
  CASE k.sec = "settimer" -> {zone_settimer(s, z)}
    [] k.sec = "queue_xfrin" -> {dns_zone_idetach(queue_xfrin(s, z), z)}
    [] k.sec = "zone_xfrdone" ->
         {zone_xfrdone(s, z, k.result)}
         \cup IF (k.result = "success" \/ z \in RawZones) /\ s.zone[z].db # NoDb /\ CanUpset(s)
              THEN {zone_xfrdone(Upset(s), z, "no NS")} ELSE {}
    [] k.sec = "leave_progress" -> {leave_progress(s, z)}
    [] k.sec = "xfrdone_end" -> {xfrdone_end(s, z, k.again)}
    [] k.sec = "xfrin_end" -> {xfrin_end(s, k.ctx)}
    [] k.sec = "leave_line" -> {leave_line(s, z)}
    [] k.sec = "shutdown_end" -> {shutdown_end(s, z, k.linked)}

handler(s, z, e) ==
  CASE e.type = "zone_timer" -> {zone_maintenance(s, z, e.due)}
    [] e.type = "soa_query" -> soa_query(s, z, e.canceled)
    [] e.type = "refresh_callback" -> refresh_callback(s, z, e.answer, e.serial)
    [] e.type = "got_transfer_quota" -> got_transfer_quota(s, z)
    [] e.type = "zone_shutdown" -> {zone_shutdown(s, z)}
    [] e.type = "connect" -> {xfrin_connect_done(s, e.ctx, e.result)}
    [] e.type = "send" -> {xfrin_send_done(s, e.ctx, e.result)}
    [] e.type = "recv" -> xfrin_recv_done(s, e.ctx, e.result, e.msg)
    [] e.type = "xfrin_timeout" -> {xfrin_timeout(s, e.ctx)}

\* The next section of the handler the task is in.
Section(z) ==
  /\ todo[z] # <<>>
  /\ \E t \in section([Now EXCEPT !.todo[z] = Tail(@)], z, Head(todo[z])) : Become(t)

\* The next event.  Bound: a transfer starts only when a context is free.
Dispatch(z) ==
  /\ todo[z] = <<>> /\ queue[z] # <<>>
  /\ Head(queue[z]).type = "got_transfer_quota" => \E c \in Ctxs : xfr[c] = NoCtx
  /\ \E t \in handler([Now EXCEPT !.queue[z] = Tail(@)], z, Head(queue[z])) : Become(t)

-----------------------------------------------------------------------------
(* Everybody else.                                                         *)

\* The refresh timer; an expiry is an upset, the rest is daily business.
TimerFires(z) ==
  \E due \in zone[z].timer :
    /\ due = "expire" => CanUpset(Now)
    /\ LET s == IF due = "expire" THEN Upset(Now) ELSE Now
       IN  Become(send([s EXCEPT !.zone[z].timer = {}], z, [type |-> "zone_timer", due |-> due]))

\* A NOTIFY handled in a client's task: while a refresh is going on it is
\* remembered, otherwise it leads to one.  The client holds a reference.
dns_zone_notifyreceive(s, z) ==
  IF s.zone[z].refresh THEN [s EXCEPT !.zone[z].needrefresh = TRUE]
  ELSE [s EXCEPT !.zone[z].clients = @ + 1, !.zone[z].erefs = @ + 1]

Notify(z) ==
  /\ zone[z].served /\ CanUpset(Now)
  /\ Become(dns_zone_notifyreceive(Upset(Now), z))

\* rndc retransfer.
dns_zone_forcereload(s, z) ==
  [s EXCEPT !.zone[z].forcexfer = TRUE, !.zone[z].clients = @ + 1, !.zone[z].erefs = @ + 1]

Retransfer(z) ==
  /\ zone[z].served /\ CanUpset(Now)
  /\ Become(dns_zone_forcereload(Upset(Now), z))

ClientRefresh(z) ==
  /\ zone[z].clients > 0
  /\ Become(dns_zone_detach(dns_zone_refresh([Now EXCEPT !.zone[z].clients = @ - 1], z), z))

\* The zone is taken out of its view.
Unserve(z) ==
  /\ zone[z].served /\ CanUpset(Now)
  /\ Become(dns_zone_detach([Upset(Now) EXCEPT !.zone[z].served = FALSE], z))

\* The request that carries the SOA query comes to its end.
Answer(z) ==
  /\ zone[z].request \in {"sent", "canceled"}
  /\ LET replied(s, a) == send([s EXCEPT !.zone[z].request = "answered"], z,
                              [type |-> "refresh_callback", answer |-> a,
                               serial |-> master[zone[z].masteraddr]])
     IN  IF zone[z].request = "canceled" THEN Become(replied(Now, "canceled"))
         ELSE \/ Become(replied(Now, "serial"))
              \/ /\ CanUpset(Now)
                 /\ \E a \in {"timedout", "servfail", "refused", "truncated", "fail"} :
                      Become(replied(Upset(Now), a))

\* The rate limiter's timer, and the turns of its handler.
Tick ==
  /\ rl.timer /\ rl.pertic = 0
  /\ Become([Now EXCEPT !.rl.pertic = PerTic])

Turn ==
  /\ rl.pertic > 0
  /\ Become(ratelimiter_tick(Now))

\* With exclusive access to the task system no handler is under way.
Exclusive == rl.pertic = 0 /\ \A z \in Zones : todo[z] = <<>>

\* dns_zonemgr_shutdown(), as far as it concerns refreshes.
Shutdown ==
  /\ Exclusive /\ rl.state # "shuttingdown" /\ CanUpset(Now)
  /\ Become(isc_ratelimiter_shutdown(Upset(Now)))

\* A new configuration allows more transfers; the zones in line hear of it
\* when it has been loaded.
Reconfigure ==
  /\ Exclusive /\ CanUpset(Now) /\ zmgr.transfersin = TransfersIn
  /\ Become([Upset(Now) EXCEPT !.zmgr.transfersin = @ + 1, !.zmgr.resume = TRUE])

Resume ==
  /\ Exclusive /\ zmgr.resume
  /\ Become([dns_zonemgr_resumexfrs(Now) EXCEPT !.zmgr.resume = FALSE])

\* The masters.
Update(m) ==
  /\ master[m] < MaxSerial
  /\ Become([Now EXCEPT !.master[m] = @ + 1])

completed(s, c, type, result, msg) ==
  send([s EXCEPT !.xfr[c].io = "none"], s.xfr[c].zone,
       [type |-> type, ctx |-> c, result |-> result, msg |-> msg])

\* A connection or a send that completes, or fails.
Completes(c) ==
  /\ xfr[c].io \in {"connect", "send"}
  /\ \/ Become(completed(Now, c, xfr[c].io, "ok", <<>>))
     \/ CanUpset(Now) /\ Become(completed(Upset(Now), c, xfr[c].io, "error", <<>>))

AxfrStream(n) == <<Soa(n), Rr(n), Soa(n)>>

IxfrStream(from, n) ==
  <<Soa(n)>> \o FlattenSeq([i \in 1 .. n - from |->
     <<Soa(from + i - 1), Rr(from + i - 1), Soa(from + i), Rr(from + i)>>]) \o <<Soa(n)>>

\* What a master that has serial n sends in answer to a request.
Stream(x, n) ==
  IF x.reqtype = "axfr" THEN AxfrStream(n)
  ELSE IF x.reqtype = "soa" \/ n <= x.request_serial THEN <<Soa(n)>>
  ELSE IxfrStream(x.request_serial, n)

\* The next message of an answer, of a size the master chooses.
message(s, c, wire) ==
  {LET n == IF k < Len(wire) THEN k ELSE Len(wire)
   IN  completed([s EXCEPT !.xfr[c].asked = TRUE, !.xfr[c].wire = SubSeq(wire, n + 1, Len(wire))],
                 c, "recv", "ok", SubSeq(wire, 1, n)) : k \in Chunks}

\* The master's answer is from its version of the moment; to a request for
\* changes it may answer with the whole zone, or with nothing.
Receive(c) ==
  LET x == xfr[c]
      n == master[zone[x.zone].masteraddr]
  IN  /\ x.io = "recv"
      /\ \/ x.asked /\ x.wire # <<>> /\ \E s \in message(Now, c, x.wire) : Become(s)
         \/ ~x.asked /\ \E s \in message(Now, c, Stream(x, n)) : Become(s)
         \/ /\ ~x.asked /\ x.reqtype = "ixfr" /\ CanUpset(Now)
            /\ \/ \E s \in message(Upset(Now), c, AxfrStream(n)) : Become(s)
               \/ Become(completed(Upset(Now), c, "recv", "ok", <<>>))
         \/ /\ CanUpset(Now)
            /\ \E result \in {"error", "rcode"} : Become(completed(Upset(Now), c, "recv", result, <<>>))

\* The transfer's idle timer fires once.
Idle(c) ==
  /\ xfr[c].timer /\ CanUpset(Now)
  /\ Become(send([Upset(Now) EXCEPT !.xfr[c].timer = FALSE], xfr[c].zone,
                 [type |-> "xfrin_timeout", ctx |-> c]))

Next ==
  \/ \E z \in Zones :
       \/ Section(z) \/ Dispatch(z) \/ TimerFires(z) \/ Notify(z) \/ Retransfer(z)
       \/ ClientRefresh(z) \/ Unserve(z) \/ Answer(z)
  \/ \E c \in Ctxs : Completes(c) \/ Receive(c) \/ Idle(c)
  \/ \E m \in MasterSet : Update(m)
  \/ Tick \/ Turn \/ Shutdown \/ Reconfigure \/ Resume

Spec == Init /\ [][Next]_vars

-----------------------------------------------------------------------------
(* Properties.                                                             *)

Events(z, type) == Cardinality({i \in DOMAIN queue[z] : queue[z][i].type = type})
Paced(z) == Cardinality({i \in DOMAIN rl.pending : rl.pending[i].zone = z})
InTodo(z, sec) == \E i \in DOMAIN todo[z] : todo[z][i].sec = sec
One(p) == IF p THEN 1 ELSE 0

\* The zone is in line for a transfer, or has one it has not heard the end of.
Transferring(z) ==
  \/ zone[z].statelist = "waiting" \/ Events(z, "got_transfer_quota") > 0
  \/ zone[z].xfr # NoCtxId \/ InTodo(z, "zone_xfrdone")

\* The transfer is over, and zone_xfrdone() about to let go of its reference.
Ending(z) ==
  \/ InTodo(z, "xfrdone_end")
  \/ \E i \in DOMAIN todo[z] : todo[z][i].sec = "shutdown_end" /\ todo[z][i].linked

Asking(z) ==
  Events(z, "soa_query") + Paced(z) + One(zone[z].request # "none") + One(InTodo(z, "queue_xfrin"))

\* A zone's internal references are exactly what is outstanding for it - its
\* timer, queries, its place in line or transfer, transfer contexts that wait
\* for their sockets - so it is freed when, and only when, nothing can
\* call it back (zone.c, exit_check()).  Nor does a transfer context wait for
\* nothing: while it lives its handler is running, or exactly one socket
\* operation is outstanding, in the socket or as an event on its way (xfrin.c,
\* maybe_free()).
IrefsExact ==
  /\ \A z \in Zones :
       LET held == One(~zone[z].shutdown) + Asking(z) + One(Transferring(z) \/ Ending(z))
                   + Cardinality({c \in Ctxs : xfr[c].zone = z})
       IN  /\ zone[z].irefs = held
           /\ zone[z].freed <=> zone[z].shutdown /\ held = 0
           /\ zone[z].freed => queue[z] = <<>> /\ todo[z] = <<>>
  /\ \A c \in Ctxs :
       LET x == xfr[c]
           events == {i \in DOMAIN queue[x.zone] :
                        queue[x.zone][i].type \in {"connect", "send", "recv"} /\ queue[x.zone][i].ctx = c}
       IN  x # NoCtx =>
             /\ outstanding(x) = One(x.io # "none") + Cardinality(events)
             /\ outstanding(x) = 1 \/ InTodo(x.zone, "xfrin_end")

\* No assertion of zone.c and xfrin.c on this path fails: a zone is queued for
\* a transfer once, the end of a transfer finds REFRESH set, the current master
\* exists, no reference count runs below zero.
ZoneInsists == failed = {}

\* REFRESH says that exactly one refresh is going on (dns_zone_refresh():
\* "only one refresh operation in progress at a time"): exactly one query,
\* place in line or transfer of the zone is under way when it is set.  When it
\* is clear there is none, and the timer runs for the next one or has been
\* handed to the zone's task, so refreshes never cease.
RefreshOne ==
  \A z \in Zones :
    ~zone[z].exiting =>
      LET again == \E i \in DOMAIN todo[z] : todo[z][i].sec = "xfrdone_end" /\ todo[z][i].again
      IN  /\ Asking(z) + One(Transferring(z)) + One(again) = One(zone[z].refresh)
          /\ \/ zone[z].refresh \/ "refresh" \in zone[z].timer
             \/ Events(z, "zone_timer") > 0 \/ InTodo(z, "settimer")

\* Transfers keep to the quota, zones that are exiting aside, and no slot is
\* left unused: a zone waits only while all transfers, or those from its
\* master, are taken (zmgr_resume_xfrs() starts one zone for each slot freed).
QuotaExact ==
  LET running == {z \in zmgr.progress : ~zone[z].exiting}
      from(m, S) == Cardinality({z \in S : zone[z].masteraddr = m})
  IN  /\ Cardinality(running) <= zmgr.transfersin
      /\ \A m \in MasterSet : from(m, running) <= PerNs
      /\ \A i \in DOMAIN zmgr.waiting :
           LET z == zmgr.waiting[i]
           IN  \/ zone[z].exiting \/ zmgr.resume
               \/ Cardinality(zmgr.progress) >= zmgr.transfersin
               \/ from(zone[z].masteraddr, zmgr.progress) >= PerNs

\* What a zone serves is always one version of its master, whole: transfers
\* that break off, start over as AXFR or are shut down leave nothing behind
\* (xfrin.c, ixfr_commit(), maybe_free()).
DBWhole == \A z \in Zones : zone[z].db = NoDb \/ \E n \in 1 .. MaxSerial : zone[z].db = Version(n)

\* "Skip to next failed / untried master" (zone_xfrdone(), of a transfer that
\* failed): while there is one the refresh goes on.  A raw zone is left out: the
\* TRYLOCK_ZONE(result, zone->secure) at the head of zone_xfrdone() overwrites
\* the result, so it never looks like a failure there.
FailureTriesNext ==
  [][\A z \in Zones \ RawZones :
       LET k == Head(todo[z])
       IN  /\ todo[z] # <<>> /\ k.sec = "zone_xfrdone" /\ todo'[z] # todo[z]
           /\ k.result \notin {"success", "uptodate"} /\ next_master(zone[z]) <= masterscnt
           => zone'[z].refresh]_vars
=============================================================================
