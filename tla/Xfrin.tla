-------------------------------- MODULE Xfrin --------------------------------
(***************************************************************************)
(* Incoming zone transfers (lib/dns/xfrin.c).  A transfer context runs in  *)
(* the task of its zone; s.xfr[c] is context c.  A zone's database is a    *)
(* set of records; version n of a zone holds its SOA and the record that   *)
(* n, and only n, has.  The applied and the pending part of an open        *)
(* version (ixfr_apply() every 100 tuples) are one: xfr.diff.              *)
(*                                                                         *)
(* io is the socket operation that has not completed yet.  wire is what    *)
(* the master has still to send in answer to the request.                  *)
(***************************************************************************)
EXTENDS ZoneTask, SequencesExt

CONSTANTS
  Ctxs,      \* bound: transfer contexts that exist at a time
  Chunks     \* the numbers of records a message may carry

Soa(n) == [type |-> "soa", v |-> n]
Rr(n)  == [type |-> "rr", v |-> n]

Version(n) == {Soa(n), Rr(n)}
NoDb == {}

\* The serial of a database, from its one SOA.
SerialOf(db) == (CHOOSE r \in db : r.type = "soa").v

NoCtx ==
  [zone |-> "none", done |-> FALSE, refcount |-> 0, connects |-> 0, sends |-> 0, recvs |-> 0,
   shuttingdown |-> FALSE, reqtype |-> "none", state |-> "none", is_ixfr |-> FALSE,
   request_serial |-> 0, current_serial |-> 0, end_serial |-> 0, diff |-> <<>>,
   db |-> NoDb, io |-> "none", asked |-> FALSE, wire |-> <<>>, timer |-> FALSE]

\* Bound: the failures and other interventions a behaviour has left.
CanUpset(s) == s.upsets > 0
Upset(s) == [s EXCEPT !.upsets = @ - 1]

-----------------------------------------------------------------------------
(* The life of a context.                                                  *)

outstanding(x) == x.connects + x.sends + x.recvs

\* What a list of tuples makes of a database.
apply(db, diff) ==
  FoldLeft(LAMBDA d, t : IF t.op = "del" THEN d \ {t.rr} ELSE d \cup {t.rr}, db, diff)

\* Slip: the version still open is committed when the context goes.
maybe_free_commit(s, c) ==
  LET x == s.xfr[c]
      z == x.zone
      own(e) == e.type = "xfrin_timeout" /\ e.ctx = c
  IN  IF ~x.shuttingdown \/ x.refcount # 0 \/ outstanding(x) # 0
      THEN s
      ELSE dns_zone_idetach([s EXCEPT !.xfr[c] = NoCtx, !.zone[z].db = IF @ = NoDb THEN @ ELSE apply(@, x.diff),
                                      !.queue[z] = SelectSeq(@, LAMBDA e : ~own(e))], z)

\* The timer goes with the timeout it may have posted; a version still open
\* is closed without being committed.
maybe_free(s, c) ==
  LET x == s.xfr[c]
      z == x.zone
      own(e) == e.type = "xfrin_timeout" /\ e.ctx = c
  IN  IF ~x.shuttingdown \/ x.refcount # 0 \/ outstanding(x) # 0
      THEN s
      ELSE dns_zone_idetach([s EXCEPT !.xfr[c] = NoCtx,
                                      !.queue[z] = SelectSeq(@, LAMBDA e : ~own(e))], z)

\* An operation that has not completed comes back canceled.
xfrin_cancelio(s, c) ==
  LET x == s.xfr[c]
      kind == IF x.connects > 0 THEN "connect" ELSE IF x.recvs > 0 THEN "recv" ELSE "send"
      back == [type |-> kind, ctx |-> c, result |-> "canceled", msg |-> <<>>]
  IN  IF outstanding(x) > 0 /\ x.io = kind
      THEN send([s EXCEPT !.xfr[c].io = "none"], x.zone, back)
      ELSE s

\* The end of xfrin_fail() and of a transfer that succeeded.
xfrin_end(s, c) ==
  maybe_free([s EXCEPT !.xfr[c].done = FALSE, !.xfr[c].shuttingdown = TRUE], c)

\* The zone hears of the end once: the callback is a section of zone.c.
report(s, c, result) ==
  LET z == s.xfr[c].zone
  IN  IF s.xfr[c].done
      THEN then(s, z, <<[sec |-> "zone_xfrdone", result |-> result], [sec |-> "xfrin_end", ctx |-> c]>>)
      ELSE xfrin_end(s, c)

\* A failure after an incremental answer began asks for an AXFR instead.
xfrin_fail(s, c, result) ==
  LET res == IF result # "uptodate" /\ s.xfr[c].is_ixfr THEN "badixfr" ELSE result
  IN  report(xfrin_cancelio(s, c), c, res)

dns_xfrin_shutdown(s, c) ==
  IF s.xfr[c].shuttingdown THEN s ELSE xfrin_fail(s, c, "canceled")

dns_xfrin_detach(s, c) ==
  maybe_free([insist(s, s.xfr[c].refcount > 0, "xfrin_detach") EXCEPT !.xfr[c].refcount = @ - 1], c)

\* The two outcomes of xfrin_start(): the socket could not be set up, or a
\* connection is under way.
connect(s, c) == [s EXCEPT !.xfr[c].connects = @ + 1, !.xfr[c].io = "connect"]

xfrin_start(s, c) ==
  {connect(s, c)} \cup IF CanUpset(s) THEN {xfrin_fail(Upset(s), c, "error")} ELSE {}

xfrin_create(s, c, z, reqtype) ==
  [zone_iattach(s, z) EXCEPT
     !.xfr[c] = [NoCtx EXCEPT !.zone = z, !.reqtype = reqtype, !.timer = TRUE,
                   !.db = s.zone[z].db,
                   !.state = IF reqtype = "soa" THEN "SOAQUERY" ELSE "INITIALSOA"]]

\* The zone's pointer to the context is set when both have worked.  When
\* xfrin_start() fails there is nobody to report to yet, and the context goes.
created(s, c, z) ==
  [s EXCEPT !.xfr[c].done = TRUE, !.xfr[c].refcount = @ + 1, !.zone[z].xfr = c]

dns_xfrin_create3(s, c, z, reqtype) ==
  LET t == xfrin_create(s, c, z, reqtype)
  IN  {[ok |-> TRUE, s |-> created(connect(t, c), c, z)]}
      \cup (IF CanUpset(s) THEN {[ok |-> FALSE, s |-> xfrin_fail(Upset(t), c, "error")]} ELSE {})

-----------------------------------------------------------------------------
(* The records of an answer, one at a time: xfr_rr().  a.x is the context, *)
(* a.db the zone's database, a.err why the answer was refused; a.forced is *)
(* dns_zone_isforced().                                                    *)

refuse(a, why) == [a EXCEPT !.err = why]

put(a, op, rr) == [a EXCEPT !.x.diff = Append(@, [op |-> op, rr |-> rr])]

\* The transfer works on the zone's database, unless the zone has expired and
\* let go of it.
ixfr_commit(a) ==
  LET db == apply(a.x.db, a.x.diff)
  IN  [a EXCEPT !.x.db = db, !.x.diff = <<>>, !.db = IF a.db = NoDb THEN NoDb ELSE db]

uptodate(a, rr) == rr.v <= a.x.request_serial /\ ~a.forced

delsoa(a, rr) == [put(a, "del", rr) EXCEPT !.x.state = "IXFR_DEL"]
addsoa(a, rr) == [put(a, "add", rr) EXCEPT !.x.state = "IXFR_ADD", !.x.current_serial = rr.v]

axfr(a, rr) ==
  [a EXCEPT !.x.db = @ \cup {rr}, !.x.state = IF rr.type = "soa" THEN "AXFR_END" ELSE "AXFR"]

incremental(a, rr) == a.x.reqtype = "ixfr" /\ rr = Soa(a.x.request_serial)

xfr_rr(a, rr) ==
  LET st == a.x.state IN
  CASE a.err # "none" -> a
    [] st = "SOAQUERY" ->
         IF rr.type # "soa" THEN refuse(a, "formerr")
         ELSE IF uptodate(a, rr) THEN refuse(a, "uptodate")
         ELSE [a EXCEPT !.x.state = "GOTSOA", !.x.end_serial = rr.v]
    [] st = "GOTSOA" -> a
    [] st = "INITIALSOA" ->
         IF rr.type # "soa" THEN refuse(a, "formerr")
         ELSE IF a.x.reqtype = "ixfr" /\ uptodate(a, rr) THEN refuse(a, "uptodate")
         ELSE [a EXCEPT !.x.state = "FIRSTDATA", !.x.end_serial = rr.v]
    [] st = "FIRSTDATA" ->
         IF incremental(a, rr)
         THEN delsoa([a EXCEPT !.x.is_ixfr = TRUE], rr)
         ELSE axfr([a EXCEPT !.x.is_ixfr = FALSE, !.x.db = NoDb], rr)
    [] st = "IXFR_DEL" -> IF rr.type = "soa" THEN addsoa(a, rr) ELSE put(a, "del", rr)
    [] st = "IXFR_ADD" ->
         IF rr.type # "soa" THEN put(a, "add", rr)
         ELSE IF rr.v = a.x.end_serial THEN [ixfr_commit(a) EXCEPT !.x.state = "IXFR_END"]
         ELSE IF rr.v # a.x.current_serial THEN refuse(a, "formerr")
         ELSE delsoa(ixfr_commit(a), rr)
    [] st = "AXFR" -> axfr(a, rr)
    [] st \in {"AXFR_END", "IXFR_END"} -> refuse(a, "extradata")

-----------------------------------------------------------------------------
(* The handlers of the socket events and of the idle timer.                *)

\* The request asks from the serial of the context's database; the beginning
\* of an AXFR has none.
xfrin_send_request(s, c) ==
  LET x == s.xfr[c]
      noserial == \A r \in x.db : r.type # "soa"
      from == IF x.reqtype = "axfr" THEN x.request_serial ELSE SerialOf(x.db)
  IN  IF x.reqtype # "axfr" /\ noserial
      THEN xfrin_fail(s, c, "error")
      ELSE [s EXCEPT !.xfr[c] = [x EXCEPT !.request_serial = from, !.sends = @ + 1, !.io = "send",
                                          !.asked = FALSE, !.wire = <<>>]]

xfrin_connect_done(s, c, result) ==
  LET t == [s EXCEPT !.xfr[c].connects = @ - 1]
  IN  IF t.xfr[c].shuttingdown THEN maybe_free(t, c)
      ELSE IF result # "ok" THEN xfrin_fail(t, c, result)
      ELSE xfrin_send_request(t, c)

readmessage(s, c) == [s EXCEPT !.xfr[c].recvs = @ + 1, !.xfr[c].io = "recv"]

\* It does not look whether the context is shutting down.
xfrin_send_done(s, c, result) ==
  LET t == [s EXCEPT !.xfr[c].sends = @ - 1]
  IN  IF result # "ok" THEN xfrin_fail(t, c, result) ELSE readmessage(t, c)

\* The retry with AXFR on a new connection, which asks for the SOA first.
try_axfr(s, c) ==
  xfrin_start([s EXCEPT !.xfr[c].diff = <<>>, !.xfr[c].reqtype = "soa",
                        !.xfr[c].state = "SOAQUERY"], c)

\* The answer's records have been taken; what the state they led to calls for.
answered(s, c) ==
  LET x == s.xfr[c] IN
  CASE x.state = "GOTSOA" ->
         xfrin_send_request([s EXCEPT !.xfr[c].reqtype = "axfr", !.xfr[c].state = "INITIALSOA"], c)
    [] x.state = "AXFR_END" -> report([s EXCEPT !.zone[x.zone].db = x.db], c, "success")
    [] x.state = "IXFR_END" -> report(s, c, "success")
    [] OTHER -> readmessage(s, c)

xfrin_records(s, c, msg) ==
  LET z == s.xfr[c].zone
      a == FoldLeft(xfr_rr, [x |-> s.xfr[c], db |-> s.zone[z].db, err |-> "none",
                             forced |-> s.zone[z].forcexfer], msg)
      t == [s EXCEPT !.xfr[c] = a.x, !.zone[z].db = a.db]
  IN  IF a.err = "none" THEN answered(t, c) ELSE xfrin_fail(t, c, a.err)

\* result: "ok", or the read failed; "rcode" is an answer with an error code.
\* A server that does not know IXFR answers it with no records.
xfrin_recv_done(s, c, result, msg) ==
  LET t == [s EXCEPT !.xfr[c].recvs = @ - 1]
      x == t.xfr[c]
  IN  IF x.shuttingdown THEN {maybe_free(t, c)}
      ELSE IF result \notin {"ok", "rcode"} THEN {xfrin_fail(t, c, result)}
      ELSE IF result = "rcode"
      THEN IF x.reqtype = "ixfr" THEN try_axfr(t, c) ELSE {xfrin_fail(t, c, "error")}
      ELSE IF x.reqtype = "ixfr" /\ x.state = "INITIALSOA" /\ msg = <<>> THEN try_axfr(t, c)
      ELSE {xfrin_records(t, c, msg)}

xfrin_timeout(s, c) == xfrin_fail(s, c, "timedout")
=============================================================================
