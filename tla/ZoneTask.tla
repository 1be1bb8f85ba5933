------------------------------ MODULE ZoneTask ------------------------------
(***************************************************************************)
(* What the parts of a slave zone's maintenance share (lib/dns/zone.c): a  *)
(* zone's task, its internal references, and the rate limiter              *)
(* (lib/isc/ratelimiter.c) through which the zone manager paces the SOA    *)
(* queries of all zones.                                                   *)
(*                                                                         *)
(* The operators take the whole state as a record s and return the next    *)
(* one.  s.queue[z] is the queue of the zone's task.  s.todo[z] is what is *)
(* left of the handler the task is in: its critical sections yet to run,   *)
(* so other tasks get between any two of them.  s.insist collects the      *)
(* assertions that failed.                                                 *)
(***************************************************************************)
EXTENDS Integers, Sequences

CONSTANTS PerTic  \* isc_ratelimiter_setpertic(): events sent per tick

send(s, z, ev) == [s EXCEPT !.queue[z] = Append(@, ev)]

\* The handler goes on with these sections when this one is over.
then(s, z, sections) == [s EXCEPT !.todo[z] = sections \o @]

insist(s, cond, what) == IF cond THEN s ELSE [s EXCEPT !.insist = @ \cup {what}]

-----------------------------------------------------------------------------
(* References.  A zone is freed by whoever drops the last internal         *)
(* reference after zone_shutdown() has set SHUTDOWN.                       *)

exit_check(s, z) ==
  IF s.zone[z].shutdown /\ s.zone[z].irefs = 0
  THEN [insist(s, s.zone[z].erefs = 0, "exit_check") EXCEPT !.zone[z].freed = TRUE]
  ELSE s

zone_iattach(s, z) ==
  [insist(s, s.zone[z].irefs + s.zone[z].erefs > 0, "iattach") EXCEPT !.zone[z].irefs = @ + 1]

\* Slip: the reference is dropped, and nobody looks whether it was the last.
idetach_unchecked(s, z) ==
  [insist(s, s.zone[z].irefs > 0, "idetach") EXCEPT !.zone[z].irefs = @ - 1]

dns_zone_idetach(s, z) ==
  exit_check([insist(s, s.zone[z].irefs > 0, "idetach") EXCEPT !.zone[z].irefs = @ - 1], z)

\* The last external reference posts the control event; see zone_shutdown().
dns_zone_detach(s, z) ==
  LET t == [s EXCEPT !.zone[z].erefs = @ - 1]
  IN  IF t.zone[z].erefs = 0 THEN send(t, z, [type |-> "zone_shutdown"]) ELSE t

-----------------------------------------------------------------------------
(* The rate limiter.  A tick may come at any time while the timer runs.    *)

RlInit == [state |-> "idle", pending |-> <<>>, timer |-> FALSE, pertic |-> 0]

enqueue_ok(s) == s.rl.state # "shuttingdown"

isc_ratelimiter_enqueue(s, z, ev) ==
  IF s.rl.state = "ratelimited"
  THEN [s EXCEPT !.rl.pending = Append(@, [zone |-> z, ev |-> ev])]
  ELSE send([s EXCEPT !.rl.state = "ratelimited", !.rl.timer = TRUE], z, ev)

\* One turn of the loop of ratelimiter_tick(), with the lock held.
ratelimiter_tick(s) ==
  IF s.rl.pending # <<>>
  THEN LET p == Head(s.rl.pending)
       IN  send([s EXCEPT !.rl.pending = Tail(@), !.rl.pertic = @ - 1], p.zone, p.ev)
  ELSE [s EXCEPT !.rl.state = "idle", !.rl.timer = FALSE, !.rl.pertic = 0]

\* What is pending is sent, marked canceled; the timer goes with its ticks.
isc_ratelimiter_shutdown(s) ==
  LET sent(z) == SelectSeq(s.rl.pending, LAMBDA p : p.zone = z)
      canceled(z) == [i \in DOMAIN sent(z) |-> [sent(z)[i].ev EXCEPT !.canceled = TRUE]]
  IN  [s EXCEPT !.rl = [state |-> "shuttingdown", pending |-> <<>>, timer |-> FALSE, pertic |-> 0],
                !.queue = [z \in DOMAIN s.queue |-> s.queue[z] \o canceled(z)]]
=============================================================================
