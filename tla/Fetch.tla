------------------------------- MODULE Fetch -------------------------------
(***************************************************************************)
(* The fetch contexts of the resolver (lib/dns/resolver.c).  Callers of    *)
(* dns_resolver_createfetch() that ask the same question share a context;  *)
(* it sends queries, waits for the ADB, for validators or for a fetch of   *)
(* its own, answers everybody who joined and frees itself after the last   *)
(* reference.                                                              *)
(*                                                                         *)
(* A context belongs to a bucket, with a lock and a task.  Handlers of the *)
(* bucket's task, callers on other tasks and dns_resolver_shutdown() meet  *)
(* under the lock.  s.queue[b] is the task's queue; s.todo[a] is what is   *)
(* left of what actor a is in, cut where it takes a lock again.  Where a   *)
(* handler takes the lock once more only to drop a query's reference, the  *)
(* two sections are one step: nobody else can tell their order.            *)
(***************************************************************************)
EXTENDS Integers, Sequences, FiniteSets, SequencesExt

CONSTANTS
  Clients,      \* who calls dns_resolver_createfetch(): clients, the ADB, validators
  Fctxs,        \* fetchctx_t's, never reused here
  Queries,      \* resquery_t's in memory at one time
  Buckets,
  Keys,         \* (name, type, options) of a fetch
  BucketOf,     \* dns_name_fullhash(name) % nbuckets
  DSKeys,       \* keys with type DS, whose parent's servers may have to be found
  Parent,       \* the NS fetch that finds them
  Owner,        \* the view, which shuts the resolver down
  Nil,
  Zspill,       \* fetches-per-zone; 0 for no limit
  MaxAddrs,     \* addresses one round of ADB lookups finds
  MaxRestarts,  \* fctx->restarts, 100 in the code
  Scenarios     \* what may happen in one behaviour: see Init

VARIABLES
  fctx, query, fetch, count, res, queue, todo, failed,
  fetches,      \* calls of dns_resolver_createfetch() still to come
  upsets,       \* timeouts, errors and delays still to come
  scenario

vars == <<fctx, query, fetch, count, res, queue, todo, failed, fetches, upsets, scenario>>

Domains == 1..2             \* zone cuts: one, and one below it
Actors == Buckets \cup Clients \cup {Owner}

Now == [fctx |-> fctx, query |-> query, fetch |-> fetch, count |-> count, res |-> res,
        queue |-> queue, todo |-> todo, failed |-> failed, fetches |-> fetches, upsets |-> upsets]

Become(s) ==
  /\ fctx' = s.fctx /\ query' = s.query /\ fetch' = s.fetch /\ count' = s.count /\ res' = s.res
  /\ queue' = s.queue /\ todo' = s.todo /\ failed' = s.failed
  /\ fetches' = s.fetches /\ upsets' = s.upsets
  /\ UNCHANGED scenario

insist(s, cond, what) == IF cond THEN s ELSE [s EXCEPT !.failed = @ \cup {what}]
then(s, a, sections) == [s EXCEPT !.todo[a] = sections \o @]
section(name, x, r) == [sec |-> name, fctx |-> x, result |-> r]

bucket(s, x) == BucketOf[s.fctx[x].key]
event(type, x, q, r) == [type |-> type, fctx |-> x, query |-> q, result |-> r]
send(s, x, ev) == [s EXCEPT !.queue[bucket(s, x)] = Append(@, ev)]
purge(s, x, Drop(_)) == [s EXCEPT !.queue[bucket(s, x)] = SelectSeq(@, LAMBDA e : ~Drop(e))]
queued(s, x, type) == Len(SelectSeq(s.queue[bucket(s, x)],
                                    LAMBDA e : e.type = type /\ e.fctx = x))

live(s, x) == s.fctx[x].st \in {"init", "active", "done"}

\* What does not happen on the straight way to an answer is paid for.
upset(S) == {[t EXCEPT !.upsets = @ - 1] : t \in {t \in S : t.upsets > 0}}

-----------------------------------------------------------------------------
(* Fetches per zone.                                                       *)

quota(s, d) == Zspill # 0 /\ s.count[d] >= Zspill

fcount_incr(s, x, d) ==
  [insist(s, ~s.fctx[x].counted, "fcount_incr") EXCEPT
     !.count[d] = @ + 1, !.fctx[x].counted = TRUE, !.fctx[x].domain = d]

fcount_decr(s, x) ==
  IF s.fctx[x].counted
  THEN [insist(s, s.count[s.fctx[x].domain] > 0, "fcount_decr") EXCEPT
          !.count[s.fctx[x].domain] = @ - 1, !.fctx[x].counted = FALSE]
  ELSE s

-----------------------------------------------------------------------------
(* References and the end of a context.                                    *)

NoFctx == [st |-> "none", key |-> Nil, refs |-> 0, want |-> FALSE, down |-> FALSE,
           wait |-> FALSE, have |-> FALSE, cloned |-> FALSE, events |-> {}, avail |-> 0,
           finds |-> FALSE, pending |-> 0, restarts |-> 0, nqueries |-> 0, queries |-> <<>>,
           vals |-> 0, deferred |-> 0, vcancel |-> FALSE, timer |-> "off",
           domain |-> 0, counted |-> FALSE]

\* fctx_unlink() and fctx_destroy(), and the call of empty_bucket() that
\* follows when the resolver is exiting and this was the bucket's last.
unlink_destroy(s, a, x) ==
  LET f == s.fctx[x]
      ok == /\ f.st \in {"done", "init"} /\ f.events = {} /\ f.queries = <<>>
            /\ ~f.finds /\ f.pending = 0 /\ f.refs = 0 /\ f.vals = 0
      t == [fcount_decr(insist(s, ok, "fctx_unlink"), x) EXCEPT
              !.fctx[x] = [NoFctx EXCEPT !.st = "freed", !.key = f.key]]
      empty == \A y \in Fctxs \ {x} : ~(live(s, y) /\ bucket(s, y) = bucket(s, x))
  IN  IF bucket(s, x) \in s.res.exited /\ empty
      THEN then(t, a, <<section("empty_bucket", Nil, Nil)>>)
      ELSE t

waits(f) == f.pending > 0 \/ f.nqueries > 0 \/ f.vals > 0

fctx_shutdown(s, x) ==
  IF s.fctx[x].want THEN s
  ELSE LET t == [s EXCEPT !.fctx[x].want = TRUE]
       IN  IF s.fctx[x].st = "init" THEN t
           ELSE send(t, x, event("doshutdown", x, Nil, Nil))

fctx_increference(s, x) == [insist(s, live(s, x), "use after free") EXCEPT !.fctx[x].refs = @ + 1]

\* Slip: a context that shuts down is freed with its last reference, whatever
\* it still waits for.
decreference_hasty(s, a, x) ==
  LET t == [s EXCEPT !.fctx[x].refs = @ - 1]
  IN  IF ~live(s, x) THEN insist(s, FALSE, "use after free")
      ELSE IF t.fctx[x].refs > 0 THEN t
      ELSE IF t.fctx[x].down THEN unlink_destroy(t, a, x)
      ELSE fctx_shutdown(t, x)

\* a is the actor that drops the reference.
fctx_decreference(s, a, x) ==
  LET t == [insist(s, s.fctx[x].refs > 0, "fctx_decreference") EXCEPT !.fctx[x].refs = @ - 1]
  IN  IF ~live(s, x) THEN insist(s, FALSE, "use after free")
      ELSE IF t.fctx[x].refs > 0 THEN t
      ELSE IF t.fctx[x].down /\ ~waits(t.fctx[x]) THEN unlink_destroy(t, a, x)
      ELSE fctx_shutdown(t, x)

-----------------------------------------------------------------------------
(* The timer, an isc_timertype_once timer with a lifetime and, while a     *)
(* query is out, an idle interval.                                         *)

isTimeout(e, x) == e.type = "timeout" /\ e.fctx = x

fctx_starttimer(s, x) ==
  [purge(s, x, LAMBDA e : isTimeout(e, x)) EXCEPT !.fctx[x].timer = "life"]

fctx_stoptimer(s, x) ==
  [purge(s, x, LAMBDA e : isTimeout(e, x)) EXCEPT !.fctx[x].timer = "off"]

\* Timeouts already posted stay in the queue.
fctx_startidletimer(s, x) == [s EXCEPT !.fctx[x].timer = "idle"]

fctx_stopidletimer(s, x) == fctx_starttimer(s, x)

-----------------------------------------------------------------------------
(* Queries.                                                                *)

NoQuery == [fctx |-> Nil, tcp |-> FALSE, canceled |-> FALSE, connects |-> 0, sends |-> 0,
            dispentry |-> FALSE]

posted(s, q, types) ==
  \E i \in DOMAIN s.queue[bucket(s, s.query[q].fctx)] :
    LET e == s.queue[bucket(s, s.query[q].fctx)][i] IN e.type \in types /\ e.query = q

ConnectEvents == {"connected", "udpconnected"}
connectEvent(tcp) == IF tcp THEN "connected" ELSE "udpconnected"

\* Slip: a query that was canceled goes without its reference.
resquery_destroy_keeps(s, q) ==
  LET x == s.query[q].fctx
      t == [s EXCEPT !.fctx[x].nqueries = @ - 1, !.query[q] = NoQuery]
  IN  IF s.query[q].canceled /\ s.fctx[x].st = "done" THEN t
      ELSE fctx_decreference(t, bucket(s, x), x)

resquery_destroy(s, q) ==
  LET x == s.query[q].fctx
      t == [s EXCEPT !.fctx[x].nqueries = @ - 1, !.query[q] = NoQuery]
  IN  fctx_decreference(t, bucket(s, x), x)

\* What the socket still owes is called back, canceled; the last event
\* destroys the query.  The answer, if it is in the queue, is taken back.
fctx_cancelquery(s, q) ==
  LET x == s.query[q].fctx
      r == insist(s, ~s.query[q].canceled, "fctx_cancelquery")
      t == IF r.query[q].connects > 0
           THEN IF posted(r, q, ConnectEvents) THEN r
                ELSE send(r, x, event(connectEvent(r.query[q].tcp), x, q, "canceled"))
           ELSE IF r.query[q].sends > 0 /\ ~posted(r, q, {"senddone"})
           THEN send(r, x, event("senddone", x, q, "canceled"))
           ELSE r
      u == [purge(t, x, LAMBDA e : e.type = "response" /\ e.query = q) EXCEPT
              !.query[q].canceled = TRUE, !.query[q].dispentry = FALSE,
              !.fctx[x].queries = SelectSeq(@, LAMBDA p : p # q)]
  IN  IF u.query[q].connects = 0 /\ u.query[q].sends = 0 THEN resquery_destroy(u, q) ELSE u

fctx_cancelqueries(s, x) == FoldLeft(fctx_cancelquery, s, s.fctx[x].queries)

fctx_cleanupfinds(s, x) == [s EXCEPT !.fctx[x].finds = FALSE, !.fctx[x].avail = 0]

fctx_stopeverything(s, x) ==
  LET t == fctx_cancelqueries(s, x)
  IN  IF live(t, x) THEN fctx_stoptimer(fctx_cleanupfinds(t, x), x)
      ELSE insist(t, FALSE, "use after free")

fctx_done(s, x, r) ==
  then(fctx_stopeverything(s, x), bucket(s, x), <<section("done", x, r)>>)

\* fctx_query() and resquery_send().  A send may be slow.  A UDP connect is
\* over at once, with or without success.  Over quota, the address is given
\* up, with or without success as result holds what an earlier call left.
fctx_query(s, x, tcp) ==
  LET free == {q \in Queries : s.query[q] = NoQuery}
      q == CHOOSE q \in free : TRUE
      fresh == [s.queue EXCEPT ![bucket(s, x)] =
                  [i \in DOMAIN @ |-> IF isTimeout(@[i], x)
                                      THEN [@[i] EXCEPT !.query = @ \ {q}] ELSE @[i]]]
      i == fctx_startidletimer(insist(s, s.fctx[x].vals = 0, "fctx_query"), x)
      t == [fctx_increference(i, x) EXCEPT
              !.queue = fresh,
              !.fctx[x].nqueries = @ + 1, !.fctx[x].queries = Append(@, q),
              !.query[q] = [fctx |-> x, tcp |-> tcp, canceled |-> FALSE, connects |-> 1,
                            sends |-> IF tcp THEN 0 ELSE 1, dispentry |-> ~tcp]]
      connected(r) == send(t, x, event("udpconnected", x, q, r))
      sent(u) == send(u, x, event("senddone", x, q, "ok"))
      given_up == fctx_stopidletimer(insist(i, i.fctx[x].refs > 0, "references > 1"), x)
      fails == IF "sendfail" \in scenario.may
               THEN upset({fctx_done(given_up, x, "failure")} \cup (IF tcp THEN {} ELSE {given_up}))
               ELSE {}
  IN  IF free = {} THEN {}
      ELSE IF tcp THEN {t} \cup fails
      ELSE {sent(connected("ok"))} \cup fails
           \cup upset({connected("ok")} \cup {sent(connected(r)) : r \in {"unreach", "other"}})

-----------------------------------------------------------------------------
(* Finding addresses and asking one of them.                               *)

\* Names whose addresses the ADB must look up first are pending.
fctx_getaddresses(s, x) ==
  LET t == [s EXCEPT !.fctx[x].restarts = @ + 1]
      found(n, p) == [t EXCEPT !.fctx[x].avail = n, !.fctx[x].finds = n > 0,
                               !.fctx[x].pending = @ + p]
  IN  IF t.fctx[x].restarts > MaxRestarts THEN {t}
      ELSE {found(n, 0) : n \in 1..MaxAddrs}
           \cup upset({found(n, p) : n \in 0..1, p \in 0..2})

\* The section from fctx_nextaddress() to the end of fctx_query().  One more
\* query than max-recursion-queries ends the fetch.
fctx_try(s, x) ==
  LET ask(t) == fctx_query([t EXCEPT !.fctx[x].avail = @ - 1], x, FALSE)
      r == insist(s, ~s.fctx[x].wait, "fctx_try")
      again == fctx_cleanupfinds(fctx_cancelqueries(r, x), x)
      go(t) == IF t.fctx[x].avail > 0 THEN ask(t)
               ELSE IF t.fctx[x].pending > 0 /\ t.fctx[x].restarts <= MaxRestarts
               THEN {[t EXCEPT !.fctx[x].wait = TRUE]}
               ELSE {fctx_done(t, x, "failure")}
  IN  upset({fctx_done(r, x, "failure")})
      \cup IF r.fctx[x].avail > 0 THEN ask(r)
           ELSE UNION {go(t) : t \in fctx_getaddresses(again, x)}

-----------------------------------------------------------------------------
(* Fetches: what a caller holds of a context.  The fetch x of a context x  *)
(* is its nsfetch, whose event comes back to the context's own task.       *)

NoFetch == [st |-> "no", fctx |-> Nil, key |-> Nil, asked |-> FALSE, result |-> "servfail"]

\* Slip: a context that has its answer is joined until it is done.
match_cloned(s, x, k) ==
  s.fctx[x].st # "done" /\ s.fctx[x].events # {} /\ s.fctx[x].key = k

fctx_match(s, x, k) ==
  /\ ~s.fctx[x].cloned /\ s.fctx[x].st # "done" /\ s.fctx[x].events # {}
  /\ s.fctx[x].key = k

\* A new fetch's event has result DNS_R_SERVFAIL until somebody fills it.
fctx_join(s, x, f, k) ==
  [s EXCEPT !.fctx[x].refs = @ + 1, !.fctx[x].events = @ \cup {f},
            !.fetch[f] = [NoFetch EXCEPT !.st = "waiting", !.fctx = x, !.key = k]]

fctx_create(s, x, k) ==
  fcount_incr([s EXCEPT !.fctx[x] = [NoFctx EXCEPT !.st = "init", !.key = k]], x, 1)

\* {} stands for running out of contexts, a bound; a state in which f still
\* is NoFetch for an error.
dns_resolver_createfetch(s, f, k) ==
  LET matching == {x \in Fctxs : live(s, x) /\ fctx_match(s, x, k)}
      unused == {x \in Fctxs : s.fctx[x].st = "none"}
      new == CHOOSE x \in unused : TRUE
  IN  IF BucketOf[k] \in s.res.exited THEN {s}
      ELSE IF matching # {} THEN {fctx_join(s, x, f, k) : x \in matching}
      ELSE IF quota(s, 1) THEN {s}
      ELSE IF unused = {} THEN {}
      ELSE {send(fctx_join(fctx_create(s, new, k), new, f, k), new,
                 event("start", new, Nil, Nil))}

sendevent(s, f, r) ==
  LET t == [s EXCEPT !.fetch[f].st = "told", !.fetch[f].result = r]
  IN  IF f \in Fctxs THEN send(t, f, event("dslookup", f, Nil, r)) ELSE t

fctx_sendevents(s, x, r) ==
  LET one(t, f) == sendevent(t, f, IF s.fctx[x].have THEN t.fetch[f].result ELSE r)
  IN  [FoldLeft(one, s, SetToSeq(s.fctx[x].events)) EXCEPT !.fctx[x].events = {}]

\* HAVEANSWER, with the answer in every event of the context.
clone_results(s, x) ==
  [s EXCEPT !.fctx[x].have = TRUE, !.fctx[x].cloned = s.fctx[x].events # {},
            !.fetch = [f \in DOMAIN @ |->
                         IF f \in s.fctx[x].events THEN [@[f] EXCEPT !.result = "answer"] ELSE @[f]]]

dns_resolver_cancelfetch(s, f) ==
  LET x == s.fetch[f].fctx
      t == [insist(s, live(s, x), "use after free") EXCEPT !.fetch[f].asked = TRUE]
  IN  IF t.fctx[x].st # "done" /\ f \in t.fctx[x].events
      THEN sendevent([t EXCEPT !.fctx[x].events = @ \ {f}], f, "canceled")
      ELSE t

dns_resolver_destroyfetch(s, a, f) ==
  LET x == s.fetch[f].fctx
      t == insist(s, s.fctx[x].st = "done" \/ f \notin s.fctx[x].events, "destroyfetch")
  IN  fctx_decreference([t EXCEPT !.fetch[f] = NoFetch], a, x)

-----------------------------------------------------------------------------
(* Handlers of the bucket's task b for context x.                          *)

fctx_start(s, b, x) ==
  LET r == insist(s, s.fctx[x].st = "init", "fctx_start")
      t == fctx_sendevents([r EXCEPT !.fctx[x].down = TRUE, !.fctx[x].st = "done"], x, "canceled")
      u == insist(t, ~waits(t.fctx[x]), "fctx_start")
  IN  IF r.fctx[x].want
      THEN IF u.fctx[x].refs = 0 THEN unlink_destroy(u, b, x) ELSE u
      ELSE then(fctx_starttimer([r EXCEPT !.fctx[x].st = "active"], x), b,
                <<section("try", x, Nil)>>)

\* Slip: the lifetime timer is not put back when the idle timer has fired.
timeout_unarmed(s, b, x, e) ==
  IF e.result = "life" THEN fctx_done(s, x, "timedout")
  ELSE then([s EXCEPT !.fctx[x].wait = FALSE], b, <<section("try", x, Nil)>>)

fctx_timeout(s, b, x, e) ==
  LET oldest == Head(s.fctx[x].queries)
      t == IF s.fctx[x].queries # <<>> /\ oldest \in e.query THEN fctx_cancelquery(s, oldest) ELSE s
  IN  IF e.result = "life" THEN fctx_done(s, x, "timedout")
      ELSE then(fctx_starttimer([t EXCEPT !.fctx[x].wait = FALSE], x), b,
                <<section("try", x, Nil)>>)

\* Up to the lock; see doshutdown_locked for the rest.
dns_validator_cancel(s, x) ==
  IF s.fctx[x].vals = 0 \/ s.fctx[x].vcancel THEN s
  ELSE [s EXCEPT !.fctx[x].vcancel = TRUE, !.fctx[x].deferred = 0,
                 !.queue[bucket(s, x)] =
                    @ \o [i \in 1..s.fctx[x].deferred |-> event("validated", x, Nil, "canceled")]]

fctx_doshutdown(s, b, x) ==
  LET t == dns_validator_cancel([s EXCEPT !.fctx[x].wait = FALSE], x)
      u == IF t.fetch[x].st = "no" THEN t ELSE dns_resolver_cancelfetch(t, x)
  IN  then(fctx_stopeverything(u, x), b, <<section("doshutdown_locked", x, Nil)>>)

doshutdown_locked(s, b, x) ==
  LET r == [insist(s, s.fctx[x].want /\ s.fctx[x].st \in {"active", "done"}, "fctx_doshutdown")
              EXCEPT !.fctx[x].down = TRUE]
      t == IF r.fctx[x].st = "done" THEN r
           ELSE fctx_sendevents([r EXCEPT !.fctx[x].st = "done"], x, "canceled")
  IN  IF t.fctx[x].refs = 0 /\ ~waits(t.fctx[x]) THEN unlink_destroy(t, b, x) ELSE t

done_locked(s, x, r) ==
  fctx_sendevents([s EXCEPT !.fctx[x].st = "done", !.fctx[x].wait = FALSE], x, r)

\* Slip: the last find of a context that is shutting down does not free it.
finddone_lingers(s, b, x, e) ==
  LET t == [s EXCEPT !.fctx[x].pending = @ - 1, !.fctx[x].wait = FALSE]
  IN  IF s.fctx[x].wait
      THEN IF e.result = "more" THEN then(t, b, <<section("try", x, Nil)>>)
           ELSE IF t.fctx[x].pending = 0 THEN fctx_done(t, x, "failure")
           ELSE t
      ELSE t

\* The answer to one of the finds that were pending.
fctx_finddone(s, b, x, e) ==
  LET t == [insist(s, s.fctx[x].pending > 0, "fctx_finddone") EXCEPT !.fctx[x].pending = @ - 1]
      u == [insist(t, ~t.fctx[x].down, "fctx_finddone") EXCEPT !.fctx[x].wait = FALSE]
  IN  IF s.fctx[x].wait
      THEN IF e.result = "more" THEN then(u, b, <<section("try", x, Nil)>>)
           ELSE IF u.fctx[x].pending = 0 THEN fctx_done(u, x, "failure")
           ELSE u
      ELSE IF t.fctx[x].down /\ ~waits(t.fctx[x]) /\ t.fctx[x].refs = 0
      THEN unlink_destroy(t, b, x)
      ELSE t

process_sendevent(s, b, q, r) ==
  LET x == s.query[q].fctx
      t == fctx_cancelquery(s, q)
  IN  IF s.query[q].canceled
      THEN IF s.query[q].sends = 0 /\ s.query[q].connects = 0 THEN resquery_destroy(s, q) ELSE s
      ELSE CASE r = "unreach" ->
                  then(fctx_stopidletimer([t EXCEPT !.fctx[x].wait = FALSE], x), b,
                       <<section("try", x, Nil)>>)
             [] r = "other" -> t
             [] OTHER -> s

resquery_udpconnected(s, b, q, r) ==
  process_sendevent([insist(s, s.query[q].connects > 0, "udpconnected") EXCEPT
                       !.query[q].connects = @ - 1], b, q, r)

resquery_senddone(s, b, q, r) ==
  process_sendevent([insist(s, s.query[q].sends > 0, "senddone") EXCEPT
                       !.query[q].sends = @ - 1], b, q, r)

\* A TCP query is sent once it is connected.
resquery_connected(s, b, q, r) ==
  LET x == s.query[q].fctx
      t == [s EXCEPT !.query[q].connects = @ - 1]
      i == fctx_startidletimer(t, x)
      sends == [i EXCEPT !.query[q].sends = 1, !.query[q].dispentry = TRUE]
  IN  IF t.query[q].canceled THEN {resquery_destroy(t, q)}
      ELSE IF r = "ok"
      THEN {send(sends, x, event("senddone", x, q, "ok"))}
           \cup upset({sends, fctx_done(fctx_cancelquery(i, q), x, "failure")})
      ELSE {process_sendevent(t, b, q, r)}

\* kind is what the message says, or what became of it.
resquery_response(s, b, q, kind) ==
  LET x == s.query[q].fctx
      t == fctx_cancelquery(s, q)
      referred == fcount_incr(fcount_decr(t, x), x, 2)
      stopped == fctx_cleanupfinds(fctx_cancelqueries(t, x), x)
      validate(n) == [t EXCEPT !.fctx[x].vals = n, !.fctx[x].deferred = n - 1]
  IN  IF s.res.exiting THEN {fctx_done(t, x, "shuttingdown")}
      ELSE CASE kind = "answer" -> {fctx_done(fctx_cancelquery(clone_results(s, x), q), x, "success")}
             [] kind = "secure" -> {fctx_stopidletimer(fctx_cancelqueries(validate(n), x), x) : n \in 1..2}
             [] kind = "referral" ->
                  {then([fctx_cleanupfinds(fctx_cancelqueries(referred, x), x) EXCEPT
                           !.fctx[x].restarts = 0], b, <<section("try", x, Nil)>>)}
                  \cup upset({fctx_done(t, x, "failure")})
             [] kind = "lame" -> {then(t, b, <<section("try", x, Nil)>>)}
             [] kind = "truncated" -> {then(t, b, <<section("query", x, Nil)>>)}
             [] kind = "chase" -> {then(stopped, b, <<section("chase", x, Parent[s.fctx[x].key])>>)}
             [] OTHER -> {fctx_done(t, x, "failure")}

\* The nsfetch of a DS lookup is started; the context waits for its event.
chase(s, x, k) ==
  {IF t.fetch[x] = NoFetch THEN fctx_done(t, x, "failure")
   ELSE fctx_stopidletimer(fctx_increference(t, x), x)
     : t \in dns_resolver_createfetch(s, x, k)}

chase_on(s, x, k) ==
  {IF t.fetch[x] = NoFetch THEN fctx_done(t, x, "failure") ELSE fctx_increference(t, x)
     : t \in dns_resolver_createfetch(s, x, k)}

resume_dslookup(s, b, x, r) ==
  LET up == Parent[s.fetch[x].key]
      p == then(s, b, <<section("decreference", x, Nil)>>)
      t == dns_resolver_destroyfetch(p, b, x)
  IN  CASE r = "canceled" -> fctx_done(t, x, "canceled")
        [] r = "answer" -> then(fcount_incr(fcount_decr(t, x), x, 1), b, <<section("try", x, Nil)>>)
        [] up = Nil -> fctx_done(then(p, b, <<section("destroyfetch", x, Nil)>>), x, "failure")
        [] OTHER -> then(t, b, <<section("chase_on", x, up)>>)

maybe_destroy(s, b, x) ==
  LET t == dns_validator_cancel(s, x)
  IN  IF s.fctx[x].pending > 0 \/ s.fctx[x].nqueries > 0 THEN s
      ELSE IF t.fctx[x].refs = 0 /\ t.fctx[x].vals = 0 THEN unlink_destroy(t, b, x)
      ELSE t

\* Validators take turns: the next one starts when this one is over.
validated(s, b, x, r) ==
  LET n == s.fctx[x].vals - 1
      t == [insist(s, n >= 0, "validated") EXCEPT
              !.fctx[x].vals = n, !.fctx[x].vcancel = @ /\ n > 0]
      next == [t EXCEPT !.fctx[x].deferred = @ - 1]
  IN  IF t.fctx[x].down THEN {maybe_destroy(t, b, x)}
      ELSE IF n > 0 THEN {next}
      ELSE CASE r = "ok" -> {fctx_done(clone_results(t, x), x, "success")}
                            \cup upset({fctx_done(t, x, "failure")})
             [] r = "broken" -> {fctx_done(t, x, "failure")}
             [] OTHER -> {then(t, b, <<section("try", x, Nil)>>)}

-----------------------------------------------------------------------------
(* The end of the resolver.                                                *)

inBucket(s, b) == {x \in Fctxs : live(s, x) /\ bucket(s, x) = b}

empty_bucket(s) ==
  LET t == [insist(s, s.res.active > 0, "empty_bucket") EXCEPT !.res.active = @ - 1]
  IN  [t EXCEPT !.res.told = @ \/ t.res.active = 0]

shutdown_bucket(s, b) ==
  LET t == FoldLeft(fctx_shutdown, s, SetToSeq(inBucket(s, b)))
      u == [t EXCEPT !.res.exited = @ \cup {b}]
  IN  IF inBucket(s, b) # {} THEN u
      ELSE [insist(u, u.res.active > 0, "shutdown") EXCEPT !.res.active = @ - 1]

\* res->lock is held from the first section to the last.
dns_resolver_shutdown(s) ==
  LET each == SetToSeq(Buckets)
  IN  then([s EXCEPT !.res.exiting = TRUE], Owner,
           [i \in DOMAIN each |-> section("shutdown_bucket", Nil, each[i])]
             \o <<section("shutdown_end", Nil, Nil)>>)

-----------------------------------------------------------------------------
(* Actions.                                                                *)

\* Whoever still touches a context, or a query, that was freed has failed.
used(s) == insist(s, FALSE, "use after free")

Handle(s, b, e) ==
  LET x == e.fctx
      q == e.query
  IN  IF ~live(s, x) THEN {used(s)}
      ELSE CASE e.type = "start" -> {fctx_start(s, b, x)}
             [] e.type = "doshutdown" -> {fctx_doshutdown(s, b, x)}
             [] e.type = "timeout" -> {fctx_timeout(s, b, x, e)}
             [] e.type = "finddone" -> {fctx_finddone(s, b, x, e)}
             [] e.type = "validated" -> validated(s, b, x, e.result)
             [] e.type = "dslookup" -> {resume_dslookup(s, b, x, e.result)}
             [] s.query[q] = NoQuery -> {used(s)}
             [] e.type = "udpconnected" -> {resquery_udpconnected(s, b, q, e.result)}
             [] e.type = "connected" -> resquery_connected(s, b, q, e.result)
             [] e.type = "senddone" -> {resquery_senddone(s, b, q, e.result)}
             [] e.type = "response" -> resquery_response(s, b, q, e.result)

Continue(s, a, c) ==
  LET x == c.fctx
  IN  IF x # Nil /\ ~live(s, x) THEN {used(s)}
      ELSE CASE c.sec = "try" -> fctx_try(s, x)
             [] c.sec = "query" -> fctx_query(s, x, TRUE)
             [] c.sec = "done" -> {done_locked(s, x, c.result)}
             [] c.sec = "doshutdown_locked" -> {doshutdown_locked(s, a, x)}
             [] c.sec = "chase" -> chase(s, x, c.result)
             [] c.sec = "chase_on" -> chase_on(s, x, c.result)
             [] c.sec = "destroyfetch" -> {dns_resolver_destroyfetch(s, a, x)}
             [] c.sec = "decreference" -> {fctx_decreference(s, a, x)}
             [] c.sec = "empty_bucket" -> {empty_bucket(s)}
             [] c.sec = "shutdown_bucket" -> {shutdown_bucket(s, c.result)}
             [] c.sec = "shutdown_end" -> {[s EXCEPT !.res.told = @ \/ s.res.active = 0]}

Dispatch(b) ==
  /\ todo[b] = <<>> /\ queue[b] # <<>>
  /\ \E t \in Handle([Now EXCEPT !.queue[b] = Tail(@)], b, Head(queue[b])) : Become(t)

Section(a) ==
  /\ todo[a] # <<>>
  /\ Head(todo[a]).sec = "empty_bucket" => todo[Owner] = <<>>
  /\ \E t \in Continue([Now EXCEPT !.todo[a] = Tail(@)], a, Head(todo[a])) : Become(t)

Create(c) ==
  /\ fetch[c] = NoFetch /\ todo[c] = <<>> /\ fetches > 0
  /\ \E k \in scenario.keys : \E t \in dns_resolver_createfetch(Now, c, k) :
       Become([t EXCEPT !.fetches = @ - 1])

Cancel(c) ==
  /\ fetch[c].st = "waiting" /\ ~fetch[c].asked /\ "cancel" \in scenario.may
  /\ Become(dns_resolver_cancelfetch(Now, c))

\* A caller destroys its fetch when its event has come.
Destroy(c) == fetch[c].st = "told" /\ Become(dns_resolver_destroyfetch(Now, c, c))

Shutdown == "shutdown" \in scenario.may /\ ~res.exiting /\ Become(dns_resolver_shutdown(Now))

\* A lifetime may be over in either mode; only queries that had started when
\* the timer fired can have timed out.
TimerFires(x) ==
  LET started == {q \in Queries : query[q].fctx = x}
      fire(r) == [send(Now, x, event("timeout", x, started, r)) EXCEPT !.fctx[x].timer = "off"]
  IN  /\ live(Now, x) /\ fctx[x].timer # "off"
      /\ \E t \in upset({fire("life")} \cup (IF fctx[x].timer = "idle" THEN {fire("idle")} ELSE {})) :
            Become(t)

FindDone(x) ==
  /\ live(Now, x) /\ fctx[x].pending > queued(Now, x, "finddone")
  /\ \E r \in {"more", "none"} : Become(send(Now, x, event("finddone", x, Nil, r)))

ValidatorDone(x) ==
  LET done(r) == send(Now, x, event("validated", x, Nil, r))
  IN  /\ live(Now, x)
      /\ fctx[x].vals > fctx[x].deferred + queued(Now, x, "validated")
      /\ \E t \in IF fctx[x].vcancel THEN {done("canceled")}
                   ELSE {done("ok")} \cup upset({done("bad"), done("broken")}) : Become(t)

\* A connect or a send that took its time.
SocketDone(q) ==
  LET x == query[q].fctx
      type == IF query[q].connects > 0 THEN "connected" ELSE "senddone"
      done(r) == send(Now, x, event(type, x, q, r))
  IN  /\ x # Nil /\ (query[q].connects > 0 \/ query[q].sends > 0)
      /\ ~posted(Now, q, ConnectEvents \cup {"senddone"})
      /\ \E t \in {done("ok")} \cup upset({done("unreach"), done("other")}) : Become(t)

\* A query is answered.  (That a context which is done already, and goes on
\* because its nsfetch succeeded, is told to chase once more is left out:
\* fctx_unlink() would fail an assertion.)
Respond(q) ==
  LET x == query[q].fctx
      reply(k) == send(Now, x, event("response", x, q, k))
      kinds == {"answer", "secure", "referral", "chase"} \cap scenario.may
      usual == {k \in kinds : /\ k = "answer" => fctx[x].key \in scenario.answers
                              /\ k = "referral" => fctx[x].domain = 1
                              /\ k = "chase" => fctx[x].key \in DSKeys /\ fctx[x].st = "active"}
      bad == {"lame", "error"} \cup (IF query[q].tcp THEN {} ELSE {"truncated"})
  IN  /\ query[q].dispentry /\ ~posted(Now, q, {"response"})
      /\ query[q].sends = 0 \/ posted(Now, q, {"senddone"})
      /\ \E t \in {reply(k) : k \in usual} \cup upset({reply(k) : k \in bad}) : Become(t)

-----------------------------------------------------------------------------

Init ==
  /\ scenario \in Scenarios
  /\ fctx = [x \in Fctxs |-> NoFctx] /\ query = [q \in Queries |-> NoQuery]
  /\ fetch = [f \in Clients \cup Fctxs |-> NoFetch] /\ count = [d \in Domains |-> 0]
  /\ res = [exiting |-> FALSE, exited |-> {}, active |-> Cardinality(Buckets), told |-> FALSE]
  /\ queue = [b \in Buckets |-> <<>>] /\ todo = [a \in Actors |-> <<>>] /\ failed = {}
  /\ fetches = scenario.fetches /\ upsets = scenario.upsets

Next ==
  \/ \E b \in Buckets : Dispatch(b)
  \/ \E a \in Actors : Section(a)
  \/ \E c \in Clients : Create(c) \/ Cancel(c) \/ Destroy(c)
  \/ Shutdown
  \/ \E x \in Fctxs : TimerFires(x) \/ FindDone(x) \/ ValidatorDone(x)
  \/ \E q \in Queries : SocketDone(q) \/ Respond(q)

Spec == Init /\ [][Next]_vars
-----------------------------------------------------------------------------
(* Properties.                                                             *)

holders(x) == {f \in Clients \cup Fctxs : fetch[f].fctx = x}
asking(x) == {q \in Queries : query[q].fctx = x}
atRest(x) == todo[bucket(Now, x)] = <<>>
awaits(x, types) == \E i \in DOMAIN queue[bucket(Now, x)] :
                      LET e == queue[bucket(Now, x)][i] IN e.fctx = x /\ e.type \in types

\* No assertion of the modelled functions fails, and no handler, caller or
\* late event touches a context or a query that was freed: fctx_unlink() and
\* fctx_destroy() run when nothing is left, whoever drops the last reference.
FctxInsists == failed = {}

\* Between two handlers a context has one reference for every fetch that
\* joined it, every query not yet destroyed, canceled ones included, and a
\* fetch of its own; fctx->nqueries and the list of queries agree with the
\* queries there are; a zone's count is the number of contexts under it
\* (fcount_incr(), fcount_decr()).
RefsExact ==
  /\ \A x \in Fctxs : live(Now, x) /\ atRest(x) =>
       /\ fctx[x].refs = Cardinality(holders(x)) + Cardinality(asking(x))
                         + (IF fetch[x] = NoFetch THEN 0 ELSE 1)
       /\ fctx[x].nqueries = Cardinality(asking(x))
       /\ ToSet(fctx[x].queries) = {q \in asking(x) : ~query[q].canceled}
  /\ \A d \in Domains :
       count[d] = Cardinality({x \in Fctxs : live(Now, x) /\ fctx[x].counted /\ fctx[x].domain = d})

\* Whoever waits for a fetch will hear of it: its event is on the list of a
\* context that is not done, and the context has its timer armed, a timeout
\* or a control event in the queue, or a handler at work.  A context that is
\* done or about to be freed never gets another fetch (fctx_match()).
FetchHeard ==
  \A f \in Clients \cup Fctxs : fetch[f].st = "waiting" =>
    LET x == fetch[f].fctx
    IN  /\ fctx[x].st \in {"init", "active"} /\ f \in fctx[x].events
        /\ \/ fctx[x].timer # "off" \/ ~atRest(x)
           \/ awaits(x, {"start", "doshutdown", "timeout"})

\* What a fetch is told is its own result: never the placeholder an event is
\* made with, which an event that joined after clone_results() would keep,
\* and ISC_R_CANCELED only to those who canceled or when the resolver exits.
HeardRight ==
  \A f \in Clients \cup Fctxs : fetch[f].st = "told" =>
    /\ fetch[f].result # "servfail"
    /\ fetch[f].result = "canceled" => fetch[f].asked \/ res.exiting

\* A context nobody refers to is on its way out, one that is shutting down
\* is freed by the last thing it waits for, and the view hears that the
\* resolver has shut down when, and only when, every context is gone
\* (activebuckets, empty_bucket()).
ShutdownDone ==
  /\ \A x \in Fctxs : live(Now, x) /\ atRest(x) =>
       /\ fctx[x].refs = 0 => fctx[x].want
       /\ fctx[x].want => fctx[x].down \/ awaits(x, {"start", "doshutdown"})
       /\ fctx[x].down => fctx[x].refs > 0 \/ waits(fctx[x])
  /\ res.told => \A x \in Fctxs : ~live(Now, x)
  /\ res.exiting /\ (\A a \in Actors : todo[a] = <<>>) /\ (\A x \in Fctxs : ~live(Now, x)) => res.told

\* A context that still waits for names to be found, with no query, validator
\* or fetch of its own and no retry timer, is in ADDRWAIT, so that the first
\* address found sends it on (fctx_getaddresses(), fctx_finddone()).
AddressesHeeded ==
  \A x \in Fctxs :
    /\ fctx[x].st = "active" /\ atRest(x) /\ fctx[x].pending > 0
    /\ fctx[x].nqueries = 0 /\ fctx[x].vals = 0 /\ fetch[x] = NoFetch
    /\ fctx[x].timer = "life" /\ ~awaits(x, {"timeout", "doshutdown"})
    => fctx[x].wait
=============================================================================
