# A verification project for BIND 9.11

BIND 9 is a name server (`bin/named`), a set of client tools (`bin/dig` and
others) and the libraries they share (`lib/isc`, `lib/dns` ...). This project
models the parts on which everything else stands, the locks, tasks and timers of
`lib/isc`; the two structures in which a dynamic zone lives, its database of
versions and its journal; and the three protocols of `lib/dns` in which most
objects wait for each other: requests on a dispatch, the refresh and transfer of
slave zones, and the resolver's fetch contexts. TLC checks each on small
instances. The safety properties of the reader/writer lock and of tasks, the timer
thread's sleep and serial number arithmetic are also proved with TLAPS, for any
number of threads, tasks and timers.

Paths below are relative to `src/lib/` (`isc/`, `dns/`) and `src/bin/` (`named/`,
`dig/`). `PROJECT.json` maps every definition to the
lines it models, and lists runs, hazards, findings and theorems.

## The system

### How the parts interact

* **Threads.** A program runs one worker thread per processor, one timer thread
  and one socket watcher. Workers take *tasks* off a ready queue and run the
  events queued on them (`isc/task.c`). Code that runs in one task is therefore
  serialised, and most of BIND relies on it: a zone, a resolver bucket and a
  client each have a task.
* **Events.** Timers (`isc/timer.c`), sockets (`isc/unix/socket.c`) and other
  tasks communicate by sending events to tasks. Between the decision to send an
  event and its execution anything may happen; purging and cancelation exist to
  take events back.
* **Locks.** Data shared between tasks is protected by mutexes and, where readers
  dominate, by the reader/writer lock of `isc/rwlock.c` (the zone and cache
  database's tree, node and version locks, the zone table, views).
* **Zones.** A zone (`dns/zone.c`) keeps its data in a database
  (`dns/rbtdb.c`). Queries read a version; an update or an incremental transfer
  writes the next one. Changes go to the journal (`dns/journal.c`) before the
  version is committed. From time to time the zone is dumped to its master file
  and the journal compacted; at start the file is loaded and the journal replayed.
  Incremental outgoing transfers are read from the journal.
* **Resolution.** A query that needs recursion creates a fetch (`dns/resolver.c`),
  which finds server addresses in the address database (`dns/adb.c`), sends
  queries through a dispatch (`dns/dispatch.c`), validates the answers
  (`dns/validator.c`) and stores them in the cache (`dns/cache.c`). Several fetches
  share one fetch context; all of these objects are canceled, time out and shut
  down concurrently.

### Inventory

State, operations, what makes each part hard, and what should hold of it. The
ones down to the resolver are modelled, wholly or in part (see *The modules*); for
the others see *Limits*.

| Part | State | Operations | Hard behaviour | Should hold |
| --- | --- | --- | --- | --- |
| Reader/writer lock, `isc/rwlock.c` | ticket counters, reader count and writer flag, waiting readers, grant count | lock, trylock, unlock, tryupgrade, downgrade | lock-free counters beside a mutex and two conditions; tickets wrap | a writer is alone; no wakeup is lost; writers first come first served; readers do not starve |
| Tasks, `isc/task.c` | per task: state, event queue, references, shutdown events; two ready queues; running count; exclusive, privileged and paused modes | create, attach, detach, send, purge, shutdown, begin/end exclusive, set privileged, pause, resume, destroy; `dispatch()` | a task is queued after its lock was released; it is freed by whoever comes last | one custodian per task; exclusive is exclusive; every ready task runs; destruction ends |
| Timers, `isc/timer.c` | heap by due time, per timer: type, expires, interval, idle, references; the thread's wait | create, reset, touch, attach, detach, destroy; `run()` | touch without the manager's lock; the thread sleeps on a due time that changes | no timer is missed; a due timer fires; nothing fires for a dead timer |
| Serial numbers, `isc/serial.c` | none | comparisons modulo 2^32 | not transitive; half the space apart is undefined | used within half the space |
| Journal, `dns/journal.c` | file: header (begin, end), index, transactions; the object in memory | open, write, commit, find, iterate, roll forward, compact | crash between writes; stale index; wrapping serials; left-over files | a restart yields the committed updates; transfers are right |
| Zone database, `dns/rbtdb.c` | versions and their reference counts, per node a stack of headers, changed lists, dead nodes | open, attach, close (commit or roll back), find, add, delete, clean, prune | reference counts without locks, deferred cleaning under other locks | a version never changes while open; assertions on the lists hold; garbage goes |
| Dynamic update, `named/update.c` | the open version and diff | apply, write journal, commit | order of journal and version; failed writes | journal and database agree |
| Zone maintenance, `dns/zone.c` | flags, timers, transfer lists, raw/secure pairs | refresh, notify, transfer queue, load, dump, sign | two zone locks in both orders; a refresh is carried on by whoever comes next; quota lists | one refresh at a time and never none; waiting zones get a slot; references are exact |
| Transfers, `dns/xfrin.c`, `named/xfrout.c` | record state machine, outstanding connect/send/receive | connect, request, receive, commit per difference, fail | timeout against late I/O; several commits in one transfer | reports once; context outlives its I/O; only whole versions are served |
| Rate limiter, `isc/ratelimiter.c` | pending list, state | enqueue, dequeue, tick, stall, shutdown | ticks already queued; events already sent | each event is sent or canceled, once |
| Requests, `dns/request.c` | flags: connecting, sending, canceled, timed out; lists | create, cancel, timeout, resend, respond, destroy, shutdown | all of these race | one completion event per request |
| Dispatch, `dns/dispatch.c` | entries, item out, shutdown state, failsafe event | add, remove, respond, cancel, destroy | one failsafe event for all entries | each entry hears of failure once |
| Resolver, `dns/resolver.c` | fetch contexts in buckets, fetches, queries, counters | create, join, cancel, done, timeout, shutdown | sharing, and joins that meet the end | one event per fetch; shutdown ends; counters balance |
| Address database, `dns/adb.c` | names, entries, finds, fetches | create find, cancel, fetch done, expire, shutdown | lock order violated on cancel | one event per find |
| Validator, `dns/validator.c` | tree of subvalidators | start, fetch done, validated, cancel | waiting cycles | no cycle waits for itself |
| Cache, `dns/cache.c`, `dns/acache.c`, `isc/mem.c` | cleaner state, iterator, water marks | begin, step, end, flush, overmem, shutdown | flush and water callbacks against a running cleaner | state and iterator agree |
| Clients, `named/client.c`, `named/query.c` | state, counters of outstanding operations, quotas | receive, send, recurse, cancel, time out, recycle, shutdown | `exit_check()` decides from many counters | freed once, when nothing is outstanding |
| dig, `dig/dighost.c` | lookups, queries, three global counters | send, receive, time out, retry, fall back to TCP, cancel | counters under every error path | ends, with all counters zero |
| Sockets, `isc/unix/socket.c` | per socket: pending flags, event lists | receive, send, accept, connect, cancel, close; watcher | watcher against cancel and close | one event per operation |
| Names, messages, rdata, master files, DNSSEC, configuration, statistics, drivers, tools | data | parsing, rendering, computing | data, not control | not modelled |

## The modules

| Module | Models | State ↔ code |
| --- | --- | --- |
| `RWLockSpec` | the promise of `isc/rwlock.h` | `mode[t]`: how a thread holds the lock |
| `RWLockAtomic` | `rwlock.c:166-463`, the build with atomic operations | the fields of `isc_rwlock_t`; `cnt_and_flag` as its two members; `pc`, `prev_writer` as in the functions |
| `RWLockAtomicProofs` | theorems about it | |
| `RWLockGeneric` | `rwlock.c:535-720`, the build with a mutex only | the fields of `isc_rwlock_t` |
| `RWLockGenericProofs` | theorems about it | |
| `Task` | `task.c` with worker threads | `task[t]`, `mgr`: the structs; `ref`: the program's pointers; `pc`, `wtask`, `count`: `dispatch()`'s locals |
| `TaskProofs` | exclusive access; the lists, and the invariant of the queues | |
| `TaskQueueProofs` | theorems about the ready queues | |
| `Timer` | `timer.c` with a timer thread | `timer[t]`, `due`, `done`: the structs; `now`, `chosen`, `pc`: `run()` and `dispatch()` |
| `TimerProofs` | a theorem about it | |
| `Serial` | `isc/serial.c`, `DNS_SERIAL_GT` | |
| `SerialProofs` | theorems about it | |
| `Journal` | `journal.c`, and what drives it in `update.c`, `zone.c`, `xfrout.c` | `jnl`, `jnw`: files; `j`: `dns_journal_t`; `master`, `db`: the zone on disk and in memory |
| `RBTDB` | versions, nodes and cleaning of a zone in `rbtdb.c` | the fields of `dns_rbtdb_t`, `rbtdb_version_t`, `rdatasetheader_t`, node |
| `Dispatch` | entries, receiving, failsafe event and destruction in `dispatch.c` | `disp`: `dns_dispatch_t` with its entries and sockets; `queue[e]`: the task of an entry's owner |
| `Request` | `request.c` on a dispatch | `req[r]`, `mgr`: the structs; `sock`: the sockets as `request.c` sees them |
| `RequestSpec` | the promise of `dns/request.h` | `st[r]`: active, canceling or its one result; `mgrst` |
| `ZoneTask` | a zone's task and references; `ratelimiter.c` | operators on the record of all variables |
| `Xfrin` | `xfrin.c` | `xfr[c]`: `dns_xfrin_ctx_t`; a database is a set of records |
| `ZoneTransfer` | slave zones in `zone.c`, composed of the two above | `zone[z]`, `zmgr`, `rl`, `xfr`: the structs; `queue[z]`, `todo[z]`: the zone's task |
| `Fetch` | fetch contexts in `resolver.c` | `fctx[x]`, `query[q]`, `fetch[f]`, `count[d]`, `res`: the structs; `queue[b]`, `todo[a]`: the buckets' tasks and whoever else is in the resolver |
| `MC...` | instances for TLC | |

A step is one atomic operation, one access to a variable that is shared without a
lock, or one critical section. Where a function releases a lock and continues, the
model has two steps, and every other thread may run between them. What each part
leaves to choice is said in the head of its module. In particular:

* **RWLockAtomic.** `write_requests` and `write_completions` are compared by two
  plain reads whose order C leaves open; both orders are modelled. The counters
  wrap at `Wrap` as the code's wrap at 2^32. `Calls` says which entry points a
  thread uses besides unlock.
* **RWLockGeneric.** A downgrade happens only after an upgrade, as in the one
  caller, `rbtdb.c:2266`. See *Limits* for what the interface admits beyond that.
* **Task.** An event has no contents; an event's action is the sequence of calls
  its worker makes until `EndAction`. Conditions may wake spuriously. The
  privilege flag is set on an idle task only, as `isc_task_setprivilege()`'s
  callers do it.
* **Timer.** The clock ticks at any time. A caller reads it before it gets the
  manager's lock, so its time may be `Lag` ticks old. `Fifteen` is the slack of
  the watchdog in `schedule()`.
* **Journal.** Contents are sequences of changes. A file's offset is the number of
  a slot. Each write reaches the file as a whole and in order; `Crash` is the
  death of the process between two writes. `world` says, for a whole behaviour,
  by how much serial numbers grow, where the process may die, which writes may
  fail, and whether the serial numbers may go all the way round while the zone's
  file is not written (`ComeRound`).
* **RBTDB.** A node has one type of rdataset, and a header's serial stands for its
  data. Whether a node has names below it and whether the tree lock can be had
  without waiting are choices.
* **Handlers with several critical sections** (`ZoneTransfer`, `Xfrin`, `Fetch`).
  What a C function does is an operator from state record to state record (or to
  the set of possible ones), named after the function. A handler runs section by
  section: `todo` holds the sections that are left, and other tasks, callers and
  threads run between any two. Timeouts, errors, refusals and interventions are
  paid for out of a budget, `upsets`, so each behaviour has a bounded number of
  them at any places.
* **Request** and **Dispatch** are one composition: a call of the dispatch made
  under the request's lock belongs to the step that makes it. A socket operation
  completes at once or later, or is canceled. `Blocks` says on which kinds of
  socket a send may take its time.
* **ZoneTransfer** composes timer, notify, rate limiter, SOA queries, the transfer
  quota and the transfers themselves. Masters answer with their serial, without
  SOA, not at all, over TCP only and so on; they may get ahead meanwhile. A
  transfer carries a few records in messages of any of the sizes in `Chunks`, so
  that it is cut at every place.
* **Fetch.** Callers stand for clients, the ADB, validators and key refresh, so
  they may create a fetch at any time, during shutdown too. An answer is
  classified as `resquery_response()` classifies it (answer, referral, lame,
  truncated, to be chased through the parent), not processed. The ADB, validators
  and sockets are the environment: they come back at any time, with any result
  they can have, or canceled.

## What is checked

Twelve runs. Bounds are chosen so that the case each property is about happens;
each property has a mutant (a plausible slip in one definition, `Slip:` in the
modules) that TLC refutes under the same bounds, which is the evidence that they
are large enough.

| Run | Instance | Shows |
| --- | --- | --- |
| `rwlock` | three threads, two of which queue for writing, write quota 1, tickets modulo 4 (the least modulus the assumption admits, so they wrap soon), all six entry points between the threads | `MutualExclusion`, `NoLostWakeup`, `WriterFIFO` (of the queueing writers the one with the oldest ticket is next), `ReadersServed` (the reader gets in although the writers keep coming back) |
| `rwlock_generic` | four threads, every entry point, quotas 2 | `NoLostWakeup`, `InsistOriginal` (the assertion at the end of unlock), `ImplementsRWLock` |
| `task` | two workers, a client, two tasks, two pointers, an event and a shutdown event each, quantum 1 (so a task with more to do is requeued), every operation | `OneCustodian` (a task is in one place, and the queues agree), `ExclusiveAlone`, `WorkConserving`, `PrivilegedDone`, `FreedOnce` (the REQUIREs of `task_finished()`; nobody holds a freed task, and none is left that nobody will free) |
| `task_live` | two workers, two clients, two tasks, quantum 2 (so a worker goes on to a second event) | `ReadyRuns`, `ExclusiveGranted`, `DestroyReturns` |
| `timer` | an idle timer with a lifetime and a ticker or a limited ticker, clock to 3, two references | `NoMissedTimer`, `TimerFires`, `DestroyReturns` |
| `journal` | five updates, serial numbers modulo 8 that grow by one or jump and wrap, an index of two entries (so it overflows), three targets for compaction; five worlds (`Orderly`): a crash or an error at every write of an update; errors before the header only; jumps, with crashes and errors outside the writes from the header to the index; jumps, with errors of the last flush only; a full turn without crashes and errors | `RestartReplays` (a load brings back what was committed, and fails only where said below), `FindExact`, `IxfrHonest`, `JournalCurrent` |
| `rbtdb` | two readers, a writer, two nodes, four serials: three updates of a node, or two changes of it in each update, or two nodes | `SnapshotKept`, `ListInsists` (the assertions on versions and dead nodes), `RolledBackGone` |
| `request` | two requests on a dispatch of each of the three kinds, one resend, two upsets | `DispatchInsists`, `DestroyInsists` (nothing outstanding, and no event queued, when the owner may destroy it), `FailureHeard`, `ImplementsRequests` (one completion event, which says "canceled" if it was; the manager's shutdown is reported with the last request) |
| `transfer` | two masters; one zone, loaded or empty, with two upsets, or with one while the masters change; or two zones that compete for one transfer slot, with one | `IrefsExact` (a zone's references are what is outstanding for it), `ZoneInsists`, `RefreshOne`, `QuotaExact` (quota kept, no slot left unused), `DBWhole` (only whole versions are served), `FailureTriesNext` |
| `fetch` | two callers, a question and those for the servers of its parent and grandparent, in two buckets; nine scenarios, each with the events it is about | `FctxInsists` (no assertion fails, nothing freed is touched), `RefsExact`, `FetchHeard`, `HeardRight`, `ShutdownDone` |
| `journal_compact`, `fetch_addrwait` | | violations; see *Findings* |

`TypeOK` is a conjunct of `FreedOnce`, `NoMissedTimer`, `JournalCurrent` and
`ListInsists`, and proved for the two locks. Symmetry is used for threads, tasks,
pointers, nodes, requests and callers, which are only compared for equality, and in no run
that checks liveness. Deadlock is checked where the system never stops (the locks,
`rbtdb`); the other runs end in a destroyed manager, in the last tick of the clock,
in the last update of the bound, or when all requests, zones and fetches are gone.

Bounds that stand for nothing in the code: `MaxEvents`, `MaxShutdown` (events on a
task), `MaxRefs`, `MaxTime`, `MaxChanges`, `MaxSerial`, `MaxItems`, `MaxUpsets`,
`MaxAddrs`, `Ctxs`, `Fctxs`, `Queries`, the `changes` and `nodes` of an RBTDB world,
and the `upsets` and `fetches` of a scenario. Two readers and a writer are the least
with which versions are closed out of order; five updates the least with which serial
numbers modulo 8 wrap past a purged transaction. Two requests are the least of which
one can hear of a failure that another found; two upsets the least for a timeout that
meets a cancelation, or an error that meets a shutdown. Two zones and one slot make a
zone wait; serial 3 makes an incremental transfer of two differences, with a message
boundary after any record. Two callers and three fetches let one join, leave and join again
while a context finishes.

Properties about whom a wakeup, an event or a refusal reaches are stated as
invariants (`FetchHeard`, `FailureHeard`, `RefreshOne`, `QuotaExact`): in every
reachable state somebody who will act on the waiting party's behalf is armed or
queued. They need no fairness, and say more than that something happens
eventually, for the resolver's lifetime timer would see to that alone.

### Fairness

* `RWLockAtomic`: weak fairness of each thread's steps inside a call and of its
  unlock: threads are scheduled, and holders let go. Calling is not fair. This is
  enough for one thread that reads and two that write, the instance that is checked. With
  several readers, nothing in the code keeps a thread from losing every race for
  the mutex or the cmpxchg, and no fairness is assumed that would.
* `Task`: weak fairness of a worker's steps and of the second half of a call under
  way (`TaskReady`): both only need the scheduler. Strong fairness of `EndAction`:
  an event's action returns; the calls it makes meanwhile disable that step for a
  moment. Weak fairness of `Join` and, once the manager is being destroyed, of the
  program's detaches: `isc_taskmgr_destroy()` waits for the program to drop its
  references, and says so.
* `Timer`: weak fairness of the timer thread, of the clock and of the join.

### Findings

* `journal_compact`: `dns_journal_compact()` builds on a `.jnw` file that an
  interrupted compaction left behind (`dns/journal.c:2161`), and the journal it
  then installs does not go with the zone.
* `fetch_addrwait`: a fetch context that waits for the addresses of several names
  clears `FCTX_ATTR_ADDRWAIT` when the first find fails (`dns/resolver.c:2735`),
  although others are pending. When one of them finds an address the event is not
  heeded, and the fetch waits for its lifetime timer.

### Other disagreements

Met while modelling, where the code does not do what a comment, a header or an
assertion of its own says. None has a run of its own. The runs leave out those that
would fail an assertion, by the scenario or bound named here.

* **Pausing.** `isc__taskmgr_pause()` waits for a signal that `dispatch()` gives only
  once `pause_requested` is set, which happens after the wait (`isc/task.c:1649`).
  A pause that finds a task running does not return. Only tests call it. The `task`
  run includes it as it is.
* **Touch.** `dispatch()` releases the timer's lock between its comparison of the
  idle time and the post of the event (`isc/timer.c:714`), so a touch may be
  followed by an idle event at once, against `isc/timer.h:282-283`. Included.
* **A send outlived by its answer.** `req_response()` removes the dispatch entry before
  it calls `req_cancel()`, which needs the entry to find the socket of an exclusive
  dispatch (`dns/request.c:1583`). A send still pending there is not canceled, the
  completion event goes out before it, and destruction fails the assertion
  `!DNS_REQUEST_SENDING(request)` (1331). It takes an answer, or an error on receiving,
  during a first send or a resend that did not complete at once. `Blocks` leaves out
  `"ex"`.
* **Failed transfer of a raw zone.** In `zone_xfrdone()`,
  `TRYLOCK_ZONE(result, secure)` (`dns/zone.c:14568`) overwrites the transfer's
  result, so a zone signed inline treats a failed transfer as one that worked and
  does not "Skip to next failed / untried master" (14715). Included;
  `FailureTriesNext` excepts `RawZones`.
* **Shutdown of a transfer.** `dns_xfrin_shutdown()` promises a `done` call with
  `ISC_R_CANCELED` (`dns/xfrin.h:97-102`); during an incremental transfer it reports
  `DNS_R_BADIXFR`. `xfrin_send_done()` does not look at `shuttingdown`. Included.
* **Failing to set up a query.** The cleanup of `fctx_query()` asserts
  `fctx->references > 1` (`dns/resolver.c:1845`), which fails when every caller has
  canceled and destroyed its fetch and the next query cannot be set up. Such
  failures are left out.
* **An answer for a context that is done.** `resume_dslookup()`
  (`dns/resolver.c:7236`) does not look whether its context is done or shutting down
  before it tries the next server; an assertion of `fctx_finddone()` or `fctx_unlink()`
  then fails. No scenario lets the chase of a parent succeed together with a
  cancelation or a shutdown, and a context that timed out and goes on in this way is
  not told to chase again (the last conjunct of `usual` in `Respond`, which the code
  does not have).
* **Updates out of range of the zone's file.** `dns_journal_commit()` purges the
  transactions that a new serial number makes ambiguous (`dns/journal.c:1159-1165`),
  whether or not the zone was dumped since; what would dump it is `#ifdef notyet`
  (1166-1170). A zone that is restarted before its next dump is then refused with
  "journal out of sync with zone" (`dns/zone.c:4294-4298`). Included:
  `RestartReplays` promises that the load succeeds only while every change since the
  dump is in range (`InRange`), and always that it does not load anything else.
  After a full turn of the serial numbers without a dump not even that holds: the old
  file looks like one the journal starts from, to the load and to a compaction. In
  every world with a crash or an error `OpenJournal` leaves such updates out
  (`ComeRound`), which the code does not.
* **An update that fails late.** When `index_to_disk()` or the last fsync of
  `dns_journal_commit()` fails (`dns/journal.c:1208`, 1213), the header is on disk. The
  update is reported as failed and its version dropped (`named/update.c:3203-3207`),
  the journal refuses every later update, and a restart replays the failed one.
  Included: `JournalCurrent` allows the journal to be one transaction ahead
  (`OneAhead`) in the worlds that have these errors, and `RestartReplays` one
  change more than was committed.
* **A journal that is being created.** A process that dies between the `fopen()` and
  the write of `journal_file_create()` (`dns/journal.c:515-539`) leaves an empty file,
  with which the zone does not load. Included: `RestartReplays` says that the
  zone's file then has every committed update.
* **Lock order.** `dns_resolver_createfetch3()` holds a bucket's lock when
  `fcount_incr()` takes the resolver's; `dns_resolver_shutdown()` holds the resolver's
  when it takes the buckets'. Locks are not state of the model: a step is a
  critical section.
* **Countdown.** `spillattimer_countdown()` asserts `!res->exiting`
  (`dns/resolver.c:8594`) of an event that may be queued when the shutdown comes.
  Not modelled.

## What is proved

`RWLockAtomicProofs` proves six theorems for every finite set of threads, every
write quota, every assignment of entry points and every ticket modulus that is
greater than the number of threads and at least twice the number of those that queue
for writing (`RWLockAssumption`; in the code it is 2^32):

* `TypeCorrect`: `Spec => []TypeOK`;
* `WritersAlone`: `Spec => []MutualExclusion`;
* `AssertionsHold`: `Spec => []InsistsHold`, the `INSIST`s of `isc_rwlock_lock`,
  `isc_rwlock_tryupgrade` and `isc_rwlock_downgrade`;
* `Refinement`: `Spec => ImplementsRWLock`, the abstract lock of `RWLockSpec`;
* `TicketOrder`: `Spec => WriterFIFO`;
* `WakeupsKept`: `Spec => []NoLostWakeup`.

Neither `TypeOK` nor `MutualExclusion` is inductive. That `reader_count` stays a
natural number needs to be known where it is decremented, and that a cmpxchg from
"no reader, no flag" finds nobody inside needs the count to count. The inductive
invariant is

    IndInv == TypeOK /\ CountInv /\ FlagInv

* `CountInv`: `reader_count` is the number of threads at the labels between a
  reader's xadd and its undoing, `readers_waiting` that of the threads asleep as
  readers;
* `FlagInv`: a thread between its successful cmpxchg and the xadd that clears the
  flag finds the flag set, and no other thread is there or holds the lock for
  reading.

The lemmas say what one thread's move does to the population of a set of labels
(`Move`), and from that to each conjunct; a population of zero or one tells who is
inside (`NoneCounted`, `OneCounted`). The step of `Next` is then split by the kind
of step: those that touch neither counter nor flag, those that move a reader in or
out, those that set and clear the flag. `Refinement` follows with `FlagInv` and
`CountInv` as the facts that make each xadd or cmpxchg an abstract step.
`AssertionsHold` needs one more invariant, `FlagOwned`: while the flag is set, a
thread is at one of the labels where it must be. `FlagInv` says that such a
thread finds the flag; that no flag is left behind is the converse, and is what a
reader that asserts "no writer" depends on.

`TicketOrder` needs `TicketInv`. `write_requests` is ahead of `write_completions`, modulo
`Wrap`, by the number of tickets not completed, whether their threads queue, hold
the lock or are leaving it; and the queueing threads have the last tickets, one each
and none missing, the thread whose turn it is having the first of them. `Place` counts
a ticket from the end of the queue, so that taking one moves everybody up by one and
completing one moves nobody. The assumption on the modulus is used here: with as many
tickets out as `Wrap` the counters would be equal, and the code would see no writer.

`WakeupsKept` adds `WakeInv`, which names for every sleeper the thread that will wake
it. Readers: if one sleeps, or is about to on a comparison that has become wrong,
and the lock is idle, then a thread is on its way to the broadcast and will not turn
off to the writers. Writers: if one sleeps, then a thread holds the lock or is inside
a call that ends by looking for sleeping writers, or the first in line is awake. The
comparison of the two counters is two reads, so what matters of a thread that has done
one of them is whether the value it has is still current; this is where `TicketInv` is
needed again, as only it tells what the second read will find.

`RWLockGenericProofs` proves four theorems for every finite set of threads, all
positive quotas and every assignment of entry points (`GenericAssumption`):

* `TypeCorrect`: `Spec => []TypeOK`, by which the two waiting counts are the
  numbers of threads in `WAIT`;
* `OriginalPaired`: `Spec => InsistOriginal`, the `INSIST` at the end of
  `isc_rwlock_unlock`;
* `Refinement`: `Spec => ImplementsRWLock`;
* `WakeupsKept`: `Spec => []NoLostWakeup`.

The inductive invariant is `TypeOK /\ HoldInv`. `HoldInv` says that `active` is the
number of holders, that `type` is the mode they hold the lock in, and that a pending
`original` belongs to a thread that upgraded and is alone. Each part is needed:
`active = 0` tells a writer that nobody is inside only if it counts the holders; a
reader that joins others relies on `type`; and an unlock that leaves other holders
behind does not touch `original`, so it must have been clear. The lemmas follow
the counts through one thread's change of state (`Move`, `Counted`), then take the
kinds of critical section in turn (`TakeReadInv` ... `UnlockInv`). For `WakeupsKept`,
`WakeInv` says that a free lock for which threads wait has a waiter that was woken: the
last holder out signals or broadcasts to a kind of waiter of which there is one
(`HandOver`), and a caller that goes to sleep on a free lock does so only because
others wait already (`SleepBehind`).

`TaskProofs` proves `ExclusiveExcludes`, `Spec => []ExclusiveAlone`, for any finite
sets of workers and tasks, any clients, quantum and bounds (`TaskAssumption`).
A worker decides that it is alone by a counter, `tasks_running <= 1`, and others
stay away because of a flag, so the inductive invariant ties both to where the
workers are: `tasks_running` is the number of workers that have a task; whoever
asks for exclusive access has set `exclusive_requested` and is the only one to
ask; and once it is granted, the worker is the only one with a task
(`ExclusiveOne`). Most steps are `Quiet`: they move no worker in or out of these
populations, wherever they wake sleepers (`QuietInv`). What remains is the head of
the loop, which counts a task out and the next one in within one critical section
(`LoopTopInv`), and the three steps of exclusive access. Nothing is needed of the
queues.

`TaskQueueProofs` proves four more about `Task`, from the same assumption (of which it
also uses that there is a worker, `REQUIRE(workers > 0)` in
`isc__taskmgr_create()`, and that the program has finitely many pointers):

* `Custodian`: `Spec => []OneCustodian`;
* `FreedSafely`: `Spec => []FreedOnce`;
* `PrivilegedFirst`: `Spec => PrivilegedDone`;
* `WakeupsKept`: `Spec => []WorkConserving`.

The inductive invariant is `IndInv /\ TaskInv`, defined in `TaskProofs`:

* `CustodyInv`: the states of the tasks, the ready queue, the calls on their way to
  `task_ready()` and the workers agree on who looks after each task (`Custody`), and
  the two ready queues have no duplicates and are in the same order, the
  priority queue holding the privileged tasks of the other one (`Lists`);
* `DataInv`: types, and what the fields of a task say together: an idle task is
  referenced and has no events, a task that is done or freed is not referenced, and one
  that is shutting down has no shutdown events left to post;
* `OpInv`, `EndInv`, `RestInv`: a call in two halves finds in the second what it left
  in the first; a worker exits only when no task is left; a worker that waits has no
  task.

`OneCustodian` is not inductive alone. A call that makes a task ready relies on the
task being idle and so with nobody, and on a task with a pointer to it being neither
done nor freed; the last detach relies on the fields. The lemmas on lists (`RemovedFacts`,
`DequeuedFacts`, `JoinedFacts`) say what taking out, appending and joining do
to membership and order. The lemmas on custody say how each kind of move hands a task
over (`CustodyReady`, `CustodyQueue`, `CustodyPop`, `CustodyRequeue`, ...), without
regard to the action; an action is then a call of one of these and of the lemmas on fields.
`WakeupsKept` adds `Enough`: while tasks may be dispatched and some worker sleeps, the
workers awake at the head of the loop are at least as many as the tasks queued. Each
`task_ready()` adds one task and wakes one worker, a worker that takes a task
accounts for both, and every change of mode that makes more tasks dispatchable
broadcasts.

`TimerProofs` proves `NeverMissed`, `Spec => []NoMissedTimer`, for any set of timers,
any clock, lag and slack of the watchdog (`TimerAssumption`). The property is
inductive but for one thing: a round of `dispatch()` chooses a timer and posts its
event in two steps, between which the timer's own lock is free. `ChosenInv` says
that the timer is still on the heap then, as every call that could take it off
needs the manager's lock. The heart is `ScheduleInv`: if `schedule()` does not
signal, the timer did not become the head of the heap, so another timer was on it
that is due no later, and for that one the thread is already set. It rests on
the existence of a least due time in any nonempty set of timers (`MinIs`), by the
library's theorem that the natural numbers are well-founded.

`SerialProofs` proves four theorems for every even size of the space, that of the
code (2^32) among them. `Asymmetric`: of two serial numbers at most one is
greater. `Comparable`: one is, unless they are equal or half the space apart.
`Raised`: one raised by less than half the space is greater, over the end of the
space too. `PurgeExact`: the order is not transitive, and two steps forward are one
exactly while they span less than half the space together; so the loop of
`dns_journal_commit()` that steps `header.begin` forward "to the first addressable
transaction" purges those that are not addressable any more and no others.

Only model-checked: everything about the modules above these, whose inductive
invariants are as long as the modules and have not been written down; and liveness
(`ReadersServed`, `ReadyRuns`, `ExclusiveGranted`, `TimerFires`, both
`DestroyReturns`), which is out of the prover's reach. `WorkConserving` and
`NoLostWakeup` are what safety can say of the liveness of tasks and locks. What `Xfrin` makes of a
list of tuples is a fold over a sequence, and a statement about it for every list
would need an induction that the prover cannot do either.

## Limits

Left out of the modelled parts, and why:

* **Reader/writer lock.** The build without threads is a set of assertions.
  RWLockGeneric leaves out a downgrade of a lock that was taken for writing: it
  sets `original`, and a reader that joins before the unlock would fail the
  assertion at `rwlock.c:713`. The interface admits it; no caller does it.
* **Task.** A privilege that changes while the task is being queued: the flag is
  set under the task's lock and the queues are changed later under the manager's,
  so the task could be linked twice. Its callers set it on new tasks. Names, tags
  and statistics are not state of the protocol. Allocation does not fail.
* **Timer.** `isc_time_add()` does not overflow. If it did in
  `isc__timer_reset()`, the timer would keep its old place in the heap with its new
  type.
* **Journal.** Writes survive the death of the process in program order. Losing
  unsynced writes in a power failure needs a model of the page cache.
  With serial numbers that wrap, the process does not die, and no write fails, between
  the writes of header and index. There, `FindExact` does not hold: `index_invalidate()` was done
  in memory only, the entry of a purged transaction stays on disk, and when the
  serial numbers have come round `journal_find()` starts from it. It takes that
  crash or error, a restart and a full turn of the serial space. In the passing run the process does
  not die in a compaction either, which is the subject of `journal_compact`.
  Source serials of inline signing, `dns_db_diff()` and printing are left out.
* **RBTDB.** The shape of the tree, NSEC3 trees and parameters, the re-signing
  heap, iterators, map files and the cache's side (TTL heaps, LRU, memory
  pressure); a database without a task, whose `closeversion()` cleans under the
  tree's write lock. One writer at a time, which `newversion()` requires and the
  zone's task provides. That superseded data is freed as early as possible is not
  claimed: cleaning uses a least serial that may be stale, and a node then keeps
  what nobody can see until it is next referenced.

* **Request** and **Dispatch.** Failures of allocation late in the creation of a
  request; the second TCP dispatch and `DNS_REQUESTOPT_SHARE`; an exclusive dispatch
  at its limit of buffers; `addresponse3()` when it finds no free message ID;
  `dns_requestmgr_whenshutdown()` called after the shutdown. `do_cancel()` of a
  UDP dispatch searches a table it shares with other dispatches; one dispatch is
  modelled. `removeresponse()` and the detach that follows are one
  step. Port pools, imported sockets, dispatch sets, blackhole lists and the
  assembly of TCP messages are left out.
* **ZoneTransfer** and **Xfrin.** TSIG; stub zones; dialup; sending notifies;
  reconfiguration of masters; zones that share a task; the signed half of a zone
  signed inline; the journal that an incremental transfer writes (see `Journal`).
  A slave is loaded before the behaviour starts. The cache of unreachable masters
  is a free choice. The alternate transfer source differs from the first. A failing
  `zone_replacedb()` is taken together with a read error on the last message.
  `zone_maintenance()`'s unlocked call of `zone_settimer()` is part of its step. The
  rate limiter's stall, release, dequeue and change of interval are left out. That a
  tick cannot find the limiter shut down rests on `named` shutting it down with
  exclusive access.
* **Fetch.** Priming; forwarders and alternate servers; clients-per-query and
  duplicates; shared UDP dispatches; resends other than of a truncated answer over
  TCP; the branches of `maybe_destroy()` for answers sent before validation ends, which
  no caller reaches. Contexts are not reused. A UDP connect completes at once and
  `isc_socket_sendto2()` does not fail synchronously, as on Unix.
  `fctx_cancelqueries()` is one section.

Not modelled, though they are protocols: the address database, the validator, the
cache's and the additional cache's cleaners, client objects, the socket watcher, the
locks of raw and secure zones, `dig`'s lookups. The first two and the sockets are
the environment of the modules above, which admit every order of their answers;
each is a state machine of the size of the largest module here.

Not modelled at all: names, messages, rdata, master files, DNSSEC and
cryptography, encodings, configuration, statistics, database drivers, the
lightweight resolver, the offline tools and the Windows ports. They are parsing,
rendering and computing on data a small instance does not represent, or adapters,
and make up most of the source. `PROJECT.json` lists every part with its reason.

## What could come next

1. **ADB** and **Validator**, and their composition with `Fetch`, which would turn
   its environment into modules with a specification of their own.
2. **Client**, **DigLookup**: `exit_check()` and `check_if_done()`, two state machines
   that decide from counters. **Socket**: the watcher and its pending flags.
3. **CacheCleaner**: the cleaner's states with flush and the water marks of
   `isc/mem.c`; **ZoneLocks**: the two locks of a zone signed inline.
4. Compositions: RBTDB's writer with Journal as one update; Timer with the task that
   is sent its events; a page cache under the journal.
5. Theorems, in order of value: `FailureHeard` for Request, whose invariant must say
   which events each request can still be sent; `JournalCurrent` for Journal;
   `SnapshotKept` for RBTDB; `QuotaExact` for ZoneTransfer.

## Running it

    tlc -config Timer.cfg MCTimer
    tlapm RWLockAtomicProofs.tla
    tlapm RWLockGenericProofs.tla
    tlapm TaskProofs.tla
    tlapm TaskQueueProofs.tla
    tlapm TimerProofs.tla
    tlapm SerialProofs.tla

Each run takes between a second and three minutes; the proofs of the atomic lock and the
two modules about tasks about ten minutes each, the others less than two.
