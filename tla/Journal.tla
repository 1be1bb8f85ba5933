------------------------------ MODULE Journal ------------------------------
(***************************************************************************)
(* The journal of a dynamic zone (lib/dns/journal.c) with the code that    *)
(* writes it (bin/named/update.c), dumps the zone and compacts the journal *)
(* (dump_done() of lib/dns/zone.c), serves incremental transfers from it   *)
(* (bin/named/xfrout.c) and replays it when the zone is loaded             *)
(* (zone_postload()).                                                      *)
(*                                                                         *)
(* A file is a header, an index and a body with one slot for each          *)
(* transaction, so an offset is the number of a slot and 0 means "not      *)
(* valid".  A write reaches the file as a whole and in program order: a    *)
(* crash is the death of the process between two writes.  The contents of  *)
(* a zone are the sequence of the changes made to it; a change has an      *)
(* identity and the serial number it leads to.                             *)
(***************************************************************************)
EXTENDS Serial, Sequences, SequencesExt

CONSTANTS
    First,      \* the serial number of the zone file at the start
    IndexSize,  \* index_size, 56 in the code
    Targets,    \* the values of target_size less the header and the index, in slots
    MaxChanges, \* bound on the updates of a behaviour
    Worlds      \* the circumstances of a behaviour: see Init

ASSUME JournalAssumption ==
    /\ First \in Serials /\ IndexSize \in Nat \ {0, 1} /\ MaxChanges \in Nat
    /\ Targets \subseteq Nat

VARIABLES
    world,      \* what may happen in this behaviour: never changes
    serial,     \* the serial number of each change made so far (history)
    jnl, jnw,   \* the journal file and the new file of a compaction
    master,     \* the contents of the zone's file
    db,         \* the contents of the zone's current version
    dump,       \* the version an asynchronous dump writes, or "none"
    compact,    \* the serial number to compact the journal up to, or -1
    j,          \* the journal object in memory: header and index
    pc

vars == <<world, serial, jnl, jnw, master, db, dump, compact, j, pc>>

Pos == [serial : Serials, offset : Nat]
NoPos == [serial |-> 0, offset |-> 0]
Header == [begin : Pos, end : Pos, index : [1 .. IndexSize -> Pos]]

\* initial_journal_header with an empty index: journal_file_create()
NewHeader == [begin |-> NoPos, end |-> NoPos, index |-> [i \in 1 .. IndexSize |-> NoPos]]

\* A file that does not exist, one that exists and has no header yet, and the rest
File(kind, h, body) == [kind |-> kind, h |-> h, body |-> body]
Absent == File("absent", NewHeader, <<>>)
Blank == File("blank", NewHeader, <<>>)
Created == File("file", NewHeader, <<>>)

JOURNAL_EMPTY(h) == h.begin.offset = h.end.offset
POS_VALID(pos) == pos.offset # 0

\* The SOA serial number of a zone with the contents c
SerialOf(c) == IF c = <<>> THEN First ELSE serial[Last(c)]

-----------------------------------------------------------------------------
(* Walking through a file                                                  *)

\* The slot at pos; the end of the file reads as a slot of size zero.
Slot(f, pos) ==
    IF pos.offset \in DOMAIN f.body THEN f.body[pos.offset]
    ELSE [size |-> 0, serial0 |-> 0, serial1 |-> 0, change |-> 0]

\* Whether journal_next() succeeds at pos
NextOk(f, pos) ==
    /\ pos.serial # f.h.end.serial
    /\ pos.offset \in DOMAIN f.body
    /\ Slot(f, pos).serial0 = pos.serial

\* journal_next()
journal_next(f, pos) == [serial |-> Slot(f, pos).serial1, offset |-> pos.offset + 1]

\* The position k transactions after pos
Ahead(f, pos, k) ==
    IF k = 0 THEN pos
    ELSE [serial |-> f.body[pos.offset + k - 1].serial1, offset |-> pos.offset + k]

\* How far a loop that calls journal_next() until Stop goes from pos: to the
\* first position that satisfies Stop or has no next.
Distance(f, pos, Stop(_)) ==
    Min({k \in 0 .. Len(f.body) :
            /\ k > 0 => pos.offset + k - 1 \in DOMAIN f.body
            /\ Stop(Ahead(f, pos, k)) \/ ~NextOk(f, Ahead(f, pos, k))})

Advance(f, pos, Stop(_)) == Ahead(f, pos, Distance(f, pos, Stop))

\* index_find()
index_find(h, s, guess) ==
    FoldLeft(LAMBDA best, p : IF POS_VALID(p) /\ SERIAL_GE(s, p.serial) /\ SERIAL_GT(p.serial, best.serial)
                              THEN p ELSE best, guess, h.index)

Found(result, pos) == [result |-> result, pos |-> pos]

\* Slip: a serial number past the end is looked for, too.
journal_find_open(f, s) ==
    IF SERIAL_GT(f.h.begin.serial, s) THEN Found("range", NoPos)
    ELSE LET q == Advance(f, index_find(f.h, s, f.h.begin),
                          LAMBDA p : p.serial = s \/ SERIAL_GT(p.serial, s))
         IN  Found("success", q)

\* journal_find()
journal_find(f, s) ==
    IF SERIAL_GT(f.h.begin.serial, s) \/ SERIAL_GT(s, f.h.end.serial) THEN Found("range", NoPos)
    ELSE IF s = f.h.end.serial THEN Found("success", f.h.end)
    ELSE LET q == Advance(f, index_find(f.h, s, f.h.begin),
                          LAMBDA p : p.serial = s \/ SERIAL_GT(p.serial, s))
         IN  Found(CASE q.serial = s -> "success"
                     [] SERIAL_GT(q.serial, s) -> "notfound"
                     [] OTHER -> "unexpected", q)

\* What dns_journal_iter_init(b, e) and the iteration that follows deliver.
\* read_one_rr() has an INSIST on the offset and compares every transaction's
\* header with the SOA record before it.
Iterate(f, b, e) ==
    LET from == journal_find(f, b)
        to == journal_find(f, e)
        slots == from.pos.offset .. to.pos.offset - 1
        Changes == [i \in 1 .. Cardinality(slots) |-> f.body[from.pos.offset + i - 1].change]
        sound == \A o \in slots :
                    /\ o \in DOMAIN f.body
                    /\ f.body[o].size # 0
                    /\ f.body[o].serial0 = IF o = from.pos.offset THEN b ELSE serial[f.body[o - 1].change]
        Answer(result) == [result |-> result, changes |-> IF result = "success" THEN Changes ELSE <<>>]
    IN  CASE from.result # "success" -> Answer(from.result)
          [] to.result # "success" -> Answer(to.result)
          [] from.pos.offset > to.pos.offset -> Answer("insist")
          [] OTHER -> Answer(IF sound THEN "success" ELSE "unexpected")

\* dns_journal_rollforward() of the file into a zone with the contents c
Rollforward(f, c) ==
    LET Answer(result) == [result |-> result, changes |-> <<>>]
    IN  CASE f.kind = "absent" -> Answer("nojournal")
          [] f.kind = "blank" -> Answer("nomore")
          [] f.kind = "file" /\ JOURNAL_EMPTY(f.h) -> Answer("uptodate")
          [] OTHER -> IF SerialOf(c) = f.h.end.serial THEN Answer("uptodate")
                      ELSE Iterate(f, SerialOf(c), f.h.end.serial)

-----------------------------------------------------------------------------
(* The index                                                               *)

\* index_add(): without a vacant position every other entry is dropped.
index_add(index, pos) ==
    LET vacant == {i \in 1 .. IndexSize : ~POS_VALID(index[i])}
        kept == (IndexSize + 1) \div 2
        room == IF vacant # {} THEN index
                ELSE [i \in 1 .. IndexSize |-> IF i <= kept THEN index[2 * i - 1] ELSE NoPos]
    IN  [room EXCEPT ![IF vacant # {} THEN Min(vacant) ELSE kept + 1] = pos]

\* Slip: entries that become ambiguous are kept.
IndexKept(index, s) == index

\* index_invalidate()
index_invalidate(index, s) ==
    [i \in 1 .. IndexSize |-> IF SERIAL_GT(s, index[i].serial) THEN index[i] ELSE NoPos]

\* index_to_disk() after the index was built with index_add() for every
\* transaction of the file
Indexed(f) ==
    LET n == f.h.end.offset - f.h.begin.offset
    IN  FoldLeft(index_add, f.h.index, [k \in 1 .. n |-> Ahead(f, f.h.begin, k - 1)])

-----------------------------------------------------------------------------
\* The behaviours of one world: the steps of the serial number, the places
\* where the process may die, the places where a write may fail (at "index" it
\* is index_to_disk(), at "commit" the fsync after it) and whether the serial
\* numbers may go all the way round while the zone's file is not written.
Init ==
    /\ world \in Worlds
    /\ serial = <<>>
    /\ jnl = Absent /\ jnw = Absent
    /\ master = <<>> /\ db = <<>>
    /\ dump = [on |-> FALSE, contents |-> <<>>] /\ compact = -1
    /\ j = NewHeader
    /\ pc = "idle"

-----------------------------------------------------------------------------
(* An update: update_action() and dns_journal_write_transaction()          *)

\* The serial numbers come round to the zone file's with the next one, s.
ComeRound(s) == SERIAL_GT(SerialOf(master), SerialOf(db)) /\ SERIAL_GE(s, SerialOf(master))

\* dns_journal_open() for writing: a missing file is created first.
OpenJournal ==
    /\ pc = "idle" /\ Len(serial) < MaxChanges
    /\ \E d \in world.steps :
          LET s == (SerialOf(db) + d) % Space
          IN  /\ ComeRound(s) => world.round
              /\ serial' = Append(serial, s)
    /\ jnl' = IF jnl.kind = "absent" THEN Blank ELSE jnl
    /\ pc' = IF jnl.kind = "absent" THEN "create" ELSE "diff"
    /\ j' = jnl.h
    /\ UNCHANGED <<world, jnw, master, db, dump, compact>>

\* journal_file_create() writes the header.
CreateFile ==
    /\ pc = "create"
    /\ jnl' = Created
    /\ pc' = "diff"
    /\ UNCHANGED <<world, serial, jnw, master, db, dump, compact, j>>

\* Where dns_journal_begin_transaction() puts the transaction
TransactionOffset(h) == IF JOURNAL_EMPTY(h) THEN 1 ELSE h.end.offset

\* body with a slot written at the offset o
Written(body, o, slot) ==
    [i \in 1 .. Max({o, Len(body)}) |-> IF i = o THEN slot ELSE body[i]]

\* dns_journal_begin_transaction() and dns_journal_writediff(): an empty
\* transaction header and the changes
WriteDiff ==
    /\ pc = "diff"
    /\ jnl' = [jnl EXCEPT !.body = Written(@, TransactionOffset(j),
                  [size |-> 0, serial0 |-> 0, serial1 |-> 0, change |-> Len(serial)])]
    /\ pc' = "xhdr"
    /\ UNCHANGED <<world, serial, jnw, master, db, dump, compact, j>>

\* The old transactions that become ambiguous: begin steps over them.
Purged(h, s) ==
    IF JOURNAL_EMPTY(h) THEN h
    ELSE [h EXCEPT !.begin = Advance(jnl, h.begin, LAMBDA p : SERIAL_GT(s, p.serial)),
                   !.index = index_invalidate(h.index, s)]

\* The update failed, and so does what dns_journal_commit() refuses.
Abandon(file) ==
    /\ jnl' = file
    /\ pc' = "idle"
    /\ UNCHANGED <<world, serial, jnw, master, db, dump, compact, j>>

\* Slip: the header is written along with the transaction's.
CommitTogether ==
    /\ pc = "xhdr"
    /\ LET s0 == SerialOf(db)
           s1 == Last(serial)
           h == Purged(j, s1)
           o == TransactionOffset(j)
           new == [h EXCEPT !.begin = IF JOURNAL_EMPTY(h) THEN [serial |-> s0, offset |-> o] ELSE @,
                            !.end = [serial |-> s1, offset |-> o + 1]]
       IN  /\ jnl' = [jnl EXCEPT !.body[o] = [@ EXCEPT !.size = 1, !.serial0 = s0, !.serial1 = s1],
                                 !.h.begin = new.begin, !.h.end = new.end]
           /\ j' = new
    /\ pc' = "header"
    /\ UNCHANGED <<world, serial, jnw, master, db, dump, compact>>

\* dns_journal_commit() up to the write of the transaction's header
CommitTransaction ==
    /\ pc = "xhdr"
    /\ LET s0 == SerialOf(db)
           s1 == Last(serial)
           h == Purged(j, s1)
           o == TransactionOffset(j)
       IN  IF ~SERIAL_GT(s1, s0) \/ (~JOURNAL_EMPTY(j) /\ s0 # j.end.serial)
           THEN Abandon(jnl)
           ELSE /\ jnl' = [jnl EXCEPT !.body[o] =
                              [@ EXCEPT !.size = 1, !.serial0 = s0, !.serial1 = s1]]
                /\ j' = [h EXCEPT !.begin = IF JOURNAL_EMPTY(h) THEN [serial |-> s0, offset |-> o] ELSE @,
                                  !.end = [serial |-> s1, offset |-> o + 1]]
                /\ pc' = "header"
                /\ UNCHANGED <<world, serial, jnw, master, db, dump, compact>>

\* ... the journal's header
CommitHeader ==
    /\ pc = "header"
    /\ jnl' = [jnl EXCEPT !.h.begin = j.begin, !.h.end = j.end]
    /\ pc' = "index"
    /\ UNCHANGED <<world, serial, jnw, master, db, dump, compact, j>>

\* ... and the index
CommitIndex ==
    /\ pc = "index"
    /\ jnl' = [jnl EXCEPT !.h.index =
                  index_add(j.index, [serial |-> SerialOf(db), offset |-> j.end.offset - 1])]
    /\ pc' = "commit"
    /\ UNCHANGED <<world, serial, jnw, master, db, dump, compact, j>>

\* dns_db_closeversion(db, &ver, ISC_TRUE) once the journal is written
CloseVersion ==
    /\ pc = "commit"
    /\ db' = Append(db, Len(serial))
    /\ pc' = "idle"
    /\ UNCHANGED <<world, serial, jnl, jnw, master, dump, compact, j>>

\* A write of the update fails: its journal is closed, its version dropped.  A
\* new file that could not be written is removed; a header that was written
\* stays, and so does the transaction it tells of.
WriteError ==
    /\ pc \in world.errors
    /\ Abandon(IF pc = "create" THEN Absent ELSE jnl)

-----------------------------------------------------------------------------
(* Dumping the zone and compacting its journal                             *)

\* zone_gotwritehandle(): the current version is dumped by and by
StartDump ==
    /\ pc = "idle" /\ ~dump.on /\ db # master
    /\ dump' = [on |-> TRUE, contents |-> db]
    /\ UNCHANGED <<world, serial, jnl, jnw, master, db, compact, j, pc>>

\* The new zone file is renamed into place, and dump_done() asks for a
\* compaction, which is put off while a transfer is running; a later dump may
\* then overwrite compact_serial.
DumpDone ==
    /\ pc = "idle" /\ dump.on
    /\ master' = dump.contents
    /\ compact' = SerialOf(dump.contents)
    /\ dump' = [on |-> FALSE, contents |-> <<>>]
    /\ UNCHANGED <<world, serial, jnl, jnw, db, j, pc>>

\* dns_journal_compact(): the best of the index, given target_size / 2
IndexGuess(half) ==
    FoldLeft(LAMBDA best, p : IF /\ POS_VALID(p) /\ SERIAL_GE(compact, p.serial)
                                 /\ jnl.h.end.offset - p.offset >= half
                                 /\ p.offset > best.offset
                              THEN p ELSE best, jnl.h.begin, jnl.h.index)

\* Whether the loop that follows takes a position it came to for a better guess
Better(p, half) ==
    /\ p.serial # jnl.h.end.serial /\ SERIAL_GE(compact, p.serial)
    /\ jnl.h.end.offset - p.offset >= half

\* Where that loop ends: at serial, or at the first that is no better
LoopEnds(p, half) ==
    p.serial = compact \/ (p # IndexGuess(half) /\ ~Better(p, half))
LoopEnd(half) == Advance(jnl, IndexGuess(half), LAMBDA p : LoopEnds(p, half))

BestGuess(half) ==
    LET guess == IndexGuess(half)
        end == LoopEnd(half)
    IN  IF end = guess \/ Better(end, half) THEN end
        ELSE Ahead(jnl, guess, end.offset - guess.offset - 1)

\* Slip: one transaction more than can be spared is left out.
CopyFromNext(half) == journal_next(jnl, BestGuess(half))

\* Where the copy starts: one transaction further, unless serial was reached
CopyFrom(half) ==
    IF BestGuess(half).serial # compact THEN journal_next(jnl, BestGuess(half)) ELSE BestGuess(half)

\* There is no work to do, or serial is not in the journal's range.
NoCompaction(target) ==
    \/ jnl.kind # "file"
    \/ JOURNAL_EMPTY(jnl.h)
    \/ SERIAL_GT(jnl.h.begin.serial, compact) \/ SERIAL_GT(compact, jnl.h.end.serial)
    \/ jnl.h.end.offset - 1 < target

\* journal_next() failed.
CompactFails(half) ==
    \/ ~LoopEnds(LoopEnd(half), half)
    \/ BestGuess(half).serial # compact /\ ~NextOk(jnl, BestGuess(half))

EndCompaction(target) ==
    /\ pc = "idle" /\ compact # -1
    /\ NoCompaction(target) \/ CompactFails(target \div 2)
    /\ jnw' = IF NoCompaction(target) THEN jnw ELSE Absent
    /\ compact' = -1
    /\ UNCHANGED <<world, serial, jnl, master, db, dump, j, pc>>

\* The new file is opened, or created if there is none, and the transactions
\* are copied into it.  The new header is not written when there are none.
CompactCopy(target) ==
    /\ pc = "idle" /\ compact # -1
    /\ ~NoCompaction(target) /\ ~CompactFails(target \div 2)
    /\ LET from == CopyFrom(target \div 2)
           length == jnl.h.end.offset - from.offset
           old == IF jnw.kind = "absent" THEN Created ELSE jnw
       IN  /\ jnw' = [old EXCEPT !.body = SubSeq(jnl.body, from.offset, jnl.h.end.offset - 1)
                                          \o SubSeq(@, length + 1, Len(@))]
           /\ j' = [old.h EXCEPT !.begin = [serial |-> from.serial, offset |-> 1],
                                 !.end = [serial |-> jnl.h.end.serial, offset |-> length + 1]]
           /\ pc' = IF length = 0 THEN "rename" ELSE "newheader"
    /\ UNCHANGED <<world, serial, jnl, master, db, dump, compact>>

CompactHeader ==
    /\ pc = "newheader"
    /\ jnw' = [jnw EXCEPT !.h.begin = j.begin, !.h.end = j.end]
    /\ pc' = "newindex"
    /\ UNCHANGED <<world, serial, jnl, master, db, dump, compact, j>>

CompactIndex ==
    /\ pc = "newindex"
    /\ jnw' = [jnw EXCEPT !.h.index = Indexed(jnw)]
    /\ pc' = "rename"
    /\ UNCHANGED <<world, serial, jnl, master, db, dump, compact, j>>

\* rename(newname, filename)
CompactRename ==
    /\ pc = "rename"
    /\ jnl' = jnw /\ jnw' = Absent
    /\ compact' = -1
    /\ pc' = "idle"
    /\ UNCHANGED <<world, serial, master, db, dump, j>>

-----------------------------------------------------------------------------
(* Crash and restart                                                       *)

\* The contents that the journal on disk ends with: those of the current version
\* and, once the header is written, the change that is being committed.
Journaled ==
    LET last == jnl.body[jnl.h.end.offset - 1].change
    IN  IF jnl.kind # "file" \/ JOURNAL_EMPTY(jnl.h) \/ last \in Range(db) THEN db
        ELSE Append(db, last)

\* The changes that only the journal has
Undumped == Len(master) + 1 .. Len(Journaled)

Crash ==
    /\ pc \in world.crashes
    /\ pc' = "down"
    /\ dump' = [on |-> FALSE, contents |-> <<>>] /\ compact' = -1
    /\ UNCHANGED <<world, serial, jnl, jnw, master, db, j>>

LoadOk == {"success", "uptodate", "nojournal"}

\* zone_postload(): the journal is replayed, and removed if it is out of date.
\* Without LoadOk the zone is not loaded, now or ever after.
Load ==
    /\ pc = "down"
    /\ LET r == Rollforward(jnl, master)
           c == master \o r.changes
       IN  /\ r.result \in LoadOk
           /\ db' = c
           /\ jnl' = IF jnl.kind = "file" /\ jnl.h.end.serial # SerialOf(c) THEN Absent ELSE jnl
    /\ pc' = "idle"
    /\ UNCHANGED <<world, serial, jnw, master, dump, compact, j>>

Next ==
    \/ OpenJournal \/ CreateFile \/ WriteDiff \/ CommitTransaction \/ CommitHeader
    \/ CommitIndex \/ CloseVersion \/ WriteError
    \/ StartDump \/ DumpDone
    \/ \E target \in Targets : EndCompaction(target) \/ CompactCopy(target)
    \/ CompactHeader \/ CompactIndex \/ CompactRename
    \/ Crash \/ Load

Spec == Init /\ [][Next]_vars

-----------------------------------------------------------------------------
(* Properties                                                              *)

Slots == [size : 0 .. 1, serial0 : Serials, serial1 : Serials, change : 1 .. MaxChanges]

IsFile(f) ==
    /\ f.kind \in {"absent", "blank", "file"} /\ f.h \in Header
    /\ \A i \in DOMAIN f.body : f.body[i] \in Slots

\* The types of the files, of the journal object and of the zone's contents.
TypeOK ==
    /\ world \in Worlds
    /\ \A i \in DOMAIN serial : serial[i] \in Serials
    /\ IsFile(jnl) /\ IsFile(jnw) /\ j \in Header
    /\ Range(master) \cup Range(db) \cup Range(dump.contents) \subseteq DOMAIN serial
    /\ dump.on \in BOOLEAN /\ compact \in {-1} \cup Serials
    /\ pc \in {"idle", "create", "diff", "xhdr", "header", "index", "commit",
               "newheader", "newindex", "rename", "down"}

\* Every change not in the zone's file has a greater serial number than it.
\* dns_journal_commit() does not see to it (force_dump() is not written yet):
\* the transactions that an update out of this range purges are gone, and the
\* load ends with "journal out of sync with zone".
InRange == \A i \in Undumped : SERIAL_GT(serial[Journaled[i]], SerialOf(master))

\* "When a server is restarted after a shutdown or crash, it will replay the
\* journal file to incorporate into the zone any updates that took place after
\* the last zone dump" (Bv9ARM-book.xml): wherever the process died, a load
\* yields every committed update in order, and at most one besides, which was
\* being committed or failed once the header was written.  And the load
\* succeeds, except that it refuses a journal out of range of the zone's file,
\* and the empty file left by a death in journal_file_create(), when the zone's
\* file has every committed update.  (Not covered: World.round, see Init, and
\* with serial numbers that wrap a crash or an error before the index.)
RestartReplays ==
    pc = "down" =>
        LET r == Rollforward(jnl, master)
            c == master \o r.changes
        IN  /\ r.result \in LoadOk => c \in {db, Journaled}
            /\ jnl.kind = "blank" => db = master
            /\ jnl.kind # "blank" /\ InRange => r.result \in LoadOk

\* journal_find() finds exactly the transactions from begin to end, whatever
\* the index holds (not covered: that it is older than a header that purged, see
\* above): "If found, store its position at '*pos' and return
\* ISC_R_SUCCESS."
FindExact ==
    jnl.kind = "file" /\ ~JOURNAL_EMPTY(jnl.h) =>
        LET n == jnl.h.end.offset - jnl.h.begin.offset
        IN  /\ Ahead(jnl, jnl.h.begin, n) = jnl.h.end
            /\ \A k \in 0 .. n :
                  LET p == Ahead(jnl, jnl.h.begin, k)
                  IN  journal_find(jnl, p.serial) = Found("success", p)

\* An incremental transfer from the serial number b to the current version
\* delivers the changes from a version with that serial number to the current
\* one, however far the next update, a dump or a compaction has got, or it is
\* refused; and it never fails the INSIST of read_one_rr().
IxfrHonest ==
    jnl.kind = "file" /\ pc # "down" =>
        \A b \in Serials : ~SERIAL_GE(b, SerialOf(db)) =>
            LET r == Iterate(jnl, b, SerialOf(db))
            IN  /\ r.result # "insist"
                /\ r.result = "success" =>
                      \E k \in 0 .. Len(db) : /\ SerialOf(SubSeq(db, 1, k)) = b
                                              /\ r.changes = SubSeq(db, k + 1, Len(db))

\* The journal is one transaction ahead of the zone's version: an update that
\* failed at index_to_disk() or the last fsync of dns_journal_commit() is in it.
OneAhead ==
    /\ world.errors \cap {"index", "commit"} # {}
    /\ jnl.body[jnl.h.end.offset - 1].serial0 = SerialOf(db)
    /\ Journaled # db

\* Between two updates the journal ends with the zone's current version, since
\* dns_journal_commit() refuses every later update if it does not; only where
\* a write can fail after the header's it may be one transaction ahead.  And a
\* dump that ends meanwhile leaves a transaction to keep:
\* INSIST(best_guess.serial != j->header.end.serial) of dns_journal_compact().
JournalCurrent ==
    /\ TypeOK
    /\ pc = "idle" /\ jnl.kind = "file" /\ ~JOURNAL_EMPTY(jnl.h) =>
          jnl.h.end.serial = SerialOf(db) \/ OneAhead
    /\ pc = "idle" /\ compact # -1 =>
          \A target \in Targets :
              ~NoCompaction(target) => BestGuess(target \div 2).serial # jnl.h.end.serial
=============================================================================
