------------------------------ MODULE MCJournal ------------------------------
(* Journal instantiated for TLC. *)
EXTENDS Journal

World(s, c, e, r) == [steps |-> s, crashes |-> c, errors |-> e, round |-> r]

Early == {"create", "diff", "xhdr", "header"}
Updating == Early \cup {"index", "commit"}

\* Serial numbers that grow by one, with a crash and an error at any write of an
\* update, or with errors that leave the header unwritten only; serial numbers that
\* also jump, without a crash or an error between the header and the index, or with
\* no crash and an error of the last flush only; and serial numbers that come all the
\* way round, without crashes and errors.
Orderly == {World({1}, {"idle"} \cup Updating, Updating, FALSE),
            World({1}, {"idle"} \cup Updating, Early, FALSE),
            World({1, 3}, {"idle", "commit"} \cup Early, Early, FALSE),
            World({1, 3}, {}, {"commit"}, FALSE),
            World({1, 3}, {}, {}, TRUE)}

\* A crash in a compaction
Compacting == {World({1}, {"idle", "newheader", "newindex", "rename"}, {}, FALSE)}
=============================================================================
