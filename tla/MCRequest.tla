----------------------------- MODULE MCRequest -----------------------------
(* Two requests on one dispatch of each kind. *)
EXTENDS Request, TLC

CONSTANTS r1, r2

MCEntries == {r1, r2}

MCMaxBuffers == [k \in {"tcp", "udp", "ex"} |-> IF k = "ex" THEN 9 ELSE 3]

\* Requests are only compared for equality.
Symmetry == Permutations(Entries)
=============================================================================
