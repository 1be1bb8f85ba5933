--------------------------- MODULE MCZoneTransfer ---------------------------
(* Slave zones of the same two masters: one alone with more going wrong, and *)
(* two that compete for the transfer quota, the second of them signed inline. *)
EXTENDS ZoneTransfer, TLC

CONSTANTS z1, z2, m1, m2, c1, c2

MCZones == {z1, z2}
MCMasters == <<m1, m2>>
MCCtxs == {c1, c2}

\* z1 alone, with two things going wrong, or with one while the masters change.
OnlyFirst == {z1 :> first @@ z2 :> "absent" : first \in {"loaded", "empty"}}
Alone == [start : OnlyFirst, serial : {3}, upsets : {2}]
Changing == [start : OnlyFirst, serial : {2}, upsets : {1}]
Both == [start : [MCZones -> {"empty"}], serial : {3}, upsets : {1}]

MCScenarios == Alone \cup Changing \cup Both
=============================================================================
