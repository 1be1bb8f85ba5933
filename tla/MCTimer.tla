------------------------------ MODULE MCTimer ------------------------------
(* Timer instantiated for TLC. *)
EXTENDS Timer, TLC

Arg(t, e, i) == [type |-> t, expires |-> e, interval |-> i]

CONSTANTS m1, m2

\* One timer is an idle timer with a lifetime, or inactive; the other a ticker,
\* with or without a lifetime, shorter than its interval.
SomeArgs == (m1 :> {Arg("inactive", 0, 0), Arg("once", 3, 1)})
         @@ (m2 :> {Arg("ticker", 0, 1), Arg("limited", 2, 2)})
=============================================================================
