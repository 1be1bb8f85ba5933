------------------------------ MODULE MCFetch ------------------------------
(***************************************************************************)
(* Small instances of Fetch: two callers, a question kq in one bucket, the *)
(* question kp, for the servers of its parent, in the other, and the       *)
(* question kr, one zone further up, in the first again.                   *)
(***************************************************************************)
EXTENDS Fetch, TLC

CONSTANTS c1, c2, x1, x2, x3, q1, q2, q3, b1, b2, kq, kp, kr

MCBucketOf == kq :> b1 @@ kp :> b2 @@ kr :> b1
MCParent == kq :> kp @@ kp :> kr @@ kr :> Nil

\* What may happen, which questions get an answer, how many fetches are made
\* and how much goes wrong.
Case(may, answers, n, u) ==
  [may |-> may, keys |-> {kq}, answers |-> answers, fetches |-> n, upsets |-> u]

Joining  == Case({"answer", "cancel"}, {kq}, 3, 0)
Moving   == Case({"answer", "cancel", "referral"}, {kq}, 2, 0)
Failing  == Case({"answer", "cancel"}, {kq}, 2, 1)
Retrying == Case({"answer", "cancel", "secure", "referral"}, {kq}, 1, 2)
Leaving  == Case({"answer", "cancel", "shutdown"}, {kq}, 2, 0)
Exiting  == Case({"answer", "secure", "shutdown"}, {kq}, 1, 2)
Chasing  == Case({"answer", "chase"}, {kq, kp}, 2, 1)
Climbing == Case({"answer", "chase"}, {kq, kr}, 1, 1)
Dropping == Case({"chase", "cancel", "shutdown"}, {}, 1, 1)

MCScenarios == {Joining, Moving, Failing, Retrying, Leaving, Exiting, Chasing, Climbing, Dropping}
Waiting == {Case({"answer"}, {kq}, 1, 1)}

Symmetry == Permutations(Clients)
=============================================================================
