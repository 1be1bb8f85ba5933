---------------------------- MODULE RequestSpec ----------------------------
(***************************************************************************)
(* What lib/dns/include/dns/request.h promises.  A request that was        *)
(* created gets one completion event; if it was canceled before, by its    *)
(* owner or by the shutdown of the manager, the event says so.  No request *)
(* is created after a shutdown, and the manager reports that it is down    *)
(* when, and as soon as, the last request has been destroyed.              *)
(***************************************************************************)
CONSTANTS Requests, Results

VARIABLES
  st,    \* per request: "none", "active", "canceling", a result, or "gone"
  mgrst  \* "up", "closing" or "down"

Pending(f) == {r \in Requests : f[r] \notin {"none", "gone"}}

\* The manager reports as soon as it is closing and nothing is pending.
Settled(m, f) == IF m = "closing" /\ Pending(f) = {} THEN "down" ELSE m

Init == st = [r \in Requests |-> "none"] /\ mgrst = "up"

Create(r) ==
  /\ mgrst = "up" /\ st[r] = "none"
  /\ st' = [st EXCEPT ![r] = "active"]
  /\ UNCHANGED mgrst

Cancel(r) ==
  /\ st[r] = "active"
  /\ st' = [st EXCEPT ![r] = "canceling"]
  /\ UNCHANGED mgrst

Complete(r) ==
  /\ \/ st[r] = "active" /\ \E res \in Results : st' = [st EXCEPT ![r] = res]
     \/ st[r] = "canceling" /\ st' = [st EXCEPT ![r] = "canceled"]
  /\ UNCHANGED mgrst

Destroy(r) ==
  /\ st[r] \in Results
  /\ st' = [st EXCEPT ![r] = "gone"]
  /\ mgrst' = Settled(mgrst, st')

Shutdown ==
  /\ mgrst = "up"
  /\ st' = [r \in Requests |-> IF st[r] = "active" THEN "canceling" ELSE st[r]]
  /\ mgrst' = Settled("closing", st')

Next == Shutdown \/ \E r \in Requests : Create(r) \/ Cancel(r) \/ Complete(r) \/ Destroy(r)

Spec == Init /\ [][Next]_<<st, mgrst>>
=============================================================================
