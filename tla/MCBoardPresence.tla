--------------------------- MODULE MCBoardPresence ---------------------------
(* Two parts that share nothing, one at a time: the tabs of two users (one of *)
(* them with two tabs) in one tenant, and the payments of a tenant.           *)
EXTENDS BoardPresence, MCBilling

CONSTANTS t1, t2, t3, u1, u2, T

MCTabUser == (t1 :> u1) @@ (t2 :> u2) @@ (t3 :> u2)
MCUserTenant == [u \in Users |-> T]

VARIABLE part

\* Each part begins as its own module says.
MCInit == part \in {"presence", "billing"} /\ Init /\ BillingInit

MCNext ==
  /\ UNCHANGED part
  /\ \/ part = "presence" /\ Next /\ UNCHANGED billingVars
     \/ part = "billing" /\ BillingNext /\ UNCHANGED vars

\* Before anything happens no step of a part is owed: fairness of the part that
\* does not go on asks for nothing.
MCSpec == MCInit /\ [][MCNext]_<<part, vars, billingVars>> /\ Fairness /\ BillingFairness
=============================================================================
