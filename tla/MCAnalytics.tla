------------------------------ MODULE MCAnalytics ------------------------------
(* An instance of AnalyticsExport for TLC: two users who read the dashboard, *)
(* with rights that change, or export.                                       *)
EXTENDS AnalyticsExport, TLC

CONSTANTS u1, u2, f1, f2, w1, r1, all

Own == u1 :> f1 @@ u2 :> f2
\* The seller of a facility, or the buyer of every one.
SomeGrants == {{"sales"}, {"sales", "cost", all}}

\* The cache and the exports meet only in a worker's death, so a behaviour
\* exercises one of them.
Scenarios ==
    \/ last = 0 /\ \A r \in Requests : txn[r] = Idle
    \/ /\ \A w \in Workers : cache[w] = << >>
       /\ \A u \in Users : screen[u] = None /\ Cardinality(rights[u]) <= 1
=============================================================================
