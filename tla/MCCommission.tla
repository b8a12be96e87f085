------------------------------ MODULE MCCommission ------------------------------
(* An instance of Commission for TLC: one order of three units over three months. *)
EXTENDS Commission, TLC

CONSTANTS a, b, o1, c1, c2

SoldByA == o1 :> a
Three == o1 :> 3
One == o1 :> 1

\* One agent changes scheme, the other stops being an agent.
OneMayLeave == a :> {1, 2} @@ b :> {1, None}
=============================================================================
