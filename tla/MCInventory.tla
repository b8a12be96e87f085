----------------------------- MODULE MCInventory ------------------------------
(* An instance of StockQuery over InventoryTransfer for TLC. *)
EXTENDS StockQuery, TLC

CONSTANTS d1, d2, p1, f1, f2, r1, r2

InventorySymmetry == Permutations(Docs) \cup Permutations(Requests)

\* Warehouses 1 and 2 are one facility's, with 3 its transit; 4 is another's,
\* with 5 its transit.
Owners == (1 :> f1) @@ (2 :> f1) @@ (3 :> f1) @@ (4 :> f2) @@ (5 :> f2)
Transits == (f1 :> 3) @@ (f2 :> 5)
TwoInSome == [k \in Keys |-> IF k[1] \in {1, 4} THEN 2 ELSE 0]
\* Transfers between the two facilities, either way, and two places to
\* receive at.
Drafts == {<<"receipt", 1, None>>, <<"receipt", 2, None>>, <<"issue", 1, None>>,
           <<"count", 1, None>>, <<"transfer", 1, 4>>, <<"transfer", 4, 1>>}
SoldFromFirst == {<<1, p1>>}
\* Both act everywhere: whoever may act in less has fewer behaviours.
Administrators == [r \in Requests |-> Facilities]
=============================================================================
