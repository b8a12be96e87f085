------------------------------ MODULE MCDelivery -------------------------------
(* An instance of DeliveryItinerary for TLC: one sale of two units. *)
EXTENDS DeliveryItinerary, TLC

CONSTANTS s1, l1, v1, f1, r1, r2

SaleOfLine == l1 :> s1
TwoUnits == l1 :> 2
FirstFacility == s1 :> f1
\* Warehouse 1 and the in-transit location of its facility, 2.
FromFirst == l1 :> 1
ThroughSecond == 1 :> 2
FourOnHand == (1 :> 4) @@ (2 :> 0)
\* Two closures or two loadings may be in flight together.
LockedOverlaps == {{"close"}, {"load"}}
\* Two dispatchers load one whole order.
TwoWholeOrders == {{"whole"}}
\* Once a trip is planned, no order is for pick-up: the two ways of handing
\* over meet only in the sale's claims, which each updates in one transaction.
Scenarios ==
    \/ \A t \in Trips : trip[t] = None
    \/ \A d \in Deliveries : delivery[d] # None => delivery[d].type = "DELIVERY"

Symmetry == Permutations(Requests)
=============================================================================
