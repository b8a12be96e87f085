------------------------------- MODULE MCInvoice -------------------------------
(* An instance of FiscalNote for TLC: two orders, one of them paid. *)
EXTENDS FiscalNote

CONSTANTS c1, c2

OneLineEach == 1 :> 1 @@ 2 :> 2
TwoUnits == 1 :> 1 @@ 2 :> 2
Ones == 0 :> 1 @@ 1 :> 1 @@ 2 :> 1
FirstIsPaid == 1 :> 1 @@ 2 :> 0
Symmetry == Permutations(Clerks)

\* Histories without receipts bill both orders in one series; those with
\* receipts have one invoice, in either series, of units of the unpaid order.
Scenarios ==
    \/ \A d \in Documents : doc[d] # None => d \notin Receipts /\ doc[d].batch # "B"
    \/ /\ doc[2] = None
       /\ \A d \in Documents : line[d][Hand] = 0 /\ line[d][1] = 0
       /\ \A l \in OrderLines : refunded[l] = 0

\* The remainder does not depend on the order of the events.
Events == [kind : {"invoice", "refund"}, quantity : 0 .. 3]
ASSUME EventsInAnyOrder ==
    \A e \in BoundedSeq(Events, 3), q \in 0 .. 4 :
        RemainingQuantity(q, e) =
            Max({0, q - FoldLeft(LAMBDA sum, x : sum + x.quantity, 0, e)})
=============================================================================
