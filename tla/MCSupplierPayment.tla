-------------------------- MODULE MCSupplierPayment --------------------------
(* An instance of SupplierPayment over CashSession for TLC. *)
EXTENDS SupplierPayment, TLC

CONSTANTS ana, d1, f1, sup1, r1, r2, t1, v1, l1

Crew == Permutations(Requests)

\* An order of two cents and one of three: two applied to it leave the cent
\* that counts as settled.
\* A request names none, one, or both of them, the later one first.
Item(o) == [order |-> o, amount |-> 2]
\* One unit taken, or paid back in cash for a refund.
InAndOut == {1, -1}

OneOrBoth == {<< >>, <<Item(1)>>, <<Item(2), Item(1)>>}
AllFromSup1 == [o \in POs |-> sup1]
TwoAndThree == [o \in POs |-> IF o = 2 THEN 3 ELSE 2]
InF1 == [d \in Drawers |-> f1]

\* Shifts, takings and a voucher run beside one payment that names no order;
\* two payments are applied while the first shift stays the only one.
NamesNoOrder(r) ==
    txn[r] # Idle => /\ \A o \in POs : PoRow(o) \notin txn[r].rows
                     /\ \A i \in DOMAIN txn[r].want : txn[r].want[i][1] # "purchase_order"

Scenarios ==
    \/ /\ sapplication = << >> /\ Len(spayment) <= 1
       /\ \A r \in Requests : NamesNoOrder(r)
    \/ /\ \A s \in Sessions \ {Opening} : session[s] = None
       /\ \A t \in Takings : taking[t] = None
       /\ \A v \in Vouchers : voucher[v] = None
=============================================================================
