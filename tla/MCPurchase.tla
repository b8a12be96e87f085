------------------------------- MODULE MCPurchase -------------------------------
(* An instance of PurchaseReceipt for TLC: one product wanted in two warehouses. *)
EXTENDS PurchaseReceipt

CONSTANTS q1, q2, p1, r1, r2

\* A line each of two requests.
TwoForms == 1 :> q1 @@ 2 :> q2
OneProduct == 1 :> p1 @@ 2 :> p1 
TwoWarehouses == 1 :> 1 @@ 2 :> 2
TwoThenOne == 1 :> 2 @@ 2 :> 1
TwoFacilities == 1 :> 1 @@ 2 :> 2
Home == q1 :> 1 @@ q2 :> 1
OneSupplier == p1 :> 1
OneOnHand == p1 :> 1
Uncosted == p1 :> None
\* Buyers against each other and against the branch; receipts of two
\* warehouses; two buyers over one order.
Rivals == {{"take", "group"}, {"group"}, {"take"}, {"group", "mark"}, {"group", "cancel_form"},
           {"submit"}, {"confirm"}, {"confirm", "cancel"}, {"confirm_order"}, {"complement"}}
\* Receipts are worked on, and prices set, of one order written by hand; where
\* branches ask and buyers take, orders are at most confirmed.
Scenarios ==
    \/ /\ \A l \in FormLines : fline[l] = None
       /\ \A q \in Forms : form[q] = None
       /\ order[2] = None
    \/ /\ \A k \in OrderLines : oline[k] # None => oline[k].price = 0
       /\ \A n \in Receipts : receipt[n] # None => receipt[n].status = "DRAFT"
       /\ \A n \in Receipts, k \in OrderLines :
              rline[n][k] # 0 /\ oline[k] # None => rline[n][k] = oline[k].quantity
       /\ \A r \in Requests : txn[r] # Idle => txn[r].op \notin {"confirm", "cancel", "complement"}

Symmetry == Permutations(Requests)
=============================================================================
