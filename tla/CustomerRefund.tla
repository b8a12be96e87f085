--------------------------- MODULE CustomerRefund ----------------------------
(***************************************************************************)
(* customer_refund_service: goods coming back off a paid order, and the    *)
(* money paid back for them, beside the payments and cancellations of      *)
(* CustomerPayment.                                                        *)
(*                                                                         *)
(* A confirmation holds the refund, its order, its facility and the        *)
(* warehouses it restocks.  Editing a draft and cancelling it lock nothing *)
(* and decide on the route's copy.  Live invoices, which also withhold     *)
(* quantities, and the cashier's session are other components.             *)
(***************************************************************************)
EXTENDS CustomerPayment

CONSTANTS
    ReturnTo,       \* the warehouse a facility's returns go back to
    Payouts,        \* RefundPayout: "CASH", "CREDIT"
    Quantities,     \* quantities edits of a refund line ask for
    Desk            \* the drafts each request may work on

ASSUME RefundConstants ==
    /\ ReturnTo \in [Facilities -> Warehouses]
    /\ Payouts \subseteq {"CASH", "CREDIT"}
    /\ Quantities \subseteq Nat
    /\ Desk \in [Requests -> SUBSET Refunds]

RefundRows ==
    [order : Orders, facility : Facilities, lines : SUBSET LineIds, quantity : [LineIds -> Nat],
     completed : BOOLEAN, cancelled : BOOLEAN, serial : Nat, payout : Payments \cup {None}]

ASSUME NoneIsNoRefundRow == None \notin RefundRows

-----------------------------------------------------------------------------
CompletedRefunds(o) ==
    {n \in Refunds : /\ refund[n] # None
                     /\ refund[n].order = o
                     /\ refund[n].completed
                     /\ ~ refund[n].cancelled}

\* _already_refunded
AlreadyRefunded(o, l) == SumFunction([n \in CompletedRefunds(o) |-> refund[n].quantity[l]])

\* refundable_quantity
Refundable(o, l) == IF l \in Filled(o) THEN Remaining(line[o][l].quantity, AlreadyRefunded(o, l)) ELSE 0

\* assert_refundable_order
RefundableOrder(o) == order[o].completed /\ order[o].paid

\* documents.assert_editable
EditableRefund(n) == refund[n] # None /\ ~ refund[n].completed /\ ~ refund[n].cancelled

Reconciled_Untrimmed(n) == refund[n].quantity

\* reconcile_lines: each line fitted to what is refundable now; zero is dropped.
Reconciled(n) ==
    [l \in LineIds |-> Min({refund[n].quantity[l], Refundable(refund[n].order, l)})]

RefundSerials(f) ==
    {refund[n].serial : n \in {m \in Refunds : refund[m] # None /\ refund[m].facility = f}}

NextRefundFolio(f) == Max(RefundSerials(f) \cup {0}) + 1

Amount_WholeLines(o, quantity) ==
    SumFunction([l \in Filled(o) |-> line[o][l].quantity * line[o][l].price])

\* What a refund of `quantity` off order o comes to.
Amount(o, quantity) ==
    SumFunction([l \in Filled(o) |-> quantity[l] * line[o][l].price])

-----------------------------------------------------------------------------
(***************************************************************************)
(* Drafting.                                                               *)
(***************************************************************************)
\* open_refund: every line that has something to give back, at quantity zero.
\* Nothing reads the draft before it commits, so it takes effect at its reads.
OpenRefund(n, o, f) ==
    LET available == {l \in LineIds : Refundable(o, l) > 0}
    IN  /\ refund[n] = None
        /\ RefundableOrder(o)
        /\ available # {}
        /\ refund' = [refund EXCEPT ![n] =
                         [order |-> o, facility |-> f, lines |-> available,
                          quantity |-> [l \in LineIds |-> 0], completed |-> FALSE,
                          cancelled |-> FALSE, serial |-> 0, payout |-> None]]
        /\ UNCHANGED <<order, line, reservation, onHand, payment, application, elapsed, txn>>

\* update_line's reads, on the route's copy of the refund.
EditRefundRead(r, n, l, q) ==
    /\ txn[r] = Idle
    /\ EditableRefund(n)
    /\ l \in refund[n].lines
    /\ q <= Refundable(refund[n].order, l)
    /\ txn' = [txn EXCEPT ![r] = [op |-> "edit_refund", refund |-> n, line |-> l,
                                  quantity |-> q, rows |-> {}]]
    /\ UNCHANGED <<tables, elapsed>>

\* update_line's write; a line a confirmation deleted fails it.
EditRefundCommit(r) ==
    LET n == txn[r].refund
    IN  /\ txn[r].op = "edit_refund"
        /\ Free(r, {RefundRow(n)})
        /\ txn[r].line \in refund[n].lines
        /\ refund' = [refund EXCEPT ![n].quantity[txn[r].line] = txn[r].quantity]
        /\ Ends(r)
        /\ UNCHANGED <<order, line, reservation, onHand, payment, application, elapsed>>

\* cancel_refund, on the route's copy.
CancelRefundRead(r, n) ==
    /\ txn[r] = Idle
    /\ EditableRefund(n)
    /\ txn' = [txn EXCEPT ![r] = [op |-> "cancel_refund", refund |-> n, rows |-> {}]]
    /\ UNCHANGED <<tables, elapsed>>

CancelRefundCommit(r) ==
    LET n == txn[r].refund
    IN  /\ txn[r].op = "cancel_refund"
        /\ Free(r, {RefundRow(n)})
        /\ refund' = [refund EXCEPT ![n].cancelled = TRUE]
        /\ Ends(r)
        /\ UNCHANGED <<order, line, reservation, onHand, payment, application, elapsed>>

-----------------------------------------------------------------------------
(***************************************************************************)
(* Confirming.                                                             *)
(***************************************************************************)
\* What _confirm_locked holds before its first plain read, after the session.
ConfirmRefundRows(n) ==
    {RefundRow(n), OrderRow(refund[n].order), FacilityRow(refund[n].facility),
     WarehouseRow(ReturnTo[refund[n].facility])}

\* confirm_refund up to its last read: both folios, the fitted quantities, and
\* what the order will owe.
ConfirmRefundRead(r, n, payout) ==
    LET o == refund[n].order
        f == refund[n].facility
        fitted == Reconciled(n)
    IN  /\ txn[r] = Idle
        /\ EditableRefund(n)
        /\ Free(r, ConfirmRefundRows(n))
        /\ \E l \in refund[n].lines : fitted[l] > 0
        /\ txn' = [txn EXCEPT ![r] =
                      [op |-> "confirm_refund", refund |-> n, rows |-> ConfirmRefundRows(n),
                       quantity |-> fitted, payout |-> payout, amount |-> Amount(o, fitted),
                       serial |-> NextRefundFolio(f), payment_serial |-> NextPaymentFolio(f),
                       after |-> Remaining(Total(o), Refunded(o) + Amount(o, fitted) + Applied(o))]]
        /\ UNCHANGED <<tables, elapsed>>

\* _pay_customer_back: cash leaves the drawer as a negative payment, store
\* credit is a positive one.
Payout(r, c, f) ==
    [customer |-> c, facility |-> f, verifier |-> None, serial |-> txn[r].payment_serial,
     amount |-> IF txn[r].payout = "CASH" THEN - txn[r].amount ELSE txn[r].amount]

\* The writes: lines dropped and trimmed, goods restocked, the refund numbered
\* and completed, the payout recorded, the order settled.
ConfirmRefundCommit(r, p) ==
    LET n == txn[r].refund
        o == refund[n].order
        f == refund[n].facility
        fitted == txn[r].quantity
        returned(k) == SumFunctionOnSet(fitted,
                          {l \in Filled(o) : /\ line[o][l].product \in Stocked
                                             /\ k = <<line[o][l].product, ReturnTo[f]>>})
    IN  /\ txn[r].op = "confirm_refund"
        /\ Free(r, {RefundRow(n), OrderRow(o)})
        /\ payment[p] = None
        /\ refund' = [refund EXCEPT
                         ![n].lines = {l \in @ : fitted[l] > 0}, ![n].quantity = fitted,
                         ![n].completed = TRUE, ![n].serial = txn[r].serial, ![n].payout = p]
        /\ payment' = [payment EXCEPT ![p] = Payout(r, order[o].customer, f)]
        /\ onHand' = [k \in StockKeys |-> onHand[k] + returned(k)]
        /\ order' = [order EXCEPT ![o].paid = Settle(@, txn[r].after)]
        /\ Ends(r)
        /\ UNCHANGED <<line, reservation, application, elapsed>>

-----------------------------------------------------------------------------
DraftRefund ==
    \/ \E n \in Refunds, o \in Orders, f \in Facilities : OpenRefund(n, o, f)
    \/ \E r \in Requests, l \in LineIds, q \in Quantities : \E n \in Desk[r] :
          EditRefundRead(r, n, l, q)
    \/ \E r \in Requests : EditRefundCommit(r)
    \/ \E r \in Requests : \E n \in Desk[r] : CancelRefundRead(r, n)
    \/ \E r \in Requests : CancelRefundCommit(r)

ConfirmRefund ==
    \/ \E r \in Requests, payout \in Payouts : \E n \in Desk[r] : ConfirmRefundRead(r, n, payout)
    \/ \E r \in Requests, p \in Payments : ConfirmRefundCommit(r, p)

RefundNext ==
    \/ DraftRefund
    \/ ConfirmRefund
    \/ PaymentNext

RefundSpec == PaymentInit /\ [][RefundNext]_vars

-----------------------------------------------------------------------------
(***************************************************************************)
(* Properties.                                                             *)
(***************************************************************************)
\* Clerks working different refunds of one order never return more of a line
\* than it sold: each confirmation re-reads under the order's lock (R2).
NotOverRefunded ==
    \A o \in Orders : \A l \in Filled(o) : AlreadyRefunded(o, l) <= line[o][l].quantity
=============================================================================
