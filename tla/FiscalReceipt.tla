---------------------------- MODULE FiscalReceipt ----------------------------
(***************************************************************************)
(* invoice_service: payment receipts, which pay stamped invoices in        *)
(* installments.                                                           *)
(***************************************************************************)
EXTENDS FiscalInvoice

\* _payable.  Every invoice here is on credit, of one issuer and recipient.
Payable(i) == IsIssued(i)

PaidInvoices(r) == {i \in Invoices : pays[r][i] # None}

\* What a receipt's payment has left, when `pieces` are assigned.
Unassigned(amount, pieces) ==
    amount - MapThenSumSet(LAMBDA i : pieces[i].amount, {i \in Invoices : pieces[i] # None})

\* _check_amount
AmountFits(a, balance, unassigned) == 0 < a /\ a <= balance /\ a <= unassigned

\* The invoices a receipt pays, read when it is changed.
ReceiptRows(r, more) == {DocumentRow(d) : d \in {r} \cup PaidInvoices(r) \cup more}

\* _propose_paid_invoices: the payable invoices of the orders the payment was
\* applied to, each its balance up to what the payment has left.
Proposed(r, a) ==
    LET holding == {i \in Invoices : Payable(i) /\ \E l \in LinesOn(i) \ {Hand} : Applied[OrderOf[l]] > 0}
    IN  FoldLeft(
            LAMBDA pieces, i :
                LET at == Position(i, r)
                    amount == Min({at.balance, Unassigned(a, pieces)})
                IN  IF amount <= 0 THEN pieces
                    ELSE [pieces EXCEPT ![i] = [number |-> at.number, previous |-> at.balance,
                                                amount |-> amount]],
            [i \in Invoices |-> None], SetToSortSeq(holding, <))

\* create_payment_receipt, by hand or from a payment of its customer.
CreateReceipt(d, b, a, proposes) ==
    /\ b \in ReceiptSeries
    /\ NewDraft(d, Receipts, b)
    /\ payment' = [payment EXCEPT ![d] = a]
    /\ pays' = IF proposes THEN [pays EXCEPT ![d] = Proposed(d, a)] ELSE pays
    /\ AtOnce
    /\ UNCHANGED <<xml, line, credits, refunded, paid>>

\* add_paid_invoice (the amount given, or the default) and update_paid_invoice.
PayInvoice(r, i, a) ==
    LET at == Position(i, r)
        others == [pays[r] EXCEPT ![i] = None]
    IN  /\ r \in Receipts /\ IsDraft(r)
        /\ pays[r][i] = None => Payable(i)
        /\ AmountFits(a, at.balance, Unassigned(payment[r], others))
        /\ pays' = [pays EXCEPT ![r][i] = [number |-> at.number, previous |-> at.balance,
                                           amount |-> a]]
        /\ AtOnce
        /\ UNCHANGED <<doc, xml, line, payment, credits, refunded, paid>>

\* remove_paid_invoice
UnpayInvoice(r, i) ==
    /\ r \in Receipts /\ IsDraft(r)
    /\ pays[r][i] # None
    /\ pays' = [pays EXCEPT ![r][i] = None]
    /\ AtOnce
    /\ UNCHANGED <<doc, xml, line, payment, credits, refunded, paid>>

\* update_header, its payment_amount, and _check_receipt_header: no less than
\* what is assigned.
ChangePayment(r, a) ==
    /\ r \in Receipts /\ IsDraft(r)
    /\ Unassigned(a, pays[r]) >= 0
    /\ payment' = [payment EXCEPT ![r] = a]
    /\ AtOnce
    /\ UNCHANGED <<doc, xml, line, pays, credits, refunded, paid>>

\* The installments and balances a receipt is sealed with.
Repositioned_AsDrafted(r) == pays[r]
Repositioned(r) ==
    [i \in Invoices |->
        IF pays[r][i] = None THEN None
        ELSE [number |-> Position(i, r).number, previous |-> Position(i, r).balance,
              amount |-> pays[r][i].amount]]

\* _prepare_receipt: positions are recomputed, on the snapshot, and its
\* amounts add up to the payment.
ConfirmReceiptBegin(c, r) ==
    LET pieces == Repositioned(r)
    IN  /\ r \in Receipts /\ IsDraft(r)
        /\ PaidInvoices(r) # {}
        /\ \A i \in PaidInvoices(r) :
               AmountFits(pieces[i].amount, pieces[i].previous, pieces[i].amount)
        /\ Unassigned(payment[r], pays[r]) = 0
        /\ Begins(c, r, pieces, {}, ReceiptRows(r, {}))

\* The invoices' rows are locking reads: they must still be payable.
ConfirmReceipt(c) ==
    LET s == sealing[c]
    IN  /\ s # None /\ s.document \in Receipts
        /\ \A i \in Invoices : s.pays[i] # None => Payable(i)
        /\ Seals(c)
        /\ pays' = [pays EXCEPT ![s.document] = s.pays]
        /\ UNCHANGED <<line, payment, credits, refunded, paid>>

ReceiptNext ==
    \/ \E d \in Receipts, a \in Amounts :
        \/ \E b \in ReceiptSeries, proposes \in BOOLEAN : CreateReceipt(d, b, a, proposes)
        \/ ChangePayment(d, a)
        \/ \E i \in Invoices : PayInvoice(d, i, a)
    \/ \E r \in Receipts, i \in Invoices : UnpayInvoice(r, i)
    \/ \E c \in Clerks :
        \/ \E r \in Receipts : ConfirmReceiptBegin(c, r)
        \/ ConfirmReceipt(c)
=============================================================================
