------------------------------ MODULE FiscalNote ------------------------------
(***************************************************************************)
(* invoice_service: credit notes, and what they take off the balance of    *)
(* the orders on their invoice; the composition of the fiscal documents,   *)
(* and what must hold of them.                                             *)
(***************************************************************************)
EXTENDS FiscalReceipt

\* _creditable
Creditable(i) == IsIssued(i)

\* The order of a line, the part of a document's lines that are its, and the
\* orders on an invoice.
OrderLinesOf(o) == {l \in OrderLines : OrderOf[l] = o}
PartOf(d, o) == Amount(d, OrderLinesOf(o))
Parts(d, os) == SumFunctionOnSet([o \in os |-> PartOf(d, o)], os)
OrdersOn(i) == {OrderOf[l] : l \in LinesOn(i) \ {Hand}}

\* credit_note_shares: in proportion, rounded half up, the last order taking
\* what is left.
Rounded(amount, i, o) ==
    LET whole == Parts(i, OrdersOn(i))
    IN  (2 * amount * PartOf(i, o) + whole) \div (2 * whole)

Shares_EachRounded(amount, i) ==
    [o \in Orders |-> IF o \in OrdersOn(i) THEN Rounded(amount, i, o) ELSE 0]

Shares(amount, i) ==
    LET on == OrdersOn(i)
        others == {o \in on : \E p \in on : p > o}
        rounded == [o \in others |-> Rounded(amount, i, o)]
    IN  [o \in Orders |->
            IF o \in others THEN rounded[o]
            ELSE IF o \in on THEN amount - SumFunctionOnSet(rounded, others)
            ELSE 0]

\* What of a sealed or drafted note no order line stands behind.
Untraced(n, total) == Max({total - Parts(n, Orders), 0})

\* _credited_by_order, of one note: its lines copied from the order, and the
\* order's share of the rest of the sealed total.
CreditedBy(n, o) == PartOf(n, o) + Shares(Untraced(n, xml[n]), credits[n])[o]

\* order_balances: of an order, with the notes in `counted`.
BalanceWith(o, counted) ==
    Max({0, MapThenSumSet(LAMBDA l : (Sold[l] - refunded[l]) * Price[l], OrderLinesOf(o))
            - Applied[o] - SumFunctionOnSet([n \in counted |-> CreditedBy(n, o)], counted)})
LiveNotes == {n \in Notes : Live(n) /\ Live(credits[n])}
Balance(o) == BalanceWith(o, LiveNotes)

\* Its balance once a note being sealed counts.
BalanceOnceSealed(o, n) ==
    Max({0, Balance(o) - PartOf(n, o) - Shares(Untraced(n, Total(n)), credits[n])[o]})

NoteRows(n) ==
    {DocumentRow(n), DocumentRow(credits[n])} \cup {OrderRow(o) : o \in OrdersOn(credits[n])}

\* create_credit_note
CreateNote(d, b, i) ==
    /\ b \in NoteSeries
    /\ Creditable(i)
    /\ NewDraft(d, Notes, b)
    /\ credits' = [credits EXCEPT ![d] = i]
    /\ AtOnce
    /\ UNCHANGED <<xml, line, pays, payment, refunded, paid>>

\* add_invoice_line and update_line: as much of a line as its invoice bills.
\* A bound: each line is copied once.
CreditLine(n, l, q) ==
    /\ n \in Notes /\ IsDraft(n)
    /\ l = Hand => line[n][l] > 0
    /\ line[credits[n]][l] > 0 \/ l = Hand
    /\ line[credits[n]][l] > 0 => q <= line[credits[n]][l]
    /\ line' = [line EXCEPT ![n][l] = q]
    /\ AtOnce
    /\ UNCHANGED <<doc, xml, pays, payment, credits, refunded, paid>>

\* The orders on its invoice that sealing a note settles.
Settles(n) == {o \in OrdersOn(credits[n]) : BalanceOnceSealed(o, n) = 0}

ConfirmNoteBegin_NoCap(c, n) ==
    /\ n \in Notes /\ IsDraft(n)
    /\ LinesOn(n) # {}
    /\ Begins(c, n, None, Settles(n), NoteRows(n))

\* _prepare_credit_note: no more than what other notes leave of the invoice.
\* Receipts do not limit it.
ConfirmNoteBegin(c, n) ==
    /\ n \in Notes /\ IsDraft(n)
    /\ LinesOn(n) # {}
    /\ Total(n) <= xml[credits[n]] - Credited(credits[n], n)
    /\ Begins(c, n, None, Settles(n), NoteRows(n))

\* The invoice's row is a locking read; the orders are settled.
ConfirmNote(c) ==
    LET s == sealing[c]
    IN  /\ s # None /\ s.document \in Notes
        /\ Creditable(credits[s.document])
        /\ Seals(c)
        /\ paid' = [o \in Orders |-> paid[o] \/ o \in s.settled]
        /\ UNCHANGED <<line, pays, payment, credits, refunded>>

ReopenNote_KeepsPaid(n) ==
    /\ n \in Notes /\ IsSealed(n)
    /\ xml' = [xml EXCEPT ![n] = None]
    /\ AtOnce
    /\ UNCHANGED <<doc, line, pays, payment, credits, refunded, paid>>

\* reopen of a credit note: an order it had settled owes again.
ReopenNote(n) ==
    /\ n \in Notes /\ IsSealed(n)
    /\ xml' = [xml EXCEPT ![n] = None]
    /\ paid' = [o \in Orders |->
                   paid[o] /\ ~(/\ o \in OrdersOn(credits[n])
                                /\ Balance(o) = 0
                                /\ BalanceWith(o, LiveNotes \ {n}) > 0)]
    /\ AtOnce
    /\ UNCHANGED <<doc, line, pays, payment, credits, refunded>>

NoteNext ==
    \/ \E n \in Notes :
        \/ \E b \in NoteSeries, i \in Invoices : CreateNote(n, b, i)
        \/ \E l \in Lines, q \in Amounts : CreditLine(n, l, q)
        \/ ReopenNote(n)
    \/ \E c \in Clerks :
        \/ \E n \in Notes : ConfirmNoteBegin(c, n)
        \/ ConfirmNote(c)

FiscalInit ==
    /\ doc = [d \in Documents |-> None]
    /\ xml = [d \in Documents |-> None]
    /\ line = [d \in Documents |-> [l \in Lines |-> 0]]
    /\ pays = [r \in Receipts |-> [i \in Invoices |-> None]]
    /\ payment = [r \in Receipts |-> 0]
    /\ credits = [n \in Notes |-> None]
    /\ refunded = [l \in OrderLines |-> 0]
    /\ paid = [o \in Orders |->
                  Applied[o] >= MapThenSumSet(LAMBDA l : Sold[l] * Price[l], OrderLinesOf(o))]
    /\ sealing = [c \in Clerks |-> None]

FiscalNext == InvoiceNext \/ ReceiptNext \/ NoteNext

FiscalSpec == FiscalInit /\ [][FiscalNext]_vars

-----------------------------------------------------------------------------
\* Live notes credit no more than the invoice they credit.
CreditedWithinInvoice ==
    \A i \in Invoices : xml[i] # None => Credited(i, None) <= xml[i]

\* The cents of a note are shared out to the orders on its invoice, all of
\* them and no more.
CreditIsSharedOut ==
    \A n \in LiveNotes :
        OrdersOn(credits[n]) # {} =>
            SumFunctionOnSet([o \in Orders |-> CreditedBy(n, o)], Orders) = xml[n]

\* An order is flagged paid exactly when it owes nothing, as notes are sealed
\* and reopened.  Cancelling an issued document is not this program's doing,
\* and leaves the flag.
PaidTracksCredit ==
    (\A d \in Documents : doc[d] # None => ~doc[d].cancelled) =>
        \A o \in Orders : paid[o] <=> Balance(o) = 0

\* A receipt is sealed with the installment and the balance each of its
\* invoices has at that moment, whatever was paid, credited or reopened since
\* the receipt was drafted (spec 028, research R2).
SealedAtPosition ==
    [][\A r \in Receipts : xml[r] = None /\ xml'[r] # None =>
        \A i \in Invoices : pays'[r][i] # None =>
            /\ pays'[r][i].number = Position(i, r).number
            /\ pays'[r][i].previous = Position(i, r).balance]_vars
=============================================================================
