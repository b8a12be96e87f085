----------------------------- MODULE FiscalInvoice -----------------------------
(***************************************************************************)
(* The tables of invoicing: fiscal documents (invoices, payment receipts   *)
(* and credit notes), what they bill, pay and credit, and the sales orders *)
(* they draw on.  invoice_service: an invoice from draft to sealed and     *)
(* back, and what happens to fiscal documents elsewhere.                   *)
(*                                                                         *)
(* The route reads the document before it calls the service, and that read *)
(* opens the snapshot of a REPEATABLE READ transaction: what a request     *)
(* decides, it decides on what was committed when it began, and only its   *)
(* locking reads see what was committed since.  A request that seals a     *)
(* document therefore begins, carrying what it decided, and commits later; *)
(* the others are one step.                                                *)
(***************************************************************************)
EXTENDS Integers, FiniteSets, FiniteSetsExt, SequencesExt

CONSTANTS
    Clerks,         \* the requests that may be in flight
    Invoices,       \* ids documents of each type are created with
    Receipts,
    Notes,
    InvoiceSeries,  \* the issuer's series of each type
    ReceiptSeries,
    NoteSeries,
    OrderLines,     \* lines of completed sales orders
    OrderOf,        \* the order of a line
    Sold,           \* its quantity
    Price,          \* the total of one unit of it, or of a line by hand
    Applied,        \* the live applications of payments to an order
    Amounts,        \* what a receipt, or one of its invoices, may be paid
    ByHand,         \* the documents that may have a line by hand
    SharedSources,  \* whether requests in flight together may draw on the same rows
    None

Hand == 0               \* a line by hand, which no order line stands behind
Lines == OrderLines \cup {Hand}
Orders == {OrderOf[l] : l \in OrderLines}
Documents == Invoices \cup Receipts \cup Notes

ASSUME FiscalConstants ==
    /\ IsFiniteSet(Documents) /\ IsFiniteSet(OrderLines)
    /\ Documents \subseteq Nat /\ OrderLines \subseteq Nat \ {Hand}
    /\ Invoices \cap Receipts = {} /\ Invoices \cap Notes = {} /\ Receipts \cap Notes = {}
    /\ OrderOf \in [OrderLines -> Nat]
    /\ Sold \in [OrderLines -> Nat \ {0}]
    /\ Price \in [Lines -> Nat \ {0}]
    /\ Applied \in [Orders -> Nat]
    /\ ByHand \subseteq Invoices \cup Notes
    /\ Amounts \subseteq Nat \ {0}
    /\ SharedSources \in BOOLEAN
    /\ None \notin Nat

VARIABLES
    doc,        \* fiscal_document: its series, its serial (0 for none), completed, cancelled
    xml,        \* fiscal_document_xml: the total in the sealed document, or None
    line,       \* fiscal_document_detail: a document's quantity of each line
    pays,       \* a receipt's fiscal_document_relation rows, by invoice
    payment,    \* a receipt's payment_amount
    credits,    \* the invoice a credit note relates
    refunded,   \* what completed refunds took of an order line
    paid,       \* sales_order.paid
    sealing     \* what each clerk is sealing, or None

tables == <<doc, xml, line, pays, payment, credits, refunded, paid>>
vars == <<tables, sealing>>

DocumentRows == [batch : InvoiceSeries \cup ReceiptSeries \cup NoteSeries, serial : Nat,
                 completed : BOOLEAN, cancelled : BOOLEAN]

ASSUME NoneIsNoFiscalRow == None \notin DocumentRows

-----------------------------------------------------------------------------
\* document_status
IsDraft(d) == doc[d] # None /\ ~doc[d].cancelled /\ ~doc[d].completed /\ xml[d] = None
IsSealed(d) == doc[d] # None /\ ~doc[d].cancelled /\ ~doc[d].completed /\ xml[d] # None
IsIssued(d) == doc[d] # None /\ ~doc[d].cancelled /\ doc[d].completed

\* live: a document that counts.
Live(d) == IsSealed(d) \/ IsIssued(d)

\* The amount some lines of a document, and all of them, make.
Amount(d, ls) == SumFunctionOnSet([l \in ls |-> line[d][l] * Price[l]], ls)
Total(d) == Amount(d, Lines)

LinesOn(d) == {l \in Lines : line[d][l] > 0}

\* What live invoices but `d` bill of an order line.
Invoiced(l, d) ==
    LET billing == {i \in Invoices \ {d} : Live(i)}
    IN  SumFunctionOnSet([i \in billing |-> line[i][l]], billing)

\* remaining_quantity: events in time order, a refund taking only the units
\* not yet invoiced.
RemainingQuantity(quantity, events) ==
    LET taken == FoldLeft(
            LAMBDA t, e :
                IF e.kind = "invoice" THEN [t EXCEPT !.invoiced = @ + e.quantity]
                ELSE [t EXCEPT !.refunded = @ +
                         Min({e.quantity, Max({0, quantity - t.invoiced - t.refunded})})],
            [invoiced |-> 0, refunded |-> 0], events)
    IN  Max({0, quantity - taken.invoiced - taken.refunded})

\* remaining_by_order_line, leaving `d` out.  The remainder does not depend on
\* the order of the events, so they are not dated.
Remaining(l, d) == Max({0, Sold[l] - Invoiced(l, d) - refunded[l]})

\* invoice_settlements and invoice_position, leaving `d` out.
PaidIn(i, d) == {r \in Receipts \ {d} : Live(r) /\ pays[r][i] # None}
PaidBy(i, d) == SumFunctionOnSet([r \in PaidIn(i, d) |-> pays[r][i].amount], PaidIn(i, d))
CreditingNotes(i, d) == {n \in Notes \ {d} : Live(n) /\ credits[n] = i}
Credited(i, d) == SumFunctionOnSet([n \in CreditingNotes(i, d) |-> xml[n]], CreditingNotes(i, d))
Position(i, d) ==
    [number |-> Cardinality(PaidIn(i, d)) + 1,
     balance |-> xml[i] - PaidBy(i, d) - Credited(i, d)]

-----------------------------------------------------------------------------
\* _next_serial: the batch row is locked, then the maximum is a locking read.
NextSerial(b) ==
    Max({doc[d].serial : d \in {e \in Documents : doc[e] # None /\ doc[e].batch = b}} \cup {0}) + 1

\* The next id of an autoincrement key.
Fresh(d, ids) == d \in ids /\ doc[d] = None /\ \A e \in ids : e < d => doc[e] # None

\* _new_document: a draft of one of the issuer's series of its type.
NewDraft(d, ids, b) ==
    /\ Fresh(d, ids)
    /\ doc' = [doc EXCEPT ![d] = [batch |-> b, serial |-> 0, completed |-> FALSE,
                                  cancelled |-> FALSE]]

\* What a request draws on: documents, order lines, orders.
DocumentRow(d) == <<"fiscal_document", d>>
LineRow(l) == <<"sales_order_detail", l>>
OrderRow(o) == <<"sales_order", o>>

Apart(rows) ==
    SharedSources \/ \A c \in Clerks : sealing[c] # None => sealing[c].rows \cap rows = {}

\* A request whose reads and writes are one step.  Where sources are not
\* shared it would commute with every sealing in flight, so it comes when none
\* is.
AtOnce ==
    /\ SharedSources \/ \A c \in Clerks : sealing[c] = None
    /\ UNCHANGED sealing

\* A request to seal `d` has decided, on what it read: what a receipt pays
\* each invoice, and the orders a note settles.
Begins(c, d, pieces, settled, rows) ==
    /\ sealing[c] = None
    /\ Apart(rows)
    /\ sealing' = [sealing EXCEPT ![c] =
                      [document |-> d, serial |-> doc[d].serial, batch |-> doc[d].batch,
                       total |-> Total(d), pays |-> pieces, settled |-> settled, rows |-> rows]]
    /\ UNCHANGED tables

Ends(c) == sealing' = [sealing EXCEPT ![c] = None]

\* The serial a sealed document keeps, or takes from its series.
SerialFor(s) == IF s.serial # 0 THEN s.serial ELSE NextSerial(s.batch)

\* confirm: number it and store what was sealed.  A second confirm of one
\* draft fails on the key of its XML.
Seals(c) ==
    LET s == sealing[c]
    IN  /\ xml[s.document] = None
        /\ doc' = [doc EXCEPT ![s.document].serial = SerialFor(s)]
        /\ xml' = [xml EXCEPT ![s.document] = s.total]
        /\ Ends(c)

\* confirm rolls back.
Abort(c) ==
    /\ sealing[c] # None
    /\ Ends(c)
    /\ UNCHANGED tables

-----------------------------------------------------------------------------
(***************************************************************************)
(* Invoices.                                                               *)
(***************************************************************************)
\* The rows a draft draws on: itself and its order lines.
DraftRows(d) == {DocumentRow(d)} \cup {LineRow(l) : l \in LinesOn(d) \ {Hand}}

\* create_invoice
CreateInvoice(d, b) ==
    /\ b \in InvoiceSeries
    /\ NewDraft(d, Invoices, b)
    /\ AtOnce
    /\ UNCHANGED <<xml, line, pays, payment, credits, refunded, paid>>

\* add_sales_order: the lines of an order not yet on the draft, at what
\* remains of them.
AddSalesOrder(d, o) ==
    LET candidates == {l \in OrderLines : OrderOf[l] = o}
        added == {l \in candidates \ LinesOn(d) : Remaining(l, d) > 0}
    IN  /\ d \in Invoices /\ IsDraft(d)
        /\ added # {}
        /\ line' = [line EXCEPT ![d] = [l \in Lines |-> IF l \in added THEN Remaining(l, d) ELSE @[l]]]
        /\ AtOnce
        /\ UNCHANGED <<doc, xml, pays, payment, credits, refunded, paid>>

\* add_manual_line, on an invoice or a note (a receipt's lines are never
\* read).  A bound: one line by hand.
AddManualLine(d) ==
    /\ d \in ByHand /\ IsDraft(d)
    /\ line[d][Hand] = 0
    /\ line' = [line EXCEPT ![d][Hand] = 1]
    /\ AtOnce
    /\ UNCHANGED <<doc, xml, pays, payment, credits, refunded, paid>>

\* update_line of an invoice, the new quantity no more than what remains.
UpdateLine(d, l, q) ==
    /\ d \in Invoices /\ IsDraft(d)
    /\ l \in LinesOn(d)
    /\ l # Hand => q <= Remaining(l, d)
    /\ line' = [line EXCEPT ![d][l] = q]
    /\ AtOnce
    /\ UNCHANGED <<doc, xml, pays, payment, credits, refunded, paid>>

\* remove_line
RemoveLine(d, l) ==
    /\ IsDraft(d)
    /\ l \in LinesOn(d)
    /\ line' = [line EXCEPT ![d][l] = 0]
    /\ AtOnce
    /\ UNCHANGED <<doc, xml, pays, payment, credits, refunded, paid>>

\* update_header, its series: of a draft that has no serial.
ChangeBatch(d, b) ==
    /\ d \in Invoices /\ IsDraft(d)
    /\ doc[d].serial = 0
    /\ b \in InvoiceSeries \ {doc[d].batch}
    /\ doc' = [doc EXCEPT ![d].batch = b]
    /\ AtOnce
    /\ UNCHANGED <<xml, line, pays, payment, credits, refunded, paid>>

\* _validate_for_confirm, of an invoice's lines.
Billable(d) ==
    /\ LinesOn(d) # {}
    /\ \A l \in LinesOn(d) \ {Hand} : line[d][l] <= Remaining(l, d)

\* _prepare_invoice
ConfirmInvoiceBegin(c, d) ==
    /\ d \in Invoices /\ IsDraft(d)
    /\ Billable(d)
    /\ Begins(c, d, None, {}, DraftRows(d))

ConfirmInvoice(c) ==
    /\ sealing[c] # None /\ sealing[c].document \in Invoices
    /\ Seals(c)
    /\ UNCHANGED <<line, pays, payment, credits, refunded, paid>>

\* reopen of an invoice or a receipt: the sealed XML goes, the serial stays.
Reopen(d) ==
    /\ d \notin Notes /\ IsSealed(d)
    /\ xml' = [xml EXCEPT ![d] = None]
    /\ AtOnce
    /\ UNCHANGED <<doc, line, pays, payment, credits, refunded, paid>>

-----------------------------------------------------------------------------
\* External: a sealed document is stamped, and an issued one cancelled, by
\* whatever talks to the tax authority: the cancellation of what settles an
\* invoice draws on it, that of the invoice comes when it will.
Settled(d) ==
    IF d \in Receipts THEN {i \in Invoices : pays[d][i] # None}
    ELSE IF d \in Notes THEN {credits[d]} ELSE {}

Stamp(d) ==
    /\ IsSealed(d)
    /\ doc' = [doc EXCEPT ![d].completed = TRUE]
    /\ AtOnce
    /\ UNCHANGED <<xml, line, pays, payment, credits, refunded, paid>>

CancelIssued(d) ==
    /\ IsIssued(d)
    /\ Apart({DocumentRow(i) : i \in Settled(d)})
    /\ doc' = [doc EXCEPT ![d].cancelled = TRUE]
    /\ UNCHANGED <<xml, line, pays, payment, credits, refunded, paid, sealing>>

\* A refund of a paid order completes: it takes no unit a live invoice bills.
Refund(l, q) ==
    /\ paid[OrderOf[l]]
    /\ q <= Sold[l] - refunded[l] - Invoiced(l, None)
    /\ refunded' = [refunded EXCEPT ![l] = @ + q]
    /\ AtOnce
    /\ UNCHANGED <<doc, xml, line, pays, payment, credits, paid>>

InvoiceNext ==
    \/ \E d \in Documents :
        \/ \E b \in InvoiceSeries : CreateInvoice(d, b) \/ ChangeBatch(d, b)
        \/ \E o \in Orders : AddSalesOrder(d, o)
        \/ AddManualLine(d) \/ Reopen(d) \/ Stamp(d) \/ CancelIssued(d)
        \/ \E l \in Lines : RemoveLine(d, l) \/ \E q \in Amounts : UpdateLine(d, l, q)
    \/ \E l \in OrderLines, q \in Amounts : Refund(l, q)
    \/ \E c \in Clerks :
        \/ \E d \in Invoices : ConfirmInvoiceBegin(c, d)
        \/ ConfirmInvoice(c) \/ Abort(c)
=============================================================================
