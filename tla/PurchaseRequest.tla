---------------------------- MODULE PurchaseRequest ----------------------------
(***************************************************************************)
(* The tables of purchasing: what branches ask for, what is ordered, what  *)
(* arrives, and the average cost it leaves.  purchase_request_service: a   *)
(* branch's request from draft to approval, marking its lines for          *)
(* purchase, and cancelling it.                                            *)
(*                                                                         *)
(* Every step commits, takes its row locks, and only then reads.  What it  *)
(* reads is therefore what was committed when it had its last lock: a      *)
(* request in flight carries what it decided then, and writes it later.    *)
(*                                                                         *)
(* Products, quantities and destinations are data of the line ids.         *)
(***************************************************************************)
EXTENDS Integers, FiniteSets, FiniteSetsExt, SequencesExt, RowLocks

CONSTANTS
    Forms,          \* purchase requests
    FormLines,      \* their lines: ids
    FormOf,         \* the request a line is written on
    ProductOf,      \* the product a line asks for
    WarehouseOf,    \* where it is wanted
    Asked,          \* how much of it
    FacilityOf,     \* the facility of a warehouse
    HomeOf,         \* the facility of a request
    SupplierOf,     \* the supplier of a product
    Stockable,      \* the products that are kept in stock
    Orders,         \* ids purchase orders are created with
    OrderLines,     \* ids their lines are created with
    Receipts,       \* ids warehouse receipts are created with
    Prices,         \* what a buyer may set a line's price to
    OpeningCost,    \* the cost of each product, or None
    OpeningStock,   \* what is on hand of each product
    Overlaps,       \* the pairs of operations that may be in flight together
    StalePreReads,  \* whether lines may be added between a pre-read and a lock
    None

Products == {ProductOf[l] : l \in FormLines}

ASSUME PurchaseConstants ==
    /\ FormLines \subseteq Nat /\ IsFiniteSet(FormLines)
    /\ Orders \subseteq Nat /\ OrderLines \subseteq Nat /\ IsFiniteSet(OrderLines)
    /\ Receipts \subseteq Nat /\ IsFiniteSet(Receipts)
    /\ WarehouseOf \in [FormLines -> Nat]
    /\ FormOf \in [FormLines -> Forms] /\ Asked \in [FormLines -> Nat \ {0}]
    /\ Prices \subseteq Nat
    /\ OpeningCost \in [Products -> Nat \cup {None}]
    /\ OpeningStock \in [Products -> Int]
    /\ StalePreReads \in BOOLEAN
    /\ None \notin Nat

VARIABLES
    form,           \* purchase_request
    fline,          \* purchase_request_detail: to_purchase, or None
    order,          \* purchase_order: its status
    oline,          \* purchase_order_detail
    receipt,        \* inventory_receipt
    rline,          \* inventory_receipt_detail: the quantity, by receipt and order line
    cost,           \* product_price of list 0
    change          \* product_cost_change, in the order of its ids

tables == <<form, fline, order, oline, receipt, rline, cost, change>>
vars == <<tables, txn>>

FormStatuses == {"DRAFT", "SUBMITTED", "APPROVED", "CANCELLED"}
DocStatuses == {"DRAFT", "COMPLETED", "CANCELLED"}
ReceiptRows == [order : Orders, warehouse : Nat, status : DocStatuses]

ASSUME NoneIsNoPurchaseRow == None \notin ReceiptRows \cup DocStatuses

-----------------------------------------------------------------------------
\* The lines of a request, of an order and of a receipt.
LinesOf(q) == {l \in FormLines : FormOf[l] = q /\ fline[l] # None}
LinesOn(o) == {k \in OrderLines : oline[k] # None /\ oline[k].order = o}
LinesIn(n) == {k \in OrderLines : rline[n][k] # 0}

LiveOrder(o) == order[o] # None /\ order[o] # "CANCELLED"

\* live_order_lines: the lines of live orders a request line is on.
LiveLines(l) == {k \in OrderLines : oline[k] # None /\ oline[k].fline = l /\ LiveOrder(oline[k].order)}

\* is_pending
IsPending(l) ==
    /\ fline[l] # None
    /\ form[FormOf[l]].status = "APPROVED"
    /\ fline[l].marked
    /\ LiveLines(l) = {}

\* What some receipts hold of an order line.
HeldBy(k, ns) == SumFunctionOnSet([n \in Receipts |-> rline[n][k]], ns)

\* held_by_live_receipts, and received_on_confirmed or _received_elsewhere.
HeldLive(k) == HeldBy(k, {n \in Receipts : receipt[n] # None /\ receipt[n].status # "CANCELLED"})
Received(k) == HeldBy(k, {n \in Receipts : receipt[n] # None /\ receipt[n].status = "COMPLETED"})

\* The ledger's sum of a product: what opened, and what receipts have posted.
OnHand(p) ==
    OpeningStock[p] + SumFunctionOnSet([k \in OrderLines |-> Received(k)],
                                       {k \in OrderLines : oline[k] # None /\ oline[k].product = p})

\* The next id of an autoincrement key.
Fresh(ids, table) == {i \in ids : table[i] = None /\ \A j \in ids : j < i => table[j] # None}

\* The first n ids of order lines that no line has had.
FirstFree(n) ==
    LET unused == {k \in OrderLines : oline[k] = None}
    IN  {k \in unused : Cardinality({j \in unused : j < k}) < n}

-----------------------------------------------------------------------------
FormRow(q) == <<"purchase_request", q>>
LineRow(l) == <<"purchase_request_detail", l>>
OrderRow(o) == <<"purchase_order", o>>
ReceiptRow(n) == <<"inventory_receipt", n>>
CostRow(p) == <<"product_price", p>>
TransitRow(f) == <<"transit_warehouse", f>>

\* A request has its locks and has decided.
Begins(r, op, arg, rows) ==
    /\ txn[r] = Idle
    /\ \A q \in Requests \ {r} : txn[q] # Idle => {op, txn[q].op} \in Overlaps
    /\ Free(r, rows)
    /\ txn' = [txn EXCEPT ![r] = [op |-> op, arg |-> arg, rows |-> rows]]
    /\ UNCHANGED tables

Runs(r, op) == txn[r].op = op

\* A step that only decides on rows it holds: its locks, reads and writes are
\* one step, when nobody holds its rows.
AtOnce(rows) ==
    /\ \A r \in Requests : Holds(r) \cap rows = {}
    /\ UNCHANGED txn

Abort(r) ==
    /\ txn[r] # Idle
    /\ Ends(r)
    /\ UNCHANGED tables

-----------------------------------------------------------------------------
(***************************************************************************)
(* Purchase requests.                                                      *)
(***************************************************************************)
IsForm(q, status) == form[q] # None /\ form[q].status = status

\* create
CreateForm(q) ==
    /\ form[q] = None
    /\ form' = [form EXCEPT ![q] = [status |-> "DRAFT", serial |-> 0]]
    /\ AtOnce({})
    /\ UNCHANGED <<fline, order, oline, receipt, rline, cost, change>>

\* add_line.  A bound: an id is written once, and in order.
AddFormLine(l) ==
    /\ IsForm(FormOf[l], "DRAFT")
    /\ fline[l] = None
    /\ \A m \in FormLines : FormOf[m] = FormOf[l] /\ m > l => fline[m] = None
    /\ fline' = [fline EXCEPT ![l] = [marked |-> TRUE]]
    /\ AtOnce({FormRow(FormOf[l])})
    /\ UNCHANGED <<form, order, oline, receipt, rline, cost, change>>

\* remove_line
RemoveFormLine(l) ==
    /\ IsForm(FormOf[l], "DRAFT")
    /\ fline[l] # None
    /\ fline' = [fline EXCEPT ![l] = None]
    /\ AtOnce({FormRow(FormOf[l]), LineRow(l)})
    /\ UNCHANGED <<form, order, oline, receipt, rline, cost, change>>

\* next_request_serial of the facility
NextSerial(f) ==
    Max({form[q].serial : q \in {p \in Forms : form[p] # None /\ HomeOf[p] = f}} \cup {0}) + 1

\* submit_refusal
Submittable(q) == IsForm(q, "DRAFT") /\ LinesOf(q) # {}

\* submit: numbered once, under the transit warehouse of its facility.
SubmitBegin(r, q) ==
    /\ Submittable(q)
    /\ Begins(r, "submit",
              [form |-> q, serial |-> IF form[q].serial = 0 THEN NextSerial(HomeOf[q])
                                      ELSE form[q].serial],
              {FormRow(q), TransitRow(HomeOf[q])})

SubmitCommit(r) ==
    /\ Runs(r, "submit")
    /\ form' = [form EXCEPT ![txn[r].arg.form] =
                   [status |-> "SUBMITTED", serial |-> txn[r].arg.serial]]
    /\ Ends(r)
    /\ UNCHANGED <<fline, order, oline, receipt, rline, cost, change>>

\* approve and reject; approve_many is a series of approvals.
Decide(q, status) ==
    /\ IsForm(q, "SUBMITTED")
    /\ status \in {"APPROVED", "DRAFT"}
    /\ form' = [form EXCEPT ![q].status = status]
    /\ AtOnce({FormRow(q)})
    /\ UNCHANGED <<fline, order, oline, receipt, rline, cost, change>>

\* mark_refusal
Markable(q, l, marked) ==
    /\ IsForm(q, "SUBMITTED") \/ IsForm(q, "APPROVED")
    /\ ~ marked => LiveLines(l) = {}

\* mark: the request's row, then the line's.
MarkBegin(r, l, marked) ==
    /\ fline[l] # None
    /\ fline[l].marked # marked
    /\ Markable(FormOf[l], l, marked)
    /\ Begins(r, "mark", [line |-> l, marked |-> marked], {FormRow(FormOf[l]), LineRow(l)})

MarkCommit(r) ==
    /\ Runs(r, "mark")
    /\ fline' = [fline EXCEPT ![txn[r].arg.line].marked = txn[r].arg.marked]
    /\ Ends(r)
    /\ UNCHANGED <<form, order, oline, receipt, rline, cost, change>>

\* What a handler may have read of a request's lines before its commit: the
\* lines that were written by then.
PreReads(q) ==
    IF StalePreReads
    THEN {{m \in LinesOf(q) : m < l} : l \in LinesOf(q)} \cup {LinesOf(q)}
    ELSE {LinesOf(q)}

\* cancel_refusal
\* cancel: the request's row, then those of the lines it read before.
CancelBegin(r, q, ids) ==
    /\ form[q] # None /\ form[q].status # "CANCELLED"
    /\ \A l \in LinesOf(q) : LiveLines(l) = {}
    /\ Begins(r, "cancel_form", [form |-> q], {FormRow(q)} \cup {LineRow(l) : l \in ids})

CancelCommit(r) ==
    /\ Runs(r, "cancel_form")
    /\ form' = [form EXCEPT ![txn[r].arg.form].status = "CANCELLED"]
    /\ Ends(r)
    /\ UNCHANGED <<fline, order, oline, receipt, rline, cost, change>>

FormNext ==
    \/ \E q \in Forms : CreateForm(q)
    \/ \E l \in FormLines : AddFormLine(l)
    \/ \E l \in FormLines : RemoveFormLine(l)
    \/ \E r \in Requests, q \in Forms : SubmitBegin(r, q)
    \/ \E r \in Requests : SubmitCommit(r)
    \/ \E q \in Forms, status \in {"APPROVED", "DRAFT"} : Decide(q, status)
    \/ \E r \in Requests, l \in FormLines, marked \in BOOLEAN : MarkBegin(r, l, marked)
    \/ \E r \in Requests : MarkCommit(r)
    \/ \E r \in Requests, q \in Forms : \E ids \in PreReads(q) : CancelBegin(r, q, ids)
    \/ \E r \in Requests : CancelCommit(r)
=============================================================================
