----------------------------- MODULE PurchaseOrder -----------------------------
(***************************************************************************)
(* purchase_order_service: drafts, lines taken from approved requests, and *)
(* the confirmation that turns an order into draft receipts.               *)
(***************************************************************************)
EXTENDS PurchaseRequest

Draft(o) == order[o] = "DRAFT"

\* create
CreateOrder(o) ==
    /\ o \in Fresh(Orders, order)
    /\ order' = [order EXCEPT ![o] = "DRAFT"]
    /\ AtOnce({})
    /\ UNCHANGED <<form, fline, oline, receipt, rline, cost, change>>

\* line_values: priced from cost, or at 0.
Priced(p) == IF cost[p] = None THEN 0 ELSE cost[p]

OrderLine(o, l) ==
    [order |-> o, fline |-> l, product |-> ProductOf[l], warehouse |-> WarehouseOf[l],
     quantity |-> Asked[l], price |-> Priced(ProductOf[l])]

\* add_line: of no request, for what a line l would ask.
AddOrderLine(o, l) ==
    /\ Draft(o)
    /\ FirstFree(1) # {}
    /\ oline' = [oline EXCEPT ![Min(FirstFree(1))] = [OrderLine(o, l) EXCEPT !.fline = None]]
    /\ AtOnce({OrderRow(o)})
    /\ UNCHANGED <<form, fline, order, receipt, rline, cost, change>>

\* update_line: its price.
UpdateOrderLine(k, price) ==
    /\ oline[k] # None
    /\ Draft(oline[k].order)
    /\ oline' = [oline EXCEPT ![k].price = price]
    /\ AtOnce({OrderRow(oline[k].order)})
    /\ UNCHANGED <<form, fline, order, receipt, rline, cost, change>>

\* remove_line
RemoveOrderLine(k) ==
    /\ oline[k] # None
    /\ Draft(oline[k].order)
    /\ oline' = [oline EXCEPT ![k] = None]
    /\ AtOnce({OrderRow(oline[k].order)})
    /\ UNCHANGED <<form, fline, order, receipt, rline, cost, change>>

\* cancel: drafts only; the lines stay.
CancelOrder(o) ==
    /\ Draft(o)
    /\ order' = [order EXCEPT ![o] = "CANCELLED"]
    /\ AtOnce({OrderRow(o)})
    /\ UNCHANGED <<form, fline, oline, receipt, rline, cost, change>>

-----------------------------------------------------------------------------
(***************************************************************************)
(* Lines from requests.                                                    *)
(***************************************************************************)
\* _still_pending of the locked lines.
StillPending(ids) == {l \in ids : IsPending(l)}

\* add_request_lines: the order's row, then those of the request's lines.
TakeBegin(r, o, q, ids) ==
    /\ Draft(o)
    /\ IsForm(q, "APPROVED")
    /\ StillPending(ids) # {}
    /\ Begins(r, "take", [order |-> o, lines |-> StillPending(ids)],
              {OrderRow(o)} \cup {LineRow(l) : l \in ids})

\* The lines a to_purchase_groups read may have shown for a supplier and a
\* facility: they were pending once, so their request was approved.
GroupReads(supplier, facility) ==
    SUBSET {l \in FormLines : /\ fline[l] # None
                              /\ IsForm(FormOf[l], "APPROVED") \/ IsForm(FormOf[l], "CANCELLED")
                              /\ SupplierOf[ProductOf[l]] = supplier
                              /\ FacilityOf[WarehouseOf[l]] = facility}

GroupBegin_NoLocks(r, ids) ==
    /\ StillPending(ids) # {}
    /\ Begins(r, "group", [lines |-> StillPending(ids)], {})

\* create_from_group: the lines' rows are its only locks.
GroupBegin(r, ids) ==
    /\ StillPending(ids) # {}
    /\ Begins(r, "group", [lines |-> StillPending(ids)], {LineRow(l) : l \in ids})

\* _add_pending_lines
Written(o, lines) ==
    LET ids == FirstFree(Cardinality(lines))
    IN  /\ Cardinality(ids) = Cardinality(lines)
        /\ oline' = [k \in OrderLines |->
               IF k \in ids
               THEN OrderLine(o, CHOOSE l \in lines : Cardinality({m \in lines : m < l})
                                                        = Cardinality({j \in ids : j < k}))
               ELSE oline[k]]

TakeCommit(r) ==
    /\ Runs(r, "take")
    /\ Written(txn[r].arg.order, txn[r].arg.lines)
    /\ Ends(r)
    /\ UNCHANGED <<form, fline, order, receipt, rline, cost, change>>

GroupCommit(r, o) ==
    /\ Runs(r, "group")
    /\ o \in Fresh(Orders, order)
    /\ order' = [order EXCEPT ![o] = "DRAFT"]
    /\ Written(o, txn[r].arg.lines)
    /\ Ends(r)
    /\ UNCHANGED <<form, fline, receipt, rline, cost, change>>

-----------------------------------------------------------------------------
(***************************************************************************)
(* Confirming.                                                             *)
(***************************************************************************)
\* receipts_to_generate: per warehouse and order line, what no receipt holds.
Plan(o) ==
    LET owed(k) == oline[k].quantity - HeldLive(k)
        lines == {k \in LinesOn(o) : oline[k].product \in Stockable /\ owed(k) > 0}
    IN  [w \in {oline[k].warehouse : k \in lines} |->
            [k \in OrderLines |->
                IF k \in lines /\ oline[k].warehouse = w THEN owed(k) ELSE 0]]

\* The draft receipts of an order, one per warehouse of the plan, ascending.
Generates(o, plan) ==
    LET unused == {n \in Receipts : receipt[n] = None}
        ids == {n \in unused : Cardinality({m \in unused : m < n}) < Cardinality(DOMAIN plan)}
        of(n) == CHOOSE w \in DOMAIN plan : Cardinality({v \in DOMAIN plan : v < w})
                                              = Cardinality({m \in ids : m < n})
    IN  /\ Cardinality(ids) = Cardinality(DOMAIN plan)
        /\ receipt' = [n \in Receipts |->
               IF n \in ids THEN [order |-> o, warehouse |-> of(n), status |-> "DRAFT"]
               ELSE receipt[n]]
        /\ rline' = [n \in Receipts |-> IF n \in ids THEN plan[of(n)] ELSE rline[n]]

\* confirm: the order's row is its lock.
ConfirmOrderBegin(r, o) ==
    /\ Draft(o)
    /\ LinesOn(o) # {}
    /\ Begins(r, "confirm_order", [order |-> o, plan |-> Plan(o)], {OrderRow(o)})

ConfirmOrderCommit(r) ==
    /\ Runs(r, "confirm_order")
    /\ Generates(txn[r].arg.order, txn[r].arg.plan)
    /\ order' = [order EXCEPT ![txn[r].arg.order] = "COMPLETED"]
    /\ Ends(r)
    /\ UNCHANGED <<form, fline, oline, cost, change>>

OrderNext ==
    \/ \E o \in Orders : CreateOrder(o)
    \/ \E o \in Orders, l \in FormLines : AddOrderLine(o, l)
    \/ \E k \in OrderLines, price \in Prices : UpdateOrderLine(k, price)
    \/ \E k \in OrderLines : RemoveOrderLine(k)
    \/ \E o \in Orders : CancelOrder(o)
    \/ \E r \in Requests, o \in Orders, q \in Forms :
          \E ids \in PreReads(q) : TakeBegin(r, o, q, ids)
    \/ \E r \in Requests : TakeCommit(r)
    \/ \E r \in Requests, p \in Products, l \in FormLines :
          \E ids \in GroupReads(SupplierOf[p], FacilityOf[WarehouseOf[l]]) : GroupBegin(r, ids)
    \/ \E r \in Requests, o \in Orders : GroupCommit(r, o)
    \/ \E r \in Requests, o \in Orders : ConfirmOrderBegin(r, o)
    \/ \E r \in Requests : ConfirmOrderCommit(r)
=============================================================================
