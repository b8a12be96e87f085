---------------------------- MODULE PurchaseReceipt ----------------------------
(***************************************************************************)
(* inventory_receipt_service and purchase_cost_service: receiving what was *)
(* ordered, in one receipt or several, the average cost a confirmed        *)
(* receipt leaves, and its restoration when the receipt is cancelled.      *)
(*                                                                         *)
(* The serials and stock movements of a receipt are InventoryDocument's;   *)
(* here its warehouse is locked, and nothing is sold in between.           *)
(***************************************************************************)
EXTENDS PurchaseOrder

IsReceipt(n, status) == receipt[n] # None /\ receipt[n].status = status

WarehouseRows(n) ==
    {<<"warehouse", receipt[n].warehouse>>, TransitRow(FacilityOf[receipt[n].warehouse])}

-----------------------------------------------------------------------------
(***************************************************************************)
(* Average cost.                                                           *)
(***************************************************************************)
\* average: rounded half up to the column's unit.
Average(q, c, n, u) ==
    LET held == IF q > 0 THEN q ELSE 0
    IN  (2 * (held * c + n * u) + held + n) \div (2 * (held + n))

\* One line of apply_lines: what is on hand of its product and what it costs
\* run on from line to line, and a line priced at 0 leaves the cost.
Averaged(n, state, k) ==
    LET p == oline[k].product
        c == IF state.cost[p] = None THEN 0 ELSE state.cost[p]
        u == oline[k].price
        new == Average(state.onHand[p], c, rline[n][k], u)
        received == [state EXCEPT !.onHand[p] = @ + rline[n][k]]
    IN  IF u = 0 THEN received
        ELSE [received EXCEPT !.cost[p] = new,
                  !.log = Append(@, [product |-> p, receipt |-> n, previous |-> c, new |-> new,
                                     reverted |-> 0])]

\* apply_lines, in line order.
Applied(n) ==
    FoldLeft(LAMBDA state, k : Averaged(n, state, k),
             [onHand |-> [p \in Products |-> OnHand(p)], cost |-> cost, log |-> << >>],
             SetToSortSeq(LinesIn(n), <))

\* The products whose cost rows a receipt locks: those that have one.
CostRows(n) == {CostRow(p) : p \in {oline[k].product : k \in LinesIn(n)} \cap
                                   {p \in Products : cost[p] # None}}

Unpriced == {p \in Products : cost[p] = None}

ConfirmBegin_NoCostLock(r, n) ==
    /\ IsReceipt(n, "DRAFT")
    /\ LinesIn(n) # {}
    /\ Begins(r, "confirm", [receipt |-> n, result |-> Applied(n), unpriced |-> Unpriced],
              {ReceiptRow(n)} \cup WarehouseRows(n))

\* confirm_simple of a purchase order's receipt: the receipt, its warehouses,
\* then its cost rows.
ConfirmBegin(r, n) ==
    /\ IsReceipt(n, "DRAFT")
    /\ LinesIn(n) # {}
    /\ Begins(r, "confirm", [receipt |-> n, result |-> Applied(n), unpriced |-> Unpriced],
              {ReceiptRow(n)} \cup WarehouseRows(n) \cup CostRows(n))

\* A cost row two receipts found missing is inserted once: the second fails.
ConfirmCommit(r) ==
    LET result == txn[r].arg.result
        touched == {result.log[i].product : i \in DOMAIN result.log}
    IN  /\ Runs(r, "confirm")
        /\ touched \cap txn[r].arg.unpriced \subseteq Unpriced
        /\ cost' = [p \in Products |-> IF p \in touched THEN result.cost[p] ELSE cost[p]]
        /\ change' = change \o result.log
        /\ receipt' = [receipt EXCEPT ![txn[r].arg.receipt].status = "COMPLETED"]
        /\ Ends(r)
        /\ UNCHANGED <<form, fline, order, oline, rline>>

\* The changes a receipt made to a product, and the last anyone made.
ChangesOf(n, p) ==
    {i \in DOMAIN change : change[i].product = p /\ change[i].receipt = n /\ change[i].reverted = 0}
Latest(p) == Max({i \in DOMAIN change : change[i].product = p})

\* restore_plan: back to the cost before the receipt's first change of a
\* product, while the product's latest change is the receipt's.
Restorable_Always(n) == {p \in Products : ChangesOf(n, p) # {}}

Restorable(n) ==
    {p \in Products : ChangesOf(n, p) # {} /\ Latest(p) \in ChangesOf(n, p)}

\* restore, one change per product; the products in any fixed order.
Restores(n) ==
    LET first(p) == Min(ChangesOf(n, p))
        row(p) == [product |-> p, receipt |-> n, previous |-> cost[p],
                   new |-> change[first(p)].previous, reverted |-> first(p)]
    IN  SetToSeq({row(p) : p \in Restorable(n)})

\* cancel of a receipt: a confirmed one takes its cost rows too.
CancelReceiptBegin(r, n) ==
    /\ receipt[n] # None /\ receipt[n].status # "CANCELLED"
    /\ Begins(r, "cancel",
              [receipt |-> n, log |-> IF IsReceipt(n, "COMPLETED") THEN Restores(n) ELSE << >>],
              {ReceiptRow(n)} \cup WarehouseRows(n)
                  \cup IF IsReceipt(n, "COMPLETED") THEN CostRows(n) ELSE {})

CancelReceiptCommit(r) ==
    LET log == txn[r].arg.log
    IN  /\ Runs(r, "cancel")
        /\ cost' = [p \in Products |->
               IF \E i \in DOMAIN log : log[i].product = p
               THEN (CHOOSE row \in Range(log) : row.product = p).new ELSE cost[p]]
        /\ change' = change \o log
        /\ receipt' = [receipt EXCEPT ![txn[r].arg.receipt].status = "CANCELLED"]
        /\ Ends(r)
        /\ UNCHANGED <<form, fline, order, oline, rline>>

-----------------------------------------------------------------------------
(***************************************************************************)
(* Receiving in parts.                                                     *)
(***************************************************************************)
\* update_line and remove_line of a draft receipt.  (The inputs: less than
\* was written, as when a truck arrives short.)
ReceiveShort(n, k, q) ==
    /\ IsReceipt(n, "DRAFT")
    /\ q < rline[n][k]
    /\ rline' = [rline EXCEPT ![n][k] = q]
    /\ AtOnce({ReceiptRow(n)})
    /\ UNCHANGED <<form, fline, order, oline, receipt, cost, change>>

\* remaining_lines, of the order lines for the receipt's warehouse.
Remaining(o, w) ==
    [k \in OrderLines |->
        IF /\ k \in LinesOn(o) /\ oline[k].warehouse = w /\ oline[k].product \in Stockable
           /\ oline[k].quantity > Received(k)
        THEN oline[k].quantity - Received(k) ELSE 0]

OpenDrafts(o, w) ==
    {n \in Receipts : IsReceipt(n, "DRAFT") /\ receipt[n].order = o /\ receipt[n].warehouse = w}

\* complementary_refusal
Complementable(n) ==
    /\ receipt[n] # None /\ receipt[n].status # "CANCELLED"
    /\ order[receipt[n].order] = "COMPLETED"
    /\ \E k \in OrderLines : Remaining(receipt[n].order, receipt[n].warehouse)[k] > 0

ComplementBegin_NoLock(r, n) ==
    /\ Complementable(n)
    /\ OpenDrafts(receipt[n].order, receipt[n].warehouse) = {}
    /\ Begins(r, "complement",
              [order |-> receipt[n].order,
               plan |-> [w \in {receipt[n].warehouse} |-> Remaining(receipt[n].order, w)]], {})

\* complementary_receipt, when there is no open draft to return.
ComplementBegin(r, n) ==
    /\ Complementable(n)
    /\ OpenDrafts(receipt[n].order, receipt[n].warehouse) = {}
    /\ Begins(r, "complement",
              [order |-> receipt[n].order,
               plan |-> [w \in {receipt[n].warehouse} |-> Remaining(receipt[n].order, w)]],
              {OrderRow(receipt[n].order)})

ComplementCommit(r) ==
    /\ Runs(r, "complement")
    /\ Generates(txn[r].arg.order, txn[r].arg.plan)
    /\ Ends(r)
    /\ UNCHANGED <<form, fline, order, oline, cost, change>>

ReceiptNext ==
    \/ \E r \in Requests, n \in Receipts : ConfirmBegin(r, n)
    \/ \E r \in Requests : ConfirmCommit(r)
    \/ \E r \in Requests, n \in Receipts : CancelReceiptBegin(r, n)
    \/ \E r \in Requests : CancelReceiptCommit(r)
    \/ \E n \in Receipts, k \in OrderLines : \E q \in 0 .. rline[n][k] : ReceiveShort(n, k, q)
    \/ \E r \in Requests, n \in Receipts : ComplementBegin(r, n)
    \/ \E r \in Requests : ComplementCommit(r)

Init ==
    /\ form = [q \in Forms |-> None]
    /\ fline = [l \in FormLines |-> None]
    /\ order = [o \in Orders |-> None]
    /\ oline = [k \in OrderLines |-> None]
    /\ receipt = [n \in Receipts |-> None]
    /\ rline = [n \in Receipts |-> [k \in OrderLines |-> 0]]
    /\ cost = OpeningCost
    /\ change = << >>
    /\ txn = [r \in Requests |-> Idle]

Next ==
    \/ FormNext
    \/ OrderNext
    \/ ReceiptNext
    \/ \E r \in Requests : Abort(r)

Spec == Init /\ [][Next]_vars

-----------------------------------------------------------------------------
(***************************************************************************)
(* However many buyers draw on a request at once, each of its lines is     *)
(* ordered once: it is on one live order at most.                          *)
(***************************************************************************)
OrderedOnce == \A l \in FormLines : Cardinality(LiveLines(l)) <= 1

(***************************************************************************)
(* While nobody writes more on a receipt than was expected, an order line  *)
(* is never received beyond what was ordered, however its receipts are     *)
(* split, cancelled and replaced.                                          *)
(***************************************************************************)
NeverOverReceived ==
    \A k \in OrderLines : oline[k] # None => HeldLive(k) <= oline[k].quantity

(***************************************************************************)
(* The cost history of a product is a chain: each change starts from the   *)
(* cost the one before left, and the last left the cost of today.  A       *)
(* receipt that averaged over a stale cost breaks it.                      *)
(***************************************************************************)
CostIsItsHistory ==
    \A p \in Products :
        LET mine == {i \in DOMAIN change : change[i].product = p}
            opening == IF OpeningCost[p] = None THEN 0 ELSE OpeningCost[p]
        IN  /\ \A i \in mine :
                   LET before == {j \in mine : j < i}
                   IN  change[i].previous = IF before = {} THEN opening
                                            ELSE change[Max(before)].new
            /\ cost[p] = IF mine = {} THEN OpeningCost[p] ELSE change[Max(mine)].new

(***************************************************************************)
(* A restore takes a cancelled receipt's effect off the cost, and nothing  *)
(* else: between the change it reverts and itself lie only that receipt's  *)
(* own changes of the product.                                             *)
(***************************************************************************)
RestoresUndoOneReceipt ==
    \A j \in DOMAIN change : change[j].reverted # 0 =>
        \A i \in change[j].reverted .. j - 1 :
            change[i].product = change[j].product => change[i].receipt = change[j].receipt

=============================================================================
