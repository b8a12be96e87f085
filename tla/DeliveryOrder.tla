----------------------------- MODULE DeliveryOrder -----------------------------
(***************************************************************************)
(* delivery_order_service: raising a delivery order from a sale, editing   *)
(* the draft, moving it through the flow, handing it over at the counter,  *)
(* and telling the sale it is delivered.                                   *)
(*                                                                         *)
(* Dates, addresses and contacts are left out, and with them the notice a  *)
(* confirmation asks for.  The setting that only lets paid or credit sales *)
(* be delivered is at its default, off.                                    *)
(***************************************************************************)
EXTENDS DeliveryTables

\* transition, as the copy of the order allows it.
Allows(d, to) == delivery[d] # None /\ AssertLegal(delivery[d].status, to, delivery[d].type)

Editable(d) == delivery[d] # None /\ delivery[d].status = "DRAFT"

\* _branch_target
BranchTarget(type) == IF type = "PICKUP" THEN "APPROVED" ELSE "IN_PREPARATION"

\* The header columns of d are written, waiting for whoever holds its row.
WritesHeader(r, d, row) ==
    /\ Free(r, {DeliveryRow(d)})
    /\ delivery' = [delivery EXCEPT ![d] = row]

\* The status column; the others keep what is in the table.
Becomes(r, d, to) == WritesHeader(r, d, [delivery[d] EXCEPT !.status = to])

-----------------------------------------------------------------------------
(***************************************************************************)
(* Raising and editing.                                                    *)
(***************************************************************************)
\* create_from_sales_order up to its INSERTs.  `chosen` is what the request
\* narrows the delivery to: all that is uncovered, a part of it, or nothing.
CreateBegin(r, s, type, chosen) ==
    LET owed == {l \in SaleLines : SaleOf[l] = s /\ Uncovered(l) > 0}
    IN  /\ owed # {}
        /\ \A l \in SaleLines :
              IF l \in owed THEN chosen[l] <= Uncovered(l) ELSE chosen[l] = 0
        /\ Begins(r, "create", [sale |-> s, type |-> type, chosen |-> chosen], {})

CreateCommit(r, d) ==
    LET arg == txn[r].arg
    IN  /\ Runs(r, "create")
        /\ d \in Fresh(Deliveries, delivery)
        /\ delivery' = [delivery EXCEPT ![d] =
               [status |-> "DRAFT", type |-> arg.type, facility |-> FacilityOf[arg.sale],
                serial |-> 0, parent |-> None]]
        /\ dline' = [dline EXCEPT ![d] =
               [l \in SaleLines |-> IF arg.chosen[l] > 0 THEN NewLine(arg.chosen[l]) ELSE None]]
        /\ Ends(r)
        /\ UNCHANGED <<sale, claim, trip, stop, entry, onHand>>

\* What the rest of the sale line's coverage leaves room for.
FitsSale(l, elsewhere, q) == elsewhere + q <= Sold[l]

\* add_line: the sale need not be the one the order was raised from.
AddBegin(r, d, l, q) ==
    /\ Editable(d)
    /\ dline[d][l] = None
    /\ FitsSale(l, Covered(l), q)
    /\ Begins(r, "edit", [d |-> d, line |-> l, row |-> NewLine(q)], {})

\* update_line
UpdateBegin(r, d, l, q) ==
    /\ Editable(d)
    /\ dline[d][l] # None
    /\ FitsSale(l, Covered(l) - dline[d][l].quantity, q)
    /\ Begins(r, "edit", [d |-> d, line |-> l, row |-> [dline[d][l] EXCEPT !.quantity = q]], {})

\* delete_line
DeleteBegin(r, d, l) ==
    /\ Editable(d)
    /\ dline[d][l] # None
    /\ Begins(r, "edit", [d |-> d, line |-> l, row |-> None], {})

\* An UPDATE writes the quantity alone; a row an itinerary line refers to
\* cannot be deleted, and one that is gone cannot be updated.
EditCommit(r) ==
    LET arg == txn[r].arg
        copy == txn[r].seen.dline[arg.d][arg.line]
        m == dline[arg.d][arg.line]
    IN  /\ Runs(r, "edit")
        /\ copy # None => m # None
        /\ arg.row = None => \A e \in Entries : entry[e] # None => entry[e].key # <<arg.d, arg.line>>
        /\ dline' = [dline EXCEPT ![arg.d][arg.line] =
               IF copy # None /\ arg.row # None
               THEN [m EXCEPT !.quantity = Flushed(m.quantity, copy.quantity, arg.row.quantity)]
               ELSE arg.row]
        /\ Ends(r)
        /\ UNCHANGED <<sale, claim, delivery, trip, stop, entry, onHand>>

-----------------------------------------------------------------------------
(***************************************************************************)
(* The flow.                                                               *)
(***************************************************************************)
\* confirm: the request's snapshot is committed away, the order and its
\* facility are locked, and every read comes after the locks.
ConfirmBegin(r, d) ==
    /\ Editable(d)
    /\ LinesOf(d) # {}
    /\ Begins(r, "confirm", [d |-> d], {DeliveryRow(d), FacilityRow(delivery[d].facility)})

\* The folio MAX(serial) + 1 of the snapshot, and the first status.
ConfirmCommit(r) ==
    LET d == txn[r].arg.d
        copies == txn[r].seen.delivery
        f == copies[d].facility
        serials == {copies[c].serial :
                       c \in {c \in Deliveries : copies[c] # None /\ copies[c].facility = f}}
        to == IF Approval THEN "PENDING_APPROVAL" ELSE BranchTarget(copies[d].type)
    IN  /\ Runs(r, "confirm")
        /\ delivery' = [delivery EXCEPT ![d].serial = Max(serials \cup {0}) + 1, ![d].status = to]
        /\ Ends(r)
        /\ UNCHANGED <<sale, claim, dline, trip, stop, entry, onHand>>

\* The handlers that only move the status: what each asks of the route's
\* copy, and where it takes the order.
Steps == {"approve", "reject", "ready", "requeue", "cancel"}

Target(step, d) ==
    CASE step = "approve" -> BranchTarget(delivery[d].type)
      [] step = "reject" -> "DRAFT"
      [] step = "ready" -> "READY_FOR_PICKUP"
      [] step = "requeue" -> "IN_PREPARATION"
      [] step = "cancel" -> "CANCELLED"

AsksFor_AnyStatus(step, d) == delivery[d] # None

AsksFor(step, d) ==
    /\ delivery[d] # None
    /\ step \in {"approve", "reject"} => delivery[d].status = "PENDING_APPROVAL"
    /\ step = "requeue" => delivery[d].status = "FAILED"
    /\ Allows(d, Target(step, d))

StepBegin(r, step, d) ==
    /\ AsksFor(step, d)
    /\ Begins(r, step, [d |-> d, to |-> Target(step, d)], {})

\* What the step does to the order's lines, by the copies it loaded.
SettledLines(r) ==
    LET d == txn[r].arg.d
        copies == txn[r].seen.dline[d]
    IN  [l \in SaleLines |->
            IF dline[d][l] = None \/ copies[l] = None THEN dline[d][l]
            ELSE CASE txn[r].op = "requeue" ->
                        [dline[d][l] EXCEPT !.returned = Flushed(@, copies[l].returned, 0)]
                   [] txn[r].op = "cancel" ->
                        [dline[d][l] EXCEPT !.committed = Flushed(@, copies[l].committed, 0)]
                   [] OTHER -> dline[d][l]]

\* approve, reject, mark_ready_for_pickup, requeue and cancel.
StepCommit(r) ==
    LET d == txn[r].arg.d
    IN  /\ txn[r].op \in Steps
        /\ Becomes(r, d, txn[r].arg.to)
        /\ dline' = [dline EXCEPT ![d] = SettledLines(r)]
        /\ Ends(r)
        /\ UNCHANGED <<sale, claim, trip, stop, entry, onHand>>

-----------------------------------------------------------------------------
(***************************************************************************)
(* Handing over, and the sale.                                             *)
(***************************************************************************)
Released_Keeps(copy, q) == copy

\* release_reservation of q of a sale line's claim, on the row it read.
Released(copy, q) == IF q < copy THEN copy - q ELSE 0

\* After its commit a handler refreshes the sales it touched, each in a
\* transaction of its own; the handler's request goes on to that.
Refreshes(r, sales) ==
    txn' = [txn EXCEPT ![r] =
               IF sales = {} THEN Idle
               ELSE [op |-> "refresh", arg |-> [sales |-> sales], rows |-> {}, seen |-> Snapshot]]

SalesOf(lines) == {SaleOf[l] : l \in lines}

PickupBegin(r, d) ==
    /\ Allows(d, "PICKED_UP")
    /\ Begins(r, "pickup", [d |-> d], {})

\* confirm_pickup: the goods leave the shelf, their claim is consumed, the
\* lines are settled and the proof stored.
PickupCommit(r) ==
    LET d == txn[r].arg.d
        copies == txn[r].seen.dline[d]
        lines == {l \in SaleLines : copies[l] # None /\ dline[d][l] # None}
    IN  /\ Runs(r, "pickup")
        /\ Becomes(r, d, "PICKED_UP")
        /\ dline' = [dline EXCEPT ![d] = [l \in SaleLines |->
               IF l \in lines
               THEN [dline[d][l] EXCEPT
                        !.delivered = Flushed(@, copies[l].delivered, copies[l].quantity),
                        !.committed = Flushed(@, copies[l].committed, 0)]
               ELSE dline[d][l]]]
        /\ claim' = [l \in SaleLines |->
               IF l \in lines \cap Stocked
               THEN Released(txn[r].seen.claim[l], copies[l].quantity) ELSE claim[l]]
        /\ onHand' = [w \in Warehouses |-> onHand[w] -
               SumFunctionOnSet([l \in lines |-> copies[l].quantity],
                                {l \in lines \cap Stocked : WarehouseOf[l] = w})]
        /\ Refreshes(r, SalesOf(lines))
        /\ UNCHANGED <<sale, trip, stop, entry>>

\* Every line of the sale, and whether its deliveries reach what was sold.
AllDelivered(s) == \A l \in SaleLines : SaleOf[l] = s => Delivered(l) >= Sold[l]

\* refresh_sales_order_delivered
Refresh(r, s) ==
    /\ Runs(r, "refresh")
    /\ s \in txn[r].arg.sales
    /\ sale' = IF AllDelivered(s) THEN [sale EXCEPT ![s] = TRUE] ELSE sale
    /\ Refreshes(r, txn[r].arg.sales \ {s})
    /\ UNCHANGED <<claim, delivery, dline, trip, stop, entry, onHand>>

OrderNext ==
    \/ \E r \in Requests, s \in Sales, type \in Fulfillments,
          chosen \in [SaleLines -> 0 .. Max({Sold[l] : l \in SaleLines})] :
          CreateBegin(r, s, type, chosen)
    \/ \E r \in Requests, d \in Deliveries : CreateCommit(r, d)
    \/ \E r \in Requests, d \in Deliveries, l \in SaleLines :
          \E q \in 1 .. Sold[l] : AddBegin(r, d, l, q) \/ UpdateBegin(r, d, l, q)
    \/ \E r \in Requests, d \in Deliveries, l \in SaleLines : DeleteBegin(r, d, l)
    \/ \E r \in Requests : EditCommit(r)
    \/ \E r \in Requests, d \in Deliveries : ConfirmBegin(r, d)
    \/ \E r \in Requests : ConfirmCommit(r)
    \/ \E r \in Requests, step \in Steps, d \in Deliveries : StepBegin(r, step, d)
    \/ \E r \in Requests : StepCommit(r)
    \/ \E r \in Requests, d \in Deliveries : PickupBegin(r, d)
    \/ \E r \in Requests : PickupCommit(r)
    \/ \E r \in Requests, s \in Sales : Refresh(r, s)
=============================================================================
