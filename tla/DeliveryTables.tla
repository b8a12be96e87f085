---------------------------- MODULE DeliveryTables ----------------------------
(***************************************************************************)
(* The tables of the delivery flow, and the requests in flight over them.  *)
(*                                                                         *)
(* Most handlers lock nothing.  Such a request reads its rows once, when   *)
(* its snapshot opens (`seen`), decides on those copies, and writes back   *)
(* the columns it changed, with values computed from the copies: sessions  *)
(* keep their objects across commits and across a later SELECT FOR UPDATE  *)
(* that does not say populate_existing.  A handler that locks first opens  *)
(* its snapshot while it holds its rows.                                   *)
(*                                                                         *)
(* The sales are of one customer, completed, and reserved in full when the *)
(* model starts.  Each sale line has a product of its own.                 *)
(***************************************************************************)
EXTENDS Integers, FiniteSets, FiniteSetsExt, Functions, DeliveryEvents, RowLocks

CONSTANTS
    Sales,          \* sales orders
    SaleLines,      \* their lines, of every sale
    SaleOf,         \* the sale of a line
    Sold,           \* its quantity
    Stocked,        \* the lines whose product is stockable
    WarehouseOf,    \* the warehouse a line is dispatched from
    TransitOf,      \* the in-transit warehouse of that warehouse's facility
    Warehouses,     \* all of them
    FacilityOf,     \* the facility of a sale
    Deliveries,     \* ids delivery orders are created with
    Trips,          \* ids itineraries are created with
    Stops,          \* ids stops are created with
    Entries,        \* ids itinerary lines are created with
    Vehicles,       \* vehicles
    Approval,       \* settings.delivery_order_approval_required
    Overlaps,       \* the pairs of operations that may be in flight together
    SplitLoads,     \* whether an order may ride to two unresolved stops at once
    Opening,        \* stock on hand in each warehouse
    None            \* NULL

ASSUME DeliveryConstants ==
    /\ IsFiniteSet(SaleLines) /\ IsFiniteSet(Entries) /\ IsFiniteSet(Stops)
    /\ Deliveries \subseteq Nat /\ IsFiniteSet(Deliveries)
    /\ SaleOf \in [SaleLines -> Sales] /\ Sold \in [SaleLines -> Nat \ {0}]
    /\ Stocked \subseteq SaleLines
    /\ WarehouseOf \in [SaleLines -> Warehouses]
    /\ TransitOf \in [{WarehouseOf[l] : l \in SaleLines} -> Warehouses]
    /\ \A v, w \in DOMAIN TransitOf : v # TransitOf[w]
    /\ Opening \in [Warehouses -> Nat]
    /\ Approval \in BOOLEAN /\ SplitLoads \in BOOLEAN
    /\ None \notin Deliveries \cup Trips

VARIABLES
    sale,           \* sales_order.delivered
    claim,          \* lot_serial_rqmt: what a sale line still reserves
    delivery,       \* delivery_order
    dline,          \* delivery_order_detail, by delivery order and sale line
    trip,           \* deliveries_itinerary
    stop,           \* deliveries_itinerary_stop
    entry,          \* deliveries_itinerary_detail
    onHand          \* the ledger's sum per warehouse

tables == <<sale, claim, delivery, dline, trip, stop, entry, onHand>>
vars == <<tables, txn>>

DeliveryRows == [status : Statuses, type : Fulfillments, facility : {FacilityOf[s] : s \in Sales},
                 serial : Nat, parent : Deliveries \cup {None}]
DeliveryLines == [quantity : Nat, committed : Int, delivered : Nat, returned : Nat]
TripRows == [status : {"OPEN", "DEPARTED", "CLOSED", "CANCELLED"}, vehicle : Vehicles]
Outcomes == {"PENDING", "DELIVERED", "PARTIALLY_DELIVERED", "FAILED"}
StopRows == [trip : Trips, outcome : Outcomes]
Keys == Deliveries \X SaleLines
EntryRows == [stop : Stops, key : Keys, committed : Nat, sent : Nat, delivered : Nat,
              returned : Nat]

\* NULL is no row.
ASSUME NoneIsNoDeliveryRow ==
    None \notin DeliveryRows \cup DeliveryLines \cup TripRows \cup StopRows \cup EntryRows

-----------------------------------------------------------------------------
(***************************************************************************)
(* Derived figures.                                                        *)
(***************************************************************************)
LinesOf(d) == {l \in SaleLines : dline[d][l] # None}

Live(d) == delivery[d] # None /\ delivery[d].status # "CANCELLED"

\* _covered_quantities
Covered(l) ==
    LET orders == {d \in Deliveries : Live(d) /\ dline[d][l] # None}
    IN  SumFunctionOnSet([d \in orders |-> dline[d][l].quantity], orders)

\* What create_from_sales_order finds uncovered.
Uncovered(l) == IF Covered(l) < Sold[l] THEN Sold[l] - Covered(l) ELSE 0

\* open_quantity
OpenQuantity(m) == m.quantity - m.delivered - m.returned - m.committed

Delivered(l) ==
    LET orders == {d \in Deliveries : dline[d][l] # None}
    IN  SumFunctionOnSet([d \in orders |-> dline[d][l].delivered], orders)

StopsOf(t) == {s \in Stops : stop[s] # None /\ stop[s].trip = t}
EntriesAt(s) == {e \in Entries : entry[e] # None /\ entry[e].stop = s}
EntriesOf(t) == UNION {EntriesAt(s) : s \in StopsOf(t)}

\* The itinerary lines whose stop is not resolved yet.
Held == UNION {EntriesAt(s) : s \in {q \in Stops : stop[q] # None /\ stop[q].outcome = "PENDING"}}

\* A dispatcher may load order d at stop s.
Places(d, s) == SplitLoads \/ \A e \in Held : entry[e].key[1] = d => entry[e].stop = s

\* pending_deliveries: the lines waiting to be loaded.
Pending ==
    {k \in Keys : /\ delivery[k[1]] # None
                  /\ delivery[k[1]].status = "IN_PREPARATION"
                  /\ delivery[k[1]].type = "DELIVERY"
                  /\ dline[k[1]][k[2]] # None
                  /\ OpenQuantity(dline[k[1]][k[2]]) > 0}

\* assign_folio for a facility's delivery orders.
NextFolio(f) ==
    Max({delivery[d].serial : d \in {c \in Deliveries : delivery[c] # None
                                                     /\ delivery[c].facility = f}} \cup {0}) + 1

NewLine(q) == [quantity |-> q, committed |-> 0, delivered |-> 0, returned |-> 0]

\* The next id of an autoincrement key.
Fresh(ids, table) == {i \in ids : table[i] = None /\ \A j \in ids : j < i => table[j] # None}

-----------------------------------------------------------------------------
(***************************************************************************)
(* Requests.                                                               *)
(***************************************************************************)
DeliveryRow(d) == <<"delivery", d>>
TripRow(t) == <<"trip", t>>
StopRow(s) == <<"stop", s>>
FacilityRow(f) == <<"facility", f>>
WarehouseRow(w) == <<"warehouse", w>>

Snapshot == [sale |-> sale, claim |-> claim, delivery |-> delivery, dline |-> dline,
             trip |-> trip, stop |-> stop, entry |-> entry]

\* A request takes its locks, if any, and opens its snapshot.
Begins(r, op, arg, rows) ==
    /\ txn[r] = Idle
    /\ \A q \in Requests \ {r} : txn[q] # Idle => {op, txn[q].op} \in Overlaps
    /\ Free(r, rows)
    /\ txn' = [txn EXCEPT ![r] = [op |-> op, arg |-> arg, rows |-> rows, seen |-> Snapshot]]
    /\ UNCHANGED tables

Runs(r, op) == txn[r].op = op

\* The session writes a column only if the handler changed its copy.
Flushed(column, copy, value) == IF value = copy THEN column ELSE value

\* A transaction that does not commit.
Abort(r) ==
    /\ txn[r] # Idle
    /\ Ends(r)
    /\ UNCHANGED tables
=============================================================================
