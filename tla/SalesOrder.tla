----------------------------- MODULE SalesOrder ------------------------------
(***************************************************************************)
(* sales_order_service: drafting, confirming and cancelling sales orders,  *)
(* and order_expiry's sweep, which retires the abandoned ones.             *)
(*                                                                         *)
(* An edit locks the order row and re-reads it, so everything it reads and *)
(* writes is covered by that lock and it is one step.  A confirmation      *)
(* holds the order, its facility and its warehouses from its read to its   *)
(* commit.  A cancellation locks nothing: it decides on the copy the route *)
(* read, and its write waits only for the rows it writes.                  *)
(***************************************************************************)
EXTENDS SalesTables

CONSTANTS
    LineMenu,       \* the lines requests ask for (price 0: left to the list)
    ListPrice,      \* price of a product on the customer's list (0: no row)
    PriceList,      \* customer.price_list
    Origins,        \* TRUE for a back-office order, FALSE for a counter sale
    Clock,          \* the dates this instance lets pass
    Movements,      \* quantities other documents move in or out of stock
    MaxOnHand       \* bound on the stock of one key

ASSUME SalesOrderConstants ==
    /\ LineMenu \subseteq Lines
    /\ ListPrice \in [Customers -> [Products -> Nat]]
    /\ Origins \subseteq BOOLEAN
    /\ Clock \subseteq Dates
    /\ MaxOnHand \in Nat
    /\ Movements \subseteq Nat

-----------------------------------------------------------------------------
(***************************************************************************)
(* The rules.                                                              *)
(***************************************************************************)
Editable_IgnoresCompleted(o) == order[o].exists /\ ~ order[o].cancelled

\* documents.assert_editable
Editable(o) == order[o].exists /\ ~ order[o].completed /\ ~ order[o].cancelled

\* _overdue_credit_orders
OverdueCreditOrders(c) == {o \in OpenCreditOrders(c) : "due" \in elapsed[o]}

\* _assert_not_on_credit_hold
NotOnCreditHold(c) == c = WalkIn \/ OverdueCreditOrders(c) = {}

WithinCreditLimit_IgnoresTheOrder(c, adding) ==
    c = WalkIn \/ CreditDebt(c) <= CreditLimit[c]

\* _assert_within_credit_limit
WithinCreditLimit(c, adding) ==
    c = WalkIn \/ CreditDebt(c) + adding <= CreditLimit[c]

IsCreditCustomer(c) == CreditLimit[c] > 0 /\ c # WalkIn

\* _assert_cash_allowed
CashAllowed(c) == IsCreditCustomer(c) => CreditDebt(c) < CreditLimit[c]

\* _assert_credit_allowed
CreditAllowed(c) ==
    /\ IsCreditCustomer(c)
    /\ OverdueCreditOrders(c) = {}
    /\ WithinCreditLimit(c, 0)

TermsAllowed(c, terms) ==
    IF terms = "NET_D" THEN CreditAllowed(c) ELSE CashAllowed(c)

\* missing_delivery_details, of a back-office order
DeliveryDetailsComplete(o) ==
    order[o].back_office => order[o].details /\ "promise" \notin elapsed[o]

StockShortfall_PerLine(o) ==
    \E l \in Filled(o) :
        /\ line[o][l].product \in Stocked
        /\ \/ line[o][l].warehouse = None
           \/ line[o][l].quantity > Available(<<line[o][l].product, line[o][l].warehouse>>)

\* stock_shortfalls: demand is summed per product and warehouse first.
StockShortfall(o) ==
    \/ \E l \in Filled(o) : line[o][l].product \in Stocked /\ line[o][l].warehouse = None
    \/ \E l \in Filled(o) :
           LET k == <<line[o][l].product, line[o][l].warehouse>>
           IN  Reserves(line[o][l]) /\ Demand(o, k) > Available(k)

\* The serials of a facility's orders, and assign_folio's MAX(serial) + 1.
Serials(f) == {order[o].serial : o \in {p \in Orders : order[p].exists /\ order[p].facility = f}}

NextFolio(f) == Max(Serials(f) \cup {0}) + 1

\* assert_can_cancel
CanCancel(o) ==
    /\ order[o].exists
    /\ ~ order[o].cancelled
    /\ ~ order[o].paid
    /\ LiveApplications(o) = {}

Expired_IgnoresSchedule(o) ==
    /\ order[o].exists /\ order[o].completed /\ ~ order[o].cancelled /\ ~ order[o].paid
    /\ reservation[o] # NoClaims
    /\ "cutoff" \in elapsed[o]

Expired_NeverScheduled(o) ==
    /\ order[o].exists /\ order[o].completed /\ ~ order[o].cancelled /\ ~ order[o].paid
    /\ reservation[o] # NoClaims
    /\ "promise" \in elapsed[o] /\ ~ order[o].planned /\ "cutoff" \in elapsed[o]

\* find_expired
Expired(o) ==
    LET scheduled == "promise" \notin elapsed[o] \/ order[o].planned
    IN  /\ order[o].exists /\ order[o].completed /\ ~ order[o].cancelled /\ ~ order[o].paid
        /\ reservation[o] # NoClaims
        /\ IF scheduled THEN "scheduled_cutoff" \in elapsed[o] ELSE "cutoff" \in elapsed[o]

-----------------------------------------------------------------------------
(***************************************************************************)
(* Drafting.                                                               *)
(***************************************************************************)
\* Rows no order uses yet, with every column at its default.
BlankOrder ==
    [exists |-> FALSE, facility |-> CHOOSE f \in Facilities : TRUE,
     customer |-> CHOOSE c \in Customers : TRUE, payment_terms |-> "IMMEDIATE",
     back_office |-> FALSE, details |-> FALSE, completed |-> FALSE,
     cancelled |-> FALSE, paid |-> FALSE,
     planned |-> FALSE, serial |-> 0]

\* create_order.  Its checks read a snapshot, but nothing reads the draft it
\* inserts before it commits, so the whole handler takes effect at its reads.
CreateOrder(o, f, c, terms, origin, details) ==
    /\ details => origin
    /\ ~ order[o].exists
    /\ TermsAllowed(c, terms)
    /\ order' = [order EXCEPT ![o] = [BlankOrder EXCEPT
                    !.exists = TRUE, !.facility = f, !.customer = c,
                    !.payment_terms = terms, !.back_office = origin, !.details = details]]
    /\ UNCHANGED <<line, reservation, onHand, payment, application, refund, elapsed, txn>>

\* _lock_for_edit then assert_editable, as the re-read row says.
LocksForEdit(o) == /\ \A r \in Requests : OrderRow(o) \notin Holds(r)
                   /\ Editable(o)

\* _reprice_lines: every line moves onto the new customer's list.
RepriceLines(o, c) ==
    [l \in LineIds |-> IF l \in Filled(o)
                       THEN [line[o][l] EXCEPT !.price = ListPrice[c][line[o][l].product]]
                       ELSE None]

\* update_order moving the order to customer c, with the terms the request
\* names (None: it names none).
UpdateOrder(o, c, terms) ==
    LET moved == c # order[o].customer
        ends == CASE terms # None -> terms
                  [] terms = None /\ moved /\ IsCreditCustomer(c) -> "NET_D"
                  [] OTHER -> order[o].payment_terms
    IN  /\ LocksForEdit(o)
        /\ TermsAllowed(c, ends)
        /\ order' = [order EXCEPT ![o].customer = c, ![o].payment_terms = ends]
        /\ line' = IF moved /\ PriceList[c] # PriceList[order[o].customer]
                   THEN [line EXCEPT ![o] = RepriceLines(o, c)] ELSE line
        /\ UNCHANGED <<reservation, onHand, payment, application, refund, elapsed, txn>>

\* update_order completing (or clearing) the delivery details.  Nothing asks
\* for a counter sale's: they are kept at FALSE.
UpdateDetails(o, details) ==
    /\ LocksForEdit(o)
    /\ order[o].back_office /\ order[o].details # details
    /\ order' = [order EXCEPT ![o].details = details]
    /\ UNCHANGED <<line, reservation, onHand, payment, application, refund, elapsed, txn>>

\* add_line: a request that names no price takes the customer's list price.
AddLine(o, l, m) ==
    /\ LocksForEdit(o)
    /\ line[o][l] = None
    /\ line' = [line EXCEPT ![o][l] = IF m.price > 0 THEN m
                    ELSE [m EXCEPT !.price = ListPrice[order[o].customer][m.product]]]
    /\ UNCHANGED <<order, reservation, onHand, payment, application, refund, elapsed, txn>>

\* update_line: quantity, price and warehouse change; the product does not,
\* and a request cannot clear the warehouse.
UpdateLine(o, l, m) ==
    /\ LocksForEdit(o)
    /\ line[o][l] # None
    /\ m.product = line[o][l].product
    /\ m.warehouse = None => line[o][l].warehouse = None
    /\ m.price > 0
    /\ line[o][l] # m
    /\ line' = [line EXCEPT ![o][l] = m]
    /\ UNCHANGED <<order, reservation, onHand, payment, application, refund, elapsed, txn>>

\* remove_line
RemoveLine(o, l) ==
    /\ LocksForEdit(o)
    /\ line[o][l] # None
    /\ line' = [line EXCEPT ![o][l] = None]
    /\ UNCHANGED <<order, reservation, onHand, payment, application, refund, elapsed, txn>>

-----------------------------------------------------------------------------
(***************************************************************************)
(* Confirming.                                                             *)
(***************************************************************************)
ConfirmRows_NoFacility(o) == {OrderRow(o)} \cup WarehouseRows(o)

\* What _confirm_locked holds before its first plain read.
ConfirmRows(o) ==
    {OrderRow(o), FacilityRow(order[o].facility)} \cup WarehouseRows(o)

\* The checks of _confirm_locked; any that fails refuses the request.
Confirmable(o) ==
    LET c == order[o].customer
    IN  /\ Editable(o)
        /\ NotOnCreditHold(c)
        /\ DeliveryDetailsComplete(o)
        /\ Filled(o) # {}
        /\ \A l \in Filled(o) : line[o][l].price > 0
        /\ ~ StockShortfall(o)
        /\ IF order[o].payment_terms = "NET_D"
           THEN WithinCreditLimit(c, Total(o)) ELSE CashAllowed(c)

Claims_EveryLine(o) ==
    [l \in LineIds |->
        IF l \in Filled(o)
        THEN [key |-> <<line[o][l].product, line[o][l].warehouse>>,
              quantity |-> line[o][l].quantity]
        ELSE None]

\* One reservation per stocked line that has a warehouse.
Claims(o) ==
    [l \in LineIds |->
        IF l \in Filled(o) /\ Reserves(line[o][l])
        THEN [key |-> <<line[o][l].product, line[o][l].warehouse>>,
              quantity |-> line[o][l].quantity]
        ELSE None]

\* confirm_order up to its last read: the locks, the checks, the folio.
ConfirmRead(r, o) ==
    /\ txn[r] = Idle
    /\ Free(r, ConfirmRows(o))
    /\ Confirmable(o)
    /\ txn' = [txn EXCEPT ![r] = [op |-> "confirm", order |-> o, rows |-> ConfirmRows(o),
                                  serial |-> NextFolio(order[o].facility),
                                  claims |-> Claims(o)]]
    /\ UNCHANGED <<tables, elapsed>>

ConfirmCommit_NoReservation(r) ==
    LET o == txn[r].order
    IN  /\ txn[r].op = "confirm"
        /\ order' = [order EXCEPT ![o].serial = txn[r].serial, ![o].completed = TRUE]
        /\ Ends(r)
        /\ UNCHANGED <<line, reservation, onHand, payment, application, refund, elapsed>>

\* The writes of _confirm_locked: the folio, one claim per stocked line, completed.
ConfirmCommit(r) ==
    LET o == txn[r].order
    IN  /\ txn[r].op = "confirm"
        /\ order' = [order EXCEPT ![o].serial = txn[r].serial, ![o].completed = TRUE]
        /\ reservation' = [reservation EXCEPT ![o] = txn[r].claims]
        /\ Ends(r)
        /\ UNCHANGED <<line, onHand, payment, application, refund, elapsed>>

-----------------------------------------------------------------------------
(***************************************************************************)
(* Cancelling, by a person and by the sweep.                               *)
(***************************************************************************)
\* cancel_order's reads: the route's copy and the live applications.
CancelRead(r, o) ==
    /\ txn[r] = Idle
    /\ CanCancel(o)
    /\ txn' = [txn EXCEPT ![r] = [op |-> "cancel", order |-> o, rows |-> {},
                                  completed |-> order[o].completed]]
    /\ UNCHANGED <<tables, elapsed>>

\* release_reservations: the order's claims are deleted.
Released(o) == [reservation EXCEPT ![o] = NoClaims]

\* cancel_order's writes; the UPDATE waits for whoever holds the order row.
CancelCommit(r) ==
    LET o == txn[r].order
    IN  /\ txn[r].op = "cancel"
        /\ Free(r, {OrderRow(o)})
        /\ order' = [order EXCEPT ![o].cancelled = TRUE]
        /\ reservation' = IF txn[r].completed THEN Released(o) ELSE reservation
        /\ Ends(r)
        /\ UNCHANGED <<line, onHand, payment, application, refund, elapsed>>

\* expire_unpaid_orders: the orders find_expired returns, and which of them
\* hold no live application in the snapshot the loop reads.
SweepRead(r) ==
    LET found == {o \in Orders : Expired(o)}
    IN  /\ txn[r] = Idle
        /\ found # {}
        /\ txn' = [txn EXCEPT ![r] =
                      [op |-> "sweep", rows |-> {}, queue |-> found,
                       clear |-> {o \in found : LiveApplications(o) = {}}]]
        /\ UNCHANGED <<tables, elapsed>>

\* The sweep's transaction after it has dealt with o.
SweepRest(r, o, clear) ==
    IF txn[r].queue = {o} THEN Idle
    ELSE [txn[r] EXCEPT !.queue = @ \ {o}, !.clear = clear]

\* One cancel_order of the sweep, on the copy find_expired loaded.  Its commit
\* ends the snapshot, so the next order's applications are read afresh.
SweepCancel(r, o) ==
    /\ txn[r].op = "sweep"
    /\ o \in txn[r].queue \cap txn[r].clear
    /\ Free(r, {OrderRow(o)})
    /\ order' = [order EXCEPT ![o].cancelled = TRUE]
    /\ reservation' = Released(o)
    /\ txn' = [txn EXCEPT ![r] =
                  SweepRest(r, o, {p \in txn[r].queue : LiveApplications(p) = {}})]
    /\ UNCHANGED <<line, onHand, payment, application, refund, elapsed>>

\* An order that still holds money is skipped and reported.
SweepSkip(r, o) ==
    /\ txn[r].op = "sweep"
    /\ o \in txn[r].queue \ txn[r].clear
    /\ txn' = [txn EXCEPT ![r] = SweepRest(r, o, txn[r].clear)]
    /\ UNCHANGED <<tables, elapsed>>

-----------------------------------------------------------------------------
(***************************************************************************)
(* What goes on around the orders.                                         *)
(***************************************************************************)
\* A date of the order passes.
Elapse(o, d) ==
    /\ order[o].exists
    /\ d \notin elapsed[o]
    /\ d = "scheduled_cutoff" => "cutoff" \in elapsed[o]
    /\ elapsed' = [elapsed EXCEPT ![o] = @ \cup {d}]
    /\ UNCHANGED <<tables, txn>>

\* A delivery order of the sale is raised, or the last live one is cancelled.
PlanDelivery(o) ==
    /\ order[o].completed
    /\ order' = [order EXCEPT ![o].planned = ~ @]
    /\ UNCHANGED <<line, reservation, onHand, payment, application, refund, elapsed, txn>>

\* Another document brings stock in, or takes out what is available, holding
\* the warehouse from its availability read to its commit.
StockIn(k, q) ==
    /\ \A r \in Requests : WarehouseRow(k[2]) \notin Holds(r)
    /\ onHand[k] + q <= MaxOnHand
    /\ onHand' = [onHand EXCEPT ![k] = @ + q]
    /\ UNCHANGED <<order, line, reservation, payment, application, refund, elapsed, txn>>

StockOut(k, q) ==
    /\ \A r \in Requests : WarehouseRow(k[2]) \notin Holds(r)
    /\ q <= Available(k)
    /\ onHand' = [onHand EXCEPT ![k] = @ - q]
    /\ UNCHANGED <<order, line, reservation, payment, application, refund, elapsed, txn>>

-----------------------------------------------------------------------------
Init ==
    /\ order = [o \in Orders |-> BlankOrder]
    /\ line = [o \in Orders |-> NoLines]
    /\ reservation = [o \in Orders |-> NoClaims]
    /\ onHand = [k \in StockKeys |-> MaxOnHand]
    /\ payment = [p \in Payments |-> None]
    /\ application = [a \in Applications |-> None]
    /\ refund = [n \in Refunds |-> None]
    /\ elapsed = [o \in Orders |-> {}]
    /\ txn = [r \in Requests |-> Idle]

Draft ==
    \/ \E o \in Orders, f \in Facilities, c \in Customers, terms \in Terms,
          origin \in Origins, details \in BOOLEAN :
          CreateOrder(o, f, c, terms, origin, details)
    \/ \E o \in Orders, c \in Customers, terms \in Terms \cup {None} : UpdateOrder(o, c, terms)
    \/ \E o \in Orders, details \in BOOLEAN : UpdateDetails(o, details)
    \/ \E o \in Orders, l \in LineIds, m \in LineMenu : AddLine(o, l, m)
    \/ \E o \in Orders, l \in LineIds, m \in LineMenu : UpdateLine(o, l, m)
    \/ \E o \in Orders, l \in LineIds : RemoveLine(o, l)

Confirm ==
    \/ \E r \in Requests, o \in Orders : ConfirmRead(r, o)
    \/ \E r \in Requests : ConfirmCommit(r)

Cancel ==
    \/ \E r \in Requests, o \in Orders : CancelRead(r, o)
    \/ \E r \in Requests : CancelCommit(r)

Sweep ==
    \/ \E r \in Requests : SweepRead(r)
    \/ \E r \in Requests, o \in Orders : SweepCancel(r, o)
    \/ \E r \in Requests, o \in Orders : SweepSkip(r, o)

Around ==
    \/ \E o \in Orders, d \in Clock : Elapse(o, d)
    \/ \E o \in Orders : PlanDelivery(o)
    \/ \E k \in StockKeys, q \in Movements : StockIn(k, q)
    \/ \E k \in StockKeys, q \in Movements : StockOut(k, q)

Next ==
    \/ Draft
    \/ Confirm
    \/ Cancel
    \/ Sweep
    \/ Around
    \/ \E r \in Requests : Abort(r)

Spec == Init /\ [][Next]_vars

(***************************************************************************)
(* Every transaction ends, by committing or by being aborted (a worker     *)
(* serves it to the end and lock waits time out).  The sweep is a          *)
(* scheduled job and MariaDB does not abort it every time: a sweep that    *)
(* can start again and again starts, and an order it can cancel again and  *)
(* again is cancelled.                                                     *)
(***************************************************************************)
TransactionEnds(r) == ConfirmCommit(r) \/ CancelCommit(r) \/ Abort(r)

Fairness ==
    /\ \A r \in Requests : WF_vars(TransactionEnds(r))
    /\ SF_vars(\E r \in Requests : SweepRead(r))
    /\ \A o \in Orders : SF_vars(\E r \in Requests : SweepCancel(r, o))

FairSpec == Spec /\ Fairness

-----------------------------------------------------------------------------
(***************************************************************************)
(* Properties.                                                             *)
(***************************************************************************)
LockRows ==
    ({"order"} \X Orders) \cup ({"facility"} \X Facilities) \cup
    ({"warehouse"} \X Warehouses)

ClaimRows == [LineIds -> ReservationRows \cup {None}]

Transactions ==
    [op : {"idle"}]
    \cup [op : {"confirm"}, order : Orders, rows : SUBSET LockRows,
          serial : Nat, claims : ClaimRows]
    \cup [op : {"cancel"}, order : Orders, rows : SUBSET LockRows, completed : BOOLEAN]
    \cup [op : {"sweep"}, rows : SUBSET LockRows,
          queue : SUBSET Orders, clear : SUBSET Orders]

\* Every table holds rows of its own shape and every transaction is one of
\* the requests sales_order_service and order_expiry serve.
TypeOK ==
    /\ order \in [Orders -> OrderRows]
    /\ line \in [Orders -> [LineIds -> Lines \cup {None}]]
    /\ reservation \in [Orders -> ClaimRows]
    /\ onHand \in [StockKeys -> Int]
    /\ elapsed \in [Orders -> SUBSET Dates]
    /\ txn \in [Requests -> Transactions]

\* Two orders of one facility never carry the same folio, however their
\* confirmations interleave (assign_folio's MAX(serial) + 1 under the
\* facility lock).
FoliosUnique ==
    \A o, p \in Orders :
        (o # p /\ order[o].exists /\ order[p].exists
           /\ order[o].facility = order[p].facility /\ order[o].serial # 0)
        => order[o].serial # order[p].serial

\* A facility's folios have no gap: a refused, aborted or cancelled
\* confirmation uses no number (spec 035's "next consecutive number").
FoliosConsecutive ==
    \A f \in Facilities : \A s \in Serials(f) : s > 1 => s - 1 \in Serials(f)

\* Confirmed orders never claim more of a product than its warehouse holds:
\* the availability read and the claims are covered by the warehouse locks.
NotOversold == \A k \in StockKeys : Reserved(k) <= onHand[k]

\* While a confirmed order stands, it claims exactly its stocked lines: no
\* edit slipped between the lines the confirmation read and the lines it froze.
ClaimsMatchLines ==
    \A o \in Orders :
        order[o].completed /\ ~ order[o].cancelled => reservation[o] = Claims(o)

\* Confirmation freezes the document: no later step changes its lines, its
\* customer, its terms or its folio (documents.assert_editable, SC-007).
CompletedIsFrozen ==
    [][\A o \in Orders : order[o].completed =>
          /\ line'[o] = line[o]
          /\ order'[o].customer = order[o].customer
          /\ order'[o].payment_terms = order[o].payment_terms
          /\ order'[o].serial = order[o].serial
          /\ order'[o].completed]_vars

\* A confirmed back-office order can be delivered: no edit clears its delivery
\* details between the check and the commit (missing_delivery_details).
BackOfficeIsDeliverable ==
    \A o \in Orders : order[o].completed /\ order[o].back_office => order[o].details

\* The customer's orders were all confirmed in one facility.
OneFacility(c) ==
    \A o, p \in Orders :
        (order[o].completed /\ order[p].completed
           /\ order[o].customer = c /\ order[p].customer = c)
        => order[o].facility = order[p].facility

\* What a customer owes on credit stays within the limit: confirmation is
\* the gate that refuses the order that would take them over.  It locks one
\* facility and sums the orders of all, so only customers of one are safe.
CreditWithinLimit ==
    \A c \in Customers \ {WalkIn} : OneFacility(c) => CreditDebt(c) <= CreditLimit[c]

\* The sweep never retires an order somebody has scheduled before the longer
\* window is over (order_expiry.find_expired, #210).
SweepSparesScheduled ==
    [][\A o \in Orders : (\E r \in Requests : SweepCancel(r, o)) =>
          \/ "scheduled_cutoff" \in elapsed[o]
          \/ "promise" \in elapsed[o] /\ "cutoff" \in elapsed[o]]_vars

\* An abandoned order past every window does not hold stock for ever: the
\* sweep retires it unless money arrives.
AbandonedIsRetired ==
    \A o \in Orders :
        (order[o].completed /\ "scheduled_cutoff" \in elapsed[o]
           /\ reservation[o] # NoClaims /\ LiveApplications(o) = {})
        ~> (order[o].cancelled \/ order[o].paid \/ LiveApplications(o) # {})

-----------------------------------------------------------------------------
(***************************************************************************)
(* The inductive invariant behind the properties that are proved.          *)
(***************************************************************************)
\* No row is held by two transactions.
LocksExclusive == \A r, q \in Requests : r # q => Holds(r) \cap Holds(q) = {}

\* A confirmation that has made its checks holds its order and its facility,
\* and what it read is still so: the order is the draft it checked, the number
\* it took is the facility's next, its claims are the order's stocked lines.
Covered(r) ==
    LET o == txn[r].order
        f == order[o].facility
    IN  /\ OrderRow(o) \in txn[r].rows
        /\ FacilityRow(f) \in txn[r].rows
        /\ Editable(o)
        /\ order[o].back_office => order[o].details
        /\ txn[r].serial > 0
        /\ \A s \in Serials(f) : s < txn[r].serial
        /\ txn[r].serial > 1 => txn[r].serial - 1 \in Serials(f)
        /\ txn[r].claims = Claims(o)

ConfirmCovered == \A r \in Requests : txn[r].op = "confirm" => Covered(r)

\* Only confirmation numbers an order, and it confirms orders that exist.
DraftsUnnumbered ==
    \A o \in Orders : /\ ~ order[o].completed => order[o].serial = 0
                      /\ order[o].completed => order[o].exists

\* The order draws on a stock key.
Draws(o, k) ==
    \E l \in Filled(o) : /\ Reserves(line[o][l])
                         /\ k = <<line[o][l].product, line[o][l].warehouse>>

\* A confirmation that has made its checks holds the warehouses its order
\* draws on, and the stock it found there is still there.
StockAfforded(r) ==
    LET o == txn[r].order
    IN  \A k \in StockKeys : Draws(o, k) =>
            /\ WarehouseRow(k[2]) \in txn[r].rows
            /\ Reserved(k) + Demand(o, k) <= onHand[k]

\* So does the credit it found, as long as nothing of the customer's is
\* confirmed in another facility.
CreditAfforded(r) ==
    LET o == txn[r].order
        c == order[o].customer
    IN  (/\ order[o].payment_terms = "NET_D"
         /\ c # WalkIn
         /\ \A p \in Orders : order[p].completed /\ order[p].customer = c
                => order[p].facility = order[o].facility)
        => CreditDebt(c) + Total(o) <= CreditLimit[c]

\* Nothing is paid or refunded in this module.
NoMoney ==
    /\ application = [a \in Applications |-> None]
    /\ refund = [n \in Refunds |-> None]

LimitsInv ==
    /\ NotOversold
    /\ CreditWithinLimit
    /\ NoMoney
    /\ \A r \in Requests : txn[r].op = "confirm" => StockAfforded(r) /\ CreditAfforded(r)

SalesInv ==
    /\ TypeOK
    /\ LocksExclusive
    /\ DraftsUnnumbered
    /\ ConfirmCovered
    /\ FoliosUnique
    /\ FoliosConsecutive
    /\ ClaimsMatchLines
    /\ BackOfficeIsDeliverable
=============================================================================
