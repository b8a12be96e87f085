----------------------------- MODULE SalesTables -----------------------------
(***************************************************************************)
(* The tables of the sales cycle, the figures every service derives from   *)
(* them, and the transactions that are in flight over them.                *)
(*                                                                         *)
(* A request runs as one MariaDB transaction under REPEATABLE READ.  What  *)
(* it learned from its plain reads, and the rows it holds FOR UPDATE, live *)
(* in txn[r] from the moment its snapshot opens until it commits; a row    *)
(* another transaction holds can be neither locked nor written.            *)
(*                                                                         *)
(* Amounts are whole cents.  Tax, discount and currency are inside the     *)
(* price of a line.                                                        *)
(***************************************************************************)
EXTENDS Integers, FiniteSets, FiniteSetsExt, RowLocks

CONSTANTS
    Orders,         \* ids sales orders are created with
    LineIds,        \* ids of the lines of one order
    Customers,      \* customers
    WalkIn,         \* settings.default_customer_id
    Facilities,     \* facilities (each numbers its own documents)
    Warehouses,     \* warehouses
    Products,       \* products
    Stocked,        \* products with stock_verification and stockable
    Payments,       \* ids customer payments are created with
    Applications,   \* ids sales_order_payment rows are created with
    Refunds,        \* ids customer refunds are created with
    CreditLimit,    \* customer.credit_limit, in cents
    None            \* NULL

ASSUME SalesConstants ==
    /\ IsFiniteSet(Orders) /\ IsFiniteSet(LineIds)
    /\ IsFiniteSet(Applications) /\ IsFiniteSet(Refunds)
    /\ Stocked \subseteq Products
    /\ CreditLimit \in [Customers -> Nat]
    /\ Facilities # {} /\ Customers # {}
    /\ None \notin Warehouses

VARIABLES
    order,          \* sales_order
    line,           \* sales_order_detail, per order and line id
    reservation,    \* lot_serial_rqmt: an order's claims, one row per line
    onHand,         \* sum of the ledger per stock key
    payment,        \* customer_payment
    application,    \* sales_order_payment
    refund,         \* customer_refund and its lines
    elapsed         \* which dates of an order the clock has passed

tables == <<order, line, reservation, onHand, payment, application, refund>>
vars == <<tables, elapsed, txn>>

Settled == 1                              \* totals.SETTLED, one cent
StockKeys == Products \X Warehouses

Terms == {"IMMEDIATE", "NET_D"}
Dates == {"due", "promise", "cutoff", "scheduled_cutoff"}

(***************************************************************************)
(* Rows.  serial = 0 stands for NULL.                                      *)
(***************************************************************************)
Lines == [product : Products, warehouse : Warehouses \cup {None},
          quantity : Nat, price : Nat]

OrderRows ==
    [exists : BOOLEAN, facility : Facilities, customer : Customers,
     payment_terms : Terms, back_office : BOOLEAN, details : BOOLEAN,
     completed : BOOLEAN, cancelled : BOOLEAN, paid : BOOLEAN,
     planned : BOOLEAN, serial : Nat]

NoLines == [l \in LineIds |-> None]
NoClaims == [l \in LineIds |-> None]
ReservationRows == [key : StockKeys, quantity : Nat]

-----------------------------------------------------------------------------
(***************************************************************************)
(* Derived figures.                                                        *)
(***************************************************************************)
Filled(o) == {l \in LineIds : line[o][l] # None}

\* document_totals over the order's lines.
Total(o) ==
    SumFunction([l \in Filled(o) |-> line[o][l].quantity * line[o][l].price])

\* Whether a line reserves stock: a stocked product with a warehouse.
Reserves(m) == m.product \in Stocked /\ m.warehouse # None

\* The quantity of one stock key the order's stocked lines ask for.
Demand(o, k) ==
    LET asking == {l \in Filled(o) : /\ Reserves(line[o][l])
                                     /\ k = <<line[o][l].product, line[o][l].warehouse>>}
    IN  SumFunction([l \in asking |-> line[o][l].quantity])

Reserved(k) ==
    LET claiming == {c \in Orders \X LineIds : /\ reservation[c[1]][c[2]] # None
                                               /\ reservation[c[1]][c[2]].key = k}
    IN  SumFunction([c \in claiming |-> reservation[c[1]][c[2]].quantity])

Available(k) == onHand[k] - Reserved(k)

LiveApplications(o) ==
    {a \in Applications : /\ application[a] # None
                          /\ application[a].order = o
                          /\ ~ application[a].cancelled}

Applied(o) == SumFunction([a \in LiveApplications(o) |-> application[a].amount])

\* A refund's total, priced as the order lines it was copied from.
RefundTotal(n) ==
    LET o == refund[n].order
    IN  SumFunction([l \in Filled(o) |-> refund[n].quantity[l] * line[o][l].price])

Refunded(o) ==
    LET confirmed == {n \in Refunds : /\ refund[n] # None
                                      /\ refund[n].order = o
                                      /\ refund[n].completed
                                      /\ ~ refund[n].cancelled}
    IN  SumFunction([n \in confirmed |-> RefundTotal(n)])

\* totals.remaining: what `total` still owes after `deducted`, floored at zero.
Remaining(total, deducted) == IF total > deducted THEN total - deducted ELSE 0

\* order_balances, the one balance rule.
Balance(o) == Remaining(Total(o), Refunded(o) + Applied(o))

\* _credit_candidates: credit orders not flagged paid.
CreditCandidate(o) ==
    /\ order[o].exists
    /\ order[o].payment_terms = "NET_D"
    /\ order[o].completed
    /\ ~ order[o].cancelled
    /\ ~ order[o].paid

\* open_credit_orders of one customer.
OpenCreditOrders(c) ==
    {o \in Orders : /\ CreditCandidate(o)
                    /\ order[o].customer = c
                    /\ Balance(o) > Settled}

\* _customer_credit_debt.
CreditDebt(c) == SumFunction([o \in OpenCreditOrders(c) |-> Balance(o)])

-----------------------------------------------------------------------------
(***************************************************************************)
(* Transactions and row locks.                                             *)
(***************************************************************************)
OrderRow(o) == <<"order", o>>
PaymentRow(p) == <<"payment", p>>
RefundRow(n) == <<"refund", n>>
FacilityRow(f) == <<"facility", f>>
WarehouseRow(w) == <<"warehouse", w>>
WarehouseRows(o) ==
    {WarehouseRow(w) : w \in {line[o][l].warehouse : l \in Filled(o)} \ {None}}

(***************************************************************************)
(* A transaction that does not commit: the client left, the worker died,   *)
(* or MariaDB chose it as the victim of a deadlock or of a lock wait.      *)
(***************************************************************************)
Abort(r) ==
    /\ txn[r] # Idle
    /\ Ends(r)
    /\ UNCHANGED <<tables, elapsed>>
=============================================================================
