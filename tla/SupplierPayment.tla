--------------------------- MODULE SupplierPayment ---------------------------
(***************************************************************************)
(* supplier_payment_service: payments to suppliers, in cash out of a       *)
(* drawer or by other means, and their application to purchase orders.     *)
(*                                                                         *)
(* Every path takes its locks in one order: the cash session, the payment, *)
(* the purchase orders ascending, the facility.  What it reads afterwards  *)
(* it reads in one snapshot (a Check step) and writes at its commit.       *)
(* Payments recorded before numbering (no facility) are not modelled: they *)
(* have no credit and no session.                                          *)
(***************************************************************************)
EXTENDS CashSession

CONSTANTS
    POs,                \* purchase orders, confirmed
    Suppliers,          \* suppliers
    SupplierOf,         \* the supplier of an order
    OrderTotal,         \* an order's total with tax
    Counting,           \* orders confirmed on or after the cutoff, once it is set
    Facilities,         \* facilities (each numbers its payments)
    FacilityOf,         \* the facility of a drawer
    PaymentAmounts,     \* amounts supplier payments are created with
    ItemLists,          \* applications one request asks for, in its order
    MaxPayments,        \* bound: supplier payments ever created
    MaxApplications     \* bound: applications ever made

ASSUME SupplierConstants ==
    /\ POs \subseteq Nat /\ IsFiniteSet(POs) /\ Counting \subseteq POs
    /\ SupplierOf \in [POs -> Suppliers] /\ OrderTotal \in [POs -> Nat]
    /\ FacilityOf \in [Drawers -> Facilities]
    /\ PaymentAmounts \subseteq Nat \ {0}
    /\ ItemLists \subseteq Seq([order : POs, amount : Nat \ {0}])
    /\ \A items \in ItemLists : \A i, j \in DOMAIN items :
          i # j => items[i].order # items[j].order
    /\ MaxPayments \in Nat /\ MaxApplications \in Nat

SupplierPaymentRows == [supplier : Suppliers, amount : Nat, facility : Facilities, serial : Nat,
                        session : Sessions \cup {None}, cancelled : BOOLEAN]
SupplierApplicationRows == [payment : 1..MaxPayments, order : POs, amount : Nat,
                            cancelled : BOOLEAN]

SPaymentRow(p) == <<"supplier_payment", p>>
PoRow(o) == <<"purchase_order", o>>
FacilityRow(f) == <<"facility", f>>

-----------------------------------------------------------------------------
(***************************************************************************)
(* Figures and rules.                                                      *)
(***************************************************************************)
LiveOf(p) == {a \in DOMAIN sapplication : /\ sapplication[a].payment = p
                                          /\ ~ sapplication[a].cancelled}
LiveTo(o) == {a \in DOMAIN sapplication : /\ sapplication[a].order = o
                                          /\ ~ sapplication[a].cancelled}

\* payment_applied and po_applied
AppliedAmounts == [a \in DOMAIN sapplication |-> sapplication[a].amount]
PaymentApplied(p) == SumFunctionOnSet(AppliedAmounts, LiveOf(p))
PoApplied(o) == SumFunctionOnSet(AppliedAmounts, LiveTo(o))

\* payment_credit
PaymentCredit(p) == IF spayment[p].cancelled THEN 0 ELSE spayment[p].amount - PaymentApplied(p)

\* _balances
PoBalance(o) == OrderTotal[o] - PoApplied(o)

SETTLED == 1        \* totals.SETTLED, one cent

\* open_purchase_orders
OpenPurchaseOrders(s) ==
    {o \in Counting : SupplierOf[o] = s /\ PoBalance(o) > SETTLED}

\* payments_with_credit
PaymentsWithCredit(s) ==
    {p \in DOMAIN spayment : spayment[p].supplier = s /\ PaymentCredit(p) > 0}

\* supplier_balance
SupplierBalance(s) ==
    LET owed == SumFunction([o \in OpenPurchaseOrders(s) |-> PoBalance(o)])
        credit == SumFunction([p \in PaymentsWithCredit(s) |-> PaymentCredit(p)])
    IN  [owed |-> owed, credit |-> credit, net |-> owed - credit]

OrdersOf(items) == {items[i].order : i \in DOMAIN items}
AmountOf(items) == SumFunction([i \in DOMAIN items |-> items[i].amount])

\* _check_applications: the whole call, or nothing.
CheckApplications(items, supplier, credit) ==
    /\ \A i \in DOMAIN items :
          /\ SupplierOf[items[i].order] = supplier
          /\ items[i].order \in Counting
          /\ items[i].amount <= PoBalance(items[i].order)
    /\ AmountOf(items) <= credit

\* assign_folio over supplier payments.
NextSupplierFolio(f) ==
    Max({spayment[p].serial : p \in {q \in DOMAIN spayment : spayment[q].facility = f}} \cup {0}) + 1

-----------------------------------------------------------------------------
(***************************************************************************)
(* Lock orders.                                                            *)
(***************************************************************************)
Map(Op(_), seq) == [i \in DOMAIN seq |-> Op(seq[i])]

OrderLocks_AsAsked(items) == Map(LAMBDA item : PoRow(item.order), items)

\* _lock_orders: ascending.
LockOrders(orders) == [k \in 1..Cardinality(orders) |-> PoRow(Nth(orders, k))]

OrderLocks(items) == LockOrders(OrdersOf(items))

SessionLock(s) == IF s = None THEN << >> ELSE <<SessionRow(s)>>

CreateWant(s, items, f) == SessionLock(s) \o OrderLocks(items) \o <<FacilityRow(f)>>

ApplyWant_PaymentOnly(p, items) == <<SPaymentRow(p)>>

ApplyWant(p, items) == <<SPaymentRow(p)>> \o OrderLocks(items)

CancelWant(p) == SessionLock(spayment[p].session) \o <<SPaymentRow(p)>>

-----------------------------------------------------------------------------
(***************************************************************************)
(* Creating and applying.                                                  *)
(***************************************************************************)
\* The transaction has read and decided; `found` is what it will write.
Checked(r, op, found) ==
    txn' = [txn EXCEPT ![r] = Request(op, [request |-> @.arg, found |-> found], @.rows, << >>)]

\* create_payment's pre-read.  A cash payment comes out of the caller's open
\* session, in its drawer's facility; any other from the caller's facility.
CreateSupplierBegin(r, c, cash, f, supplier, amount, items) ==
    LET s == IF cash THEN OpenSessionForCashier(c) ELSE None
        facility == IF s = None THEN f ELSE FacilityOf[session[s].drawer]
    IN  /\ cash => s # None
        /\ Begins(r, "pay_supplier",
                  [session |-> s, facility |-> facility, supplier |-> supplier,
                   amount |-> amount, items |-> items],
                  CreateWant(s, items, facility))
        /\ UNCHANGED tables

CreateSupplierCheck(r) ==
    LET q == txn[r].arg
    IN  /\ Locked(r, "pay_supplier")
        /\ q.items # << >> => CheckApplications(q.items, q.supplier, q.amount)
        /\ Checked(r, "pay_supplier_write", NextSupplierFolio(q.facility))
        /\ UNCHANGED tables

\* _add_applications
Added(p, items) ==
    sapplication \o Map(LAMBDA item : [payment |-> p, order |-> item.order,
                                       amount |-> item.amount, cancelled |-> FALSE], items)

CreateSupplierWrite(r) ==
    LET q == txn[r].arg.request
        p == Len(spayment) + 1
    IN  /\ Locked(r, "pay_supplier_write")
        /\ p <= MaxPayments
        /\ Len(Added(p, q.items)) <= MaxApplications
        /\ spayment' = Append(spayment,
              [supplier |-> q.supplier, amount |-> q.amount, facility |-> q.facility,
               serial |-> txn[r].arg.found, session |-> q.session, cancelled |-> FALSE])
        /\ sapplication' = Added(p, q.items)
        /\ Ends(r)
        /\ UNCHANGED cashTables

\* apply_payment: the payment and the orders are locked before anything is read.
ApplySupplierBegin(r, p, items) ==
    /\ items # << >>
    /\ Begins(r, "apply_supplier", [payment |-> p, items |-> items], ApplyWant(p, items))
    /\ UNCHANGED tables

ApplySupplierCheck(r) ==
    LET q == txn[r].arg
    IN  /\ Locked(r, "apply_supplier")
        /\ ~ spayment[q.payment].cancelled
        /\ CheckApplications(q.items, spayment[q.payment].supplier, PaymentCredit(q.payment))
        /\ Checked(r, "apply_supplier_write", q.items)
        /\ UNCHANGED tables

ApplySupplierWrite(r) ==
    LET q == txn[r].arg.request
    IN  /\ Locked(r, "apply_supplier_write")
        /\ Len(Added(q.payment, q.items)) <= MaxApplications
        /\ sapplication' = Added(q.payment, q.items)
        /\ Ends(r)
        /\ UNCHANGED <<cashTables, spayment>>

-----------------------------------------------------------------------------
(***************************************************************************)
(* Reversing and cancelling.                                               *)
(***************************************************************************)
\* reverse_application: pre-read, then the payment and the order.
ReverseSupplierBegin(r, a) ==
    /\ Begins(r, "reverse_supplier", [application |-> a],
              ApplyWant(sapplication[a].payment, <<sapplication[a]>>))
    /\ UNCHANGED tables

ReverseSupplierCommit(r) ==
    LET a == txn[r].arg.application
    IN  /\ Locked(r, "reverse_supplier")
        /\ ~ sapplication[a].cancelled
        /\ sapplication' = [sapplication EXCEPT ![a].cancelled = TRUE]
        /\ Ends(r)
        /\ UNCHANGED <<cashTables, spayment>>

\* cancel_payment: the session of a cash payment, then the payment.
CancelSupplierBegin(r, p) ==
    /\ Begins(r, "cancel_supplier", [payment |-> p], CancelWant(p))
    /\ UNCHANGED tables

\* The live applications, then their orders.
CancelSupplierCheck(r) ==
    LET p == txn[r].arg.payment
        orders == {sapplication[a].order : a \in LiveOf(p)}
    IN  /\ Locked(r, "cancel_supplier")
        /\ ~ spayment[p].cancelled
        /\ txn' = [txn EXCEPT ![r] =
                      Request("cancel_supplier_write", [payment |-> p, live |-> LiveOf(p)],
                              @.rows, LockOrders(orders))]
        /\ UNCHANGED tables

CancelSupplierWrite(r) ==
    /\ Locked(r, "cancel_supplier_write")
    /\ sapplication' = [a \in DOMAIN sapplication |->
                           IF a \in txn[r].arg.live
                           THEN [sapplication[a] EXCEPT !.cancelled = TRUE] ELSE sapplication[a]]
    /\ spayment' = [spayment EXCEPT ![txn[r].arg.payment].cancelled = TRUE]
    /\ Ends(r)
    /\ UNCHANGED cashTables
-----------------------------------------------------------------------------
PaySupplier ==
    \/ \E r \in Requests, c \in Cashiers, cash \in BOOLEAN, f \in Facilities, s \in Suppliers,
          amount \in PaymentAmounts, items \in ItemLists :
          CreateSupplierBegin(r, c, cash, f, s, amount, items)
    \/ \E r \in Requests : CreateSupplierCheck(r)
    \/ \E r \in Requests : CreateSupplierWrite(r)

ApplySupplier ==
    \/ \E r \in Requests, p \in DOMAIN spayment, items \in ItemLists : ApplySupplierBegin(r, p, items)
    \/ \E r \in Requests : ApplySupplierCheck(r)
    \/ \E r \in Requests : ApplySupplierWrite(r)

UnwindSupplier ==
    \/ \E r \in Requests, a \in DOMAIN sapplication : ReverseSupplierBegin(r, a)
    \/ \E r \in Requests : ReverseSupplierCommit(r)
    \/ \E r \in Requests, p \in DOMAIN spayment : CancelSupplierBegin(r, p)
    \/ \E r \in Requests : CancelSupplierCheck(r)
    \/ \E r \in Requests : CancelSupplierWrite(r)

SupplierNext ==
    \/ Shift
    \/ Till
    \/ ExpenseVoucher
    \/ PaySupplier
    \/ ApplySupplier
    \/ UnwindSupplier
    \/ \E r \in Requests : Acquire(r)
    \/ \E r \in Requests : Rollback(r)

SupplierSpec == CashInit /\ [][SupplierNext]_vars

-----------------------------------------------------------------------------
(***************************************************************************)
(* Properties.                                                             *)
(***************************************************************************)
\* Once a shift is closed, nothing that entered or left its drawer changes:
\* what it took and refunded, the vouchers settled from it, what it paid to
\* suppliers, and what was counted (_locked: whichever runs first wins).
\* Change is not covered: applying and reversing a payment look at no session.
ClosedDrawerFixed ==
    [][\A s \in Sessions : (session[s] # None /\ ~ session[s].open) =>
          /\ session'[s] = session[s]
          /\ TakenInto(s)' = TakenInto(s)
          /\ SpentFrom(s)' = SpentFrom(s)
          /\ PaidFrom(s)' = PaidFrom(s)]_vars

\* However applications, reversals and cancellations interleave, the net
\* owed to a supplier is what was ordered from them less what was paid and
\* not cancelled, but for the cent that an order may be short of when it
\* counts as settled.  An order applied below zero, a payment past its
\* amount, or an application that outlives its cancelled payment, and the
\* two sides part (FR-016, FR-017, FR-019).
PayablesReconcile ==
    \A s \in Suppliers :
        LET ordered == {o \in Counting : SupplierOf[o] = s}
            paid == {p \in DOMAIN spayment : spayment[p].supplier = s /\ ~ spayment[p].cancelled}
            settled == {o \in ordered : PoBalance(o) \in 0..SETTLED}
        IN  SupplierBalance(s).net =
                SumFunctionOnSet(OrderTotal, ordered)
                - SumFunction([p \in paid |-> spayment[p].amount])
                - SumFunction([o \in settled |-> PoBalance(o)])

\* A settled voucher was confirmed with a total, into a session of its own
\* cashier, whatever edits and closes raced the confirmation (FR-003).
SettledVoucherSound ==
    \A v \in Vouchers : (voucher[v] # None /\ voucher[v].completed) =>
        /\ VoucherTotal(v) > 0
        /\ session[voucher[v].session].cashier = voucher[v].creator

\* A request that knows its session has locked it, or will lock it before
\* anything else.
LocksFirst(r, s) ==
    \/ SessionRow(s) \in txn[r].rows
    \/ txn[r].want # << >> /\ Head(txn[r].want) = SessionRow(s)

PaymentRequest(q) ==
    /\ q.session \in Sessions \cup {None} /\ q.facility \in Facilities
    /\ q.supplier \in Suppliers /\ q.amount \in PaymentAmounts /\ q.items \in ItemLists

\* What each request knows is true of the rows it will write.
Sound(r) ==
    LET q == txn[r].arg
    IN  /\ txn[r].op = "open" => q.cashier \in Cashiers /\ q.drawer \in Drawers
        /\ txn[r].op \in {"close", "take"} => q.session \in Sessions /\ LocksFirst(r, q.session)
        /\ txn[r].op \in {"confirm_voucher", "void"} =>
              q.voucher \in Vouchers /\ q.session \in Sessions /\ LocksFirst(r, q.session)
        /\ txn[r].op = "pay_supplier" =>
              PaymentRequest(q) /\ (q.session # None => LocksFirst(r, q.session))
        /\ txn[r].op = "pay_supplier_write" =>
              /\ PaymentRequest(q.request) /\ q.found \in Nat
              /\ q.request.session # None => SessionRow(q.request.session) \in txn[r].rows
        /\ txn[r].op = "cancel_supplier" =>
              /\ q.payment \in DOMAIN spayment
              /\ spayment[q.payment].session # None => LocksFirst(r, spayment[q.payment].session)
        /\ txn[r].op = "cancel_supplier_write" =>
              /\ q.payment \in DOMAIN spayment
              /\ spayment[q.payment].session # None =>
                    SessionRow(spayment[q.payment].session) \in txn[r].rows

\* Inductive, and enough for ClosedDrawerFixed.
DrawerInv ==
    /\ session \in [Sessions -> SessionRows \cup {None}]
    /\ taking \in [Takings -> TakingRows \cup {None}]
    /\ voucher \in [Vouchers -> VoucherRows \cup {None}]
    /\ spayment \in Seq(SupplierPaymentRows)
    /\ DOMAIN txn = Requests
    /\ \A r \in Requests : Sound(r)

\* No two requests wait for each other: every path takes its locks in one
\* order (session, payment, orders ascending, facility).
NoCrossedWaits == \A r, q \in Requests : r # q => ~ Crossed(r, q)
=============================================================================
