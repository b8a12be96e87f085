--------------------------- MODULE CashDrawerProofs ---------------------------
(***************************************************************************)
(* What CashSession and SupplierPayment guarantee for every number of      *)
(* sessions, cashiers, vouchers, payments, orders and requests.            *)
(***************************************************************************)
EXTENDS SupplierPayment, NumberSets

-----------------------------------------------------------------------------
(***************************************************************************)
(* What the actions compute.                                               *)
(***************************************************************************)

\* The session a cashier's pre-read finds is an open one of theirs.
LEMMA FoundSession ==
    ASSUME NEW c \in Cashiers
    PROVE  /\ OpenSessionForCashier(c) \in Sessions \cup {None}
           /\ OpenSessionForCashier(c) # None => IsOpen(OpenSessionForCashier(c))
<1>1. CASE OpenSessionsOf(c) = {}
  BY <1>1 DEF OpenSessionForCashier
<1>2. CASE OpenSessionsOf(c) # {}
  <2>1. OpenSessionsOf(c) \in SUBSET Sessions
    BY DEF OpenSessionsOf
  <2>2. OpenSessionsOf(c) \in SUBSET Nat /\ IsFiniteSet(OpenSessionsOf(c))
    BY <2>1, CashConstants, FS_Subset DEF CashConstants
  <2>3. Max(OpenSessionsOf(c)) \in OpenSessionsOf(c)
    BY <1>2, <2>2, MaxIsGreatest
  <2> QED BY <1>2, <2>1, <2>3 DEF OpenSessionForCashier, OpenSessionsOf
<1> QED BY <1>1, <1>2

\* A request names finitely many orders.
LEMMA OrdersFinite ==
    ASSUME NEW items \in ItemLists
    PROVE  /\ OrdersOf(items) \in SUBSET POs /\ IsFiniteSet(OrdersOf(items))
           /\ Cardinality(OrdersOf(items)) \in Nat
<1>1. items \in Seq([order : POs, amount : Nat \ {0}])
  BY SupplierConstants DEF SupplierConstants
<1>2. DOMAIN items = 1..Len(items) /\ Len(items) \in Nat
  BY <1>1
<1> DEFINE g == [i \in 1..Len(items) |-> items[i].order]
<1>3. g \in Surjection(1..Len(items), OrdersOf(items))
  BY <1>2 DEF Surjection, OrdersOf
<1>4. IsFiniteSet(1..Len(items))
  BY <1>2, FS_Interval
<1>5. OrdersOf(items) \in SUBSET POs
  <2>1. \A i \in DOMAIN items : items[i] \in [order : POs, amount : Nat \ {0}]
    <3> DEFINE I == [order : POs, amount : Nat \ {0}]
    <3>1. items \in Seq(I)
      BY <1>1
    <3> HIDE DEF I
    <3>2. \A i \in DOMAIN items : items[i] \in I
      BY <3>1
    <3> QED BY <3>2 DEF I
  <2>2. \A i \in DOMAIN items : items[i].order \in POs
    BY <2>1
  <2> QED BY <2>2 DEF OrdersOf
<1> QED BY <1>3, <1>4, <1>5, FS_Surjection, FS_CardinalityType

\* A cash payment locks its session before anything else.
LEMMA SessionComesFirst ==
    ASSUME NEW s \in Sessions, NEW items \in ItemLists, NEW f
    PROVE  CreateWant(s, items, f) # << >> /\ Head(CreateWant(s, items, f)) = SessionRow(s)
<1> DEFINE n == Cardinality(OrdersOf(items))
           locks == OrderLocks(items)
           any == {locks[i] : i \in 1..n} \cup {SessionRow(s), FacilityRow(f)}
<1>1. n \in Nat
  BY OrdersFinite
<1>2. locks \in [1..n -> any]
  BY DEF OrderLocks, LockOrders
<1>3. locks \in Seq(any)
  BY <1>1, <1>2
<1>4. SessionLock(s) = <<SessionRow(s)>>
  BY CashConstants DEF CashConstants, SessionLock
<1> HIDE DEF locks
<1>5. <<SessionRow(s)>> \in Seq(any) /\ <<FacilityRow(f)>> \in Seq(any)
  OBVIOUS
<1> HIDE DEF any
<1>6. /\ (<<SessionRow(s)>> \o locks) \o <<FacilityRow(f)>> # << >>
      /\ Head((<<SessionRow(s)>> \o locks) \o <<FacilityRow(f)>>) = SessionRow(s)
  BY <1>3, <1>5
<1> QED BY <1>4, <1>6 DEF CreateWant, locks

\* The next folio of a facility is a number.
LEMMA SupplierFolioType ==
    ASSUME NEW f \in Facilities, spayment \in Seq(SupplierPaymentRows)
    PROVE  NextSupplierFolio(f) \in Nat
<1> DEFINE D == {q \in DOMAIN spayment : spayment[q].facility = f}
           S == {spayment[p].serial : p \in D}
           g == [p \in D |-> spayment[p].serial]
<1>1. DOMAIN spayment = 1..Len(spayment) /\ Len(spayment) \in Nat
  OBVIOUS
<1>2. IsFiniteSet(D)
  <2>1. IsFiniteSet(1..Len(spayment))
    BY <1>1, FS_Interval
  <2>2. D \in SUBSET (1..Len(spayment))
    BY <1>1
  <2> QED BY <2>1, <2>2, FS_Subset
<1>3. g \in Surjection(D, S)
  BY DEF Surjection
<1>4. IsFiniteSet(S)
  BY <1>2, <1>3, FS_Surjection
<1>5. \A p \in D : spayment[p] \in SupplierPaymentRows
  BY <1>1
<1>6. S \in SUBSET Nat
  BY <1>5 DEF SupplierPaymentRows
<1> DEFINE T == S \cup {0}
<1>7. IsFiniteSet(T) /\ T \in SUBSET Nat /\ T # {}
  BY <1>4, <1>6, FS_AddElement
<1>8. Max(T) \in Nat
  BY <1>7, MaxIsGreatest
<1>9. NextSupplierFolio(f) = Max(T) + 1
  BY DEF NextSupplierFolio
<1> HIDE DEF T
<1> QED BY <1>8, <1>9

-----------------------------------------------------------------------------
(***************************************************************************)
(* The inductive invariant.                                                *)
(***************************************************************************)
TablesSound ==
    /\ session \in [Sessions -> SessionRows \cup {None}]
    /\ taking \in [Takings -> TakingRows \cup {None}]
    /\ voucher \in [Vouchers -> VoucherRows \cup {None}]
    /\ spayment \in Seq(SupplierPaymentRows)

\* Payments keep their ids and their sessions.
PaymentsKept ==
    \A p \in DOMAIN spayment : p \in DOMAIN spayment' /\ spayment'[p].session = spayment[p].session

\* What another request knows stays true while payments keep their sessions.
LEMMA OthersSound ==
    ASSUME NEW r \in Requests, Sound(r), txn'[r] = txn[r], PaymentsKept
    PROVE  Sound(r)'
BY DEF Sound, LocksFirst, PaymentRequest, PaymentsKept

\* A step of one request keeps the invariant when it leaves the tables sound
\* and what that request knows true.
LEMMA StepOfOne ==
    ASSUME DrawerInv, NEW r \in Requests, NEW x, txn' = [txn EXCEPT ![r] = x],
           TablesSound', PaymentsKept, Sound(r)'
    PROVE  DrawerInv'
<1>1. DOMAIN txn' = Requests
  BY DEF DrawerInv
<1>2. ASSUME NEW q \in Requests PROVE Sound(q)'
  <2>1. CASE q = r BY <2>1
  <2>2. CASE q # r
    <3>1. txn'[q] = txn[q] /\ Sound(q) BY <2>2 DEF DrawerInv
    <3> QED BY <3>1, OthersSound
  <2> QED BY <2>1, <2>2
<1> QED BY <1>1, <1>2 DEF DrawerInv, TablesSound

\* A request that has ended knows nothing.
LEMMA StepThatEnds ==
    ASSUME DrawerInv, NEW r \in Requests, Ends(r), TablesSound', PaymentsKept
    PROVE  DrawerInv'
<1>1. txn'[r].op = "idle"
  BY DEF Ends, Idle, DrawerInv
<1>2. Sound(r)'
  BY <1>1 DEF Sound
<1> QED BY <1>2, StepOfOne DEF Ends

\* A step outside every transaction.
LEMMA StepOfNone ==
    ASSUME DrawerInv, txn' = txn, TablesSound', PaymentsKept
    PROVE  DrawerInv'
<1>1. ASSUME NEW q \in Requests PROVE Sound(q)'
  BY <1>1, OthersSound DEF DrawerInv
<1> QED BY <1>1 DEF DrawerInv, TablesSound

\* Nothing changes in the tables.
LEMMA TablesKept ==
    ASSUME DrawerInv, UNCHANGED tables
    PROVE  TablesSound' /\ PaymentsKept
BY DEF DrawerInv, TablesSound, PaymentsKept, tables, cashTables, supplierTables

\* Beginning a transaction.
LEMMA BeginStep ==
    ASSUME DrawerInv, NEW r \in Requests, NEW op, NEW arg, NEW want,
           Begins(r, op, arg, want), UNCHANGED tables,
           txn'[r] = Request(op, arg, {}, want) => Sound(r)'
    PROVE  DrawerInv'
<1>1. txn'[r] = Request(op, arg, {}, want)
  BY DEF Begins, DrawerInv
<1> QED BY <1>1, TablesKept, StepOfOne DEF Begins

-----------------------------------------------------------------------------
(***************************************************************************)
(* Each operation keeps the invariant and what closed drawers hold.        *)
(***************************************************************************)
Closed(s) == session[s] # None /\ ~ session[s].open

ClosedKept ==
    \A s \in Sessions : Closed(s) =>
        /\ session'[s] = session[s]
        /\ TakenInto(s)' = TakenInto(s)
        /\ SpentFrom(s)' = SpentFrom(s)
        /\ PaidFrom(s)' = PaidFrom(s)

\* A request that holds its session, or was to lock it first and waits for
\* nothing more, works on an open one.
LEMMA HeldIsOpen ==
    ASSUME NEW r \in Requests, NEW op, Locked(r, op), op # "idle", NEW s \in Sessions,
           LocksFirst(r, s)
    PROVE  IsOpen(s) /\ SessionRow(s) \in txn[r].rows
BY DEF Locked, StillOpen, Holds, LocksFirst

\* Tables that do not change leave closed drawers alone.
LEMMA QuietKeepsClosed ==
    ASSUME UNCHANGED tables
    PROVE  ClosedKept
BY DEF tables, cashTables, supplierTables, ClosedKept, TakenInto, SpentFrom, PaidFrom, IsConfirmed

\* Locking one more row.
LEMMA AcquireKeeps ==
    ASSUME DrawerInv, NEW r \in Requests, Acquire(r)
    PROVE  DrawerInv' /\ ClosedKept
<1> DEFINE x == Request(txn[r].op, txn[r].arg, txn[r].rows \cup {Head(txn[r].want)},
                        Tail(txn[r].want))
<1>1. txn' = [txn EXCEPT ![r] = x] /\ UNCHANGED tables
  BY DEF Acquire, LocksNext
<1>2. txn'[r] = x
  BY <1>1 DEF DrawerInv
<1>3. /\ txn'[r].op = txn[r].op /\ txn'[r].arg = txn[r].arg
      /\ txn'[r].rows = txn[r].rows \cup {Head(txn[r].want)}
  BY <1>2 DEF Request
<1>4. \A s : LocksFirst(r, s) => LocksFirst(r, s)'
  BY <1>3 DEF LocksFirst, SessionRow
<1>5. spayment' = spayment
  BY <1>1 DEF tables, supplierTables
<1>6. Sound(r)
  BY DEF DrawerInv
<1>7. Sound(r)'
  BY <1>3, <1>4, <1>5, <1>6 DEF Sound, PaymentRequest, SessionRow
<1> QED BY <1>1, <1>7, TablesKept, StepOfOne, QuietKeepsClosed

\* Opening and closing a shift: only a session that did not exist, or one
\* that is open and held, changes.
LEMMA ShiftKeeps ==
    ASSUME DrawerInv, Shift
    PROVE  DrawerInv' /\ ClosedKept
<1>1. ASSUME NEW r \in Requests, NEW c \in Cashiers, NEW d \in Drawers, OpenRead(r, c, d)
      PROVE  DrawerInv' /\ ClosedKept
  <2>1. txn'[r] = Request("open", [cashier |-> c, drawer |-> d], {}, << >>) => Sound(r)'
    BY DEF Sound, Request
  <2> QED BY <1>1, <2>1, BeginStep, QuietKeepsClosed DEF OpenRead
<1>2. ASSUME NEW r \in Requests, NEW s \in Sessions, NEW amount \in Floats,
             OpenCommit(r, s, amount)
      PROVE  DrawerInv' /\ ClosedKept
  <2>1. txn[r].arg.cashier \in Cashiers /\ txn[r].arg.drawer \in Drawers
    BY <1>2 DEF OpenCommit, Locked, DrawerInv, Sound
  <2>2. [cashier |-> txn[r].arg.cashier, drawer |-> txn[r].arg.drawer, open |-> TRUE,
         starting |-> amount, counted |-> 0] \in SessionRows
    BY <2>1, CashConstants DEF CashConstants, SessionRows
  <2>3. TablesSound' /\ PaymentsKept
    BY <1>2, <2>2 DEF OpenCommit, DrawerInv, TablesSound, PaymentsKept, supplierTables
  <2>4. DrawerInv'
    BY <1>2, <2>3, StepThatEnds DEF OpenCommit
  <2>5. ClosedKept
    BY <1>2 DEF OpenCommit, ClosedKept, Closed, DrawerInv, supplierTables,
                TakenInto, SpentFrom, PaidFrom, IsConfirmed
  <2> QED BY <2>4, <2>5
<1>3. ASSUME NEW r \in Requests, NEW s \in Sessions, CloseBegin(r, s)
      PROVE  DrawerInv' /\ ClosedKept
  <2>1. txn'[r] = Request("close", [session |-> s], {}, <<SessionRow(s)>>) => Sound(r)'
    BY DEF Sound, Request, LocksFirst
  <2> QED BY <1>3, <2>1, BeginStep, QuietKeepsClosed DEF CloseBegin
<1>4. ASSUME NEW r \in Requests, NEW counted \in Floats, CloseCommit(r, counted)
      PROVE  DrawerInv' /\ ClosedKept
  <2> DEFINE s == txn[r].arg.session
  <2>1. s \in Sessions /\ LocksFirst(r, s)
    BY <1>4 DEF CloseCommit, Locked, DrawerInv, Sound
  <2>2. IsOpen(s) /\ session[s] \in SessionRows
    BY <1>4, <2>1, HeldIsOpen DEF CloseCommit, IsOpen, DrawerInv
  <2>3. TablesSound' /\ PaymentsKept
    <3>1. [session[s] EXCEPT !.open = FALSE, !.counted = counted] \in SessionRows
      <4> DEFINE ended == [session[s] EXCEPT !.open = FALSE]
      <4>1. ended \in SessionRows
        BY <2>2 DEF SessionRows
      <4>2. [ended EXCEPT !.counted = counted] \in SessionRows
        <5> HIDE DEF ended
        <5> QED BY <4>1, CashConstants DEF CashConstants, SessionRows
      <4>3. [session[s] EXCEPT !.open = FALSE, !.counted = counted]
            = [ended EXCEPT !.counted = counted]
        BY Zenon
      <4> QED BY <4>2, <4>3, Zenon
    <3>2. session' \in [Sessions -> SessionRows \cup {None}]
      BY <1>4, <2>1, <3>1 DEF CloseCommit, DrawerInv
    <3> QED BY <1>4, <3>2 DEF CloseCommit, DrawerInv, TablesSound, PaymentsKept, supplierTables
  <2>4. DrawerInv'
    BY <1>4, <2>3, StepThatEnds DEF CloseCommit
  <2>5. ClosedKept
    BY <1>4, <2>1, <2>2 DEF CloseCommit, ClosedKept, Closed, IsOpen, DrawerInv, supplierTables,
                TakenInto, SpentFrom, PaidFrom, IsConfirmed
  <2> QED BY <2>4, <2>5
<1> QED BY <1>1, <1>2, <1>3, <1>4 DEF Shift

\* Customer money: a taking is of an open session that is held, and change is
\* not one of the figures.
LEMMA TillKeeps ==
    ASSUME DrawerInv, Till
    PROVE  DrawerInv' /\ ClosedKept
<1>1. ASSUME NEW r \in Requests, NEW c \in Cashiers, TakeBegin(r, c)
      PROVE  DrawerInv' /\ ClosedKept
  <2> DEFINE s == OpenSessionForCashier(c)
  <2>1. s \in Sessions
    BY <1>1, FoundSession DEF TakeBegin
  <2> HIDE DEF s
  <2>2. Begins(r, "take", [session |-> s], <<SessionRow(s)>>) /\ UNCHANGED tables
    BY <1>1 DEF TakeBegin, TakeWant, s
  <2>3. txn'[r] = Request("take", [session |-> s], {}, <<SessionRow(s)>>) => Sound(r)'
    BY <2>1 DEF Sound, Request, LocksFirst
  <2> QED BY <2>2, <2>3, BeginStep, QuietKeepsClosed
<1>2. ASSUME NEW r \in Requests, NEW t \in Takings, NEW amount \in Tenders,
             TakeCommit(r, t, amount)
      PROVE  DrawerInv' /\ ClosedKept
  <2> DEFINE s == txn[r].arg.session
             row == [session |-> s, amount |-> amount, change |-> 0]
  <2>1. s \in Sessions /\ LocksFirst(r, s)
    BY <1>2 DEF TakeCommit, Locked, DrawerInv, Sound
  <2>2. IsOpen(s)
    BY <1>2, <2>1, HeldIsOpen DEF TakeCommit
  <2>3. row \in TakingRows
    BY <2>1, CashConstants DEF CashConstants, TakingRows
  <2>4. taking' = [taking EXCEPT ![t] = row] /\ taking[t] = None
    BY <1>2 DEF TakeCommit
  <2>5. TablesSound' /\ PaymentsKept
    BY <1>2, <2>3, <2>4 DEF TakeCommit, DrawerInv, TablesSound, PaymentsKept, supplierTables
  <2>6. DrawerInv'
    BY <1>2, <2>5, StepThatEnds DEF TakeCommit
  <2>7. ASSUME NEW z \in Sessions, Closed(z) PROVE TakenInto(z)' = TakenInto(z)
    <3>1. z # s
      BY <2>2, <2>7 DEF Closed, IsOpen
    <3>2. \A u \in Takings : u # t => taking'[u] = taking[u]
      BY <2>4 DEF DrawerInv
    <3>3. taking'[t] # None => taking'[t].session = s
      BY <2>4 DEF DrawerInv
    <3> QED BY <2>4, <3>1, <3>2, <3>3 DEF TakenInto
  <2>8. ClosedKept
    BY <1>2, <2>7 DEF TakeCommit, ClosedKept, supplierTables, SpentFrom, PaidFrom, IsConfirmed
  <2> QED BY <2>6, <2>8
<1>3. ASSUME NEW t \in Takings, NEW n \in Nat, taking[t] # None,
             taking' = [taking EXCEPT ![t].change = n],
             UNCHANGED <<session, voucher, txn, supplierTables>>
      PROVE  DrawerInv' /\ ClosedKept
  <2>1. taking[t] \in TakingRows
    BY <1>3 DEF DrawerInv
  <2>2. [taking[t] EXCEPT !.change = n] \in TakingRows
    BY <2>1 DEF TakingRows
  <2>3. taking' = [taking EXCEPT ![t] = [taking[t] EXCEPT !.change = n]]
    BY <1>3
  <2>4. TablesSound' /\ PaymentsKept
    BY <1>3, <2>2, <2>3 DEF DrawerInv, TablesSound, PaymentsKept, supplierTables
  <2>5. DrawerInv'
    BY <1>3, <2>4, StepOfNone
  <2>6. /\ \A u \in Takings : u # t => taking'[u] = taking[u]
        /\ taking'[t].session = taking[t].session /\ taking'[t].amount = taking[t].amount
    BY <2>1, <2>3 DEF DrawerInv, TakingRows
  <2>7. taking'[t] # None
    BY <2>2, <2>3, NoneIsNoRow DEF NoneIsNoRow, DrawerInv
  <2>8. \A z \in Sessions : TakenInto(z)' = TakenInto(z)
    BY <1>3, <2>6, <2>7 DEF TakenInto
  <2>9. ClosedKept
    BY <1>3, <2>8 DEF ClosedKept, supplierTables, SpentFrom, PaidFrom, IsConfirmed
  <2> QED BY <2>5, <2>9
<1>4. ASSUME NEW t \in Takings, NEW change \in Expenses, GiveChange(t, change)
      PROVE  DrawerInv' /\ ClosedKept
  <2>1. taking[t] \in TakingRows /\ change \in Nat
    BY <1>4, CashConstants DEF CashConstants, GiveChange, DrawerInv
  <2>2. taking[t].change + change \in Nat
    BY <2>1 DEF TakingRows
  <2>3. taking' = [taking EXCEPT ![t].change = taking[t].change + change]
    BY <1>4 DEF GiveChange
  <2> QED BY <1>3, <1>4, <2>2, <2>3 DEF GiveChange
<1>5. ASSUME NEW t \in Takings, NEW change \in Expenses, TakeChangeBack(t, change)
      PROVE  DrawerInv' /\ ClosedKept
  <2>1. taking[t] \in TakingRows /\ change \in Nat
    BY <1>5, CashConstants DEF CashConstants, TakeChangeBack, DrawerInv
  <2>2. taking[t].change - change \in Nat
    BY <1>5, <2>1 DEF TakingRows, TakeChangeBack
  <2>3. taking' = [taking EXCEPT ![t].change = taking[t].change - change]
    BY <1>5 DEF TakeChangeBack
  <2> QED BY <1>3, <1>5, <2>2, <2>3 DEF TakeChangeBack
<1> QED BY <1>1, <1>2, <1>4, <1>5 DEF Till

\* One voucher is written: sound if its row is, and no closed drawer notices
\* if the voucher is settled in none of them, before and after.
LEMMA VoucherStep ==
    ASSUME DrawerInv, NEW v \in Vouchers, NEW row \in VoucherRows,
           voucher' = [voucher EXCEPT ![v] = row],
           UNCHANGED <<session, taking, supplierTables>>,
           IsConfirmed(v) => IsOpen(voucher[v].session),
           (row.completed /\ ~ row.cancelled) => IsOpen(row.session)
    PROVE  TablesSound' /\ PaymentsKept /\ ClosedKept
<1>1. TablesSound' /\ PaymentsKept
  BY DEF DrawerInv, TablesSound, PaymentsKept, supplierTables
<1>2. voucher'[v] = row /\ \A u \in Vouchers : u # v => voucher'[u] = voucher[u]
  BY DEF DrawerInv
<1>3. ASSUME NEW z \in Sessions, Closed(z) PROVE SpentFrom(z)' = SpentFrom(z)
  <2>1. ~ (IsConfirmed(v) /\ voucher[v].session = z)
    BY <1>3 DEF Closed, IsOpen
  <2>2. ~ (IsConfirmed(v)' /\ voucher'[v].session = z)
    BY <1>2, <1>3 DEF Closed, IsOpen, IsConfirmed
  <2>3. \A u \in Vouchers : u # v =>
           (IsConfirmed(u)' <=> IsConfirmed(u)) /\ voucher'[u] = voucher[u]
    BY <1>2 DEF IsConfirmed
  <2> QED BY <2>1, <2>2, <2>3 DEF SpentFrom
<1>4. ClosedKept
  BY <1>3 DEF ClosedKept, supplierTables, TakenInto, PaidFrom
<1> QED BY <1>1, <1>4

\* Vouchers: drafts settle nothing, and a voucher is settled or voided only
\* in an open session that is held.
LEMMA VoucherKeeps ==
    ASSUME DrawerInv, ExpenseVoucher
    PROVE  DrawerInv' /\ ClosedKept
<1>1. ASSUME NEW v \in Vouchers, NEW c \in Cashiers, CreateVoucher(v, c)
      PROVE  DrawerInv' /\ ClosedKept
  <2> DEFINE s == OpenSessionForCashier(c)
             row == [creator |-> c, session |-> s, lines |-> [l \in VoucherLines |-> 0],
                     completed |-> FALSE, cancelled |-> FALSE]
  <2>1. s \in Sessions
    BY <1>1, FoundSession DEF CreateVoucher
  <2> HIDE DEF s
  <2>2. row \in VoucherRows
    BY <2>1 DEF VoucherRows
  <2>3. voucher' = [voucher EXCEPT ![v] = row]
    BY <1>1 DEF CreateVoucher, s
  <2>4. ~ IsConfirmed(v) /\ ~ row.completed
    BY <1>1 DEF CreateVoucher, IsConfirmed
  <2> HIDE DEF row
  <2>5. TablesSound' /\ PaymentsKept /\ ClosedKept
    BY <1>1, <2>2, <2>3, <2>4, VoucherStep DEF CreateVoucher
  <2> QED BY <1>1, <2>5, StepOfNone DEF CreateVoucher
<1>2. ASSUME NEW v \in Vouchers, NEW c \in Cashiers, NEW l \in VoucherLines,
             NEW amount \in Expenses \cup {0}, EditLine(v, c, l, amount)
      PROVE  DrawerInv' /\ ClosedKept
  <2> DEFINE lines == [voucher[v].lines EXCEPT ![l] = amount]
             row == [voucher[v] EXCEPT !.lines = lines]
  <2>1. IsDraft(v) /\ voucher[v] \in VoucherRows
    BY <1>2 DEF EditLine, BeginDraft, AssertDraftBy, IsDraft, DrawerInv
  <2>2. voucher' = [voucher EXCEPT ![v] = row]
    BY <1>2, Zenon DEF EditLine
  <2>3. lines \in [VoucherLines -> Nat]
    <3>1. voucher[v].lines \in [VoucherLines -> Nat]
      BY <2>1 DEF VoucherRows
    <3>2. amount \in Nat
      BY CashConstants DEF CashConstants
    <3> QED BY <3>1, <3>2
  <2> HIDE DEF lines
  <2>4. row \in VoucherRows /\ ~ row.completed /\ ~ IsConfirmed(v)
    BY <2>1, <2>3 DEF VoucherRows, IsDraft, IsConfirmed
  <2> HIDE DEF row
  <2>5. TablesSound' /\ PaymentsKept /\ ClosedKept
    BY <1>2, <2>2, <2>4, VoucherStep DEF EditLine
  <2> QED BY <1>2, <2>5, StepOfNone DEF EditLine
<1>3. ASSUME NEW v \in Vouchers, NEW c \in Cashiers, CancelDraft(v, c)
      PROVE  DrawerInv' /\ ClosedKept
  <2> DEFINE row == [voucher[v] EXCEPT !.cancelled = TRUE]
  <2>1. IsDraft(v) /\ voucher[v] \in VoucherRows
    BY <1>3 DEF CancelDraft, BeginDraft, AssertDraftBy, IsDraft, DrawerInv
  <2>2. voucher' = [voucher EXCEPT ![v] = row]
    BY <1>3, Zenon DEF CancelDraft
  <2>3. row \in VoucherRows /\ ~ row.completed /\ ~ IsConfirmed(v)
    BY <2>1 DEF VoucherRows, IsDraft, IsConfirmed
  <2> HIDE DEF row
  <2>4. TablesSound' /\ PaymentsKept /\ ClosedKept
    BY <1>3, <2>2, <2>3, VoucherStep DEF CancelDraft
  <2> QED BY <1>3, <2>4, StepOfNone DEF CancelDraft
<1>4. ASSUME NEW r \in Requests, NEW v \in Vouchers, NEW c \in Cashiers,
             ConfirmVoucherBegin(r, v, c)
      PROVE  DrawerInv' /\ ClosedKept
  <2> DEFINE s == OpenSessionForCashier(c)
             arg == [voucher |-> v, cashier |-> c, session |-> s]
             want == <<SessionRow(s), VoucherRow(v)>>
  <2>1. s \in Sessions
    BY <1>4, FoundSession DEF ConfirmVoucherBegin
  <2> HIDE DEF s
  <2>2. Begins(r, "confirm_voucher", arg, want) /\ UNCHANGED tables
    BY <1>4 DEF ConfirmVoucherBegin, s
  <2>3. txn'[r] = Request("confirm_voucher", arg, {}, want) => Sound(r)'
    BY <2>1 DEF Sound, Request, LocksFirst
  <2> HIDE DEF arg, want
  <2> QED BY <2>2, <2>3, BeginStep, QuietKeepsClosed
<1>5. ASSUME NEW r \in Requests, ConfirmVoucherCommit(r)
      PROVE  DrawerInv' /\ ClosedKept
  <2> DEFINE v == txn[r].arg.voucher
             s == txn[r].arg.session
             moved == [voucher[v] EXCEPT !.session = s]
             row == [moved EXCEPT !.completed = TRUE]
  <2>1. v \in Vouchers /\ s \in Sessions /\ LocksFirst(r, s)
    BY <1>5 DEF ConfirmVoucherCommit, Locked, DrawerInv, Sound
  <2>2. IsOpen(s)
    BY <1>5, <2>1, HeldIsOpen DEF ConfirmVoucherCommit
  <2>3. IsDraft(v) /\ voucher[v] \in VoucherRows
    BY <1>5, <2>1 DEF ConfirmVoucherCommit, AssertDraftBy, IsDraft, DrawerInv
  <2>4. voucher' = [voucher EXCEPT ![v] = row]
    BY <1>5, Zenon DEF ConfirmVoucherCommit
  <2>5. moved \in VoucherRows /\ moved.session = s
    BY <2>1, <2>3 DEF VoucherRows
  <2> HIDE DEF moved
  <2>6. row \in VoucherRows /\ row.session = s /\ ~ IsConfirmed(v)
    BY <2>3, <2>5 DEF VoucherRows, IsDraft, IsConfirmed
  <2> HIDE DEF row
  <2>7. TablesSound' /\ PaymentsKept /\ ClosedKept
    BY <1>5, <2>1, <2>2, <2>4, <2>6, VoucherStep DEF ConfirmVoucherCommit
  <2> QED BY <1>5, <2>7, StepThatEnds DEF ConfirmVoucherCommit
<1>6. ASSUME NEW r \in Requests, NEW v \in Vouchers, VoidBegin(r, v)
      PROVE  DrawerInv' /\ ClosedKept
  <2> DEFINE s == voucher[v].session
             arg == [voucher |-> v, session |-> s]
             want == <<SessionRow(s), VoucherRow(v)>>
  <2>1. s \in Sessions
    BY <1>6 DEF VoidBegin, IsConfirmed, DrawerInv, VoucherRows
  <2>2. Begins(r, "void", arg, want) /\ UNCHANGED tables
    BY <1>6 DEF VoidBegin
  <2>3. txn'[r] = Request("void", arg, {}, want) => Sound(r)'
    BY <2>1 DEF Sound, Request, LocksFirst
  <2> HIDE DEF arg, want
  <2> QED BY <2>2, <2>3, BeginStep, QuietKeepsClosed
<1>7. ASSUME NEW r \in Requests, VoidCommit(r)
      PROVE  DrawerInv' /\ ClosedKept
  <2> DEFINE v == txn[r].arg.voucher
             s == txn[r].arg.session
             row == [voucher[v] EXCEPT !.cancelled = TRUE]
  <2>1. v \in Vouchers /\ s \in Sessions /\ LocksFirst(r, s)
    BY <1>7 DEF VoidCommit, Locked, DrawerInv, Sound
  <2>2. IsOpen(s) /\ voucher[v].session = s
    BY <1>7, <2>1, HeldIsOpen DEF VoidCommit
  <2>3. voucher[v] \in VoucherRows
    BY <1>7, <2>1 DEF VoidCommit, IsConfirmed, DrawerInv
  <2>4. voucher' = [voucher EXCEPT ![v] = row]
    BY <1>7, Zenon DEF VoidCommit
  <2>5. row \in VoucherRows /\ row.cancelled
    BY <2>3 DEF VoucherRows
  <2> HIDE DEF row
  <2>6. TablesSound' /\ PaymentsKept /\ ClosedKept
    BY <1>7, <2>1, <2>2, <2>4, <2>5, VoucherStep DEF VoidCommit
  <2> QED BY <1>7, <2>6, StepThatEnds DEF VoidCommit
<1> QED BY <1>1, <1>2, <1>3, <1>4, <1>5, <1>6, <1>7 DEF ExpenseVoucher

-----------------------------------------------------------------------------
(***************************************************************************)
(* Supplier payments.                                                      *)
(***************************************************************************)

\* Applications are written: no figure of a drawer depends on them.
LEMMA ApplicationsOnly ==
    ASSUME DrawerInv, UNCHANGED <<cashTables, spayment>>
    PROVE  TablesSound' /\ PaymentsKept /\ ClosedKept
BY DEF DrawerInv, TablesSound, PaymentsKept, cashTables, ClosedKept,
       TakenInto, SpentFrom, PaidFrom, IsConfirmed

\* Creating a payment: in cash it is of an open session that is held.
LEMMA PaySupplierKeeps ==
    ASSUME DrawerInv, PaySupplier
    PROVE  DrawerInv' /\ ClosedKept
<1>1. ASSUME NEW r \in Requests, NEW c \in Cashiers, NEW cash \in BOOLEAN, NEW f \in Facilities,
             NEW supplier \in Suppliers, NEW amount \in PaymentAmounts, NEW items \in ItemLists,
             CreateSupplierBegin(r, c, cash, f, supplier, amount, items)
      PROVE  DrawerInv' /\ ClosedKept
  <2> DEFINE s == IF cash THEN OpenSessionForCashier(c) ELSE None
             facility == IF s = None THEN f ELSE FacilityOf[session[s].drawer]
             arg == [session |-> s, facility |-> facility, supplier |-> supplier,
                     amount |-> amount, items |-> items]
             want == CreateWant(s, items, facility)
  <2>1. s \in Sessions \cup {None} /\ (s # None => IsOpen(s))
    BY FoundSession
  <2>2. Begins(r, "pay_supplier", arg, want) /\ UNCHANGED tables
    BY <1>1 DEF CreateSupplierBegin
  <2> HIDE DEF s
  <2>3. facility \in Facilities
    BY <2>1, SupplierConstants DEF SupplierConstants, IsOpen, DrawerInv, SessionRows
  <2> HIDE DEF facility
  <2>4. PaymentRequest(arg) /\ arg.session = s
    BY <2>1, <2>3 DEF PaymentRequest
  <2>5. s # None => want # << >> /\ Head(want) = SessionRow(s)
    BY <2>1, SessionComesFirst
  <2> HIDE DEF arg, want
  <2>6. txn'[r] = Request("pay_supplier", arg, {}, want) => Sound(r)'
    BY <2>4, <2>5 DEF Sound, Request, LocksFirst, PaymentRequest
  <2> QED BY <2>2, <2>6, BeginStep, QuietKeepsClosed
<1>2. ASSUME NEW r \in Requests, CreateSupplierCheck(r)
      PROVE  DrawerInv' /\ ClosedKept
  <2> DEFINE q == txn[r].arg
             arg == [request |-> q, found |-> NextSupplierFolio(q.facility)]
             x == Request("pay_supplier_write", arg, txn[r].rows, << >>)
  <2>1. PaymentRequest(q) /\ (q.session # None => LocksFirst(r, q.session))
    BY <1>2 DEF CreateSupplierCheck, Locked, DrawerInv, Sound
  <2>2. q.session # None => SessionRow(q.session) \in txn[r].rows
    BY <1>2, <2>1, HeldIsOpen DEF CreateSupplierCheck, PaymentRequest
  <2>3. NextSupplierFolio(q.facility) \in Nat
    BY <2>1, SupplierFolioType DEF PaymentRequest, DrawerInv
  <2>4. txn' = [txn EXCEPT ![r] = x] /\ UNCHANGED tables
    BY <1>2 DEF CreateSupplierCheck, Checked
  <2>5. txn'[r] = x
    BY <2>4 DEF DrawerInv
  <2>6. Sound(r)'
    BY <2>1, <2>2, <2>3, <2>5 DEF Sound, Request, PaymentRequest, SessionRow
  <2> QED BY <2>4, <2>6, TablesKept, StepOfOne, QuietKeepsClosed
<1>3. ASSUME NEW r \in Requests, CreateSupplierWrite(r)
      PROVE  DrawerInv' /\ ClosedKept
  <2> DEFINE q == txn[r].arg.request
             row == [supplier |-> q.supplier, amount |-> q.amount, facility |-> q.facility,
                     serial |-> txn[r].arg.found, session |-> q.session, cancelled |-> FALSE]
  <2>1. /\ PaymentRequest(q) /\ txn[r].arg.found \in Nat
        /\ q.session # None => SessionRow(q.session) \in txn[r].rows
    BY <1>3 DEF CreateSupplierWrite, Locked, DrawerInv, Sound
  <2>2. q.session # None => IsOpen(q.session)
    BY <1>3, <2>1, HeldIsOpen DEF CreateSupplierWrite, PaymentRequest, LocksFirst
  <2>3. row \in SupplierPaymentRows
    BY <2>1, SupplierConstants DEF SupplierConstants, PaymentRequest, SupplierPaymentRows
  <2>4. spayment' = Append(spayment, row) /\ UNCHANGED cashTables /\ Ends(r)
    BY <1>3 DEF CreateSupplierWrite
  <2>5. row.session = q.session
    OBVIOUS
  <2> HIDE DEF row
  <2>6. spayment \in Seq(SupplierPaymentRows) /\ spayment' \in Seq(SupplierPaymentRows)
    BY <2>3, <2>4 DEF DrawerInv
  <2>7. /\ DOMAIN spayment = 1..Len(spayment) /\ Len(spayment) \in Nat
        /\ DOMAIN spayment' = 1..(Len(spayment) + 1)
        /\ \A p \in DOMAIN spayment : spayment'[p] = spayment[p]
        /\ spayment'[Len(spayment) + 1] = row
    BY <2>3, <2>4, <2>6
  <2>8. TablesSound' /\ PaymentsKept
    BY <2>4, <2>6, <2>7 DEF DrawerInv, TablesSound, PaymentsKept, cashTables
  <2>9. ASSUME NEW z \in Sessions, Closed(z) PROVE PaidFrom(z)' = PaidFrom(z)
    <3>1. row.session # z
      BY <2>1, <2>2, <2>5, <2>9, CashConstants DEF CashConstants, Closed, IsOpen
    <3>2. \A p : p \in DOMAIN spayment' <=> p \in DOMAIN spayment \/ p = Len(spayment) + 1
      BY <2>7
    <3> QED BY <2>7, <3>1, <3>2, Zenon DEF PaidFrom
  <2>10. ClosedKept
    BY <2>4, <2>9 DEF ClosedKept, cashTables, TakenInto, SpentFrom, IsConfirmed
  <2> QED BY <2>4, <2>8, <2>10, StepThatEnds
<1> QED BY <1>1, <1>2, <1>3 DEF PaySupplier

\* Applying a payment.
LEMMA ApplySupplierKeeps ==
    ASSUME DrawerInv, ApplySupplier
    PROVE  DrawerInv' /\ ClosedKept
<1>1. ASSUME NEW r \in Requests, NEW p \in DOMAIN spayment, NEW items \in ItemLists,
             ApplySupplierBegin(r, p, items)
      PROVE  DrawerInv' /\ ClosedKept
  <2> DEFINE arg == [payment |-> p, items |-> items]
             want == ApplyWant(p, items)
  <2>1. Begins(r, "apply_supplier", arg, want) /\ UNCHANGED tables
    BY <1>1 DEF ApplySupplierBegin
  <2> HIDE DEF arg, want
  <2>2. txn'[r] = Request("apply_supplier", arg, {}, want) => Sound(r)'
    BY DEF Sound, Request
  <2> QED BY <2>1, <2>2, BeginStep, QuietKeepsClosed
<1>2. ASSUME NEW r \in Requests, ApplySupplierCheck(r)
      PROVE  DrawerInv' /\ ClosedKept
  <2> DEFINE arg == [request |-> txn[r].arg, found |-> txn[r].arg.items]
             x == Request("apply_supplier_write", arg, txn[r].rows, << >>)
  <2>1. txn' = [txn EXCEPT ![r] = x] /\ UNCHANGED tables
    BY <1>2 DEF ApplySupplierCheck, Checked
  <2>2. txn'[r] = x
    BY <2>1 DEF DrawerInv
  <2>3. Sound(r)'
    BY <2>2 DEF Sound, Request
  <2> QED BY <2>1, <2>3, TablesKept, StepOfOne, QuietKeepsClosed
<1>3. ASSUME NEW r \in Requests, ApplySupplierWrite(r)
      PROVE  DrawerInv' /\ ClosedKept
  BY <1>3, ApplicationsOnly, StepThatEnds DEF ApplySupplierWrite
<1> QED BY <1>1, <1>2, <1>3 DEF ApplySupplier

\* Reversing an application; cancelling a payment, whose session is open and
\* held when it has one.
LEMMA UnwindSupplierKeeps ==
    ASSUME DrawerInv, UnwindSupplier
    PROVE  DrawerInv' /\ ClosedKept
<1>1. ASSUME NEW r \in Requests, NEW a \in DOMAIN sapplication, ReverseSupplierBegin(r, a)
      PROVE  DrawerInv' /\ ClosedKept
  <2> DEFINE arg == [application |-> a]
             want == ApplyWant(sapplication[a].payment, <<sapplication[a]>>)
  <2>1. Begins(r, "reverse_supplier", arg, want) /\ UNCHANGED tables
    BY <1>1 DEF ReverseSupplierBegin
  <2> HIDE DEF arg, want
  <2>2. txn'[r] = Request("reverse_supplier", arg, {}, want) => Sound(r)'
    BY DEF Sound, Request
  <2> QED BY <2>1, <2>2, BeginStep, QuietKeepsClosed
<1>2. ASSUME NEW r \in Requests, ReverseSupplierCommit(r)
      PROVE  DrawerInv' /\ ClosedKept
  BY <1>2, ApplicationsOnly, StepThatEnds DEF ReverseSupplierCommit
<1>3. ASSUME NEW r \in Requests, NEW p \in DOMAIN spayment, CancelSupplierBegin(r, p)
      PROVE  DrawerInv' /\ ClosedKept
  <2> DEFINE s == spayment[p].session
             arg == [payment |-> p]
             want == SessionLock(s) \o <<SPaymentRow(p)>>
  <2>1. Begins(r, "cancel_supplier", arg, want) /\ UNCHANGED tables
    BY <1>3 DEF CancelSupplierBegin, CancelWant
  <2>2. s # None => want # << >> /\ Head(want) = SessionRow(s)
    <3>1. <<SessionRow(s)>> \o <<SPaymentRow(p)>> # << >>
          /\ Head(<<SessionRow(s)>> \o <<SPaymentRow(p)>>) = SessionRow(s)
      OBVIOUS
    <3> QED BY <3>1 DEF SessionLock
  <2> HIDE DEF want
  <2>3. txn'[r] = Request("cancel_supplier", arg, {}, want) => Sound(r)'
    BY <2>1, <2>2 DEF Sound, Request, LocksFirst, tables, supplierTables
  <2> QED BY <2>1, <2>3, BeginStep, QuietKeepsClosed
<1>4. ASSUME NEW r \in Requests, CancelSupplierCheck(r)
      PROVE  DrawerInv' /\ ClosedKept
  <2> DEFINE p == txn[r].arg.payment
             arg == [payment |-> p, live |-> LiveOf(p)]
             want == LockOrders({sapplication[a].order : a \in LiveOf(p)})
             x == Request("cancel_supplier_write", arg, txn[r].rows, want)
  <2>1. txn' = [txn EXCEPT ![r] = x] /\ UNCHANGED tables
    BY <1>4 DEF CancelSupplierCheck
  <2> HIDE DEF want
  <2>2. /\ p \in DOMAIN spayment
        /\ spayment[p].session # None => LocksFirst(r, spayment[p].session)
    BY <1>4 DEF CancelSupplierCheck, Locked, DrawerInv, Sound
  <2>3. spayment[p].session \in Sessions \cup {None}
    <3>1. spayment[p] \in SupplierPaymentRows
      BY <2>2 DEF DrawerInv
    <3> QED BY <3>1 DEF SupplierPaymentRows
  <2>4. spayment[p].session # None => SessionRow(spayment[p].session) \in txn[r].rows
    BY <1>4, <2>2, <2>3, HeldIsOpen DEF CancelSupplierCheck
  <2>5. txn'[r] = x /\ spayment' = spayment
    BY <2>1 DEF DrawerInv, tables, supplierTables
  <2>6. Sound(r)'
    BY <2>2, <2>4, <2>5 DEF Sound, Request, SessionRow
  <2> QED BY <2>1, <2>6, TablesKept, StepOfOne, QuietKeepsClosed
<1>5. ASSUME NEW r \in Requests, CancelSupplierWrite(r)
      PROVE  DrawerInv' /\ ClosedKept
  <2> DEFINE p == txn[r].arg.payment
             row == [spayment[p] EXCEPT !.cancelled = TRUE]
  <2>1. /\ p \in DOMAIN spayment
        /\ spayment[p].session # None => SessionRow(spayment[p].session) \in txn[r].rows
    BY <1>5 DEF CancelSupplierWrite, Locked, DrawerInv, Sound
  <2>2. spayment[p] \in SupplierPaymentRows
    BY <2>1 DEF DrawerInv
  <2>3. spayment[p].session \in Sessions \cup {None}
    BY <2>2 DEF SupplierPaymentRows
  <2>4. spayment[p].session # None => IsOpen(spayment[p].session)
    BY <1>5, <2>1, <2>3, HeldIsOpen DEF CancelSupplierWrite, LocksFirst
  <2>5. row \in SupplierPaymentRows /\ row.session = spayment[p].session
    BY <2>2 DEF SupplierPaymentRows
  <2>6. spayment' = [spayment EXCEPT ![p] = row] /\ UNCHANGED cashTables /\ Ends(r)
    BY <1>5, Zenon DEF CancelSupplierWrite
  <2> HIDE DEF row
  <2>7. spayment' \in Seq(SupplierPaymentRows) /\ DOMAIN spayment' = DOMAIN spayment
    BY <2>1, <2>5, <2>6 DEF DrawerInv
  <2>8. spayment'[p] = row /\ \A i \in DOMAIN spayment : i # p => spayment'[i] = spayment[i]
    BY <2>1, <2>6 DEF DrawerInv
  <2>9. TablesSound' /\ PaymentsKept
    BY <2>5, <2>6, <2>7, <2>8 DEF DrawerInv, TablesSound, PaymentsKept, cashTables
  <2>10. ASSUME NEW z \in Sessions, Closed(z) PROVE PaidFrom(z)' = PaidFrom(z)
    <3>1. row.session # z /\ spayment[p].session # z
      BY <2>3, <2>4, <2>5, <2>10, CashConstants DEF CashConstants, Closed, IsOpen
    <3> QED BY <2>1, <2>7, <2>8, <3>1, Zenon DEF PaidFrom
  <2>11. ClosedKept
    BY <2>6, <2>10 DEF ClosedKept, cashTables, TakenInto, SpentFrom, IsConfirmed
  <2> QED BY <2>6, <2>9, <2>11, StepThatEnds
<1> QED BY <1>1, <1>2, <1>3, <1>4, <1>5 DEF UnwindSupplier

-----------------------------------------------------------------------------
(***************************************************************************)
(* The theorems.                                                           *)
(***************************************************************************)

\* The model starts with one open shift and idle requests.
LEMMA InitInv == CashInit => DrawerInv
<1> SUFFICES ASSUME CashInit PROVE DrawerInv
  OBVIOUS
<1>1. (CHOOSE c \in Cashiers : TRUE) \in Cashiers /\ (CHOOSE d \in Drawers : TRUE) \in Drawers
  BY CashConstants DEF CashConstants
<1>2. session \in [Sessions -> SessionRows \cup {None}]
  BY <1>1, CashConstants DEF CashConstants, CashInit, SessionRows
<1>3. spayment \in Seq(SupplierPaymentRows)
  BY DEF CashInit
<1>4. \A r \in Requests : Sound(r)
  BY DEF CashInit, Sound, Idle
<1> QED BY <1>2, <1>3, <1>4 DEF CashInit, DrawerInv

\* Every step keeps the invariant, and what closed drawers hold.
LEMMA NextKeeps ==
    ASSUME DrawerInv, [SupplierNext]_vars
    PROVE  DrawerInv' /\ ClosedKept
<1>1. ASSUME NEW r \in Requests, Rollback(r) PROVE DrawerInv' /\ ClosedKept
  BY <1>1, TablesKept, StepThatEnds, QuietKeepsClosed DEF Rollback
<1>2. CASE UNCHANGED vars
  BY <1>2, TablesKept, StepOfNone, QuietKeepsClosed DEF vars
<1> QED BY <1>1, <1>2, ShiftKeeps, TillKeeps, VoucherKeeps, PaySupplierKeeps,
           ApplySupplierKeeps, UnwindSupplierKeeps, AcquireKeeps DEF SupplierNext

\* What every request has read of its session stays true until it ends, and
\* the tables keep their shape: close_session, create_payment, confirm_refund,
\* the vouchers and the supplier payments, in any number and any order.
THEOREM DrawerInvariance == SupplierSpec => []DrawerInv
<1>1. DrawerInv /\ [SupplierNext]_vars => DrawerInv'
  BY NextKeeps
<1> QED BY InitInv, <1>1, PTL DEF SupplierSpec

\* Once a shift is closed, nothing that its cut adds up changes, whatever
\* raced the close: every path that moves drawer money locks the session
\* first and refuses when it is closed (lock_open_session).
THEOREM ClosedDrawersStayFixed == SupplierSpec => ClosedDrawerFixed
<1>1. DrawerInv /\ [SupplierNext]_vars =>
        [\A s \in Sessions : (session[s] # None /\ ~ session[s].open) =>
            /\ session'[s] = session[s]
            /\ TakenInto(s)' = TakenInto(s)
            /\ SpentFrom(s)' = SpentFrom(s)
            /\ PaidFrom(s)' = PaidFrom(s)]_vars
  BY NextKeeps DEF ClosedKept, Closed
<1> QED BY <1>1, DrawerInvariance, PTL DEF SupplierSpec, ClosedDrawerFixed
-----------------------------------------------------------------------------
(***************************************************************************)
(* One order of locks: a request holds rows before the one it waits for.   *)
(***************************************************************************)
LockKind == [session |-> 1, voucher |-> 2, supplier_payment |-> 3, purchase_order |-> 4,
             facility |-> 5]

LockRows == {SessionRow(s) : s \in Sessions} \cup {VoucherRow(v) : v \in Vouchers}
            \cup {SPaymentRow(p) : p \in Nat} \cup {PoRow(o) : o \in POs}
            \cup {FacilityRow(f) : f \in Facilities}

Before(x, y) ==
    \/ LockKind[x[1]] < LockKind[y[1]]
    \/ x[1] = "purchase_order" /\ y[1] = "purchase_order" /\ x[2] < y[2]

Ascends(want) ==
    /\ want \in Seq(LockRows)
    /\ \A i, j \in DOMAIN want : i < j => Before(want[i], want[j])

\* The rows a request holds come before those it still wants.
InOrder(held, want) ==
    /\ held \in SUBSET LockRows
    /\ Ascends(want)
    /\ \A x \in held : \A i \in DOMAIN want : Before(x, want[i])

\* Which kind each row is of.
LEMMA KindsOfRows ==
    /\ \A s : SessionRow(s)[1] = "session" /\ LockKind["session"] = 1
    /\ \A v : VoucherRow(v)[1] = "voucher" /\ LockKind["voucher"] = 2
    /\ \A p : SPaymentRow(p)[1] = "supplier_payment" /\ LockKind["supplier_payment"] = 3
    /\ \A o : PoRow(o)[1] = "purchase_order" /\ PoRow(o)[2] = o /\ LockKind["purchase_order"] = 4
    /\ \A f : FacilityRow(f)[1] = "facility" /\ LockKind["facility"] = 5
BY DEF SessionRow, VoucherRow, SPaymentRow, PoRow, FacilityRow, LockKind

\* The kinds are numbered, and the orders are numbers.
LEMMA RowsAreNumbered ==
    ASSUME NEW x \in LockRows
    PROVE  LockKind[x[1]] \in 1..5 /\ (x[1] = "purchase_order" => x[2] \in Nat)
<1>1. ASSUME NEW o \in POs PROVE o \in Nat
  BY SupplierConstants DEF SupplierConstants
<1> QED BY <1>1, KindsOfRows DEF LockRows

\* No two rows come before each other.
LEMMA OneComesFirst ==
    ASSUME NEW x \in LockRows, NEW y \in LockRows, Before(x, y)
    PROVE  ~ Before(y, x)
<1>1. /\ LockKind[x[1]] \in Int /\ LockKind[y[1]] \in Int
      /\ x[1] = "purchase_order" => x[2] \in Int
      /\ y[1] = "purchase_order" => y[2] \in Int
  BY RowsAreNumbered
<1>2. CASE LockKind[x[1]] < LockKind[y[1]]
  BY <1>1, <1>2 DEF Before
<1>3. CASE x[1] = "purchase_order" /\ y[1] = "purchase_order" /\ x[2] < y[2]
  BY <1>1, <1>3 DEF Before
<1> QED BY <1>2, <1>3 DEF Before

\* No lock, and one.
LEMMA FewAscend ==
    /\ Ascends(<< >>)
    /\ \A x \in LockRows : Ascends(<<x>>)
BY DEF Ascends

\* One list of locks after another.
LEMMA JoinAscends ==
    ASSUME NEW v, Ascends(v), NEW w, Ascends(w),
           \A i \in DOMAIN v, j \in DOMAIN w : Before(v[i], w[j])
    PROVE  Ascends(v \o w)
<1>1. v \in Seq(LockRows) /\ w \in Seq(LockRows)
  BY DEF Ascends
<1>2. /\ v \o w \in Seq(LockRows)
      /\ DOMAIN v = 1..Len(v) /\ DOMAIN w = 1..Len(w) /\ Len(v) \in Nat /\ Len(w) \in Nat
      /\ DOMAIN (v \o w) = 1..(Len(v) + Len(w))
      /\ \A i \in 1..Len(v) : (v \o w)[i] = v[i]
      /\ \A i \in (Len(v) + 1)..(Len(v) + Len(w)) : (v \o w)[i] = w[i - Len(v)]
  BY <1>1
<1>3. ASSUME NEW i \in DOMAIN (v \o w), NEW j \in DOMAIN (v \o w), i < j
      PROVE  Before((v \o w)[i], (v \o w)[j])
  <2>1. CASE j <= Len(v)
    <3>1. i \in DOMAIN v /\ j \in DOMAIN v
      BY <1>2, <1>3, <2>1
    <3>2. (v \o w)[i] = v[i] /\ (v \o w)[j] = v[j]
      BY <1>2, <3>1
    <3> QED BY <1>3, <3>1, <3>2 DEF Ascends
  <2>2. CASE i <= Len(v) /\ j > Len(v)
    <3>1. i \in DOMAIN v /\ j - Len(v) \in DOMAIN w
      BY <1>2, <2>2
    <3>2. (v \o w)[i] = v[i] /\ (v \o w)[j] = w[j - Len(v)]
      BY <1>2, <2>2
    <3> QED BY <3>1, <3>2
  <2>3. CASE i > Len(v)
    <3>1. i - Len(v) \in DOMAIN w /\ j - Len(v) \in DOMAIN w /\ i - Len(v) < j - Len(v)
      BY <1>2, <1>3, <2>3
    <3>2. (v \o w)[i] = w[i - Len(v)] /\ (v \o w)[j] = w[j - Len(v)]
      BY <1>2, <1>3, <2>3
    <3> QED BY <3>1, <3>2 DEF Ascends
  <2> QED BY <1>2, <2>1, <2>2, <2>3
<1> QED BY <1>2, <1>3 DEF Ascends

\* Orders are locked ascending, every one of them.
LEMMA OrdersAscend ==
    ASSUME NEW orders \in SUBSET POs, IsFiniteSet(orders)
    PROVE  /\ Ascends(LockOrders(orders))
           /\ \A i \in DOMAIN LockOrders(orders) : \E o \in orders : LockOrders(orders)[i] = PoRow(o)
           /\ \A o \in orders : \E i \in DOMAIN LockOrders(orders) : LockOrders(orders)[i] = PoRow(o)
<1> DEFINE n == Cardinality(orders)
           nth == [k \in 1..n |-> Nth(orders, k)]
           locks == LockOrders(orders)
<1>1. orders \in SUBSET Nat
  BY SupplierConstants DEF SupplierConstants
<1>2. \A k \in 1..n : nth[k] = CHOOSE o \in orders : Cardinality({p \in orders : p < o}) = k - 1
  BY DEF Nth
<1>3. locks = [k \in 1..n |-> PoRow(nth[k])]
  BY DEF LockOrders
<1> HIDE DEF nth, locks
<1>4. /\ n \in Nat
      /\ \A k \in 1..n : nth[k] \in orders
      /\ \A i, j \in 1..n : i < j => nth[i] < nth[j]
      /\ \A o \in orders : \E k \in 1..n : nth[k] = o
  BY <1>1, <1>2, CountedInOrder
<1> HIDE DEF n
<1>5. locks \in Seq(LockRows)
  <2>1. \A k \in 1..n : PoRow(nth[k]) \in LockRows
    BY <1>4 DEF LockRows
  <2> QED BY <1>3, <1>4, <2>1
<1>6. \A i, j \in DOMAIN locks : i < j => Before(locks[i], locks[j])
  BY <1>3, <1>4, KindsOfRows DEF Before
<1>7. /\ \A i \in DOMAIN locks : \E o \in orders : locks[i] = PoRow(o)
      /\ \A o \in orders : \E i \in DOMAIN locks : locks[i] = PoRow(o)
  BY <1>3, <1>4
<1> QED BY <1>5, <1>6, <1>7 DEF Ascends, locks

\* The payment of an application, then the orders of one request.
LEMMA ApplyWantAscends ==
    ASSUME NEW p \in Nat, NEW items, OrdersOf(items) \in SUBSET POs, IsFiniteSet(OrdersOf(items))
    PROVE  /\ Ascends(ApplyWant(p, items))
           /\ \E i \in DOMAIN ApplyWant(p, items) : ApplyWant(p, items)[i] = SPaymentRow(p)
           /\ \A o \in OrdersOf(items) :
                 \E i \in DOMAIN ApplyWant(p, items) : ApplyWant(p, items)[i] = PoRow(o)
<1> DEFINE v == <<SPaymentRow(p)>>
           w == LockOrders(OrdersOf(items))
<1>1. v[1] = SPaymentRow(p) /\ DOMAIN v = {1} /\ Len(v) = 1 /\ SPaymentRow(p) \in LockRows
  BY DEF LockRows
<1>2. Ascends(v)
  BY <1>1, FewAscend
<1>3. /\ Ascends(w)
      /\ \A j \in DOMAIN w : \E o \in OrdersOf(items) : w[j] = PoRow(o)
      /\ \A o \in OrdersOf(items) : \E j \in DOMAIN w : w[j] = PoRow(o)
  BY OrdersAscend
<1>4. ApplyWant(p, items) = v \o w
  BY DEF ApplyWant, OrderLocks
<1> HIDE DEF w
<1>5. \A i \in DOMAIN v, j \in DOMAIN w : Before(v[i], w[j])
  BY <1>1, <1>3, KindsOfRows DEF Before
<1>6. v \in Seq(LockRows) /\ w \in Seq(LockRows)
  BY <1>2, <1>3 DEF Ascends
<1> HIDE DEF v
<1>7. /\ DOMAIN (v \o w) = 1..(1 + Len(w)) /\ Len(w) \in Nat /\ DOMAIN w = 1..Len(w)
      /\ (v \o w)[1] = v[1]
      /\ \A j \in 1..Len(w) : (v \o w)[1 + j] = w[j] /\ 1 + j \in DOMAIN (v \o w)
  <2>1. /\ DOMAIN (v \o w) = 1..(1 + Len(w)) /\ Len(w) \in Nat /\ DOMAIN w = 1..Len(w)
        /\ \A i \in 1..1 : (v \o w)[i] = v[i]
        /\ \A i \in 2..(1 + Len(w)) : (v \o w)[i] = w[i - 1]
    <3>1. /\ DOMAIN (v \o w) = 1..(Len(v) + Len(w)) /\ Len(w) \in Nat /\ DOMAIN w = 1..Len(w)
          /\ \A i \in 1..Len(v) : (v \o w)[i] = v[i]
          /\ \A i \in (Len(v) + 1)..(Len(v) + Len(w)) : (v \o w)[i] = w[i - Len(v)]
      BY <1>6
    <3> QED BY <1>1, <3>1
  <2>2. \A j \in 1..Len(w) : 1 + j \in 2..(1 + Len(w)) /\ (1 + j) - 1 = j
    BY <2>1
  <2>3. \A j \in 1..Len(w) : (v \o w)[1 + j] = w[j] /\ 1 + j \in DOMAIN (v \o w)
    BY <2>1, <2>2
  <2> QED BY <2>1, <2>3
<1>8. Ascends(v \o w)
  BY <1>2, <1>3, <1>5, JoinAscends
<1>9. \A o \in OrdersOf(items) : \E i \in DOMAIN (v \o w) : (v \o w)[i] = PoRow(o)
  BY <1>3, <1>7
<1>10. \E i \in DOMAIN (v \o w) : (v \o w)[i] = SPaymentRow(p)
  <2>1. 1 \in DOMAIN (v \o w)
    BY <1>7
  <2> QED BY <1>1, <1>7, <2>1
<1> QED BY <1>4, <1>8, <1>9, <1>10

\* The session of a payment, if it has one, its orders, and its facility.
LEMMA CreateWantAscends ==
    ASSUME NEW s \in Sessions \cup {None}, NEW items \in ItemLists, NEW f \in Facilities
    PROVE  /\ Ascends(CreateWant(s, items, f))
           /\ \A o \in OrdersOf(items) :
                 \E i \in DOMAIN CreateWant(s, items, f) : CreateWant(s, items, f)[i] = PoRow(o)
<1> DEFINE u == SessionLock(s)
           v == LockOrders(OrdersOf(items))
           w == <<FacilityRow(f)>>
<1>1. /\ Ascends(v)
      /\ \A j \in DOMAIN v : \E o \in OrdersOf(items) : v[j] = PoRow(o)
      /\ \A o \in OrdersOf(items) : \E j \in DOMAIN v : v[j] = PoRow(o)
  BY OrdersFinite, OrdersAscend
<1>2. Ascends(u) /\ \A i \in DOMAIN u : u[i] = SessionRow(s)
  <2>1. s # None => SessionRow(s) \in LockRows
    BY DEF LockRows
  <2> QED BY <2>1, FewAscend DEF SessionLock
<1>3. Ascends(w) /\ \A i \in DOMAIN w : w[i] = FacilityRow(f)
  <2>1. FacilityRow(f) \in LockRows
    BY DEF LockRows
  <2> QED BY <2>1, FewAscend
<1>4. CreateWant(s, items, f) = (u \o v) \o w
  BY DEF CreateWant, OrderLocks
<1> HIDE DEF u, v, w
<1>5. u \in Seq(LockRows) /\ v \in Seq(LockRows) /\ w \in Seq(LockRows)
  BY <1>1, <1>2, <1>3 DEF Ascends
<1>6. Ascends(u \o v)
  <2>1. \A i \in DOMAIN u, j \in DOMAIN v : Before(u[i], v[j])
    BY <1>1, <1>2, KindsOfRows DEF Before
  <2> QED BY <1>1, <1>2, <2>1, JoinAscends
<1>7. /\ u \o v \in Seq(LockRows)
      /\ DOMAIN u = 1..Len(u) /\ DOMAIN v = 1..Len(v) /\ Len(u) \in Nat /\ Len(v) \in Nat
      /\ DOMAIN (u \o v) = 1..(Len(u) + Len(v)) /\ Len(u \o v) = Len(u) + Len(v)
      /\ \A i \in 1..Len(u) : (u \o v)[i] = u[i]
      /\ \A i \in (Len(u) + 1)..(Len(u) + Len(v)) : (u \o v)[i] = v[i - Len(u)]
  BY <1>5
<1>8. \A i \in DOMAIN (u \o v), j \in DOMAIN w : Before((u \o v)[i], w[j])
  <2> SUFFICES ASSUME NEW i \in DOMAIN (u \o v), NEW j \in DOMAIN w
               PROVE  Before((u \o v)[i], w[j])
    OBVIOUS
  <2>1. CASE i <= Len(u)
    BY <1>2, <1>3, <1>7, <2>1, KindsOfRows DEF Before
  <2>2. CASE i > Len(u)
    <3>1. i - Len(u) \in DOMAIN v /\ (u \o v)[i] = v[i - Len(u)]
      BY <1>7, <2>2
    <3> QED BY <1>1, <1>3, <3>1, KindsOfRows DEF Before
  <2> QED BY <1>7, <2>1, <2>2
<1>9. Ascends((u \o v) \o w)
  BY <1>3, <1>6, <1>8, JoinAscends
<1>10. ASSUME NEW o \in OrdersOf(items)
       PROVE  \E i \in DOMAIN ((u \o v) \o w) : ((u \o v) \o w)[i] = PoRow(o)
  <2>1. PICK j \in DOMAIN v : v[j] = PoRow(o)
    BY <1>1
  <2> DEFINE i == Len(u) + j
  <2>2. i \in DOMAIN (u \o v) /\ (u \o v)[i] = v[j]
    BY <1>7
  <2>3. i \in DOMAIN ((u \o v) \o w) /\ ((u \o v) \o w)[i] = (u \o v)[i]
    BY <1>5, <1>7, <2>2
  <2> QED BY <2>1, <2>2, <2>3
<1> QED BY <1>4, <1>9, <1>10

\* The session of a payment, if it has one, and the payment.
LEMMA CancelWantAscends ==
    ASSUME NEW s \in Sessions \cup {None}, NEW p \in Nat
    PROVE  /\ Ascends(SessionLock(s) \o <<SPaymentRow(p)>>)
           /\ \E i \in DOMAIN (SessionLock(s) \o <<SPaymentRow(p)>>) :
                 (SessionLock(s) \o <<SPaymentRow(p)>>)[i] = SPaymentRow(p)
           /\ \A i \in DOMAIN (SessionLock(s) \o <<SPaymentRow(p)>>) :
                 (SessionLock(s) \o <<SPaymentRow(p)>>)[i][1] # "purchase_order"
                 /\ LockKind[(SessionLock(s) \o <<SPaymentRow(p)>>)[i][1]] < 4
<1>1. SPaymentRow(p) \in LockRows /\ (s # None => SessionRow(s) \in LockRows)
  BY DEF LockRows
<1>2. CASE s = None
  <2> DEFINE y == SPaymentRow(p)
  <2>1. SessionLock(s) \o <<SPaymentRow(p)>> = <<y>>
    BY <1>2 DEF SessionLock
  <2>2. y[1] = "supplier_payment" /\ LockKind[y[1]] < 4 /\ Ascends(<<y>>)
    BY <1>1, FewAscend, KindsOfRows
  <2> HIDE DEF y
  <2>3. <<y>>[1] = y /\ 1 \in DOMAIN <<y>> /\ \A i \in DOMAIN <<y>> : <<y>>[i] = y
    OBVIOUS
  <2> QED BY <2>1, <2>2, <2>3 DEF y
<1>3. CASE s # None
  <2> DEFINE x == SessionRow(s)
             y == SPaymentRow(p)
             z == <<x>> \o <<y>>
  <2>1. SessionLock(s) \o <<SPaymentRow(p)>> = z
    BY <1>3 DEF SessionLock
  <2>2. Before(x, y) /\ x \in LockRows /\ y \in LockRows /\ x[1] = "session"
        /\ y[1] = "supplier_payment" /\ LockKind[x[1]] < 4 /\ LockKind[y[1]] < 4
    BY <1>1, <1>3, KindsOfRows DEF Before
  <2> HIDE DEF x
  <2>3. /\ z \in Seq(LockRows) /\ DOMAIN z = 1..2 /\ z[1] = x /\ z[2] = y
    <3>1. <<x>> \in Seq(LockRows) /\ <<y>> \in Seq(LockRows)
      BY <2>2
    <3> HIDE DEF y
    <3> QED BY <3>1
  <2> HIDE DEF z
  <2>4. Ascends(z)
    BY <2>2, <2>3 DEF Ascends
  <2>5. \A i \in DOMAIN z : z[i] = x \/ z[i] = y
    BY <2>3
  <2>6. \A i \in DOMAIN z : z[i][1] # "purchase_order" /\ LockKind[z[i][1]] < 4
    <3> HIDE DEF y
    <3> QED BY <2>2, <2>5
  <2>7. \E i \in DOMAIN z : z[i] = y
    <3>1. 2 \in DOMAIN z
      BY <2>3
    <3> QED BY <2>3, <3>1
  <2> QED BY <2>1, <2>4, <2>6, <2>7
<1> QED BY <1>2, <1>3

-----------------------------------------------------------------------------
(***************************************************************************)
(* What applications add up to.                                            *)
(***************************************************************************)
\* Supplier applications are rows of their table.
ApplicationsTyped == sapplication \in Seq(SupplierApplicationRows)

\* What an application of a request is.
LEMMA ItemType ==
    ASSUME NEW items \in ItemLists
    PROVE  /\ DOMAIN items = 1..Len(items) /\ Len(items) \in Nat /\ IsFiniteSet(DOMAIN items)
           /\ \A i \in DOMAIN items : items[i].order \in POs /\ items[i].amount \in Nat \ {0}
           /\ \A i, j \in DOMAIN items : i # j => items[i].order # items[j].order
           /\ AmountOf(items) \in Nat
<1> DEFINE I == [order : POs, amount : Nat \ {0}]
           f == [i \in DOMAIN items |-> items[i].amount]
<1>1. items \in Seq(I) /\ \A i, j \in DOMAIN items : i # j => items[i].order # items[j].order
  BY SupplierConstants DEF SupplierConstants
<1> HIDE DEF I
<1>2. /\ DOMAIN items = 1..Len(items) /\ Len(items) \in Nat
      /\ \A i \in DOMAIN items : items[i] \in I
  BY <1>1
<1>3. \A i \in DOMAIN items : items[i].order \in POs /\ items[i].amount \in Nat \ {0}
  BY <1>2 DEF I
<1>4. IsFiniteSet(DOMAIN items)
  BY <1>2, FS_Interval
<1>5. \A i \in DOMAIN items : f[i] \in Nat
  BY <1>3
<1>6. AmountOf(items) = SumFunctionOnSet(f, DOMAIN items)
  BY DEF AmountOf, SumFunction
<1> HIDE DEF f
<1>7. AmountOf(items) \in Nat
  BY <1>4, <1>5, <1>6, SumIsNat
<1> QED BY <1>1, <1>2, <1>3, <1>4, <1>7

\* Applications, their amounts, and what they add up to.
LEMMA ApplicationTerms ==
    ASSUME ApplicationsTyped
    PROVE  /\ DOMAIN sapplication = 1..Len(sapplication) /\ Len(sapplication) \in Nat
           /\ IsFiniteSet(DOMAIN sapplication)
           /\ \A a \in DOMAIN sapplication : /\ sapplication[a] \in SupplierApplicationRows
                                             /\ AppliedAmounts[a] = sapplication[a].amount
                                             /\ AppliedAmounts[a] \in Nat
           /\ \A p : LiveOf(p) \in SUBSET DOMAIN sapplication /\ IsFiniteSet(LiveOf(p))
           /\ \A o : LiveTo(o) \in SUBSET DOMAIN sapplication /\ IsFiniteSet(LiveTo(o))
           /\ \A p : PaymentApplied(p) \in Nat
           /\ \A o : PoApplied(o) \in Nat
<1>1. /\ DOMAIN sapplication = 1..Len(sapplication) /\ Len(sapplication) \in Nat
      /\ \A a \in DOMAIN sapplication : sapplication[a] \in SupplierApplicationRows
  BY DEF ApplicationsTyped
<1>2. IsFiniteSet(DOMAIN sapplication)
  BY <1>1, FS_Interval
<1>3. \A a \in DOMAIN sapplication : /\ AppliedAmounts[a] = sapplication[a].amount
                                     /\ AppliedAmounts[a] \in Nat
  BY <1>1 DEF AppliedAmounts, SupplierApplicationRows
<1>4. \A p : LiveOf(p) \in SUBSET DOMAIN sapplication /\ IsFiniteSet(LiveOf(p))
  <2>1. \A p : LiveOf(p) \in SUBSET DOMAIN sapplication
    BY DEF LiveOf
  <2> QED BY <1>2, <2>1, FS_Subset
<1>5. \A o : LiveTo(o) \in SUBSET DOMAIN sapplication /\ IsFiniteSet(LiveTo(o))
  <2>1. \A o : LiveTo(o) \in SUBSET DOMAIN sapplication
    BY DEF LiveTo
  <2> QED BY <1>2, <2>1, FS_Subset
<1>6. \A p : PaymentApplied(p) \in Nat
  <2> SUFFICES ASSUME NEW p PROVE PaymentApplied(p) \in Nat
    OBVIOUS
  <2>1. IsFiniteSet(LiveOf(p)) /\ \A a \in LiveOf(p) : AppliedAmounts[a] \in Nat
    BY <1>3, <1>4
  <2> QED BY <2>1, SumIsNat DEF PaymentApplied
<1>7. \A o : PoApplied(o) \in Nat
  <2> SUFFICES ASSUME NEW o PROVE PoApplied(o) \in Nat
    OBVIOUS
  <2>1. IsFiniteSet(LiveTo(o)) /\ \A a \in LiveTo(o) : AppliedAmounts[a] \in Nat
    BY <1>3, <1>5
  <2> QED BY <2>1, SumIsNat DEF PoApplied
<1> QED BY <1>1, <1>2, <1>3, <1>4, <1>5, <1>6, <1>7

\* The same of the next state.
LEMMA ApplicationTermsNext ==
    ASSUME ApplicationsTyped'
    PROVE  /\ \A a \in DOMAIN sapplication' : /\ AppliedAmounts'[a] = sapplication'[a].amount
                                              /\ AppliedAmounts'[a] \in Nat
           /\ \A p : IsFiniteSet(LiveOf(p)')
           /\ \A o : IsFiniteSet(LiveTo(o)')
<1>1. /\ DOMAIN sapplication' = 1..Len(sapplication') /\ Len(sapplication') \in Nat
      /\ \A a \in DOMAIN sapplication' : sapplication'[a] \in SupplierApplicationRows
  BY DEF ApplicationsTyped
<1>2. IsFiniteSet(DOMAIN sapplication')
  BY <1>1, FS_Interval
<1>3. \A a \in DOMAIN sapplication' : /\ AppliedAmounts'[a] = sapplication'[a].amount
                                      /\ AppliedAmounts'[a] \in Nat
  BY <1>1 DEF AppliedAmounts, SupplierApplicationRows
<1>4. \A p : LiveOf(p)' \in SUBSET DOMAIN sapplication'
  BY DEF LiveOf
<1>5. \A o : LiveTo(o)' \in SUBSET DOMAIN sapplication'
  BY DEF LiveTo
<1> QED BY <1>2, <1>3, <1>4, <1>5, FS_Subset

\* What adding the applications of a request leaves.
LEMMA AddedRows ==
    ASSUME ApplicationsTyped, NEW p \in 1..MaxPayments, NEW items \in ItemLists,
           sapplication' = Added(p, items)
    PROVE  /\ ApplicationsTyped'
           /\ DOMAIN sapplication' = 1..(Len(sapplication) + Len(items))
           /\ \A a \in DOMAIN sapplication : sapplication'[a] = sapplication[a]
           /\ \A i \in DOMAIN items :
                 /\ Len(sapplication) + i \in DOMAIN sapplication'
                 /\ sapplication'[Len(sapplication) + i] =
                       [payment |-> p, order |-> items[i].order, amount |-> items[i].amount,
                        cancelled |-> FALSE]
           /\ \A a \in DOMAIN sapplication' :
                 a \notin DOMAIN sapplication =>
                     \E i \in DOMAIN items : a = Len(sapplication) + i
<1> DEFINE n == Len(sapplication)
           m == Len(items)
           row(i) == [payment |-> p, order |-> items[i].order, amount |-> items[i].amount,
                      cancelled |-> FALSE]
           more == [i \in DOMAIN items |-> row(i)]
<1>1. DOMAIN items = 1..m /\ m \in Nat /\ \A i \in DOMAIN items : row(i) \in SupplierApplicationRows
  BY ItemType, SupplierConstants DEF SupplierConstants, SupplierApplicationRows
<1>2. DOMAIN sapplication = 1..n /\ n \in Nat
  BY ApplicationTerms
<1>3. more \in Seq(SupplierApplicationRows) /\ Len(more) = m
  BY <1>1
<1>4. sapplication' = sapplication \o more
  BY DEF Added, Map
<1>5. \A i \in DOMAIN items : more[i] = row(i)
  OBVIOUS
<1> HIDE DEF n, m, row, more
<1>6. /\ sapplication \o more \in Seq(SupplierApplicationRows)
      /\ DOMAIN (sapplication \o more) = 1..(n + m)
      /\ \A a \in 1..n : (sapplication \o more)[a] = sapplication[a]
      /\ \A a \in (n + 1)..(n + m) : (sapplication \o more)[a] = more[a - n]
  BY <1>1, <1>2, <1>3 DEF ApplicationsTyped, n
<1>7. \A i \in DOMAIN items : n + i \in (n + 1)..(n + m) /\ (n + i) - n = i
  BY <1>1, <1>2
<1>8. \A i \in DOMAIN items : n + i \in DOMAIN sapplication' /\ sapplication'[n + i] = row(i)
  BY <1>1, <1>2, <1>4, <1>5, <1>6, <1>7
<1>9. ASSUME NEW a \in DOMAIN sapplication', a \notin DOMAIN sapplication
      PROVE  \E i \in DOMAIN items : a = n + i
  <2>1. a - n \in DOMAIN items /\ a = n + (a - n)
    BY <1>1, <1>2, <1>4, <1>6, <1>9
  <2> QED BY <2>1
<1>10. ApplicationsTyped'
  BY <1>4, <1>6 DEF ApplicationsTyped
<1>11. DOMAIN sapplication' = 1..(n + m) /\ \A a \in DOMAIN sapplication : sapplication'[a] = sapplication[a]
  BY <1>2, <1>4, <1>6
<1> QED BY <1>8, <1>9, <1>10, <1>11 DEF n, m, row

\* Adding them adds their amounts to the payment, and to each order its own.
LEMMA AddedAmounts ==
    ASSUME ApplicationsTyped, NEW p \in 1..MaxPayments, NEW items \in ItemLists,
           sapplication' = Added(p, items)
    PROVE  /\ PaymentApplied(p)' = PaymentApplied(p) + AmountOf(items)
           /\ \A q : q # p => PaymentApplied(q)' = PaymentApplied(q) /\ LiveOf(q)' = LiveOf(q)
           /\ \A i \in DOMAIN items :
                 PoApplied(items[i].order)' = PoApplied(items[i].order) + items[i].amount
           /\ \A o : o \notin OrdersOf(items) => PoApplied(o)' = PoApplied(o)
<1> DEFINE n == Len(sapplication)
           f == AppliedAmounts
           g == AppliedAmounts'
           fresh == {n + i : i \in DOMAIN items}
<1>1. /\ ApplicationsTyped'
      /\ DOMAIN sapplication' = DOMAIN sapplication \cup fresh
      /\ DOMAIN sapplication \cap fresh = {}
      /\ \A a \in DOMAIN sapplication : sapplication'[a] = sapplication[a]
      /\ \A i \in DOMAIN items :
            sapplication'[n + i] = [payment |-> p, order |-> items[i].order,
                                    amount |-> items[i].amount, cancelled |-> FALSE]
  <2>1. /\ ApplicationsTyped'
        /\ DOMAIN sapplication' = 1..(n + Len(items))
        /\ \A a \in DOMAIN sapplication : sapplication'[a] = sapplication[a]
        /\ \A i \in DOMAIN items :
              /\ n + i \in DOMAIN sapplication'
              /\ sapplication'[n + i] = [payment |-> p, order |-> items[i].order,
                                         amount |-> items[i].amount, cancelled |-> FALSE]
        /\ \A a \in DOMAIN sapplication' :
              a \notin DOMAIN sapplication => \E i \in DOMAIN items : a = n + i
    BY AddedRows, Zenon
  <2>2. DOMAIN sapplication = 1..n /\ n \in Nat /\ DOMAIN items = 1..Len(items) /\ Len(items) \in Nat
    BY ApplicationTerms, ItemType
  <2>3. \A i \in DOMAIN items : n + i \notin DOMAIN sapplication
    BY <2>2
  <2>4. \A a \in DOMAIN sapplication : a \in DOMAIN sapplication'
    BY <2>1, <2>2
  <2> HIDE DEF n
  <2>5. DOMAIN sapplication \cap fresh = {}
    BY <2>3
  <2>6. DOMAIN sapplication' = DOMAIN sapplication \cup fresh
    <3>1. fresh \in SUBSET DOMAIN sapplication'
      BY <2>1
    <3>2. \A a \in DOMAIN sapplication' : a \in DOMAIN sapplication \/ a \in fresh
      BY <2>1
    <3> QED BY <2>4, <3>1, <3>2
  <2> QED BY <2>1, <2>5, <2>6
<1>10. ASSUME NEW i \in DOMAIN items
       PROVE  /\ n + i \in DOMAIN sapplication'
              /\ sapplication'[n + i].payment = p
              /\ sapplication'[n + i].order = items[i].order
              /\ sapplication'[n + i].amount = items[i].amount
              /\ ~ sapplication'[n + i].cancelled
  <2> DEFINE x == n + i
  <2>1. x \in DOMAIN sapplication'
        /\ sapplication'[x] = [payment |-> p, order |-> items[i].order,
                               amount |-> items[i].amount, cancelled |-> FALSE]
    BY <1>1
  <2> HIDE DEF x
  <2>2. /\ sapplication'[x].payment = p /\ sapplication'[x].order = items[i].order
        /\ sapplication'[x].amount = items[i].amount /\ ~ sapplication'[x].cancelled
    BY <2>1
  <2> QED BY <2>1, <2>2 DEF x
<1>2. /\ \A a \in DOMAIN sapplication : g[a] = f[a] /\ f[a] \in Int
      /\ \A i \in DOMAIN items : g[n + i] = items[i].amount /\ g[n + i] \in Int
      /\ \A a \in DOMAIN sapplication' : g[a] \in Int
  <2>1. \A a \in DOMAIN sapplication : f[a] = sapplication[a].amount /\ f[a] \in Nat
    BY ApplicationTerms
  <2>2. \A a \in DOMAIN sapplication' : g[a] = sapplication'[a].amount /\ g[a] \in Nat
    BY <1>1, ApplicationTermsNext
  <2> HIDE DEF f, g, n
  <2>3. \A i \in DOMAIN items : n + i \in DOMAIN sapplication'
    BY <1>1
  <2>4. \A a \in DOMAIN sapplication : a \in DOMAIN sapplication'
    BY <1>1
  <2>5. \A a \in DOMAIN sapplication : g[a] = f[a]
    BY <1>1, <2>1, <2>2, <2>4
  <2>6. \A i \in DOMAIN items : g[n + i] = items[i].amount
    BY <1>10, <2>2
  <2>7. /\ \A a \in DOMAIN sapplication : f[a] \in Int
        /\ \A a \in DOMAIN sapplication' : g[a] \in Int
    BY <2>1, <2>2
  <2> QED BY <2>3, <2>5, <2>6, <2>7
<1>3. /\ \A q : LiveOf(q) \in SUBSET DOMAIN sapplication /\ IsFiniteSet(LiveOf(q))
      /\ \A o : LiveTo(o) \in SUBSET DOMAIN sapplication /\ IsFiniteSet(LiveTo(o))
  BY ApplicationTerms
<1>4. /\ PaymentApplied(p) = SumFunctionOnSet(f, LiveOf(p))
      /\ PaymentApplied(p)' = SumFunctionOnSet(g, LiveOf(p)')
  BY DEF PaymentApplied
<1>5. PaymentApplied(p)' = PaymentApplied(p) + AmountOf(items)
  <2> DEFINE t == [i \in DOMAIN items |-> items[i].amount]
             h == [i \in DOMAIN items |-> n + i]
  <2>1. LiveOf(p)' = LiveOf(p) \cup fresh /\ LiveOf(p) \cap fresh = {}
    <3>1. \A a \in DOMAIN sapplication : a \in LiveOf(p)' <=> a \in LiveOf(p)
      BY <1>1 DEF LiveOf
    <3>2. \A i \in DOMAIN items : n + i \in LiveOf(p)'
      <4> HIDE DEF n
      <4> QED BY <1>10 DEF LiveOf
    <3>3. LiveOf(p)' \in SUBSET DOMAIN sapplication'
      BY DEF LiveOf
    <3> HIDE DEF n
    <3> QED BY <1>1, <1>3, <3>1, <3>2, <3>3
  <2>2. IsFiniteSet(DOMAIN items) /\ DOMAIN items \in SUBSET Nat /\ n \in Nat
    BY ItemType, ApplicationTerms
  <2>3. /\ h \in [DOMAIN items -> fresh]
        /\ \A i, j \in DOMAIN items : h[i] = h[j] => i = j
        /\ \A a \in fresh : \E i \in DOMAIN items : h[i] = a
    <3> HIDE DEF n
    <3>1. \A i, j \in DOMAIN items : n + i = n + j => i = j
      BY <2>2
    <3> QED BY <3>1
  <2>4. IsFiniteSet(fresh)
    <3>1. h \in Surjection(DOMAIN items, fresh)
      BY <2>3 DEF Surjection
    <3> QED BY <2>2, <3>1, FS_Surjection
  <2>5. \A i \in DOMAIN items : t[i] \in Int /\ t[i] = g[h[i]]
    BY <1>2
  <2> HIDE DEF h, t, f, g, fresh
  <2>6. SumFunctionOnSet(t, DOMAIN items) = SumFunctionOnSet(g, fresh)
    BY <2>2, <2>3, <2>5, SumRenamed
  <2>7. AmountOf(items) = SumFunctionOnSet(t, DOMAIN items)
    BY DEF AmountOf, SumFunction, t
  <2>8. SumFunctionOnSet(g, LiveOf(p)) = SumFunctionOnSet(f, LiveOf(p))
    BY <1>2, <1>3, SumOfEqual
  <2>9. \A x \in LiveOf(p) \cup fresh : g[x] \in Int
    BY <1>1, <1>2, <1>3
  <2>10. SumFunctionOnSet(g, LiveOf(p) \cup fresh)
             = SumFunctionOnSet(g, LiveOf(p)) + SumFunctionOnSet(g, fresh)
    BY <1>3, <2>1, <2>4, <2>9, SumOfUnion
  <2> QED BY <1>4, <2>1, <2>6, <2>7, <2>8, <2>10
<1>6. ASSUME NEW q, q # p PROVE PaymentApplied(q)' = PaymentApplied(q) /\ LiveOf(q)' = LiveOf(q)
  <2>1. LiveOf(q)' = LiveOf(q)
    <3>1. \A a \in DOMAIN sapplication : a \in LiveOf(q)' <=> a \in LiveOf(q)
      BY <1>1 DEF LiveOf
    <3>2. \A i \in DOMAIN items : n + i \notin LiveOf(q)'
      <4> HIDE DEF n
      <4> QED BY <1>6, <1>10 DEF LiveOf
    <3>3. LiveOf(q)' \in SUBSET DOMAIN sapplication'
      BY DEF LiveOf
    <3> HIDE DEF n
    <3> QED BY <1>1, <1>3, <3>1, <3>2, <3>3
  <2> HIDE DEF f, g
  <2>2. SumFunctionOnSet(g, LiveOf(q)) = SumFunctionOnSet(f, LiveOf(q))
    BY <1>2, <1>3, SumOfEqual
  <2> QED BY <2>1, <2>2 DEF PaymentApplied, f, g
<1>7. ASSUME NEW i \in DOMAIN items
      PROVE  PoApplied(items[i].order)' = PoApplied(items[i].order) + items[i].amount
  <2> DEFINE o == items[i].order
             x == n + i
  <2>1. LiveTo(o)' = LiveTo(o) \cup {x} /\ x \notin LiveTo(o)
    <3>1. \A a \in DOMAIN sapplication : a \in LiveTo(o)' <=> a \in LiveTo(o)
      BY <1>1 DEF LiveTo
    <3>2. \A j \in DOMAIN items : n + j \in LiveTo(o)' <=> j = i
      <4> HIDE DEF n
      <4> QED BY <1>10, ItemType DEF LiveTo
    <3>3. LiveTo(o)' \in SUBSET DOMAIN sapplication'
      BY DEF LiveTo
    <3> HIDE DEF n, o
    <3> QED BY <1>1, <1>3, <3>1, <3>2, <3>3
  <2>2. g[x] = items[i].amount /\ x \in DOMAIN sapplication'
    BY <1>1, <1>2
  <2> HIDE DEF f, g, x, o
  <2>3. \A y \in LiveTo(o) \cup {x} : g[y] \in Int
    BY <1>1, <1>2, <1>3, <2>2
  <2>4. SumFunctionOnSet(g, LiveTo(o) \cup {x}) = g[x] + SumFunctionOnSet(g, LiveTo(o))
    BY <1>3, <2>1, <2>3, SumWith
  <2>5. SumFunctionOnSet(g, LiveTo(o)) = SumFunctionOnSet(f, LiveTo(o))
    BY <1>2, <1>3, SumOfEqual
  <2>6. /\ PoApplied(o) = SumFunctionOnSet(f, LiveTo(o))
        /\ PoApplied(o)' = SumFunctionOnSet(g, LiveTo(o)')
    BY DEF PoApplied, f, g
  <2>7. PoApplied(o) \in Nat /\ items[i].amount \in Nat
    BY ApplicationTerms, ItemType
  <2>8. PoApplied(o)' = items[i].amount + PoApplied(o)
    BY <2>1, <2>2, <2>4, <2>5, <2>6
  <2>9. PoApplied(o)' = PoApplied(o) + items[i].amount
    BY <2>7, <2>8
  <2> QED BY <2>9 DEF o
<1>8. ASSUME NEW o, o \notin OrdersOf(items) PROVE PoApplied(o)' = PoApplied(o)
  <2>1. LiveTo(o)' = LiveTo(o)
    <3>1. \A a \in DOMAIN sapplication : a \in LiveTo(o)' <=> a \in LiveTo(o)
      BY <1>1 DEF LiveTo
    <3>2. \A j \in DOMAIN items : n + j \notin LiveTo(o)'
      <4> HIDE DEF n
      <4> QED BY <1>8, <1>10 DEF LiveTo, OrdersOf
    <3>3. LiveTo(o)' \in SUBSET DOMAIN sapplication'
      BY DEF LiveTo
    <3> HIDE DEF n
    <3> QED BY <1>1, <1>3, <3>1, <3>2, <3>3
  <2> HIDE DEF f, g
  <2>2. SumFunctionOnSet(g, LiveTo(o)) = SumFunctionOnSet(f, LiveTo(o))
    BY <1>2, <1>3, SumOfEqual
  <2> QED BY <2>1, <2>2 DEF PoApplied, f, g
<1> QED BY <1>5, <1>6, <1>7, <1>8

\* Cancelling some takes them away from their payment and their order.
LEMMA CancelledAmounts ==
    ASSUME ApplicationsTyped, NEW gone,
           sapplication' = [a \in DOMAIN sapplication |->
                               IF a \in gone THEN [sapplication[a] EXCEPT !.cancelled = TRUE]
                               ELSE sapplication[a]]
    PROVE  /\ ApplicationsTyped'
           /\ DOMAIN sapplication' = DOMAIN sapplication
           /\ \A a \in DOMAIN sapplication :
                 /\ sapplication'[a].payment = sapplication[a].payment
                 /\ sapplication'[a].order = sapplication[a].order
                 /\ ~ sapplication'[a].cancelled <=> ~ sapplication[a].cancelled /\ a \notin gone
           /\ \A p : LiveOf(p)' = LiveOf(p) \ gone /\ PaymentApplied(p)' <= PaymentApplied(p)
           /\ \A o : PoApplied(o)' <= PoApplied(o)
<1> DEFINE f == AppliedAmounts
           g == AppliedAmounts'
<1>1. \A a \in DOMAIN sapplication : sapplication[a] \in SupplierApplicationRows
  BY ApplicationTerms
<1>2. \A a \in DOMAIN sapplication :
        /\ sapplication'[a] \in SupplierApplicationRows
        /\ sapplication'[a].payment = sapplication[a].payment
        /\ sapplication'[a].order = sapplication[a].order
        /\ sapplication'[a].amount = sapplication[a].amount
        /\ ~ sapplication'[a].cancelled <=> ~ sapplication[a].cancelled /\ a \notin gone
  BY <1>1 DEF SupplierApplicationRows
<1>3. ApplicationsTyped' /\ DOMAIN sapplication' = DOMAIN sapplication
  <2>1. DOMAIN sapplication' = DOMAIN sapplication
    OBVIOUS
  <2>2. DOMAIN sapplication = 1..Len(sapplication) /\ Len(sapplication) \in Nat
    BY ApplicationTerms
  <2>3. sapplication' = [a \in 1..Len(sapplication) |-> sapplication'[a]]
    BY <2>2
  <2>4. sapplication' \in [1..Len(sapplication) -> SupplierApplicationRows]
    BY <1>2, <2>2, <2>3
  <2>5. sapplication' \in Seq(SupplierApplicationRows)
    BY <2>2, <2>4
  <2> QED BY <2>1, <2>5 DEF ApplicationsTyped
<1>4. /\ \A p : LiveOf(p)' = LiveOf(p) \ gone
      /\ \A o : LiveTo(o)' = LiveTo(o) \ gone
  BY <1>2, <1>3 DEF LiveOf, LiveTo
<1>5. \A a \in DOMAIN sapplication : f[a] \in Nat /\ g[a] = f[a]
  <2>1. \A a \in DOMAIN sapplication : f[a] = sapplication[a].amount /\ f[a] \in Nat
    BY ApplicationTerms
  <2>2. \A a \in DOMAIN sapplication' : g[a] = sapplication'[a].amount
    BY <1>3, ApplicationTermsNext
  <2> HIDE DEF f, g
  <2> QED BY <1>2, <1>3, <2>1, <2>2
<1>6. ASSUME NEW S, S \in SUBSET DOMAIN sapplication, IsFiniteSet(S)
      PROVE  SumFunctionOnSet(g, S \ gone) <= SumFunctionOnSet(f, S)
  <2> HIDE DEF f, g
  <2>1. IsFiniteSet(S \ gone) /\ S \ gone \in SUBSET S
    BY <1>6, FS_Subset
  <2>2. SumFunctionOnSet(f, S \ gone) <= SumFunctionOnSet(f, S)
    BY <1>5, <1>6, <2>1, SumOfSome
  <2>3. SumFunctionOnSet(g, S \ gone) = SumFunctionOnSet(f, S \ gone)
    BY <1>5, <1>6, <2>1, SumOfEqual
  <2> QED BY <2>2, <2>3
<1>7. \A p : PaymentApplied(p)' <= PaymentApplied(p)
  <2> SUFFICES ASSUME NEW p PROVE PaymentApplied(p)' <= PaymentApplied(p)
    OBVIOUS
  <2>1. LiveOf(p) \in SUBSET DOMAIN sapplication /\ IsFiniteSet(LiveOf(p))
    BY ApplicationTerms
  <2>2. SumFunctionOnSet(g, LiveOf(p) \ gone) <= SumFunctionOnSet(f, LiveOf(p))
    BY <1>6, <2>1
  <2> QED BY <1>4, <2>2 DEF PaymentApplied
<1>8. \A o : PoApplied(o)' <= PoApplied(o)
  <2> SUFFICES ASSUME NEW o PROVE PoApplied(o)' <= PoApplied(o)
    OBVIOUS
  <2>1. LiveTo(o) \in SUBSET DOMAIN sapplication /\ IsFiniteSet(LiveTo(o))
    BY ApplicationTerms
  <2>2. SumFunctionOnSet(g, LiveTo(o) \ gone) <= SumFunctionOnSet(f, LiveTo(o))
    BY <1>6, <2>1
  <2> QED BY <1>4, <2>2 DEF PoApplied
<1> QED BY <1>2, <1>3, <1>4, <1>7, <1>8

-----------------------------------------------------------------------------
(***************************************************************************)
(* What holds of applications and of the requests that write them.         *)
(***************************************************************************)
\* Every live application is of a payment that is not cancelled, to an order
\* of its supplier that counts; no payment is applied past its amount, and
\* no order past its total.
BookSound ==
    /\ ApplicationsTyped
    /\ Len(spayment) <= MaxPayments
    /\ \A a \in DOMAIN sapplication : ~ sapplication[a].cancelled =>
          /\ sapplication[a].payment \in DOMAIN spayment
          /\ ~ spayment[sapplication[a].payment].cancelled
          /\ sapplication[a].order \in Counting
          /\ SupplierOf[sapplication[a].order] = spayment[sapplication[a].payment].supplier
    /\ \A p \in DOMAIN spayment : PaymentApplied(p) <= spayment[p].amount
    /\ \A o \in POs : PoApplied(o) <= OrderTotal[o]

\* A row is held, or will be before the request reads.
Covers(r, x) == x \in txn[r].rows \/ \E i \in DOMAIN txn[r].want : txn[r].want[i] = x

HoldsOrders(r, items) == \A o \in OrdersOf(items) : PoRow(o) \in txn[r].rows

\* What a request has checked is still so when it writes: it holds the rows.
Knows(r) ==
    LET q == txn[r].arg
    IN  /\ txn[r].op = "pay_supplier" => \A o \in OrdersOf(q.items) : Covers(r, PoRow(o))
        /\ txn[r].op = "pay_supplier_write" =>
              /\ HoldsOrders(r, q.request.items)
              /\ q.request.items # << >> =>
                    CheckApplications(q.request.items, q.request.supplier, q.request.amount)
        /\ txn[r].op = "apply_supplier" =>
              /\ q.payment \in DOMAIN spayment /\ q.items \in ItemLists
              /\ Covers(r, SPaymentRow(q.payment))
              /\ \A o \in OrdersOf(q.items) : Covers(r, PoRow(o))
        /\ txn[r].op = "apply_supplier_write" =>
              /\ q.request.payment \in DOMAIN spayment /\ q.request.items \in ItemLists
              /\ SPaymentRow(q.request.payment) \in txn[r].rows
              /\ HoldsOrders(r, q.request.items)
              /\ ~ spayment[q.request.payment].cancelled
              /\ CheckApplications(q.request.items, spayment[q.request.payment].supplier,
                                   PaymentCredit(q.request.payment))
        /\ txn[r].op = "cancel_supplier" =>
              /\ Covers(r, SPaymentRow(q.payment))
              /\ \A x \in txn[r].rows : LockKind[x[1]] < 4
              /\ \A i \in DOMAIN txn[r].want : LockKind[txn[r].want[i][1]] < 4
        /\ txn[r].op = "cancel_supplier_write" =>
              SPaymentRow(q.payment) \in txn[r].rows /\ LiveOf(q.payment) \in SUBSET q.live

\* A request takes its rows in order.
Orderly(r) == txn[r] # Idle => txn[r].op # "idle" /\ InOrder(txn[r].rows, txn[r].want)

\* A row is one request's.
Exclusive == \A r, q \in Requests : r # q => Holds(r) \cap Holds(q) = {}

PayablesInv ==
    /\ DrawerInv
    /\ BookSound
    /\ Exclusive
    /\ \A r \in Requests : Orderly(r) /\ Knows(r)

-----------------------------------------------------------------------------
(***************************************************************************)
(* Steps of one request.                                                   *)
(***************************************************************************)
\* A request's step keeps the invariant when it keeps the book sound, what the
\* request knows true and its rows in order and its own, and what the others
\* know true.
LEMMA PayablesStep ==
    ASSUME PayablesInv, DrawerInv', NEW r \in Requests, NEW x, txn' = [txn EXCEPT ![r] = x],
           x = Idle \/ (x.op # "idle" /\ InOrder(x.rows, x.want)),
           \A q \in Requests \ {r} : Holds(r)' \cap Holds(q) = {},
           BookSound', Knows(r)', \A q \in Requests \ {r} : Knows(q)'
    PROVE  PayablesInv'
<1>1. txn'[r] = x /\ \A q \in Requests \ {r} : txn'[q] = txn[q]
  BY DEF PayablesInv, DrawerInv
<1>2. \A q \in Requests \ {r} : Holds(q)' = Holds(q)
  BY <1>1 DEF Holds
<1>3. Exclusive'
  BY <1>2 DEF PayablesInv, Exclusive
<1>4. \A q \in Requests \ {r} : Orderly(q)'
  BY <1>1 DEF PayablesInv, Orderly
<1>5. Orderly(r)'
  BY <1>1 DEF Orderly
<1>6. \A q \in Requests : Knows(q)' /\ Orderly(q)'
  BY <1>4, <1>5
<1> QED BY <1>3, <1>6 DEF PayablesInv

\* While the tables of supplier payments stand, what is known of them does.
LEMMA KnowledgeStands ==
    ASSUME NEW q, Knows(q), txn'[q] = txn[q], UNCHANGED supplierTables
    PROVE  Knows(q)'
<1>1. spayment' = spayment /\ sapplication' = sapplication
  BY DEF supplierTables
<1>2. /\ \A p : PaymentCredit(p)' = PaymentCredit(p) /\ LiveOf(p)' = LiveOf(p)
      /\ \A o : PoBalance(o)' = PoBalance(o)
  BY <1>1 DEF PaymentCredit, PaymentApplied, AppliedAmounts, LiveOf, PoBalance, PoApplied, LiveTo
<1>3. \A items, s, c : CheckApplications(items, s, c)' <=> CheckApplications(items, s, c)
  BY <1>2 DEF CheckApplications
<1> QED BY <1>1, <1>2, <1>3 DEF Knows, Covers, HoldsOrders

\* So does the book.
LEMMA BookStands ==
    ASSUME BookSound, UNCHANGED supplierTables
    PROVE  BookSound'
BY DEF BookSound, supplierTables, ApplicationsTyped, PaymentApplied, PoApplied,
       AppliedAmounts, LiveOf, LiveTo

\* A step that leaves those tables alone and takes no row that is not free.
LEMMA QuietStep ==
    ASSUME PayablesInv, DrawerInv', NEW r \in Requests, NEW x, txn' = [txn EXCEPT ![r] = x],
           x = Idle \/ (x.op # "idle" /\ InOrder(x.rows, x.want)),
           \A q \in Requests \ {r} : Holds(r)' \cap Holds(q) = {},
           UNCHANGED supplierTables, Knows(r)'
    PROVE  PayablesInv'
<1>1. ASSUME NEW q \in Requests \ {r} PROVE Knows(q)'
  <2>1. txn'[q] = txn[q] /\ Knows(q)
    BY DEF PayablesInv, DrawerInv
  <2> QED BY <2>1, KnowledgeStands
<1>2. BookSound'
  BY BookStands DEF PayablesInv
<1> QED BY <1>1, <1>2, PayablesStep

\* A request that has ended knows nothing and holds nothing.
LEMMA EndedKnows ==
    ASSUME DrawerInv, NEW r \in Requests, Ends(r)
    PROVE  Knows(r)' /\ Holds(r)' = {} /\ \A q \in Requests \ {r} : txn'[q] = txn[q]
<1>1. txn'[r] = Idle /\ \A q \in Requests \ {r} : txn'[q] = txn[q]
  BY DEF Ends, DrawerInv
<1>2. txn'[r].op = "idle"
  BY <1>1 DEF Idle
<1> QED BY <1>1, <1>2 DEF Knows, Holds

\* A request that ends, having written no supplier payment.
LEMMA QuietEnd ==
    ASSUME PayablesInv, DrawerInv', NEW r \in Requests, Ends(r), UNCHANGED supplierTables
    PROVE  PayablesInv'
<1>1. DrawerInv
  BY DEF PayablesInv
<1>2. Knows(r)' /\ Holds(r)' = {}
  BY <1>1, EndedKnows
<1>3. txn' = [txn EXCEPT ![r] = Idle]
  BY DEF Ends
<1>4. \A q \in Requests \ {r} : Holds(r)' \cap Holds(q) = {}
  BY <1>2
<1> QED BY <1>2, <1>3, <1>4, QuietStep

\* A step outside every transaction.
LEMMA QuietAside ==
    ASSUME PayablesInv, DrawerInv', txn' = txn, UNCHANGED supplierTables
    PROVE  PayablesInv'
<1>1. BookSound'
  BY BookStands DEF PayablesInv
<1>2. \A q \in Requests : Knows(q)'
  BY KnowledgeStands DEF PayablesInv
<1>3. Exclusive' /\ \A q \in Requests : Orderly(q)'
  BY DEF PayablesInv, Exclusive, Orderly, Holds
<1> QED BY <1>1, <1>2, <1>3 DEF PayablesInv

\* Operations that have nothing to know of supplier payments.
QuietOps == {"open", "close", "take", "confirm_voucher", "void", "reverse_supplier"}

\* Beginning any transaction.
LEMMA BeginOrderly ==
    ASSUME PayablesInv, DrawerInv', NEW r \in Requests, NEW op, NEW arg, NEW want,
           Begins(r, op, arg, want), op # "idle", Ascends(want), UNCHANGED tables,
           txn'[r] = Request(op, arg, {}, want) => Knows(r)'
    PROVE  PayablesInv'
<1> DEFINE x == Request(op, arg, {}, want)
<1>1. txn' = [txn EXCEPT ![r] = x] /\ txn'[r] = x
  BY DEF Begins, PayablesInv, DrawerInv
<1>2. x.op # "idle" /\ InOrder(x.rows, x.want) /\ x.rows = {}
  BY DEF InOrder, Request
<1> HIDE DEF x
<1>3. Holds(r)' = {}
  BY <1>1, <1>2 DEF Holds
<1>4. Knows(r)'
  BY <1>1 DEF x
<1>5. UNCHANGED supplierTables
  BY DEF tables
<1> QED BY <1>1, <1>2, <1>3, <1>4, <1>5, QuietStep

\* Beginning one of those.
LEMMA QuietBegin ==
    ASSUME PayablesInv, DrawerInv', NEW r \in Requests, NEW op \in QuietOps, NEW arg, NEW want,
           Begins(r, op, arg, want), Ascends(want), UNCHANGED tables
    PROVE  PayablesInv'
<1>1. txn'[r] = Request(op, arg, {}, want) => Knows(r)'
  BY DEF Knows, Request, QuietOps
<1>2. op # "idle"
  BY DEF QuietOps
<1> QED BY <1>1, <1>2, BeginOrderly

\* Locking the next row.
LEMMA AcquireOrderly ==
    ASSUME PayablesInv, DrawerInv', NEW r \in Requests, Acquire(r)
    PROVE  PayablesInv'
<1> DEFINE held == txn[r].rows
           want == txn[r].want
           x == Request(txn[r].op, txn[r].arg, held \cup {Head(want)}, Tail(want))
<1>1. /\ txn' = [txn EXCEPT ![r] = x] /\ txn'[r] = x /\ UNCHANGED tables
      /\ txn[r].op # "idle" /\ want # << >> /\ Free(r, {Head(want)})
  BY DEF Acquire, LocksNext, PayablesInv, DrawerInv
<1>2. InOrder(held, want) /\ Knows(r)
  BY <1>1 DEF PayablesInv, Orderly, Idle
<1>3. /\ x.op = txn[r].op /\ x.arg = txn[r].arg /\ x.rows = held \cup {Head(want)}
      /\ x.want = Tail(want)
  BY DEF Request
<1> HIDE DEF x, held, want
<1>4. /\ want \in Seq(LockRows) /\ Head(want) \in LockRows /\ Tail(want) \in Seq(LockRows)
      /\ 1 \in DOMAIN want /\ want[1] = Head(want)
      /\ \A i \in DOMAIN Tail(want) : i + 1 \in DOMAIN want /\ Tail(want)[i] = want[i + 1]
                                      /\ 1 < i + 1 /\ i \in Nat
      /\ \A i \in DOMAIN want : i = 1 \/ (i - 1 \in DOMAIN Tail(want) /\ Tail(want)[i - 1] = want[i])
  <2>1. want \in Seq(LockRows)
    BY <1>2 DEF InOrder, Ascends
  <2> QED BY <1>1, <2>1
<1>5. InOrder(x.rows, x.want)
  <2>1. /\ held \in SUBSET LockRows
        /\ \A i, j \in DOMAIN want : i < j => Before(want[i], want[j])
        /\ \A y \in held : \A i \in DOMAIN want : Before(y, want[i])
    BY <1>2 DEF InOrder, Ascends
  <2>2. \A i, j \in DOMAIN Tail(want) : i < j => Before(Tail(want)[i], Tail(want)[j])
    <3> SUFFICES ASSUME NEW i \in DOMAIN Tail(want), NEW j \in DOMAIN Tail(want), i < j
                 PROVE  Before(Tail(want)[i], Tail(want)[j])
      OBVIOUS
    <3>1. i + 1 < j + 1
      BY <1>4
    <3> QED BY <1>4, <2>1, <3>1
  <2>3. \A i \in DOMAIN Tail(want) : Before(Head(want), Tail(want)[i])
    BY <1>4, <2>1
  <2>4. \A y \in held : \A i \in DOMAIN Tail(want) : Before(y, Tail(want)[i])
    BY <1>4, <2>1
  <2> QED BY <1>3, <1>4, <2>1, <2>2, <2>3, <2>4 DEF InOrder, Ascends
<1>10. txn'[r].rows = held \cup {Head(want)} /\ txn'[r].want = Tail(want)
  BY <1>1, <1>3
<1>6. \A y : Covers(r, y) => Covers(r, y)'
  <2> SUFFICES ASSUME NEW y, Covers(r, y) PROVE Covers(r, y)'
    OBVIOUS
  <2>1. CASE y \in held
    BY <1>10, <2>1 DEF Covers
  <2>2. CASE \E i \in DOMAIN want : want[i] = y
    <3>1. PICK i \in DOMAIN want : want[i] = y
      BY <2>2
    <3>2. CASE i = 1
      BY <1>4, <1>10, <3>1, <3>2 DEF Covers
    <3>3. CASE i # 1
      <4>1. i - 1 \in DOMAIN Tail(want) /\ Tail(want)[i - 1] = y
        BY <1>4, <3>1, <3>3
      <4> QED BY <1>10, <4>1 DEF Covers
    <3> QED BY <3>2, <3>3
  <2> QED BY <2>1, <2>2 DEF Covers, held, want
<1>7. \A q \in Requests \ {r} : Holds(r)' \cap Holds(q) = {}
  <2> SUFFICES ASSUME NEW q \in Requests \ {r} PROVE Holds(r)' \cap Holds(q) = {}
    OBVIOUS
  <2>1. Holds(r) \cap Holds(q) = {} /\ Holds(q) \cap {Head(want)} = {}
    BY <1>1 DEF PayablesInv, Exclusive, Free
  <2>2. Holds(r)' = Holds(r) \cup {Head(want)}
    BY <1>1, <1>3 DEF Holds, held
  <2> QED BY <2>1, <2>2
<1>8. UNCHANGED supplierTables
  BY <1>1 DEF tables
<1>9. Knows(r)'
  <2>1. spayment' = spayment /\ sapplication' = sapplication
    BY <1>8 DEF supplierTables
  <2>2. /\ \A p : PaymentCredit(p)' = PaymentCredit(p) /\ LiveOf(p)' = LiveOf(p)
        /\ \A o : PoBalance(o)' = PoBalance(o)
    BY <2>1 DEF PaymentCredit, PaymentApplied, AppliedAmounts, LiveOf, PoBalance, PoApplied, LiveTo
  <2>3. \A items, s, c : CheckApplications(items, s, c)' <=> CheckApplications(items, s, c)
    BY <2>2 DEF CheckApplications
  <2>4. \A y : y \in txn[r].rows => y \in txn'[r].rows
    BY <1>1, <1>3 DEF held
  <2>5. txn'[r].op = txn[r].op /\ txn'[r].arg = txn[r].arg
    BY <1>1, <1>3
  <2>6. txn'[r].op = "cancel_supplier" =>
          /\ \A y \in txn'[r].rows : LockKind[y[1]] < 4
          /\ \A i \in DOMAIN txn'[r].want : LockKind[txn'[r].want[i][1]] < 4
    <3> SUFFICES ASSUME txn[r].op = "cancel_supplier"
                 PROVE  /\ \A y \in held \cup {Head(want)} : LockKind[y[1]] < 4
                        /\ \A i \in DOMAIN Tail(want) : LockKind[Tail(want)[i][1]] < 4
      BY <1>10, <2>5
    <3>1. /\ \A y \in held : LockKind[y[1]] < 4
          /\ \A i \in DOMAIN want : LockKind[want[i][1]] < 4
      BY <1>2 DEF Knows, held, want
    <3>2. LockKind[Head(want)[1]] < 4
      BY <1>4, <3>1
    <3>3. ASSUME NEW i \in DOMAIN Tail(want) PROVE LockKind[Tail(want)[i][1]] < 4
      <4>1. i + 1 \in DOMAIN want /\ Tail(want)[i] = want[i + 1]
        BY <1>4
      <4> QED BY <3>1, <4>1
    <3> QED BY <3>1, <3>2, <3>3
  <2> QED BY <1>2, <1>6, <2>1, <2>2, <2>3, <2>4, <2>5, <2>6 DEF Knows, HoldsOrders
<1> QED BY <1>1, <1>3, <1>5, <1>7, <1>8, <1>9, QuietStep

\* Having read under its locks, a request keeps its rows.
LEMMA CheckOrderly ==
    ASSUME PayablesInv, DrawerInv', NEW r \in Requests, NEW op, NEW arg, NEW want,
           txn[r].op # "idle", op # "idle",
           txn' = [txn EXCEPT ![r] = Request(op, arg, txn[r].rows, want)],
           UNCHANGED tables, InOrder(txn[r].rows, want),
           txn'[r] = Request(op, arg, txn[r].rows, want) => Knows(r)'
    PROVE  PayablesInv'
<1> DEFINE x == Request(op, arg, txn[r].rows, want)
<1>1. txn' = [txn EXCEPT ![r] = x] /\ txn'[r] = x
  BY DEF PayablesInv, DrawerInv
<1>2. x.op # "idle" /\ x.rows = txn[r].rows /\ InOrder(x.rows, x.want)
  BY DEF Request
<1> HIDE DEF x
<1>3. Holds(r)' = Holds(r)
  BY <1>1, <1>2 DEF Holds
<1>4. \A q \in Requests \ {r} : Holds(r)' \cap Holds(q) = {}
  BY <1>3 DEF PayablesInv, Exclusive
<1>5. UNCHANGED supplierTables
  BY DEF tables
<1> QED BY <1>1, <1>2, <1>4, <1>5, QuietStep DEF x

-----------------------------------------------------------------------------
(***************************************************************************)
(* Each operation keeps it.                                                *)
(***************************************************************************)
\* Payments are rows of their table.
LEMMA PaymentTerms ==
    ASSUME DrawerInv, ApplicationsTyped
    PROVE  /\ DOMAIN spayment = 1..Len(spayment) /\ Len(spayment) \in Nat
           /\ \A p \in DOMAIN spayment : spayment[p] \in SupplierPaymentRows
           /\ \A p \in DOMAIN spayment : spayment[p].amount \in Nat
           /\ \A p \in DOMAIN spayment : PaymentCredit(p) \in Int
           /\ \A o \in POs : OrderTotal[o] \in Nat /\ PoBalance(o) \in Int
<1>1. /\ DOMAIN spayment = 1..Len(spayment) /\ Len(spayment) \in Nat
      /\ \A p \in DOMAIN spayment : spayment[p] \in SupplierPaymentRows
  BY DEF DrawerInv
<1>2. \A p \in DOMAIN spayment : spayment[p].amount \in Nat
  BY <1>1 DEF SupplierPaymentRows
<1>3. \A p \in DOMAIN spayment : PaymentCredit(p) \in Int
  BY <1>2, ApplicationTerms DEF PaymentCredit
<1>4. \A o \in POs : OrderTotal[o] \in Nat /\ PoBalance(o) \in Int
  BY ApplicationTerms, SupplierConstants DEF SupplierConstants, PoBalance
<1> QED BY <1>1, <1>2, <1>3, <1>4

\* What a request may apply, it may apply of more credit to larger balances.
LEMMA ChecksStand ==
    ASSUME NEW items \in ItemLists, NEW s, NEW c \in Int, NEW d \in Int, c <= d,
           CheckApplications(items, s, c),
           \A o \in OrdersOf(items) :
               PoBalance(o) \in Int /\ PoBalance(o)' \in Int /\ PoBalance(o) <= PoBalance(o)'
    PROVE  CheckApplications(items, s, d)'
<1>1. /\ \A i \in DOMAIN items : items[i].order \in OrdersOf(items) /\ items[i].amount \in Int
      /\ AmountOf(items) \in Int
  BY ItemType DEF OrdersOf
<1> QED BY <1>1 DEF CheckApplications

\* Applications are added under the locks of their orders and their payment:
\* no other request has read either.
LEMMA OthersAfterAdding ==
    ASSUME PayablesInv, NEW r \in Requests, NEW p \in 1..MaxPayments, NEW items \in ItemLists,
           sapplication' = Added(p, items), txn[r].op # "idle", HoldsOrders(r, items),
           p \notin DOMAIN spayment \/ SPaymentRow(p) \in txn[r].rows,
           \A k \in DOMAIN spayment : k \in DOMAIN spayment' /\ spayment'[k] = spayment[k],
           NEW q \in Requests \ {r}, txn'[q] = txn[q]
    PROVE  Knows(q)'
<1>1. ApplicationsTyped /\ DrawerInv /\ Sound(q) /\ Knows(q)
  BY DEF PayablesInv, BookSound, DrawerInv
<1>2. Holds(r) \cap Holds(q) = {} /\ Holds(r) = txn[r].rows
  BY DEF PayablesInv, Exclusive, Holds
<1>3. /\ \A k : k # p => PaymentApplied(k)' = PaymentApplied(k) /\ LiveOf(k)' = LiveOf(k)
      /\ \A o : o \notin OrdersOf(items) => PoApplied(o)' = PoApplied(o)
  BY <1>1, AddedAmounts
<1>4. ASSUME txn[q].op # "idle", NEW o, PoRow(o) \in txn[q].rows
      PROVE  PoBalance(o)' = PoBalance(o)
  <2>1. o \notin OrdersOf(items)
    BY <1>2, <1>4 DEF HoldsOrders, Holds
  <2> QED BY <1>3, <2>1 DEF PoBalance
<1>5. ASSUME txn[q].op # "idle", NEW k \in DOMAIN spayment, SPaymentRow(k) \in txn[q].rows
      PROVE  /\ PaymentCredit(k)' = PaymentCredit(k) /\ LiveOf(k)' = LiveOf(k)
             /\ spayment'[k] = spayment[k] /\ k \in DOMAIN spayment'
  <2>1. k # p
    BY <1>2, <1>5 DEF Holds
  <2> QED BY <1>3, <2>1 DEF PaymentCredit
<1>6. ASSUME txn[q].op = "pay_supplier_write" PROVE Knows(q)'
  <2> DEFINE a == txn[q].arg.request
  <2>1. HoldsOrders(q, a.items) /\ a.items \in ItemLists
        /\ (a.items # << >> => CheckApplications(a.items, a.supplier, a.amount))
    BY <1>1, <1>6 DEF Knows, Sound, PaymentRequest
  <2>2. PICK its, s, c : its = a.items /\ s = a.supplier /\ c = a.amount
    OBVIOUS
  <2>3. \A o \in OrdersOf(its) : PoBalance(o)' = PoBalance(o)
    BY <1>4, <1>6, <2>1, <2>2 DEF HoldsOrders
  <2>4. \A i \in DOMAIN its : its[i].order \in OrdersOf(its)
    BY DEF OrdersOf
  <2>5. CheckApplications(its, s, c) => CheckApplications(its, s, c)'
    BY <2>3, <2>4 DEF CheckApplications
  <2> QED BY <1>6, <2>1, <2>2, <2>5 DEF Knows, HoldsOrders
<1>7. ASSUME txn[q].op = "apply_supplier_write" PROVE Knows(q)'
  <2> DEFINE a == txn[q].arg.request
  <2>1. /\ a.payment \in DOMAIN spayment /\ a.items \in ItemLists
        /\ SPaymentRow(a.payment) \in txn[q].rows
        /\ HoldsOrders(q, a.items)
        /\ ~ spayment[a.payment].cancelled
        /\ CheckApplications(a.items, spayment[a.payment].supplier, PaymentCredit(a.payment))
    BY <1>1, <1>7 DEF Knows
  <2>2. PICK its, k, s, c : /\ its = a.items /\ k = a.payment
                            /\ s = spayment[k].supplier /\ c = PaymentCredit(k)
    OBVIOUS
  <2>3. \A o \in OrdersOf(its) : PoBalance(o)' = PoBalance(o)
    BY <1>4, <1>7, <2>1, <2>2 DEF HoldsOrders
  <2>4. \A i \in DOMAIN its : its[i].order \in OrdersOf(its)
    BY DEF OrdersOf
  <2>5. CheckApplications(its, s, c)'
    BY <2>1, <2>2, <2>3, <2>4 DEF CheckApplications
  <2>6. PaymentCredit(k)' = c /\ spayment'[k] = spayment[k] /\ k \in DOMAIN spayment'
    BY <1>5, <1>7, <2>1, <2>2
  <2> QED BY <1>7, <2>1, <2>2, <2>5, <2>6 DEF Knows, HoldsOrders
<1>8. ASSUME txn[q].op = "cancel_supplier_write" PROVE Knows(q)'
  <2>1. PICK k : k = txn[q].arg.payment
    OBVIOUS
  <2>2. /\ k \in DOMAIN spayment /\ SPaymentRow(k) \in txn[q].rows
        /\ LiveOf(k) \in SUBSET txn[q].arg.live
    BY <1>1, <1>8, <2>1 DEF Knows, Sound
  <2>3. LiveOf(k)' = LiveOf(k)
    BY <1>5, <1>8, <2>2
  <2> QED BY <1>8, <2>1, <2>2, <2>3 DEF Knows
<1>9. CASE txn[q].op \notin {"pay_supplier_write", "apply_supplier_write", "cancel_supplier_write"}
  BY <1>1, <1>9 DEF Knows, Covers
<1> QED BY <1>6, <1>7, <1>8, <1>9

\* Cancelling applications gives back; a payment is cancelled under its lock.
LEMMA OthersAfterCancelling ==
    ASSUME PayablesInv, NEW r \in Requests, NEW gone, txn[r].op # "idle",
           sapplication' = [a \in DOMAIN sapplication |->
                               IF a \in gone THEN [sapplication[a] EXCEPT !.cancelled = TRUE]
                               ELSE sapplication[a]],
           DOMAIN spayment' = DOMAIN spayment,
           \A k \in DOMAIN spayment : spayment'[k] = spayment[k] \/ SPaymentRow(k) \in txn[r].rows,
           NEW q \in Requests \ {r}, txn'[q] = txn[q]
    PROVE  Knows(q)'
<1>1. ApplicationsTyped /\ DrawerInv /\ Sound(q) /\ Knows(q)
  BY DEF PayablesInv, BookSound, DrawerInv
<1>2. Holds(r) \cap Holds(q) = {} /\ Holds(r) = txn[r].rows
  BY DEF PayablesInv, Exclusive, Holds
<1>3. /\ ApplicationsTyped'
      /\ \A k : LiveOf(k)' = LiveOf(k) \ gone /\ PaymentApplied(k)' <= PaymentApplied(k)
      /\ \A o : PoApplied(o)' <= PoApplied(o)
  BY <1>1, CancelledAmounts
<1>4. /\ \A k : PaymentApplied(k) \in Nat /\ PaymentApplied(k)' \in Nat
      /\ \A o : PoApplied(o) \in Nat /\ PoApplied(o)' \in Nat
  <2>1. /\ \A k : PaymentApplied(k) \in Nat
        /\ \A o : PoApplied(o) \in Nat
    BY <1>1, ApplicationTerms
  <2>2. /\ \A k : IsFiniteSet(LiveOf(k)') /\ \A a \in LiveOf(k)' : AppliedAmounts'[a] \in Nat
        /\ \A o : IsFiniteSet(LiveTo(o)') /\ \A a \in LiveTo(o)' : AppliedAmounts'[a] \in Nat
    BY <1>3, ApplicationTermsNext DEF LiveOf, LiveTo
  <2>3. /\ \A k : PaymentApplied(k)' \in Nat
        /\ \A o : PoApplied(o)' \in Nat
    BY <2>2, SumIsNat DEF PaymentApplied, PoApplied
  <2> QED BY <2>1, <2>3
<1>5. \A o \in POs : PoBalance(o) \in Int /\ PoBalance(o)' \in Int /\ PoBalance(o) <= PoBalance(o)'
  BY <1>3, <1>4, SupplierConstants DEF SupplierConstants, PoBalance
<1>6. ASSUME txn[q].op = "pay_supplier_write" PROVE Knows(q)'
  <2> DEFINE a == txn[q].arg.request
  <2>1. HoldsOrders(q, a.items) /\ a.items \in ItemLists /\ a.amount \in Int
        /\ (a.items # << >> => CheckApplications(a.items, a.supplier, a.amount))
    BY <1>1, <1>6, SupplierConstants DEF Knows, Sound, PaymentRequest, SupplierConstants
  <2>2. PICK its, s, c : its = a.items /\ s = a.supplier /\ c = a.amount
    OBVIOUS
  <2>3. OrdersOf(its) \in SUBSET POs
    BY <2>1, <2>2, OrdersFinite
  <2>4. CheckApplications(its, s, c) => CheckApplications(its, s, c)'
    BY <1>5, <2>1, <2>2, <2>3, ChecksStand
  <2> QED BY <1>6, <2>1, <2>2, <2>4 DEF Knows, HoldsOrders
<1>7. ASSUME txn[q].op = "apply_supplier_write" PROVE Knows(q)'
  <2> DEFINE a == txn[q].arg.request
  <2>1. /\ a.payment \in DOMAIN spayment /\ a.items \in ItemLists
        /\ SPaymentRow(a.payment) \in txn[q].rows
        /\ HoldsOrders(q, a.items)
        /\ ~ spayment[a.payment].cancelled
        /\ CheckApplications(a.items, spayment[a.payment].supplier, PaymentCredit(a.payment))
    BY <1>1, <1>7 DEF Knows
  <2>2. PICK its, k, s : its = a.items /\ k = a.payment /\ s = spayment[k].supplier
    OBVIOUS
  <2>3. spayment'[k] = spayment[k]
    <3>1. SPaymentRow(k) \notin txn[r].rows
      BY <1>2, <1>7, <2>1, <2>2 DEF Holds
    <3> QED BY <2>1, <2>2, <3>1
  <2>4. PICK c, d : c = PaymentCredit(k) /\ d = PaymentCredit(k)'
    OBVIOUS
  <2>5. c \in Int /\ d \in Int /\ c <= d
    <3>1. spayment[k].amount \in Nat
      BY <1>1, <2>1, <2>2, PaymentTerms
    <3>2. c = spayment[k].amount - PaymentApplied(k)
      BY <2>1, <2>2, <2>4 DEF PaymentCredit
    <3>3. d = spayment[k].amount - PaymentApplied(k)'
      BY <2>1, <2>2, <2>3, <2>4 DEF PaymentCredit
    <3> QED BY <1>3, <1>4, <3>1, <3>2, <3>3
  <2>6. OrdersOf(its) \in SUBSET POs
    BY <2>1, <2>2, OrdersFinite
  <2>7. CheckApplications(its, s, d)'
    BY <1>5, <2>1, <2>2, <2>4, <2>5, <2>6, ChecksStand
  <2> QED BY <1>7, <2>1, <2>2, <2>3, <2>4, <2>7 DEF Knows, HoldsOrders
<1>8. ASSUME txn[q].op = "cancel_supplier_write" PROVE Knows(q)'
  <2>1. PICK k : k = txn[q].arg.payment
    OBVIOUS
  <2>2. SPaymentRow(k) \in txn[q].rows /\ LiveOf(k) \in SUBSET txn[q].arg.live
    BY <1>1, <1>8, <2>1 DEF Knows
  <2>3. LiveOf(k)' \in SUBSET LiveOf(k)
    BY <1>3
  <2> QED BY <1>8, <2>1, <2>2, <2>3 DEF Knows
<1>9. CASE txn[q].op \notin {"pay_supplier_write", "apply_supplier_write", "cancel_supplier_write"}
  BY <1>1, <1>9 DEF Knows, Covers
<1> QED BY <1>6, <1>7, <1>8, <1>9

\* Adding keeps the book: what was checked is within credit and balances.
LEMMA BookAfterAdding ==
    ASSUME BookSound, DrawerInv, DrawerInv', NEW p \in 1..MaxPayments, NEW items \in ItemLists,
           sapplication' = Added(p, items), Len(spayment') <= MaxPayments,
           p \in DOMAIN spayment', ~ spayment'[p].cancelled,
           DOMAIN spayment' = DOMAIN spayment \cup {p},
           \A k \in DOMAIN spayment : spayment'[k] = spayment[k],
           items # << >> => CheckApplications(items, spayment'[p].supplier,
                                              spayment'[p].amount - PaymentApplied(p)),
           PaymentApplied(p) <= spayment'[p].amount
    PROVE  BookSound'
<1>1. ApplicationsTyped
  BY DEF BookSound
<1>2. /\ ApplicationsTyped'
      /\ \A a \in DOMAIN sapplication : sapplication'[a] = sapplication[a]
      /\ \A i \in DOMAIN items :
            sapplication'[Len(sapplication) + i] =
                [payment |-> p, order |-> items[i].order, amount |-> items[i].amount,
                 cancelled |-> FALSE]
      /\ \A a \in DOMAIN sapplication' :
            a \notin DOMAIN sapplication => \E i \in DOMAIN items : a = Len(sapplication) + i
  BY <1>1, AddedRows, Zenon
<1>3. /\ PaymentApplied(p)' = PaymentApplied(p) + AmountOf(items)
      /\ \A q : q # p => PaymentApplied(q)' = PaymentApplied(q)
      /\ \A i \in DOMAIN items :
            PoApplied(items[i].order)' = PoApplied(items[i].order) + items[i].amount
      /\ \A o : o \notin OrdersOf(items) => PoApplied(o)' = PoApplied(o)
  BY <1>1, AddedAmounts
<1>4. /\ \A q : PaymentApplied(q) \in Nat
      /\ \A o : PoApplied(o) \in Nat
      /\ AmountOf(items) \in Nat
      /\ \A i \in DOMAIN items : items[i].order \in POs /\ items[i].amount \in Nat
      /\ \A o \in POs : OrderTotal[o] \in Nat
      /\ spayment'[p].amount \in Nat
  <2>1. spayment'[p] \in SupplierPaymentRows
    <3>1. spayment' \in Seq(SupplierPaymentRows)
      BY DEF DrawerInv
    <3> QED BY <3>1
  <2>2. spayment'[p].amount \in Nat
    BY <2>1 DEF SupplierPaymentRows
  <2> QED BY <1>1, <2>2, ApplicationTerms, ItemType, SupplierConstants DEF SupplierConstants
<1>5. CheckApplications(items, spayment'[p].supplier, spayment'[p].amount - PaymentApplied(p))
      \/ items = << >>
  OBVIOUS
<1>6. PaymentApplied(p)' <= spayment'[p].amount
  <2>1. CASE items = << >>
    <3>1. DOMAIN items = {}
      BY <2>1
    <3>2. AmountOf(items) = SumFunctionOnSet([i \in DOMAIN items |-> items[i].amount], {})
      BY <3>1 DEF AmountOf, SumFunction
    <3>3. AmountOf(items) = 0
      BY <3>2, SumOfNone
    <3> QED BY <1>3, <1>4, <3>3
  <2>2. CASE items # << >>
    <3>1. AmountOf(items) <= spayment'[p].amount - PaymentApplied(p)
      BY <2>2 DEF CheckApplications
    <3> QED BY <1>3, <1>4, <3>1
  <2> QED BY <2>1, <2>2
<1>7. ASSUME NEW k \in DOMAIN spayment' PROVE PaymentApplied(k)' <= spayment'[k].amount
  <2>1. CASE k = p
    BY <1>6, <2>1
  <2>2. CASE k # p
    BY <1>3, <2>2 DEF BookSound
  <2> QED BY <2>1, <2>2
<1>8. ASSUME NEW o \in POs PROVE PoApplied(o)' <= OrderTotal[o]
  <2>1. CASE o \in OrdersOf(items)
    <3>1. PICK i \in DOMAIN items : items[i].order = o
      BY <2>1 DEF OrdersOf
    <3>2. items # << >>
      BY <3>1
    <3>3. items[i].amount <= OrderTotal[o] - PoApplied(o)
      BY <3>1, <3>2 DEF CheckApplications, PoBalance
    <3>4. PoApplied(o)' = PoApplied(o) + items[i].amount
      BY <1>3, <3>1
    <3> QED BY <1>4, <3>3, <3>4
  <2>2. CASE o \notin OrdersOf(items)
    BY <1>3, <2>2 DEF BookSound
  <2> QED BY <2>1, <2>2
<1>9. ASSUME NEW a \in DOMAIN sapplication', ~ sapplication'[a].cancelled
      PROVE  /\ sapplication'[a].payment \in DOMAIN spayment'
             /\ ~ spayment'[sapplication'[a].payment].cancelled
             /\ sapplication'[a].order \in Counting
             /\ SupplierOf[sapplication'[a].order] = spayment'[sapplication'[a].payment].supplier
  <2>1. CASE a \in DOMAIN sapplication
    <3>1. sapplication'[a] = sapplication[a]
      BY <1>2, <2>1
    <3>2. PICK k : k = sapplication[a].payment
      OBVIOUS
    <3>3. /\ k \in DOMAIN spayment /\ ~ spayment[k].cancelled /\ sapplication[a].order \in Counting
          /\ SupplierOf[sapplication[a].order] = spayment[k].supplier
      BY <1>9, <2>1, <3>1, <3>2 DEF BookSound
    <3>4. spayment'[k] = spayment[k] /\ k \in DOMAIN spayment'
      BY <3>3
    <3> QED BY <3>1, <3>2, <3>3, <3>4
  <2>2. CASE a \notin DOMAIN sapplication
    <3>1. PICK i \in DOMAIN items : a = Len(sapplication) + i
      BY <1>2, <2>2
    <3>2. sapplication'[a].payment = p /\ sapplication'[a].order = items[i].order
      <4>1. sapplication'[a] = [payment |-> p, order |-> items[i].order,
                                amount |-> items[i].amount, cancelled |-> FALSE]
        BY <1>2, <3>1
      <4> QED BY <4>1
    <3>3. items # << >>
      BY <3>1
    <3>4. SupplierOf[items[i].order] = spayment'[p].supplier /\ items[i].order \in Counting
      BY <3>1, <3>3 DEF CheckApplications
    <3> QED BY <3>2, <3>4
  <2> QED BY <2>1, <2>2
<1> QED BY <1>2, <1>7, <1>8, <1>9 DEF BookSound

\* Cancelling keeps it, if a payment that is cancelled has nothing live left.
LEMMA BookAfterCancelling ==
    ASSUME BookSound, NEW gone,
           sapplication' = [a \in DOMAIN sapplication |->
                               IF a \in gone THEN [sapplication[a] EXCEPT !.cancelled = TRUE]
                               ELSE sapplication[a]],
           Len(spayment') = Len(spayment), DOMAIN spayment' = DOMAIN spayment,
           \A k \in DOMAIN spayment :
               /\ spayment'[k].amount = spayment[k].amount /\ spayment[k].amount \in Nat
               /\ spayment'[k].supplier = spayment[k].supplier
               /\ spayment'[k].cancelled => spayment[k].cancelled \/ LiveOf(k) \in SUBSET gone
    PROVE  BookSound'
<1>1. ApplicationsTyped
  BY DEF BookSound
<1>2. /\ ApplicationsTyped'
      /\ DOMAIN sapplication' = DOMAIN sapplication
      /\ \A a \in DOMAIN sapplication :
            /\ sapplication'[a].payment = sapplication[a].payment
            /\ sapplication'[a].order = sapplication[a].order
            /\ ~ sapplication'[a].cancelled <=> ~ sapplication[a].cancelled /\ a \notin gone
      /\ \A p : PaymentApplied(p)' <= PaymentApplied(p)
      /\ \A o : PoApplied(o)' <= PoApplied(o)
  BY <1>1, CancelledAmounts
<1>3. /\ \A p : PaymentApplied(p) \in Nat
      /\ \A o : PoApplied(o) \in Nat
      /\ \A o \in POs : OrderTotal[o] \in Nat
  BY <1>1, ApplicationTerms, SupplierConstants DEF SupplierConstants
<1>4. /\ \A p : PaymentApplied(p)' \in Int
      /\ \A o : PoApplied(o)' \in Int
  <2>1. /\ \A k : IsFiniteSet(LiveOf(k)') /\ \A a \in LiveOf(k)' : AppliedAmounts'[a] \in Nat
        /\ \A o : IsFiniteSet(LiveTo(o)') /\ \A a \in LiveTo(o)' : AppliedAmounts'[a] \in Nat
    <3>1. /\ \A k : IsFiniteSet(LiveOf(k)')
          /\ \A o : IsFiniteSet(LiveTo(o)')
          /\ \A a \in DOMAIN sapplication' : AppliedAmounts'[a] \in Nat
      BY <1>2, ApplicationTermsNext
    <3>2. /\ \A k : LiveOf(k)' \in SUBSET DOMAIN sapplication'
          /\ \A o : LiveTo(o)' \in SUBSET DOMAIN sapplication'
      BY DEF LiveOf, LiveTo
    <3> QED BY <3>1, <3>2
  <2>2. /\ \A k : PaymentApplied(k)' \in Nat
        /\ \A o : PoApplied(o)' \in Nat
    BY <2>1, SumIsNat DEF PaymentApplied, PoApplied
  <2> QED BY <2>2
<1>5. \A p \in DOMAIN spayment' : PaymentApplied(p)' <= spayment'[p].amount
  <2> SUFFICES ASSUME NEW p \in DOMAIN spayment PROVE PaymentApplied(p)' <= spayment[p].amount
    OBVIOUS
  <2>1. PaymentApplied(p) <= spayment[p].amount /\ spayment[p].amount \in Nat
    BY DEF BookSound
  <2> QED BY <1>2, <1>3, <1>4, <2>1
<1>6. \A o \in POs : PoApplied(o)' <= OrderTotal[o]
  <2> SUFFICES ASSUME NEW o \in POs PROVE PoApplied(o)' <= OrderTotal[o]
    OBVIOUS
  <2>1. PoApplied(o) <= OrderTotal[o]
    BY DEF BookSound
  <2> QED BY <1>2, <1>3, <1>4, <2>1
<1>7. ASSUME NEW a \in DOMAIN sapplication', ~ sapplication'[a].cancelled
      PROVE  /\ sapplication'[a].payment \in DOMAIN spayment'
             /\ ~ spayment'[sapplication'[a].payment].cancelled
             /\ sapplication'[a].order \in Counting
             /\ SupplierOf[sapplication'[a].order] = spayment'[sapplication'[a].payment].supplier
  <2>1. /\ a \in DOMAIN sapplication /\ ~ sapplication[a].cancelled /\ a \notin gone
        /\ sapplication'[a].payment = sapplication[a].payment
        /\ sapplication'[a].order = sapplication[a].order
    BY <1>2, <1>7
  <2>2. PICK k : k = sapplication[a].payment
    OBVIOUS
  <2>3. /\ k \in DOMAIN spayment /\ ~ spayment[k].cancelled /\ sapplication[a].order \in Counting
        /\ SupplierOf[sapplication[a].order] = spayment[k].supplier
    BY <2>1, <2>2 DEF BookSound
  <2>4. a \in LiveOf(k)
    BY <2>1, <2>2 DEF LiveOf
  <2> QED BY <2>1, <2>2, <2>3, <2>4
<1> QED BY <1>2, <1>5, <1>6, <1>7 DEF BookSound

\* Shifts, takings and vouchers: their locks are one session, or a session and
\* a voucher, and they write no supplier payment.
LEMMA CashOrderly ==
    ASSUME PayablesInv, DrawerInv', Shift \/ Till \/ ExpenseVoucher
    PROVE  PayablesInv'
<1> USE DEF QuietOps
<1>1. /\ \A s \in Sessions : Ascends(<<SessionRow(s)>>)
      /\ Ascends(<< >>)
      /\ \A s \in Sessions, v \in Vouchers : Ascends(<<SessionRow(s), VoucherRow(v)>>)
  <2>1. \A s \in Sessions : SessionRow(s) \in LockRows
    BY DEF LockRows
  <2>2. \A v \in Vouchers : VoucherRow(v) \in LockRows
    BY DEF LockRows
  <2>3. ASSUME NEW s \in Sessions, NEW v \in Vouchers
        PROVE  Ascends(<<SessionRow(s), VoucherRow(v)>>)
    <3> DEFINE x == SessionRow(s)
               y == VoucherRow(v)
    <3>1. x \in LockRows /\ y \in LockRows /\ Before(x, y)
      BY <2>1, <2>2, KindsOfRows DEF Before
    <3> HIDE DEF x, y
    <3>2. Ascends(<<x, y>>)
      BY <3>1 DEF Ascends
    <3> QED BY <3>2 DEF x, y
  <2> QED BY <2>1, <2>3, FewAscend
<1>2. CASE Shift
  <2>1. ASSUME NEW r \in Requests, NEW c \in Cashiers, NEW d \in Drawers, OpenRead(r, c, d)
        PROVE  PayablesInv'
    BY <1>1, <2>1, QuietBegin DEF OpenRead
  <2>2. ASSUME NEW r \in Requests, NEW s \in Sessions, NEW amount \in Floats,
               OpenCommit(r, s, amount)
        PROVE  PayablesInv'
    BY <2>2, QuietEnd DEF OpenCommit
  <2>3. ASSUME NEW r \in Requests, NEW s \in Sessions, CloseBegin(r, s)
        PROVE  PayablesInv'
    BY <1>1, <2>3, QuietBegin DEF CloseBegin
  <2>4. ASSUME NEW r \in Requests, NEW counted \in Floats, CloseCommit(r, counted)
        PROVE  PayablesInv'
    BY <2>4, QuietEnd DEF CloseCommit
  <2> QED BY <1>2, <2>1, <2>2, <2>3, <2>4 DEF Shift
<1>3. CASE Till
  <2>1. ASSUME NEW r \in Requests, NEW c \in Cashiers, TakeBegin(r, c)
        PROVE  PayablesInv'
    <3>1. PICK s : s = OpenSessionForCashier(c)
      OBVIOUS
    <3>2. s \in Sessions
      BY <2>1, <3>1, FoundSession DEF TakeBegin
    <3>3. Begins(r, "take", [session |-> s], <<SessionRow(s)>>) /\ UNCHANGED tables
      BY <2>1, <3>1 DEF TakeBegin, TakeWant
    <3> QED BY <1>1, <3>2, <3>3, QuietBegin
  <2>2. ASSUME NEW r \in Requests, NEW t \in Takings, NEW amount \in Tenders,
               TakeCommit(r, t, amount)
        PROVE  PayablesInv'
    BY <2>2, QuietEnd DEF TakeCommit
  <2>3. ASSUME NEW t \in Takings, NEW change \in Expenses,
               GiveChange(t, change) \/ TakeChangeBack(t, change)
        PROVE  PayablesInv'
    BY <2>3, QuietAside DEF GiveChange, TakeChangeBack
  <2> QED BY <1>3, <2>1, <2>2, <2>3 DEF Till
<1>4. CASE ExpenseVoucher
  <2>1. ASSUME NEW v \in Vouchers, NEW c \in Cashiers, CreateVoucher(v, c)
        PROVE  PayablesInv'
    BY <2>1, QuietAside DEF CreateVoucher
  <2>2. ASSUME NEW v \in Vouchers, NEW c \in Cashiers, NEW l \in VoucherLines,
               NEW amount \in Expenses \cup {0}, EditLine(v, c, l, amount)
        PROVE  PayablesInv'
    BY <2>2, QuietAside DEF EditLine
  <2>3. ASSUME NEW v \in Vouchers, NEW c \in Cashiers, CancelDraft(v, c)
        PROVE  PayablesInv'
    BY <2>3, QuietAside DEF CancelDraft
  <2>4. ASSUME NEW r \in Requests, NEW v \in Vouchers, NEW c \in Cashiers,
               ConfirmVoucherBegin(r, v, c)
        PROVE  PayablesInv'
    <3>1. PICK s : s = OpenSessionForCashier(c)
      OBVIOUS
    <3>2. s \in Sessions
      BY <2>4, <3>1, FoundSession DEF ConfirmVoucherBegin
    <3>3. PICK arg : arg = [voucher |-> v, cashier |-> c, session |-> s]
      OBVIOUS
    <3>4. Begins(r, "confirm_voucher", arg, <<SessionRow(s), VoucherRow(v)>>) /\ UNCHANGED tables
      BY <2>4, <3>1, <3>3 DEF ConfirmVoucherBegin
    <3> QED BY <1>1, <3>2, <3>4, QuietBegin
  <2>5. ASSUME NEW r \in Requests, ConfirmVoucherCommit(r)
        PROVE  PayablesInv'
    BY <2>5, QuietEnd DEF ConfirmVoucherCommit
  <2>6. ASSUME NEW r \in Requests, NEW v \in Vouchers, VoidBegin(r, v)
        PROVE  PayablesInv'
    <3>1. PICK s, arg : s = voucher[v].session /\ arg = [voucher |-> v, session |-> s]
      OBVIOUS
    <3>2. s \in Sessions
      BY <2>6, <3>1 DEF VoidBegin, IsConfirmed, PayablesInv, DrawerInv, VoucherRows
    <3>3. Begins(r, "void", arg, <<SessionRow(s), VoucherRow(v)>>) /\ UNCHANGED tables
      BY <2>6, <3>1 DEF VoidBegin
    <3> QED BY <1>1, <3>2, <3>3, QuietBegin
  <2>7. ASSUME NEW r \in Requests, VoidCommit(r)
        PROVE  PayablesInv'
    BY <2>7, QuietEnd DEF VoidCommit
  <2> QED BY <1>4, <2>1, <2>2, <2>3, <2>4, <2>5, <2>6, <2>7 DEF ExpenseVoucher
<1> QED BY <1>2, <1>3, <1>4

\* A request's rows before any it wants; with nothing wanted, just its rows.
LEMMA RowsHeld ==
    ASSUME PayablesInv, NEW r \in Requests, txn[r].op # "idle", txn[r].want = << >>
    PROVE  /\ txn[r].rows \in SUBSET LockRows
           /\ InOrder(txn[r].rows, << >>)
           /\ \A y : Covers(r, y) => y \in txn[r].rows
<1>1. txn[r] # Idle
  BY DEF Idle
<1>2. InOrder(txn[r].rows, txn[r].want)
  BY <1>1 DEF PayablesInv, Orderly
<1>3. DOMAIN txn[r].want = {}
  OBVIOUS
<1>4. \A y : Covers(r, y) => y \in txn[r].rows
  BY <1>3 DEF Covers
<1> QED BY <1>2, <1>4 DEF InOrder

\* Creating a payment.
LEMMA PaySupplierOrderly ==
    ASSUME PayablesInv, DrawerInv', PaySupplier
    PROVE  PayablesInv'
<1>0. DrawerInv /\ BookSound /\ ApplicationsTyped
  BY DEF PayablesInv, BookSound
<1>1. ASSUME NEW r \in Requests, NEW c \in Cashiers, NEW cash \in BOOLEAN, NEW f \in Facilities,
             NEW supplier \in Suppliers, NEW amount \in PaymentAmounts, NEW items \in ItemLists,
             CreateSupplierBegin(r, c, cash, f, supplier, amount, items)
      PROVE  PayablesInv'
  <2>1. PICK s : s = IF cash THEN OpenSessionForCashier(c) ELSE None
    OBVIOUS
  <2>2. s \in Sessions \cup {None} /\ (s # None => IsOpen(s))
    BY <2>1, FoundSession
  <2>3. PICK facility : facility = IF s = None THEN f ELSE FacilityOf[session[s].drawer]
    OBVIOUS
  <2>4. facility \in Facilities
    BY <1>0, <2>2, <2>3, SupplierConstants DEF SupplierConstants, IsOpen, DrawerInv, SessionRows
  <2>5. PICK arg : arg = [session |-> s, facility |-> facility, supplier |-> supplier,
                          amount |-> amount, items |-> items]
    OBVIOUS
  <2>6. Begins(r, "pay_supplier", arg, CreateWant(s, items, facility)) /\ UNCHANGED tables
    BY <1>1, <2>1, <2>3, <2>5 DEF CreateSupplierBegin
  <2>7. arg.items = items
    BY <2>5
  <2>8. PICK want : want = CreateWant(s, items, facility)
    OBVIOUS
  <2>9. Ascends(want) /\ \A o \in OrdersOf(items) : \E i \in DOMAIN want : want[i] = PoRow(o)
    BY <2>2, <2>4, <2>8, CreateWantAscends
  <2>10. txn'[r] = Request("pay_supplier", arg, {}, want) => Knows(r)'
    BY <2>7, <2>9 DEF Knows, Request, Covers
  <2> QED BY <2>6, <2>8, <2>9, <2>10, BeginOrderly
<1>2. ASSUME NEW r \in Requests, CreateSupplierCheck(r)
      PROVE  PayablesInv'
  <2>1. PICK q, arg : q = txn[r].arg /\ arg = [request |-> q, found |-> NextSupplierFolio(q.facility)]
    OBVIOUS
  <2>2. /\ txn' = [txn EXCEPT ![r] = Request("pay_supplier_write", arg, txn[r].rows, << >>)]
        /\ UNCHANGED tables /\ txn[r].op = "pay_supplier" /\ txn[r].want = << >>
        /\ q.items # << >> => CheckApplications(q.items, q.supplier, q.amount)
    BY <1>2, <2>1 DEF CreateSupplierCheck, Checked, Locked
  <2>3. Knows(r) /\ HoldsOrders(r, q.items) /\ InOrder(txn[r].rows, << >>)
    BY <2>1, <2>2, RowsHeld DEF PayablesInv, Knows, HoldsOrders
  <2>4. PICK its, s, c : its = q.items /\ s = q.supplier /\ c = q.amount
    OBVIOUS
  <2>5. CheckApplications(its, s, c) => CheckApplications(its, s, c)'
    BY <2>2 DEF tables, supplierTables, CheckApplications, PoBalance, PoApplied,
                AppliedAmounts, LiveTo
  <2>6. arg.request = q
    BY <2>1
  <2>7. txn'[r] = Request("pay_supplier_write", arg, txn[r].rows, << >>) => Knows(r)'
    BY <2>2, <2>3, <2>4, <2>5, <2>6 DEF Knows, Request, HoldsOrders
  <2> QED BY <2>2, <2>3, <2>7, CheckOrderly
<1>3. ASSUME NEW r \in Requests, CreateSupplierWrite(r)
      PROVE  PayablesInv'
  <2>1. PICK q, p : q = txn[r].arg.request /\ p = Len(spayment) + 1
    OBVIOUS
  <2>2. /\ txn[r].op = "pay_supplier_write" /\ p <= MaxPayments
        /\ spayment' = Append(spayment,
              [supplier |-> q.supplier, amount |-> q.amount, facility |-> q.facility,
               serial |-> txn[r].arg.found, session |-> q.session, cancelled |-> FALSE])
        /\ sapplication' = Added(p, q.items) /\ Ends(r)
    BY <1>3, <2>1 DEF CreateSupplierWrite, Locked
  <2>3. /\ PaymentRequest(q) /\ txn[r].arg.found \in Nat /\ HoldsOrders(r, q.items)
        /\ q.items # << >> => CheckApplications(q.items, q.supplier, q.amount)
    BY <1>0, <2>1, <2>2 DEF DrawerInv, Sound, PayablesInv, Knows
  <2>4. PICK row : row = [supplier |-> q.supplier, amount |-> q.amount, facility |-> q.facility,
                          serial |-> txn[r].arg.found, session |-> q.session, cancelled |-> FALSE]
    OBVIOUS
  <2>5. /\ row.supplier = q.supplier /\ row.amount = q.amount /\ ~ row.cancelled
        /\ q.items \in ItemLists /\ q.amount \in Nat
    BY <2>3, <2>4, SupplierConstants DEF SupplierConstants, PaymentRequest
  <2>6. /\ DOMAIN spayment = 1..Len(spayment) /\ Len(spayment) \in Nat
        /\ DOMAIN spayment' = DOMAIN spayment \cup {p} /\ p \notin DOMAIN spayment
        /\ Len(spayment') = p /\ p \in 1..MaxPayments
        /\ spayment'[p] = row /\ \A k \in DOMAIN spayment : spayment'[k] = spayment[k]
    <3>1. spayment \in Seq(SupplierPaymentRows)
      BY <1>0 DEF DrawerInv
    <3>2. /\ DOMAIN spayment = 1..Len(spayment) /\ Len(spayment) \in Nat
          /\ DOMAIN Append(spayment, row) = 1..(Len(spayment) + 1)
          /\ Len(Append(spayment, row)) = Len(spayment) + 1
          /\ Append(spayment, row)[Len(spayment) + 1] = row
          /\ \A k \in DOMAIN spayment : Append(spayment, row)[k] = spayment[k]
      BY <3>1
    <3>3. spayment' = Append(spayment, row)
      BY <2>2, <2>4
    <3> QED BY <2>1, <2>2, <3>2, <3>3, SupplierConstants DEF SupplierConstants
  <2>7. PaymentApplied(p) = 0
    <3>1. LiveOf(p) = {}
      BY <1>0, <2>6 DEF BookSound, LiveOf
    <3> QED BY <3>1, SumOfNone DEF PaymentApplied
  <2>8. PICK its, s, c : its = q.items /\ s = q.supplier /\ c = q.amount
    OBVIOUS
  <2>9. its # << >> => CheckApplications(its, s, c - PaymentApplied(p))
    <3>1. c - PaymentApplied(p) = c
      BY <2>5, <2>7, <2>8
    <3> QED BY <2>3, <2>8, <3>1
  <2>10. BookSound'
    <3>1. /\ its \in ItemLists /\ sapplication' = Added(p, its) /\ Len(spayment') <= MaxPayments
          /\ p \in DOMAIN spayment' /\ ~ spayment'[p].cancelled
          /\ spayment'[p].supplier = s /\ spayment'[p].amount = c /\ PaymentApplied(p) <= c
      BY <2>2, <2>5, <2>6, <2>7, <2>8
    <3> QED BY <1>0, <2>6, <2>9, <3>1, BookAfterAdding
  <2>11. \A k \in Requests \ {r} : Knows(k)'
    <3>1. \A k \in Requests \ {r} : txn'[k] = txn[k]
      BY <1>0, <2>2, EndedKnows
    <3>2. txn[r].op # "idle" /\ HoldsOrders(r, its) /\ its \in ItemLists
          /\ sapplication' = Added(p, its)
      BY <2>2, <2>3, <2>5, <2>8
    <3>3. \A k \in DOMAIN spayment : k \in DOMAIN spayment' /\ spayment'[k] = spayment[k]
      BY <2>6
    <3> QED BY <2>6, <3>1, <3>2, <3>3, OthersAfterAdding
  <2>12. Knows(r)' /\ Holds(r)' = {} /\ txn' = [txn EXCEPT ![r] = Idle]
    BY <1>0, <2>2, EndedKnows DEF Ends
  <2> QED BY <2>10, <2>11, <2>12, PayablesStep
<1> QED BY <1>1, <1>2, <1>3 DEF PaySupplier

\* Applying one.
LEMMA ApplySupplierOrderly ==
    ASSUME PayablesInv, DrawerInv', ApplySupplier
    PROVE  PayablesInv'
<1>0. DrawerInv /\ BookSound /\ ApplicationsTyped
  BY DEF PayablesInv, BookSound
<1>1. ASSUME NEW r \in Requests, NEW p \in DOMAIN spayment, NEW items \in ItemLists,
             ApplySupplierBegin(r, p, items)
      PROVE  PayablesInv'
  <2>1. PICK arg, want : arg = [payment |-> p, items |-> items] /\ want = ApplyWant(p, items)
    OBVIOUS
  <2>2. Begins(r, "apply_supplier", arg, want) /\ UNCHANGED tables
    BY <1>1, <2>1 DEF ApplySupplierBegin
  <2>3. p \in Nat /\ arg.payment = p /\ arg.items = items
    BY <1>0, <2>1, PaymentTerms
  <2>4. /\ Ascends(want)
        /\ \E i \in DOMAIN want : want[i] = SPaymentRow(p)
        /\ \A o \in OrdersOf(items) : \E i \in DOMAIN want : want[i] = PoRow(o)
    BY <2>1, <2>3, OrdersFinite, ApplyWantAscends
  <2>5. spayment' = spayment
    BY <2>2 DEF tables, supplierTables
  <2>6. txn'[r] = Request("apply_supplier", arg, {}, want) => Knows(r)'
    BY <2>3, <2>4, <2>5 DEF Knows, Request, Covers
  <2> QED BY <2>2, <2>4, <2>6, BeginOrderly
<1>2. ASSUME NEW r \in Requests, ApplySupplierCheck(r)
      PROVE  PayablesInv'
  <2>1. PICK q, arg : q = txn[r].arg /\ arg = [request |-> q, found |-> q.items]
    OBVIOUS
  <2>2. /\ txn' = [txn EXCEPT ![r] = Request("apply_supplier_write", arg, txn[r].rows, << >>)]
        /\ UNCHANGED tables /\ txn[r].op = "apply_supplier" /\ txn[r].want = << >>
        /\ ~ spayment[q.payment].cancelled
        /\ CheckApplications(q.items, spayment[q.payment].supplier, PaymentCredit(q.payment))
    BY <1>2, <2>1 DEF ApplySupplierCheck, Checked, Locked
  <2>3. /\ q.payment \in DOMAIN spayment /\ q.items \in ItemLists
        /\ SPaymentRow(q.payment) \in txn[r].rows
        /\ HoldsOrders(r, q.items) /\ InOrder(txn[r].rows, << >>)
    BY <2>1, <2>2, RowsHeld DEF PayablesInv, Knows, HoldsOrders
  <2>4. PICK its, p, s, c : its = q.items /\ p = q.payment /\ s = spayment[p].supplier
                            /\ c = PaymentCredit(p)
    OBVIOUS
  <2>5. spayment' = spayment /\ PaymentCredit(p)' = c /\ CheckApplications(its, s, c)'
    BY <2>2, <2>4 DEF tables, supplierTables, CheckApplications, PoBalance, PoApplied,
                AppliedAmounts, LiveTo, PaymentCredit, PaymentApplied, LiveOf
  <2>6. arg.request = q
    BY <2>1
  <2>7. txn'[r] = Request("apply_supplier_write", arg, txn[r].rows, << >>) => Knows(r)'
    BY <2>2, <2>3, <2>4, <2>5, <2>6 DEF Knows, Request, HoldsOrders
  <2> QED BY <2>2, <2>3, <2>7, CheckOrderly
<1>3. ASSUME NEW r \in Requests, ApplySupplierWrite(r)
      PROVE  PayablesInv'
  <2>1. PICK q, p, its, c : q = txn[r].arg.request /\ p = q.payment /\ its = q.items
                            /\ c = PaymentCredit(p)
    OBVIOUS
  <2>2. /\ txn[r].op = "apply_supplier_write" /\ Ends(r) /\ sapplication' = Added(p, its)
        /\ spayment' = spayment
    BY <1>3, <2>1 DEF ApplySupplierWrite, Locked
  <2>3. /\ p \in DOMAIN spayment /\ its \in ItemLists /\ SPaymentRow(p) \in txn[r].rows
        /\ HoldsOrders(r, its) /\ ~ spayment[p].cancelled
        /\ CheckApplications(its, spayment[p].supplier, c)
    BY <2>1, <2>2 DEF PayablesInv, Knows
  <2>4. p \in 1..MaxPayments
    BY <1>0, <2>3, PaymentTerms, SupplierConstants DEF SupplierConstants, BookSound
  <2>5. CheckApplications(its, spayment[p].supplier, spayment[p].amount - PaymentApplied(p))
    BY <2>1, <2>3 DEF PaymentCredit
  <2>6. BookSound'
    <3>1. /\ Len(spayment') <= MaxPayments /\ PaymentApplied(p) <= spayment'[p].amount
          /\ DOMAIN spayment' = DOMAIN spayment \cup {p}
      BY <1>0, <2>2, <2>3 DEF BookSound
    <3> QED BY <1>0, <2>2, <2>3, <2>4, <2>5, <3>1, BookAfterAdding
  <2>7. \A k \in Requests \ {r} : Knows(k)'
    <3>1. \A k \in Requests \ {r} : txn'[k] = txn[k]
      BY <1>0, <2>2, EndedKnows
    <3> QED BY <2>2, <2>3, <2>4, <3>1, OthersAfterAdding
  <2>8. Knows(r)' /\ Holds(r)' = {} /\ txn' = [txn EXCEPT ![r] = Idle]
    BY <1>0, <2>2, EndedKnows DEF Ends
  <2> QED BY <2>6, <2>7, <2>8, PayablesStep
<1> QED BY <1>1, <1>2, <1>3 DEF ApplySupplier

\* Reversing an application, and cancelling a payment.
LEMMA UnwindSupplierOrderly ==
    ASSUME PayablesInv, DrawerInv', UnwindSupplier
    PROVE  PayablesInv'
<1>0. DrawerInv /\ BookSound /\ ApplicationsTyped
  BY DEF PayablesInv, BookSound
<1>1. ASSUME NEW r \in Requests, NEW a \in DOMAIN sapplication, ReverseSupplierBegin(r, a)
      PROVE  PayablesInv'
  <2>1. PICK row : row = sapplication[a]
    OBVIOUS
  <2>2. row \in SupplierApplicationRows
    BY <1>0, <2>1, ApplicationTerms
  <2>3. row.payment \in Nat /\ row.order \in POs
    BY <2>2, SupplierConstants DEF SupplierApplicationRows, SupplierConstants
  <2>4. OrdersOf(<<row>>) = {row.order}
    BY DEF OrdersOf
  <2>5. OrdersOf(<<row>>) \in SUBSET POs /\ IsFiniteSet(OrdersOf(<<row>>))
    BY <2>3, <2>4, FS_Singleton
  <2>6. Ascends(ApplyWant(row.payment, <<row>>))
    BY <2>3, <2>5, ApplyWantAscends
  <2>7. PICK arg : arg = [application |-> a]
    OBVIOUS
  <2>8. Begins(r, "reverse_supplier", arg, ApplyWant(row.payment, <<row>>)) /\ UNCHANGED tables
    BY <1>1, <2>1, <2>7 DEF ReverseSupplierBegin
  <2> QED BY <2>6, <2>8, QuietBegin DEF QuietOps
<1>2. ASSUME NEW r \in Requests, ReverseSupplierCommit(r)
      PROVE  PayablesInv'
  <2>1. PICK a, gone : a = txn[r].arg.application /\ gone = {a}
    OBVIOUS
  <2>2. /\ txn[r].op = "reverse_supplier" /\ Ends(r) /\ spayment' = spayment
        /\ sapplication' = [sapplication EXCEPT ![a].cancelled = TRUE]
    BY <1>2, <2>1 DEF ReverseSupplierCommit, Locked
  <2>3. sapplication' = [b \in DOMAIN sapplication |->
                            IF b \in gone THEN [sapplication[b] EXCEPT !.cancelled = TRUE]
                            ELSE sapplication[b]]
    BY <2>1, <2>2
  <2>4. BookSound'
    <3>1. \A k \in DOMAIN spayment : spayment[k].amount \in Nat
      BY <1>0, PaymentTerms
    <3> QED BY <1>0, <2>2, <2>3, <3>1, BookAfterCancelling
  <2>5. \A k \in Requests \ {r} : Knows(k)'
    <3>1. \A k \in Requests \ {r} : txn'[k] = txn[k]
      BY <1>0, <2>2, EndedKnows
    <3> QED BY <2>2, <2>3, <3>1, OthersAfterCancelling
  <2>6. Knows(r)' /\ Holds(r)' = {} /\ txn' = [txn EXCEPT ![r] = Idle]
    BY <1>0, <2>2, EndedKnows DEF Ends
  <2> QED BY <2>4, <2>5, <2>6, PayablesStep
<1>3. ASSUME NEW r \in Requests, NEW p \in DOMAIN spayment, CancelSupplierBegin(r, p)
      PROVE  PayablesInv'
  <2>1. PICK s, arg, want : /\ s = spayment[p].session /\ arg = [payment |-> p]
                            /\ want = SessionLock(s) \o <<SPaymentRow(p)>>
    OBVIOUS
  <2>2. Begins(r, "cancel_supplier", arg, want) /\ UNCHANGED tables
    BY <1>3, <2>1 DEF CancelSupplierBegin, CancelWant
  <2>3. s \in Sessions \cup {None} /\ p \in Nat
    BY <1>0, <2>1, PaymentTerms DEF SupplierPaymentRows
  <2>4. /\ Ascends(want)
        /\ \E i \in DOMAIN want : want[i] = SPaymentRow(p)
        /\ \A i \in DOMAIN want : LockKind[want[i][1]] < 4
    BY <2>1, <2>3, CancelWantAscends
  <2>5. arg.payment = p
    BY <2>1
  <2>6. txn'[r] = Request("cancel_supplier", arg, {}, want) => Knows(r)'
    BY <2>4, <2>5 DEF Knows, Request, Covers
  <2> QED BY <2>2, <2>4, <2>6, BeginOrderly
<1>4. ASSUME NEW r \in Requests, CancelSupplierCheck(r)
      PROVE  PayablesInv'
  <2>1. PICK p, orders, arg, want :
          /\ p = txn[r].arg.payment
          /\ orders = {sapplication[a].order : a \in LiveOf(p)}
          /\ arg = [payment |-> p, live |-> LiveOf(p)]
          /\ want = LockOrders(orders)
    OBVIOUS
  <2>2. /\ txn[r].op = "cancel_supplier" /\ txn[r].want = << >> /\ UNCHANGED tables
        /\ txn' = [txn EXCEPT ![r] = Request("cancel_supplier_write", arg, txn[r].rows, want)]
    BY <1>4, <2>1 DEF CancelSupplierCheck, Locked
  <2>3. /\ SPaymentRow(p) \in txn[r].rows /\ txn[r].rows \in SUBSET LockRows
        /\ \A x \in txn[r].rows : LockKind[x[1]] < 4
    BY <2>1, <2>2, RowsHeld DEF PayablesInv, Knows
  <2>4. orders \in SUBSET POs /\ IsFiniteSet(orders)
    <3>1. IsFiniteSet(LiveOf(p)) /\ \A a \in LiveOf(p) : sapplication[a].order \in POs
      BY <1>0, ApplicationTerms DEF SupplierApplicationRows
    <3>2. [a \in LiveOf(p) |-> sapplication[a].order] \in Surjection(LiveOf(p), orders)
      BY <2>1 DEF Surjection
    <3>3. IsFiniteSet(orders)
      BY <3>1, <3>2, FS_Surjection
    <3> QED BY <2>1, <3>1, <3>3
  <2>5. Ascends(want) /\ \A i \in DOMAIN want : LockKind[want[i][1]] = 4
    <3>1. /\ Ascends(LockOrders(orders))
          /\ \A i \in DOMAIN LockOrders(orders) : \E o \in orders : LockOrders(orders)[i] = PoRow(o)
      BY <2>4, OrdersAscend
    <3> QED BY <2>1, <3>1, KindsOfRows
  <2>6. InOrder(txn[r].rows, want)
    <3>1. \A x \in txn[r].rows : LockKind[x[1]] \in Int
      BY <2>3, RowsAreNumbered
    <3> QED BY <2>3, <2>5, <3>1 DEF InOrder, Before
  <2>7. LiveOf(p)' = LiveOf(p) /\ arg.payment = p /\ arg.live = LiveOf(p)
    BY <2>1, <2>2 DEF tables, supplierTables, LiveOf
  <2>8. txn'[r] = Request("cancel_supplier_write", arg, txn[r].rows, want) => Knows(r)'
    BY <2>3, <2>7 DEF Knows, Request
  <2> QED BY <2>2, <2>6, <2>8, CheckOrderly
<1>5. ASSUME NEW r \in Requests, CancelSupplierWrite(r)
      PROVE  PayablesInv'
  <2>1. PICK p, gone : p = txn[r].arg.payment /\ gone = txn[r].arg.live
    OBVIOUS
  <2>2. /\ txn[r].op = "cancel_supplier_write" /\ Ends(r)
        /\ spayment' = [spayment EXCEPT ![p].cancelled = TRUE]
        /\ sapplication' = [a \in DOMAIN sapplication |->
                               IF a \in gone THEN [sapplication[a] EXCEPT !.cancelled = TRUE]
                               ELSE sapplication[a]]
    BY <1>5, <2>1 DEF CancelSupplierWrite, Locked
  <2>3. p \in DOMAIN spayment /\ SPaymentRow(p) \in txn[r].rows /\ LiveOf(p) \in SUBSET gone
    BY <1>0, <2>1, <2>2 DEF PayablesInv, Knows, DrawerInv, Sound
  <2>4. /\ DOMAIN spayment' = DOMAIN spayment /\ Len(spayment') = Len(spayment)
        /\ \A k \in DOMAIN spayment :
              /\ spayment'[k].amount = spayment[k].amount /\ spayment[k].amount \in Nat
              /\ spayment'[k].supplier = spayment[k].supplier
              /\ k # p => spayment'[k] = spayment[k]
    <3>1. \A k \in DOMAIN spayment : spayment[k] \in SupplierPaymentRows /\ spayment[k].amount \in Nat
      BY <1>0, PaymentTerms
    <3>2. DOMAIN spayment' = DOMAIN spayment
      BY <2>2
    <3>3. \A k \in DOMAIN spayment : k # p => spayment'[k] = spayment[k]
      BY <2>2
    <3>4. spayment'[p].amount = spayment[p].amount /\ spayment'[p].supplier = spayment[p].supplier
      BY <2>2, <2>3, <3>1 DEF SupplierPaymentRows
    <3>5. Len(spayment') = Len(spayment)
      <4>1. spayment \in Seq(SupplierPaymentRows) /\ spayment' \in Seq(SupplierPaymentRows)
        BY <1>0 DEF DrawerInv
      <4> QED BY <3>2, <4>1
    <3> QED BY <3>1, <3>2, <3>3, <3>4, <3>5
  <2>5. BookSound'
    BY <1>0, <2>2, <2>3, <2>4, BookAfterCancelling
  <2>6. \A k \in Requests \ {r} : Knows(k)'
    <3>1. \A k \in Requests \ {r} : txn'[k] = txn[k]
      BY <1>0, <2>2, EndedKnows
    <3>2. \A k \in DOMAIN spayment : spayment'[k] = spayment[k] \/ SPaymentRow(k) \in txn[r].rows
      BY <2>3, <2>4
    <3> QED BY <2>2, <2>4, <3>1, <3>2, OthersAfterCancelling
  <2>7. Knows(r)' /\ Holds(r)' = {} /\ txn' = [txn EXCEPT ![r] = Idle]
    BY <1>0, <2>2, EndedKnows DEF Ends
  <2> QED BY <2>5, <2>6, <2>7, PayablesStep
<1> QED BY <1>1, <1>2, <1>3, <1>4, <1>5 DEF UnwindSupplier

-----------------------------------------------------------------------------
(***************************************************************************)
(* Locks are never waited for in a circle of two.                          *)
(***************************************************************************)
\* At the start there is no payment, no application and no request.
LEMMA InitPayables == CashInit => PayablesInv
<1> SUFFICES ASSUME CashInit PROVE PayablesInv
  OBVIOUS
<1>1. DrawerInv
  BY InitInv
<1>2. spayment = << >> /\ sapplication = << >> /\ \A r \in Requests : txn[r] = Idle
  BY DEF CashInit
<1>3. \A r \in Requests : Orderly(r) /\ Knows(r) /\ Holds(r) = {}
  BY <1>2 DEF Orderly, Knows, Holds, Idle
<1>4. Exclusive
  BY <1>3 DEF Exclusive
<1>5. \A o : PoApplied(o) = 0
  <2>1. \A o : LiveTo(o) = {}
    BY <1>2 DEF LiveTo
  <2> QED BY <2>1, SumOfNone DEF PoApplied
<1>6. BookSound
  <2>1. ApplicationsTyped
    BY <1>2 DEF ApplicationsTyped
  <2>2. DOMAIN spayment = {} /\ DOMAIN sapplication = {} /\ Len(spayment) = 0
    BY <1>2
  <2>3. \A o \in POs : PoApplied(o) <= OrderTotal[o]
    BY <1>5, SupplierConstants DEF SupplierConstants
  <2>4. Len(spayment) <= MaxPayments
    BY <2>2, SupplierConstants DEF SupplierConstants
  <2> QED BY <2>1, <2>2, <2>3, <2>4 DEF BookSound
<1> QED BY <1>1, <1>3, <1>4, <1>6 DEF PayablesInv

\* Every step keeps it.
LEMMA NextOrderly ==
    ASSUME PayablesInv, [SupplierNext]_vars
    PROVE  PayablesInv'
<1>1. DrawerInv'
  BY NextKeeps DEF PayablesInv
<1>2. ASSUME NEW r \in Requests, Rollback(r) PROVE PayablesInv'
  <2>1. UNCHANGED supplierTables /\ Ends(r)
    BY <1>2 DEF Rollback, tables
  <2> QED BY <1>1, <2>1, QuietEnd
<1>3. ASSUME UNCHANGED vars PROVE PayablesInv'
  <2>1. UNCHANGED supplierTables /\ txn' = txn
    BY <1>3 DEF vars, tables
  <2> QED BY <1>1, <2>1, QuietAside
<1> QED BY <1>1, <1>2, <1>3, CashOrderly, PaySupplierOrderly, ApplySupplierOrderly,
           UnwindSupplierOrderly, AcquireOrderly DEF SupplierNext

\* Whatever creations, applications, reversals and cancellations are in
\* flight, each holds its rows in the one order and alone, what it checked
\* is still so when it writes, and the book of applications is sound.
THEOREM PayablesInvariance == SupplierSpec => []PayablesInv
BY InitPayables, NextOrderly, PTL DEF SupplierSpec

\* Two requests never wait for each other's rows: each wants only rows after
\* the ones it holds.
LEMMA OrderForbidsCircles == PayablesInv => NoCrossedWaits
<1> SUFFICES ASSUME PayablesInv, NEW r \in Requests, NEW q \in Requests, Crossed(r, q)
             PROVE  FALSE
  BY DEF NoCrossedWaits
<1>1. PICK x : x \in WaitsFor(r) /\ x \in Holds(q)
  BY DEF Crossed
<1>2. PICK y : y \in WaitsFor(q) /\ y \in Holds(r)
  BY DEF Crossed
<1>3. ASSUME NEW k \in Requests, NEW z, z \in WaitsFor(k)
      PROVE  z \in LockRows /\ \A held \in Holds(k) : held \in LockRows /\ Before(held, z)
  <2>1. txn[k] # Idle /\ txn[k].want # << >> /\ z = Head(txn[k].want)
    BY <1>3 DEF WaitsFor
  <2>2. InOrder(txn[k].rows, txn[k].want) /\ Holds(k) = txn[k].rows
    BY <2>1 DEF PayablesInv, Orderly, Holds
  <2>3. txn[k].want \in Seq(LockRows)
    BY <2>2 DEF InOrder, Ascends
  <2>4. 1 \in DOMAIN txn[k].want /\ z = txn[k].want[1] /\ z \in LockRows
    BY <2>1, <2>3
  <2> QED BY <2>2, <2>4 DEF InOrder
<1>4. Before(y, x) /\ Before(x, y) /\ x \in LockRows /\ y \in LockRows
  BY <1>1, <1>2, <1>3
<1> QED BY <1>4, OneComesFirst

\* No two requests wait for each other, whatever is in flight: creations,
\* applications, reversals, cancellations, closes and vouchers take their
\* rows in one order (_lock_orders ascending, after the session and the payment).
THEOREM NoRequestsCross == SupplierSpec => []NoCrossedWaits
BY PayablesInvariance, OrderForbidsCircles, PTL

-----------------------------------------------------------------------------
(***************************************************************************)
(* What is owed is what was ordered less what was paid.                    *)
(***************************************************************************)
\* What a supplier's orders are applied is what their payments are.
LEMMA AppliedOnBothSides ==
    ASSUME PayablesInv, NEW s \in Suppliers, NEW ordered, NEW paid,
           ordered = {o \in Counting : SupplierOf[o] = s},
           paid = {p \in DOMAIN spayment : spayment[p].supplier = s /\ ~ spayment[p].cancelled}
    PROVE  SumFunctionOnSet([o \in ordered |-> PoApplied(o)], ordered)
           = SumFunctionOnSet([p \in paid |-> PaymentApplied(p)], paid)
<1> DEFINE f == AppliedAmounts
           L == {a \in DOMAIN sapplication : /\ ~ sapplication[a].cancelled
                                             /\ SupplierOf[sapplication[a].order] = s}
           byPayment == [a \in DOMAIN sapplication |-> sapplication[a].payment]
           byOrder == [a \in DOMAIN sapplication |-> sapplication[a].order]
           live == [p \in paid |-> LiveOf(p)]
           liveTo == [o \in ordered |-> LiveTo(o)]
           ofPayment == [p \in paid |-> PaymentApplied(p)]
           toOrder == [o \in ordered |-> PoApplied(o)]
<1>1. ApplicationsTyped /\ DrawerInv
  BY DEF PayablesInv, BookSound
<1>2. /\ IsFiniteSet(DOMAIN sapplication)
      /\ \A a \in DOMAIN sapplication : f[a] \in Int
  BY <1>1, ApplicationTerms
<1>3. IsFiniteSet(L) /\ \A a \in L : f[a] \in Int
  BY <1>2, FS_Subset
<1>4. IsFiniteSet(paid) /\ IsFiniteSet(ordered)
  <2>1. DOMAIN spayment = 1..Len(spayment) /\ Len(spayment) \in Nat
    BY <1>1, PaymentTerms
  <2>2. IsFiniteSet(DOMAIN spayment)
    BY <2>1, FS_Interval
  <2> QED BY <2>2, FS_Subset, SupplierConstants DEF SupplierConstants
<1>5. \A a \in DOMAIN sapplication : ~ sapplication[a].cancelled =>
          /\ sapplication[a].payment \in DOMAIN spayment
          /\ ~ spayment[sapplication[a].payment].cancelled
          /\ sapplication[a].order \in Counting
          /\ SupplierOf[sapplication[a].order] = spayment[sapplication[a].payment].supplier
  BY DEF PayablesInv, BookSound
<1>6. \A a \in L : byPayment[a] \in paid /\ byOrder[a] \in ordered
  BY <1>5
<1>7. /\ \A p \in paid : \A a : a \in live[p] <=> a \in L /\ byPayment[a] = p
      /\ \A p \in paid : ofPayment[p] = SumFunctionOnSet(f, live[p])
  BY <1>5 DEF LiveOf, PaymentApplied
<1>8. /\ \A o \in ordered : \A a : a \in liveTo[o] <=> a \in L /\ byOrder[a] = o
      /\ \A o \in ordered : toOrder[o] = SumFunctionOnSet(f, liveTo[o])
  BY DEF LiveTo, PoApplied
<1> HIDE DEF f, L, byPayment, byOrder, live, liveTo, ofPayment, toOrder
<1>9. SumFunctionOnSet(f, L) = SumFunctionOnSet(ofPayment, paid)
  BY <1>3, <1>4, <1>6, <1>7, SumGrouped
<1>10. SumFunctionOnSet(f, L) = SumFunctionOnSet(toOrder, ordered)
  BY <1>3, <1>4, <1>6, <1>8, SumGrouped
<1> QED BY <1>9, <1>10 DEF ofPayment, toOrder

\* What is owed: what was ordered, less what it is applied, less the cents of
\* orders that count as settled.
LEMMA OwedIsUnapplied ==
    ASSUME PayablesInv, NEW s \in Suppliers, NEW ordered, NEW settled,
           ordered = {o \in Counting : SupplierOf[o] = s},
           settled = {o \in ordered : PoBalance(o) \in 0..SETTLED}
    PROVE  /\ SupplierBalance(s).owed =
                  SumFunctionOnSet(OrderTotal, ordered)
                  - SumFunctionOnSet([o \in ordered |-> PoApplied(o)], ordered)
                  - SumFunction([o \in settled |-> PoBalance(o)])
           /\ SumFunctionOnSet(OrderTotal, ordered) \in Int
           /\ SumFunctionOnSet([o \in ordered |-> PoApplied(o)], ordered) \in Int
           /\ SumFunction([o \in settled |-> PoBalance(o)]) \in Int
<1> DEFINE open == OpenPurchaseOrders(s)
           b == [o \in ordered |-> PoBalance(o)]
           ap == [o \in ordered |-> PoApplied(o)]
           bo == [o \in open |-> PoBalance(o)]
           bs == [o \in settled |-> PoBalance(o)]
<1>1. ApplicationsTyped /\ DrawerInv
  BY DEF PayablesInv, BookSound
<1>2. \A o \in POs : /\ OrderTotal[o] \in Nat /\ PoBalance(o) \in Int /\ PoApplied(o) \in Nat
                     /\ PoBalance(o) = OrderTotal[o] - PoApplied(o) /\ PoApplied(o) <= OrderTotal[o]
  BY <1>1, PaymentTerms, ApplicationTerms DEF PoBalance, PayablesInv, BookSound
<1>3. ordered \in SUBSET POs /\ IsFiniteSet(ordered)
  BY SupplierConstants, FS_Subset DEF SupplierConstants
<1>4. /\ open \in SUBSET ordered /\ settled \in SUBSET ordered
      /\ open \cap settled = {} /\ open \cup settled = ordered
  <2>1. \A o \in ordered : PoBalance(o) \in Int /\ PoBalance(o) >= 0
    BY <1>2, <1>3
  <2>2. \A o \in ordered : PoBalance(o) \in 0..SETTLED <=> ~ (PoBalance(o) > SETTLED)
    BY <2>1 DEF SETTLED
  <2>3. open = {o \in ordered : PoBalance(o) > SETTLED}
    BY DEF OpenPurchaseOrders
  <2> QED BY <2>2, <2>3
<1>5. IsFiniteSet(open) /\ IsFiniteSet(settled)
  BY <1>3, <1>4, FS_Subset
<1>6. \A o \in ordered : /\ OrderTotal[o] \in Int /\ ap[o] \in Int /\ b[o] \in Int
                         /\ b[o] = OrderTotal[o] - ap[o]
  BY <1>2, <1>3
<1>7. /\ \A o \in open : b[o] = bo[o] /\ bo[o] \in Int
      /\ \A o \in settled : b[o] = bs[o] /\ bs[o] \in Int
  BY <1>2, <1>3, <1>4
<1>8. /\ SupplierBalance(s).owed = SumFunctionOnSet(bo, open)
      /\ SumFunction(bs) = SumFunctionOnSet(bs, settled)
  BY DEF SupplierBalance, SumFunction
<1> HIDE DEF open, b, ap, bo, bs
<1>9. SumFunctionOnSet(b, ordered) = SumFunctionOnSet(OrderTotal, ordered) - SumFunctionOnSet(ap, ordered)
  BY <1>3, <1>6, SumOfDifferences
<1>10. SumFunctionOnSet(b, ordered) = SumFunctionOnSet(b, open) + SumFunctionOnSet(b, settled)
  BY <1>4, <1>5, <1>6, SumOfUnion
<1>11. /\ SumFunctionOnSet(b, open) = SumFunctionOnSet(bo, open)
       /\ SumFunctionOnSet(b, settled) = SumFunctionOnSet(bs, settled)
  BY <1>5, <1>7, SumOfEqual
<1>12. /\ SumFunctionOnSet(OrderTotal, ordered) \in Int /\ SumFunctionOnSet(ap, ordered) \in Int
       /\ SumFunctionOnSet(bo, open) \in Int /\ SumFunctionOnSet(bs, settled) \in Int
  BY <1>3, <1>5, <1>6, <1>7, SumIsInt
<1>13. SumFunctionOnSet(bo, open) =
          SumFunctionOnSet(OrderTotal, ordered) - SumFunctionOnSet(ap, ordered)
          - SumFunctionOnSet(bs, settled)
  BY <1>9, <1>10, <1>11, <1>12
<1> QED BY <1>8, <1>12, <1>13 DEF ap, bs

\* The credit: what was paid and not cancelled, less what it is applied.
LEMMA CreditIsUnapplied ==
    ASSUME PayablesInv, NEW s \in Suppliers, NEW paid,
           paid = {p \in DOMAIN spayment : spayment[p].supplier = s /\ ~ spayment[p].cancelled}
    PROVE  /\ SupplierBalance(s).credit =
                  SumFunction([p \in paid |-> spayment[p].amount])
                  - SumFunctionOnSet([p \in paid |-> PaymentApplied(p)], paid)
           /\ SumFunction([p \in paid |-> spayment[p].amount]) \in Int
           /\ SumFunctionOnSet([p \in paid |-> PaymentApplied(p)], paid) \in Int
<1> DEFINE some == PaymentsWithCredit(s)
           c == [p \in paid |-> PaymentCredit(p)]
           m == [p \in paid |-> spayment[p].amount]
           ap == [p \in paid |-> PaymentApplied(p)]
           cs == [p \in some |-> PaymentCredit(p)]
<1>1. ApplicationsTyped /\ DrawerInv
  BY DEF PayablesInv, BookSound
<1>2. \A p \in DOMAIN spayment : /\ spayment[p].amount \in Nat /\ PaymentApplied(p) \in Nat
                                 /\ PaymentApplied(p) <= spayment[p].amount
                                 /\ PaymentCredit(p) \in Int
  BY <1>1, PaymentTerms, ApplicationTerms DEF PayablesInv, BookSound
<1>3. IsFiniteSet(paid)
  <2>1. DOMAIN spayment = 1..Len(spayment) /\ Len(spayment) \in Nat
    BY <1>1, PaymentTerms
  <2>2. IsFiniteSet(DOMAIN spayment)
    BY <2>1, FS_Interval
  <2> QED BY <2>2, FS_Subset
<1>4. some \in SUBSET paid /\ \A p \in paid \ some : PaymentCredit(p) = 0
  <2>1. \A p \in some : ~ spayment[p].cancelled
    BY DEF PaymentsWithCredit, PaymentCredit
  <2>2. ASSUME NEW p \in paid \ some PROVE PaymentCredit(p) = 0
    <3>1. ~ (PaymentCredit(p) > 0)
      BY DEF PaymentsWithCredit
    <3>2. PaymentCredit(p) = spayment[p].amount - PaymentApplied(p)
      BY DEF PaymentCredit
    <3> QED BY <1>2, <3>1, <3>2
  <2> QED BY <2>1, <2>2 DEF PaymentsWithCredit
<1>5. IsFiniteSet(some)
  BY <1>3, <1>4, FS_Subset
<1>6. \A p \in paid : m[p] \in Int /\ ap[p] \in Int /\ c[p] \in Int /\ c[p] = m[p] - ap[p]
  BY <1>2 DEF PaymentCredit
<1>7. /\ \A p \in paid \ some : c[p] = 0
      /\ \A p \in some : c[p] = cs[p]
  BY <1>4
<1>8. /\ SupplierBalance(s).credit = SumFunctionOnSet(cs, some)
      /\ SumFunction(m) = SumFunctionOnSet(m, paid)
  BY DEF SupplierBalance, SumFunction
<1> HIDE DEF some, c, m, ap, cs
<1>9. SumFunctionOnSet(c, paid) = SumFunctionOnSet(m, paid) - SumFunctionOnSet(ap, paid)
  BY <1>3, <1>6, SumOfDifferences
<1>10. SumFunctionOnSet(c, paid) = SumFunctionOnSet(c, some)
  BY <1>3, <1>4, <1>6, <1>7, SumOfPart
<1>11. SumFunctionOnSet(c, some) = SumFunctionOnSet(cs, some)
  BY <1>5, <1>7, SumOfEqual
<1>12. SumFunctionOnSet(m, paid) \in Int /\ SumFunctionOnSet(ap, paid) \in Int
  BY <1>3, <1>6, SumIsInt
<1> QED BY <1>8, <1>9, <1>10, <1>11, <1>12 DEF m, ap

\* The two sides agree, then.
LEMMA BookReconciles == PayablesInv => PayablesReconcile
<1> SUFFICES ASSUME PayablesInv, NEW s \in Suppliers
             PROVE  LET ordered == {o \in Counting : SupplierOf[o] = s}
                        paid == {p \in DOMAIN spayment : /\ spayment[p].supplier = s
                                                         /\ ~ spayment[p].cancelled}
                        settled == {o \in ordered : PoBalance(o) \in 0..SETTLED}
                    IN  SupplierBalance(s).net =
                            SumFunctionOnSet(OrderTotal, ordered)
                            - SumFunction([p \in paid |-> spayment[p].amount])
                            - SumFunction([o \in settled |-> PoBalance(o)])
  BY Zenon DEF PayablesReconcile
<1> DEFINE ordered == {o \in Counting : SupplierOf[o] = s}
           paid == {p \in DOMAIN spayment : spayment[p].supplier = s /\ ~ spayment[p].cancelled}
           settled == {o \in ordered : PoBalance(o) \in 0..SETTLED}
           t == SumFunctionOnSet(OrderTotal, ordered)
           m == SumFunction([p \in paid |-> spayment[p].amount])
           b == SumFunction([o \in settled |-> PoBalance(o)])
           to == SumFunctionOnSet([o \in ordered |-> PoApplied(o)], ordered)
           from == SumFunctionOnSet([p \in paid |-> PaymentApplied(p)], paid)
           balance == SupplierBalance(s)
<1>1. to = from
  BY AppliedOnBothSides
<1>2. balance.owed = t - to - b /\ t \in Int /\ to \in Int /\ b \in Int
  BY OwedIsUnapplied
<1>3. balance.credit = m - from /\ m \in Int /\ from \in Int
  BY CreditIsUnapplied
<1>4. balance.net = balance.owed - balance.credit
  BY DEF SupplierBalance
<1> HIDE DEF t, m, b, to, from, balance
<1>5. balance.net = t - m - b
  BY <1>1, <1>2, <1>3, <1>4
<1> QED BY <1>5 DEF t, m, b, balance

\* The statement of a supplier adds up for any number of orders, payments and
\* requests in flight: owed less credit is ordered less paid, but for the cents
\* of orders that count as settled.
THEOREM SupplierStatementAddsUp == SupplierSpec => []PayablesReconcile
BY PayablesInvariance, BookReconciles, PTL

-----------------------------------------------------------------------------
(***************************************************************************)
(* Settled vouchers.                                                       *)
(***************************************************************************)
\* A voucher as it is confirmed: it comes to something, in a session of its
\* creator.
SettledRow(row) ==
    /\ SumFunctionOnSet(row.lines, VoucherLines) > 0
    /\ session[row.session] # None /\ session[row.session].cashier = row.creator

VouchersSettled ==
    \A v \in Vouchers : (voucher[v] # None /\ voucher[v].completed) => SettledRow(voucher[v])

\* A shift keeps its cashier, open or closed.
CashiersKept ==
    \A s \in Sessions : session[s] # None =>
        session'[s] # None /\ session'[s].cashier = session[s].cashier

\* Only OpenCommit and CloseCommit write sessions.
LEMMA ShiftKeepsCashiers ==
    ASSUME DrawerInv, Shift
    PROVE  CashiersKept
<1>1. ASSUME NEW r \in Requests, NEW s \in Sessions, NEW amount \in Floats,
             OpenCommit(r, s, amount)
      PROVE  CashiersKept
  BY <1>1 DEF OpenCommit, CashiersKept, DrawerInv
<1>2. ASSUME NEW r \in Requests, NEW counted \in Floats, CloseCommit(r, counted)
      PROVE  CashiersKept
  <2> DEFINE s == txn[r].arg.session
             row == [session[s] EXCEPT !.open = FALSE, !.counted = counted]
  <2>1. s \in Sessions /\ LocksFirst(r, s)
    BY <1>2 DEF CloseCommit, Locked, DrawerInv, Sound
  <2>2. IsOpen(s) /\ session[s] \in SessionRows
    BY <1>2, <2>1, HeldIsOpen DEF CloseCommit, IsOpen, DrawerInv
  <2>3. session' = [session EXCEPT ![s] = row]
    BY <1>2 DEF CloseCommit
  <2>4. row # None /\ row.cashier = session[s].cashier
    <3> DEFINE ended == [session[s] EXCEPT !.open = FALSE]
    <3>1. ended \in SessionRows /\ ended.cashier = session[s].cashier
      BY <2>2 DEF SessionRows
    <3>2. [ended EXCEPT !.counted = counted] \in SessionRows
          /\ [ended EXCEPT !.counted = counted].cashier = ended.cashier
      <4> HIDE DEF ended
      <4> QED BY <3>1, CashConstants DEF CashConstants, SessionRows
    <3>3. row = [ended EXCEPT !.counted = counted]
      BY Zenon
    <3> HIDE DEF ended, row
    <3> QED BY <3>1, <3>2, <3>3, NoneIsNoRow
  <2> HIDE DEF row
  <2> QED BY <2>1, <2>3, <2>4 DEF CashiersKept, DrawerInv
<1>3. ASSUME UNCHANGED tables PROVE CashiersKept
  BY <1>3 DEF tables, cashTables, CashiersKept
<1> QED BY <1>1, <1>2, <1>3 DEF Shift, OpenRead, CloseBegin

\* What was settled stays so while shifts keep their cashiers and vouchers
\* change only in ways that keep it.
LEMMA SettledStays ==
    ASSUME VouchersSettled, CashiersKept, TablesSound, NEW v \in Vouchers, NEW row,
           row = voucher[v] \/ (row # None /\ row.completed => SettledRow(row)'),
           \A u \in Vouchers : u # v => voucher'[u] = voucher[u],
           voucher'[v] = row
    PROVE  VouchersSettled'
<1>1. ASSUME NEW w \in VoucherRows, SettledRow(w) PROVE SettledRow(w)'
  <2>1. w.session \in Sessions
    BY DEF VoucherRows
  <2> QED BY <1>1, <2>1 DEF SettledRow, CashiersKept
<1>2. ASSUME NEW u \in Vouchers, voucher'[u] # None, voucher'[u].completed
      PROVE  SettledRow(voucher[u])'
  <2>1. CASE voucher'[u] = voucher[u]
    <3>1. PICK w : w = voucher[u]
      OBVIOUS
    <3>2. w \in VoucherRows /\ SettledRow(w)
      BY <1>2, <2>1, <3>1 DEF VouchersSettled, TablesSound
    <3> QED BY <1>1, <2>1, <3>1, <3>2
  <2>2. CASE voucher'[u] # voucher[u]
    BY <1>2, <2>2
  <2> QED BY <2>1, <2>2
<1> QED BY <1>2 DEF VouchersSettled

\* Vouchers that do not change.
LEMMA OtherSettled ==
    ASSUME VouchersSettled, CashiersKept, DrawerInv, voucher' = voucher
    PROVE  VouchersSettled'
<1>1. ASSUME NEW w \in VoucherRows, SettledRow(w) PROVE SettledRow(w)'
  <2>1. w.session \in Sessions
    BY DEF VoucherRows
  <2> QED BY <1>1, <2>1 DEF SettledRow, CashiersKept
<1>2. ASSUME NEW u \in Vouchers, voucher'[u] # None, voucher'[u].completed
      PROVE  SettledRow(voucher[u])'
  <2>1. PICK w : w = voucher[u]
    OBVIOUS
  <2>2. w \in VoucherRows /\ SettledRow(w)
    BY <1>2, <2>1 DEF VouchersSettled, DrawerInv
  <2> QED BY <1>1, <2>1, <2>2
<1> QED BY <1>2 DEF VouchersSettled

\* Only a confirmation settles a voucher, under the locks of the session and
\* the voucher; drafts are all that is edited.
LEMMA VouchersStaySettled ==
    ASSUME DrawerInv, VouchersSettled, ExpenseVoucher
    PROVE  VouchersSettled'
<1>0. TablesSound
  BY DEF DrawerInv, TablesSound
<1>1. ASSUME session' = session PROVE CashiersKept
  BY <1>1 DEF CashiersKept
<1>2. ASSUME NEW v \in Vouchers, NEW row, session' = session, voucher' = [voucher EXCEPT ![v] = row],
             row # None /\ row.completed => SettledRow(row)
      PROVE  VouchersSettled'
  <2>1. voucher'[v] = row /\ \A u \in Vouchers : u # v => voucher'[u] = voucher[u]
    BY <1>2 DEF DrawerInv
  <2>2. SettledRow(row) => SettledRow(row)'
    BY <1>2 DEF SettledRow
  <2> QED BY <1>0, <1>1, <1>2, <2>1, <2>2, SettledStays
<1>3. ASSUME UNCHANGED tables PROVE VouchersSettled'
  <2>1. session' = session /\ voucher' = voucher
    BY <1>3 DEF tables, cashTables
  <2> QED BY <1>1, <2>1, OtherSettled
<1>4. ASSUME NEW v \in Vouchers, NEW c \in Cashiers, CreateVoucher(v, c)
      PROVE  VouchersSettled'
  <2> DEFINE row == [creator |-> c, session |-> OpenSessionForCashier(c),
                     lines |-> [l \in VoucherLines |-> 0], completed |-> FALSE, cancelled |-> FALSE]
  <2>1. voucher' = [voucher EXCEPT ![v] = row] /\ session' = session
    BY <1>4 DEF CreateVoucher
  <2>2. PICK w : w = row
    OBVIOUS
  <2>3. ~ w.completed
    BY <2>2
  <2> HIDE DEF row
  <2> QED BY <1>2, <2>1, <2>2, <2>3
<1>5. ASSUME NEW v \in Vouchers, NEW c \in Cashiers, NEW l \in VoucherLines,
             NEW amount \in Expenses \cup {0}, EditLine(v, c, l, amount)
      PROVE  VouchersSettled'
  <2> DEFINE row == [voucher[v] EXCEPT !.lines[l] = amount]
  <2>1. voucher' = [voucher EXCEPT ![v] = row] /\ session' = session
    BY <1>5, Zenon DEF EditLine
  <2>2. PICK w : w = row
    OBVIOUS
  <2>3. ~ w.completed
    <3>1. voucher[v] \in VoucherRows /\ ~ voucher[v].completed
      BY <1>5 DEF EditLine, BeginDraft, AssertDraftBy, IsDraft, DrawerInv
    <3> QED BY <2>2, <3>1 DEF VoucherRows
  <2> HIDE DEF row
  <2> QED BY <1>2, <2>1, <2>2, <2>3
<1>6. ASSUME NEW v \in Vouchers, NEW c \in Cashiers, CancelDraft(v, c)
      PROVE  VouchersSettled'
  <2> DEFINE row == [voucher[v] EXCEPT !.cancelled = TRUE]
  <2>1. voucher' = [voucher EXCEPT ![v] = row] /\ session' = session
    BY <1>6, Zenon DEF CancelDraft
  <2>2. PICK w : w = row
    OBVIOUS
  <2>3. ~ w.completed
    <3>1. voucher[v] \in VoucherRows /\ ~ voucher[v].completed
      BY <1>6 DEF CancelDraft, BeginDraft, AssertDraftBy, IsDraft, DrawerInv
    <3> QED BY <2>2, <3>1 DEF VoucherRows
  <2> HIDE DEF row
  <2> QED BY <1>2, <2>1, <2>2, <2>3
<1>7. ASSUME NEW r \in Requests, ConfirmVoucherCommit(r)
      PROVE  VouchersSettled'
  <2>1. PICK v, s, w : /\ v = txn[r].arg.voucher /\ s = txn[r].arg.session
                       /\ w = [voucher[v] EXCEPT !.session = s, !.completed = TRUE]
    OBVIOUS
  <2>2. v \in Vouchers /\ s \in Sessions /\ LocksFirst(r, s)
    BY <1>7, <2>1 DEF ConfirmVoucherCommit, Locked, DrawerInv, Sound
  <2>3. session[s] # None
    BY <1>7, <2>2, HeldIsOpen DEF ConfirmVoucherCommit, IsOpen
  <2>4. /\ session[s].cashier = txn[r].arg.cashier /\ voucher[v].creator = txn[r].arg.cashier
        /\ VoucherTotal(v) > 0 /\ voucher[v] \in VoucherRows
        /\ voucher' = [voucher EXCEPT ![v] = w] /\ session' = session
    BY <1>7, <2>1, <2>2 DEF ConfirmVoucherCommit, AssertDraftBy, IsDraft, DrawerInv
  <2>5. w.lines = voucher[v].lines /\ w.session = s /\ w.creator = voucher[v].creator
    BY <2>1, <2>4 DEF VoucherRows
  <2>6. SettledRow(w)
    BY <2>3, <2>4, <2>5 DEF SettledRow, VoucherTotal
  <2> QED BY <1>2, <2>2, <2>4, <2>6
<1>8. ASSUME NEW r \in Requests, VoidCommit(r)
      PROVE  VouchersSettled'
  <2>1. PICK v, w : v = txn[r].arg.voucher /\ w = [voucher[v] EXCEPT !.cancelled = TRUE]
    OBVIOUS
  <2>2. v \in Vouchers
    BY <1>8, <2>1 DEF VoidCommit, Locked, DrawerInv, Sound
  <2>3. /\ voucher[v] \in VoucherRows /\ SettledRow(voucher[v])
        /\ voucher' = [voucher EXCEPT ![v] = w] /\ session' = session
    BY <1>8, <2>1, <2>2, Zenon DEF VoidCommit, IsConfirmed, DrawerInv, VouchersSettled
  <2>4. w.lines = voucher[v].lines /\ w.session = voucher[v].session
        /\ w.creator = voucher[v].creator
    BY <2>1, <2>3 DEF VoucherRows
  <2>5. SettledRow(w)
    BY <2>3, <2>4 DEF SettledRow
  <2> QED BY <1>2, <2>2, <2>3, <2>5
<1> QED BY <1>3, <1>4, <1>5, <1>6, <1>7, <1>8 DEF ExpenseVoucher, ConfirmVoucherBegin, VoidBegin

\* A settled voucher was confirmed with a total, into a session of its own
\* cashier, for any number of vouchers, shifts and requests racing them.
THEOREM SettledVouchersAreSound == SupplierSpec => []SettledVoucherSound
<1> DEFINE Inv == DrawerInv /\ VouchersSettled
<1>1. CashInit => Inv
  <2>1. CashInit => VouchersSettled
    BY DEF CashInit, VouchersSettled
  <2> QED BY <2>1, InitInv
<1>2. Inv /\ [SupplierNext]_vars => Inv'
  <2> SUFFICES ASSUME Inv, [SupplierNext]_vars PROVE VouchersSettled'
    BY NextKeeps
  <2>1. ASSUME voucher' = voucher, session' = session PROVE VouchersSettled'
    BY <2>1, OtherSettled DEF CashiersKept
  <2>2. ASSUME Shift PROVE VouchersSettled'
    <3>1. voucher' = voucher
      BY <2>2 DEF Shift, OpenRead, OpenCommit, CloseBegin, CloseCommit, tables, cashTables
    <3> QED BY <2>2, <3>1, ShiftKeepsCashiers, OtherSettled
  <2>3. ASSUME Till PROVE VouchersSettled'
    BY <2>1, <2>3 DEF Till, TakeBegin, TakeCommit, GiveChange, TakeChangeBack, tables, cashTables
  <2>4. ASSUME PaySupplier PROVE VouchersSettled'
    <3>1. ASSUME UNCHANGED tables PROVE VouchersSettled'
      BY <2>1, <3>1 DEF tables, cashTables
    <3>2. ASSUME NEW r \in Requests, CreateSupplierWrite(r) PROVE VouchersSettled'
      BY <2>1, <3>2 DEF CreateSupplierWrite, cashTables
    <3> QED BY <2>4, <3>1, <3>2 DEF PaySupplier, CreateSupplierBegin, CreateSupplierCheck
  <2>5. ASSUME ApplySupplier PROVE VouchersSettled'
    BY <2>1, <2>5 DEF ApplySupplier, ApplySupplierBegin, ApplySupplierCheck, ApplySupplierWrite,
                      tables, cashTables
  <2>6. ASSUME UnwindSupplier PROVE VouchersSettled'
    BY <2>1, <2>6 DEF UnwindSupplier, ReverseSupplierBegin, ReverseSupplierCommit,
                      CancelSupplierBegin, CancelSupplierCheck, CancelSupplierWrite,
                      tables, cashTables
  <2>7. ASSUME NEW r \in Requests, Acquire(r) \/ Rollback(r) PROVE VouchersSettled'
    BY <2>1, <2>7 DEF Acquire, Rollback, tables, cashTables
  <2>8. CASE UNCHANGED vars
    BY <2>1, <2>8 DEF vars, tables, cashTables
  <2> QED BY <2>2, <2>3, <2>4, <2>5, <2>6, <2>7, <2>8, VouchersStaySettled DEF SupplierNext
<1>3. Inv => SettledVoucherSound
  BY DEF VouchersSettled, SettledRow, SettledVoucherSound, VoucherTotal
<1> QED BY <1>1, <1>2, <1>3, PTL DEF SupplierSpec
=============================================================================
