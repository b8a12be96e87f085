----------------------------- MODULE SalesProofs ------------------------------
(***************************************************************************)
(* What the sales cycle promises for any number of orders, quotes, lines,  *)
(* customers, facilities, warehouses, payments, refunds and requests:      *)
(* first SalesOrder and SalesQuote, then the money of CustomerPayment and  *)
(* CustomerRefund.                                                         *)
(***************************************************************************)
EXTENDS SalesQuote, CustomerRefund, NumberSets

-----------------------------------------------------------------------------
(***************************************************************************)
(* Folios: MAX(serial) + 1 exists and is above every serial.               *)
(***************************************************************************)

\* A facility's serials are finitely many numbers.
LEMMA SerialsFinite ==
    ASSUME NEW f \in Facilities, order \in [Orders -> OrderRows]
    PROVE  IsFiniteSet(Serials(f)) /\ Serials(f) \in SUBSET Nat
<1> DEFINE D == {p \in Orders : order[p].exists /\ order[p].facility = f}
           g == [o \in D |-> order[o].serial]
<1>1. IsFiniteSet(D)
  BY FS_Subset, SalesConstants DEF SalesConstants
<1>2. Serials(f) = {order[o].serial : o \in D}
  BY DEF Serials
<1>3. g \in Surjection(D, Serials(f))
  BY <1>2 DEF Surjection
<1>4. IsFiniteSet(Serials(f))
  BY <1>1, <1>3, FS_Surjection
<1>5. Serials(f) \in SUBSET Nat
  BY <1>2 DEF OrderRows
<1> QED BY <1>4, <1>5

\* assign_folio's number is above every serial of the facility and follows
\* one of them, or is the first.
LEMMA NextFolioFollows ==
    ASSUME NEW f \in Facilities, order \in [Orders -> OrderRows]
    PROVE  /\ NextFolio(f) \in Nat \ {0}
           /\ \A s \in Serials(f) : s < NextFolio(f)
           /\ NextFolio(f) > 1 => NextFolio(f) - 1 \in Serials(f)
<1> DEFINE S == Serials(f) \cup {0}
<1>1. IsFiniteSet(S) /\ S \in SUBSET Nat /\ S # {}
  BY SerialsFinite, FS_AddElement
<1>3. Max(S) \in S /\ \A y \in S : Max(S) >= y
  BY <1>1, MaxIsGreatest
<1> DEFINE n == Max(S)
<1>4. NextFolio(f) = n + 1
  BY DEF NextFolio
<1>5. n \in Nat /\ (\A s \in Serials(f) : s \in Nat /\ n >= s) /\ (n # 0 => n \in Serials(f))
  BY <1>1, <1>3
<1> HIDE DEF n, S
<1> QED BY <1>4, <1>5

-----------------------------------------------------------------------------
(***************************************************************************)
(* Type correctness.                                                       *)
(***************************************************************************)

\* The rows a confirmation locks are rows of the tables.
LEMMA ConfirmRowsType ==
    ASSUME TypeOK, NEW o \in Orders
    PROVE  ConfirmRows(o) \in SUBSET LockRows
<1>1. \A l \in Filled(o) : line[o][l] \in Lines
  BY DEF TypeOK, Filled
<1>2. WarehouseRows(o) \subseteq {"warehouse"} \X Warehouses
  BY <1>1 DEF WarehouseRows, WarehouseRow, Lines
<1>3. OrderRow(o) \in {"order"} \X Orders
  BY DEF OrderRow
<1>4. FacilityRow(order[o].facility) \in {"facility"} \X Facilities
  BY DEF FacilityRow, TypeOK, OrderRows
<1> QED BY <1>2, <1>3, <1>4 DEF ConfirmRows, LockRows

\* What a confirmation claims is a set of reservation rows.
LEMMA ClaimsType ==
    ASSUME TypeOK, NEW o \in Orders
    PROVE  Claims(o) \in ClaimRows
<1>1. \A l \in Filled(o) : line[o][l] \in Lines
  BY DEF TypeOK, Filled
<1>2. \A l \in Filled(o) : Reserves(line[o][l]) =>
         /\ <<line[o][l].product, line[o][l].warehouse>> \in StockKeys
         /\ line[o][l].quantity \in Nat
  BY <1>1 DEF Reserves, Lines, StockKeys
<1> QED BY <1>2 DEF Claims, ClaimRows, ReservationRows

\* Replacing one transaction by another of the right shape.
LEMMA TxnType ==
    ASSUME TypeOK, NEW r \in Requests, NEW t \in Transactions,
           txn' = [txn EXCEPT ![r] = t]
    PROVE  txn' \in [Requests -> Transactions]
BY DEF TypeOK

\* Setting one column of one order.
LEMMA OrderColumnType ==
    ASSUME TypeOK, NEW o \in Orders, NEW b \in BOOLEAN
    PROVE  /\ [order EXCEPT ![o].cancelled = b] \in [Orders -> OrderRows]
           /\ [order EXCEPT ![o].details = b] \in [Orders -> OrderRows]
           /\ [order EXCEPT ![o].planned = b] \in [Orders -> OrderRows]
<1>1. order[o] \in OrderRows BY DEF TypeOK
<1>2. /\ [order[o] EXCEPT !.cancelled = b] \in OrderRows
      /\ [order[o] EXCEPT !.details = b] \in OrderRows
      /\ [order[o] EXCEPT !.planned = b] \in OrderRows
  BY <1>1 DEF OrderRows
<1> QED BY <1>2 DEF TypeOK

\* Init is well typed.
LEMMA InitType == Init => TypeOK
<1> SUFFICES ASSUME Init PROVE TypeOK OBVIOUS
<1>1. BlankOrder \in OrderRows
  BY SalesConstants DEF BlankOrder, OrderRows, Terms, SalesConstants
<1>2. order \in [Orders -> OrderRows] BY <1>1 DEF Init
<1>3. line \in [Orders -> [LineIds -> Lines \cup {None}]] BY DEF Init, NoLines
<1>4. reservation \in [Orders -> ClaimRows] BY DEF Init, NoClaims, ClaimRows
<1>5. onHand \in [StockKeys -> Int] BY SalesOrderConstants DEF Init, SalesOrderConstants
<1>6. elapsed \in [Orders -> SUBSET Dates] BY DEF Init
<1>7. txn \in [Requests -> Transactions] BY DEF Init, Idle, Transactions
<1> QED BY <1>2, <1>3, <1>4, <1>5, <1>6, <1>7 DEF TypeOK

\* Drafting keeps the types.
LEMMA DraftType == TypeOK /\ Draft => TypeOK'
<1> SUFFICES ASSUME TypeOK, Draft PROVE TypeOK' OBVIOUS
<1>1. ASSUME NEW o \in Orders, NEW f \in Facilities, NEW c \in Customers, NEW terms \in Terms,
             NEW origin \in Origins, NEW details \in BOOLEAN,
             CreateOrder(o, f, c, terms, origin, details)
      PROVE  TypeOK'
  <2>1. [BlankOrder EXCEPT !.exists = TRUE, !.facility = f, !.customer = c,
           !.payment_terms = terms, !.back_office = origin, !.details = details] \in OrderRows
    BY SalesOrderConstants DEF BlankOrder, OrderRows, SalesOrderConstants
  <2> QED BY <1>1, <2>1 DEF CreateOrder, TypeOK
<1>2. ASSUME NEW o \in Orders, NEW c \in Customers, NEW terms \in Terms \cup {None},
             UpdateOrder(o, c, terms)
      PROVE  TypeOK'
  <2>1. order[o] \in OrderRows BY DEF TypeOK
  <2> DEFINE ends == CASE terms # None -> terms
                       [] terms = None /\ c # order[o].customer /\ IsCreditCustomer(c) -> "NET_D"
                       [] OTHER -> order[o].payment_terms
  <2>2. ends \in Terms
    BY <2>1 DEF OrderRows, Terms
  <2> HIDE DEF ends
  <2>3. order' = [order EXCEPT ![o].customer = c, ![o].payment_terms = ends]
    BY <1>2 DEF UpdateOrder, ends
  <2>4. order' \in [Orders -> OrderRows]
    <3>1. [order[o] EXCEPT !.customer = c, !.payment_terms = ends] \in OrderRows
      BY <2>1, <2>2 DEF OrderRows
    <3>2. order' = [order EXCEPT ![o] = [order[o] EXCEPT !.customer = c, !.payment_terms = ends]]
      BY <2>3 DEF TypeOK
    <3> QED BY <3>1, <3>2 DEF TypeOK
  <2>5. RepriceLines(o, c) \in [LineIds -> Lines \cup {None}]
    <3>1. \A l \in Filled(o) : line[o][l] \in Lines
      BY DEF TypeOK, Filled
    <3>2. \A l \in Filled(o) :
             [line[o][l] EXCEPT !.price = ListPrice[c][line[o][l].product]] \in Lines
      BY <3>1, SalesOrderConstants DEF Lines, SalesOrderConstants
    <3> QED BY <3>2 DEF RepriceLines
  <2>6. line' \in [Orders -> [LineIds -> Lines \cup {None}]]
    BY <1>2, <2>5 DEF UpdateOrder, TypeOK
  <2> QED BY <1>2, <2>4, <2>6 DEF UpdateOrder, TypeOK
<1>3. ASSUME NEW o \in Orders, NEW details \in BOOLEAN, UpdateDetails(o, details)
      PROVE  TypeOK'
  <2> QED BY <1>3, OrderColumnType DEF UpdateDetails, TypeOK
<1>4. ASSUME NEW o \in Orders, NEW l \in LineIds, NEW m \in LineMenu, AddLine(o, l, m)
      PROVE  TypeOK'
  <2>1. m \in Lines BY SalesOrderConstants DEF SalesOrderConstants
  <2>2. [m EXCEPT !.price = ListPrice[order[o].customer][m.product]] \in Lines
    <3>1. order[o].customer \in Customers BY DEF TypeOK, OrderRows
    <3>2. ListPrice[order[o].customer][m.product] \in Nat
      BY <2>1, <3>1, SalesOrderConstants DEF Lines, SalesOrderConstants
    <3> QED BY <2>1, <3>2 DEF Lines
  <2>3. line' \in [Orders -> [LineIds -> Lines \cup {None}]]
    BY <1>4, <2>1, <2>2 DEF AddLine, TypeOK
  <2> QED BY <1>4, <2>3 DEF AddLine, TypeOK
<1>5. ASSUME NEW o \in Orders, NEW l \in LineIds, NEW m \in LineMenu, UpdateLine(o, l, m)
      PROVE  TypeOK'
  <2>1. m \in Lines BY SalesOrderConstants DEF SalesOrderConstants
  <2> QED BY <1>5, <2>1 DEF UpdateLine, TypeOK
<1>6. ASSUME NEW o \in Orders, NEW l \in LineIds, RemoveLine(o, l)
      PROVE  TypeOK'
  BY <1>6 DEF RemoveLine, TypeOK
<1> QED BY <1>1, <1>2, <1>3, <1>4, <1>5, <1>6 DEF Draft

\* Confirming keeps the types.
LEMMA ConfirmType == TypeOK /\ Confirm => TypeOK'
<1> SUFFICES ASSUME TypeOK, Confirm PROVE TypeOK' OBVIOUS
<1>1. ASSUME NEW r \in Requests, NEW o \in Orders, ConfirmRead(r, o)
      PROVE  TypeOK'
  <2> DEFINE t == [op |-> "confirm", order |-> o, rows |-> ConfirmRows(o),
                   serial |-> NextFolio(order[o].facility), claims |-> Claims(o)]
  <2>1. NextFolio(order[o].facility) \in Nat
    BY NextFolioFollows DEF TypeOK, OrderRows
  <2>2. t \in Transactions
    BY <2>1, ConfirmRowsType, ClaimsType DEF Transactions
  <2>3. txn' = [txn EXCEPT ![r] = t]
    BY <1>1 DEF ConfirmRead
  <2> HIDE DEF t
  <2>4. txn' \in [Requests -> Transactions]
    BY <2>2, <2>3, TxnType
  <2> QED BY <1>1, <2>4 DEF ConfirmRead, TypeOK, tables
<1>2. ASSUME NEW r \in Requests, ConfirmCommit(r)
      PROVE  TypeOK'
  <2>1. /\ txn[r].order \in Orders /\ txn[r].serial \in Nat /\ txn[r].claims \in ClaimRows
    BY <1>2 DEF ConfirmCommit, TypeOK, Transactions
  <2>2. Idle \in Transactions BY DEF Idle, Transactions
  <2>3. txn' \in [Requests -> Transactions]
    BY <1>2, <2>2, TxnType DEF ConfirmCommit, Ends
  <2>4. order' \in [Orders -> OrderRows]
    <3>1. order[txn[r].order] \in OrderRows BY <2>1 DEF TypeOK
    <3>2. [order[txn[r].order] EXCEPT !.serial = txn[r].serial, !.completed = TRUE] \in OrderRows
      BY <2>1, <3>1 DEF OrderRows
    <3>3. order' = [order EXCEPT ![txn[r].order] =
                      [order[txn[r].order] EXCEPT !.serial = txn[r].serial, !.completed = TRUE]]
      BY <1>2, <2>1 DEF ConfirmCommit, TypeOK
    <3> QED BY <3>2, <3>3 DEF TypeOK
  <2>5. reservation' \in [Orders -> ClaimRows]
    BY <1>2, <2>1 DEF ConfirmCommit, TypeOK
  <2> QED BY <1>2, <2>3, <2>4, <2>5 DEF ConfirmCommit, TypeOK
<1> QED BY <1>1, <1>2 DEF Confirm

\* Cancelling and sweeping keep the types.
LEMMA CancelType == TypeOK /\ (Cancel \/ Sweep) => TypeOK'
<1> SUFFICES ASSUME TypeOK, Cancel \/ Sweep PROVE TypeOK' OBVIOUS
<1> USE DEF tables
<1>i. Idle \in Transactions BY DEF Idle, Transactions
<1>c. NoClaims \in ClaimRows BY DEF NoClaims, ClaimRows
<1>1. ASSUME NEW r \in Requests, NEW o \in Orders, CancelRead(r, o)
      PROVE  TypeOK'
  <2> DEFINE t == [op |-> "cancel", order |-> o, rows |-> {}, completed |-> order[o].completed]
  <2>1. order[o].completed \in BOOLEAN BY DEF TypeOK, OrderRows
  <2>2. t \in Transactions BY <2>1 DEF Transactions
  <2>3. txn' = [txn EXCEPT ![r] = t] BY <1>1 DEF CancelRead
  <2> HIDE DEF t
  <2>4. txn' \in [Requests -> Transactions] BY <2>2, <2>3, TxnType
  <2> QED BY <1>1, <2>4 DEF CancelRead, TypeOK
<1>2. ASSUME NEW r \in Requests, CancelCommit(r)
      PROVE  TypeOK'
  <2>1. txn[r].order \in Orders BY <1>2 DEF CancelCommit, TypeOK, Transactions
  <2>2. txn' \in [Requests -> Transactions] BY <1>2, <1>i, TxnType DEF CancelCommit, Ends
  <2>3. order' \in [Orders -> OrderRows] BY <1>2, <2>1, OrderColumnType DEF CancelCommit
  <2>4. reservation' \in [Orders -> ClaimRows]
    BY <1>2, <1>c, <2>1 DEF CancelCommit, Released, TypeOK
  <2> QED BY <1>2, <2>2, <2>3, <2>4 DEF CancelCommit, TypeOK
<1>3. ASSUME NEW r \in Requests, SweepRead(r)
      PROVE  TypeOK'
  <2> DEFINE found == {o \in Orders : Expired(o)}
             t == [op |-> "sweep", rows |-> {}, queue |-> found,
                   clear |-> {o \in found : LiveApplications(o) = {}}]
  <2>1. t \in Transactions BY DEF Transactions
  <2>2. txn' = [txn EXCEPT ![r] = t] BY <1>3 DEF SweepRead
  <2> HIDE DEF t
  <2>3. txn' \in [Requests -> Transactions] BY <2>1, <2>2, TxnType
  <2> QED BY <1>3, <2>3 DEF SweepRead, TypeOK
<1>s. ASSUME NEW r \in Requests, NEW o \in Orders, txn[r].op = "sweep",
             NEW clear \in SUBSET Orders
      PROVE  SweepRest(r, o, clear) \in Transactions
  <2>1. txn[r] \in [op : {"sweep"}, rows : SUBSET LockRows,
                    queue : SUBSET Orders, clear : SUBSET Orders]
    BY <1>s DEF TypeOK, Transactions
  <2>2. [txn[r] EXCEPT !.queue = @ \ {o}, !.clear = clear] \in
           [op : {"sweep"}, rows : SUBSET LockRows, queue : SUBSET Orders, clear : SUBSET Orders]
    BY <1>s, <2>1
  <2> QED BY <1>i, <2>2 DEF SweepRest, Transactions
<1>4. ASSUME NEW r \in Requests, NEW o \in Orders, SweepCancel(r, o)
      PROVE  TypeOK'
  <2>0. txn[r].op = "sweep" BY <1>4 DEF SweepCancel
  <2>1. txn[r].queue \in SUBSET Orders BY <2>0 DEF TypeOK, Transactions
  <2>2. txn' \in [Requests -> Transactions]
    BY <1>4, <1>s, <2>0, <2>1, TxnType DEF SweepCancel
  <2>3. order' \in [Orders -> OrderRows] BY <1>4, OrderColumnType DEF SweepCancel
  <2>4. reservation' \in [Orders -> ClaimRows] BY <1>4, <1>c DEF SweepCancel, Released, TypeOK
  <2> QED BY <1>4, <2>2, <2>3, <2>4 DEF SweepCancel, TypeOK
<1>5. ASSUME NEW r \in Requests, NEW o \in Orders, SweepSkip(r, o)
      PROVE  TypeOK'
  <2>0. txn[r].op = "sweep" BY <1>5 DEF SweepSkip
  <2>1. txn[r].clear \in SUBSET Orders BY <2>0 DEF TypeOK, Transactions
  <2>2. txn' \in [Requests -> Transactions]
    BY <1>5, <1>s, <2>0, <2>1, TxnType DEF SweepSkip
  <2> QED BY <1>5, <2>2 DEF SweepSkip, TypeOK
<1> QED BY <1>1, <1>2, <1>3, <1>4, <1>5 DEF Cancel, Sweep

\* What goes on around the orders, and an abort, keep the types.
LEMMA AroundType == TypeOK /\ (Around \/ \E r \in Requests : Abort(r)) => TypeOK'
<1> SUFFICES ASSUME TypeOK, Around \/ \E r \in Requests : Abort(r) PROVE TypeOK' OBVIOUS
<1>1. ASSUME NEW o \in Orders, NEW d \in Clock, Elapse(o, d) PROVE TypeOK'
  <2>1. d \in Dates BY SalesOrderConstants DEF SalesOrderConstants
  <2> QED BY <1>1, <2>1 DEF Elapse, TypeOK, tables
<1>2. ASSUME NEW o \in Orders, PlanDelivery(o) PROVE TypeOK'
  <2>1. (~ order[o].planned) \in BOOLEAN OBVIOUS
  <2>2. order' = [order EXCEPT ![o].planned = ~ order[o].planned] BY <1>2 DEF PlanDelivery
  <2>3. order' \in [Orders -> OrderRows] BY <2>1, <2>2, OrderColumnType
  <2> QED BY <1>2, <2>3 DEF PlanDelivery, TypeOK
<1>3. ASSUME NEW k \in StockKeys, NEW q \in Movements, StockIn(k, q) PROVE TypeOK'
  <2>1. q \in Nat BY SalesOrderConstants DEF SalesOrderConstants
  <2> QED BY <1>3, <2>1 DEF StockIn, TypeOK
<1>4. ASSUME NEW k \in StockKeys, NEW q \in Movements, StockOut(k, q) PROVE TypeOK'
  <2>1. q \in Nat BY SalesOrderConstants DEF SalesOrderConstants
  <2> QED BY <1>4, <2>1 DEF StockOut, TypeOK
<1>5. ASSUME NEW r \in Requests, Abort(r) PROVE TypeOK'
  <2>1. Idle \in Transactions BY DEF Idle, Transactions
  <2> QED BY <1>5, <2>1 DEF Abort, Ends, TypeOK, tables
<1> QED BY <1>1, <1>2, <1>3, <1>4, <1>5 DEF Around

\* Every step keeps the types.
LEMMA NextType == TypeOK /\ [Next]_vars => TypeOK'
<1> SUFFICES ASSUME TypeOK, [Next]_vars PROVE TypeOK' OBVIOUS
<1>1. CASE UNCHANGED vars BY <1>1 DEF vars, tables, TypeOK
<1> QED BY <1>1, DraftType, ConfirmType, CancelType, AroundType DEF Next

\* The tables and the transactions of the sales services keep their shape.
THEOREM TypeCorrect == Spec => []TypeOK
<1>1. Init => TypeOK BY InitType
<1>2. TypeOK /\ [Next]_vars => TypeOK' BY NextType
<1> QED BY <1>1, <1>2, PTL DEF Spec

-----------------------------------------------------------------------------
(***************************************************************************)
(* The inductive invariant.  Most steps are quiet: they number no order    *)
(* and complete none, and leave alone the orders whose confirmation is in  *)
(* flight.                                                                 *)
(***************************************************************************)
SameSerial(p) ==
    /\ order'[p].exists = order[p].exists
    /\ order'[p].facility = order[p].facility
    /\ order'[p].serial = order[p].serial

SameDraft(p) ==
    /\ order'[p].completed = order[p].completed
    /\ order'[p].cancelled = order[p].cancelled
    /\ order'[p].back_office = order[p].back_office
    /\ order'[p].details = order[p].details
    /\ line'[p] = line[p]

QuietTxn ==
    \A r \in Requests : \/ txn'[r] = txn[r]
                        \/ txn'[r].op # "confirm" /\ Holds(r)' \subseteq Holds(r)

QuietOrders ==
    /\ \A p \in Orders : SameSerial(p)
    /\ \A r \in Requests : txn'[r].op = "confirm" => SameDraft(txn[r].order)
    /\ \A p \in Orders : order'[p].completed = order[p].completed
    /\ \A p \in Orders : order'[p].completed =>
           /\ order'[p].back_office = order[p].back_office
           /\ order'[p].details = order[p].details
    /\ \A p \in Orders : (order'[p].completed /\ ~ order'[p].cancelled) =>
           /\ ~ order[p].cancelled
           /\ line'[p] = line[p]
           /\ reservation'[p] = reservation[p]

\* Claims depend on the order's own lines only.
LEMMA ClaimsKept ==
    ASSUME NEW o \in Orders, line'[o] = line[o]
    PROVE  Claims(o)' = Claims(o)
<1>1. Filled(o)' = Filled(o) BY DEF Filled
<1> QED BY <1>1 DEF Claims, Reserves

\* Serials depend on the serials, facilities and existence of the orders only.
LEMMA SerialsKept ==
    ASSUME \A p \in Orders : SameSerial(p), NEW f
    PROVE  Serials(f)' = Serials(f)
BY DEF Serials, SameSerial

\* A quiet step keeps the invariant.
LEMMA QuietKeeps ==
    ASSUME SalesInv, TypeOK', QuietTxn, QuietOrders
    PROVE  SalesInv'
<1> USE DEF SalesInv
<1>1. LocksExclusive'
  BY DEF LocksExclusive, QuietTxn, Holds
<1>2. ConfirmCovered'
  <2> SUFFICES ASSUME NEW r \in Requests, txn'[r].op = "confirm"
               PROVE  Covered(r)'
    BY DEF ConfirmCovered
  <2> DEFINE o == txn[r].order
             f == order[o].facility
  <2>1. txn'[r] = txn[r] BY DEF QuietTxn
  <2>2. o \in Orders BY <2>1 DEF TypeOK, Transactions
  <2>3. SameDraft(o) /\ SameSerial(o) BY <2>2 DEF QuietOrders
  <2>4. Serials(f)' = Serials(f)
    <3>1. order'[o].facility = f BY <2>3 DEF SameSerial
    <3> QED BY <2>1, <3>1, SerialsKept DEF QuietOrders, Serials, SameSerial
  <2>5. Claims(o)' = Claims(o)
    BY <2>1, <2>2, <2>3, ClaimsKept DEF SameDraft, Claims, Filled
  <2>6. Covered(r) BY <2>1 DEF ConfirmCovered
  <2>7. Editable(o)' BY <2>1, <2>3, <2>6 DEF Covered, Editable, SameDraft, SameSerial
  <2>8. order'[o].facility = f /\ order'[o].back_office = order[o].back_office
          /\ order'[o].details = order[o].details
    BY <2>3 DEF SameDraft, SameSerial
  <2> QED BY <2>1, <2>4, <2>5, <2>6, <2>7, <2>8 DEF Covered, OrderRow, FacilityRow
<1>3. FoliosUnique'
  BY DEF FoliosUnique, QuietOrders, SameSerial
<1>4. FoliosConsecutive'
  BY SerialsKept DEF FoliosConsecutive, QuietOrders
<1>5. ClaimsMatchLines'
  BY ClaimsKept DEF ClaimsMatchLines, QuietOrders
<1>6. BackOfficeIsDeliverable'
  BY DEF BackOfficeIsDeliverable, QuietOrders
<1>7. DraftsUnnumbered'
  BY DEF DraftsUnnumbered, QuietOrders, SameSerial
<1> QED BY <1>1, <1>2, <1>3, <1>4, <1>5, <1>6, <1>7

\* Different orders have different rows.
LEMMA OrderRowInjective == \A o, p : OrderRow(o) = OrderRow(p) => o = p
BY DEF OrderRow

\* So do different facilities.
LEMMA FacilityRowInjective == \A f, g : FacilityRow(f) = FacilityRow(g) => f = g
BY DEF FacilityRow

\* A confirmation in flight holds its order's row.
LEMMA ConfirmHolds ==
    ASSUME TypeOK, ConfirmCovered, NEW r \in Requests, txn[r].op = "confirm"
    PROVE  txn[r].order \in Orders /\ OrderRow(txn[r].order) \in Holds(r)
<1>1. txn[r].order \in Orders BY DEF TypeOK, Transactions
<1>2. Covered(r) BY DEF ConfirmCovered
<1> QED BY <1>1, <1>2 DEF Covered, Holds

\* An edit of a draft is quiet: its order's row is held by nobody.
LEMMA EditIsQuiet ==
    ASSUME SalesInv, NEW o \in Orders, LocksForEdit(o),
           order' \in [Orders -> OrderRows], SameSerial(o),
           order'[o].completed = order[o].completed,
           \A p \in Orders \ {o} : order'[p] = order[p] /\ line'[p] = line[p],
           reservation' = reservation, txn' = txn
    PROVE  QuietTxn /\ QuietOrders
<1>1. QuietTxn BY DEF QuietTxn
<1>2. ~ order[o].completed BY DEF LocksForEdit, Editable
<1>3. \A p \in Orders : SameSerial(p) BY DEF SameSerial
<1>4. ASSUME NEW r \in Requests, txn'[r].op = "confirm" PROVE SameDraft(txn[r].order)
  <2>1. txn[r].order \in Orders /\ OrderRow(txn[r].order) \in Holds(r)
    BY <1>4, ConfirmHolds DEF SalesInv
  <2>2. OrderRow(o) \notin Holds(r) BY DEF LocksForEdit
  <2>3. txn[r].order # o BY <2>1, <2>2
  <2> QED BY <2>1, <2>3 DEF SameDraft
<1> QED BY <1>1, <1>2, <1>3, <1>4 DEF QuietOrders

\* update_order and the line edits keep the invariant.
LEMMA EditKeeps ==
    ASSUME SalesInv, TypeOK',
           \/ \E o \in Orders, c \in Customers, terms \in Terms \cup {None} :
                 UpdateOrder(o, c, terms)
           \/ \E o \in Orders, details \in BOOLEAN : UpdateDetails(o, details)
           \/ \E o \in Orders, l \in LineIds, m \in LineMenu : AddLine(o, l, m)
           \/ \E o \in Orders, l \in LineIds, m \in LineMenu : UpdateLine(o, l, m)
           \/ \E o \in Orders, l \in LineIds : RemoveLine(o, l)
    PROVE  SalesInv'
<1> USE DEF SalesInv
<1>1. ASSUME NEW o \in Orders, NEW c, NEW terms, UpdateOrder(o, c, terms) PROVE SalesInv'
  <2>1. LocksForEdit(o) /\ reservation' = reservation /\ txn' = txn
    BY <1>1 DEF UpdateOrder
  <2>2. /\ SameSerial(o) /\ order'[o].completed = order[o].completed
        /\ \A p \in Orders \ {o} : order'[p] = order[p]
    BY <1>1 DEF UpdateOrder, TypeOK, SameSerial, OrderRows
  <2>3. \A p \in Orders \ {o} : line'[p] = line[p]
    BY <1>1 DEF UpdateOrder, TypeOK
  <2> QED BY <2>1, <2>2, <2>3, EditIsQuiet, QuietKeeps DEF TypeOK
<1>2. ASSUME NEW o \in Orders, NEW details, UpdateDetails(o, details) PROVE SalesInv'
  <2>1. /\ LocksForEdit(o) /\ reservation' = reservation /\ txn' = txn
        /\ SameSerial(o) /\ order'[o].completed = order[o].completed
        /\ \A p \in Orders \ {o} : order'[p] = order[p] /\ line'[p] = line[p]
    BY <1>2 DEF UpdateDetails, TypeOK, SameSerial, OrderRows
  <2> QED BY <2>1, EditIsQuiet, QuietKeeps DEF TypeOK
<1>3. ASSUME NEW o \in Orders, NEW l \in LineIds, NEW m,
             AddLine(o, l, m) \/ UpdateLine(o, l, m) \/ RemoveLine(o, l)
      PROVE  SalesInv'
  <2>1. /\ LocksForEdit(o) /\ reservation' = reservation /\ txn' = txn /\ order' = order
        /\ \A p \in Orders \ {o} : line'[p] = line[p]
    BY <1>3 DEF AddLine, UpdateLine, RemoveLine, TypeOK
  <2>2. SameSerial(o) BY <2>1 DEF SameSerial
  <2> QED BY <2>1, <2>2, EditIsQuiet, QuietKeeps DEF TypeOK
<1> QED BY <1>1, <1>2, <1>3

\* Retiring an order is quiet: whoever retires it waited for its row.
LEMMA RetireIsQuiet ==
    ASSUME SalesInv, NEW o \in Orders, NEW r \in Requests,
           Free(r, {OrderRow(o)}), txn[r].op # "confirm", QuietTxn,
           \A q \in Requests \ {r} : txn'[q] = txn[q], txn'[r].op # "confirm",
           order' = [order EXCEPT ![o].cancelled = TRUE],
           reservation' = reservation \/ reservation' = Released(o), line' = line
    PROVE  QuietOrders
<1> USE DEF SalesInv
<1>1. \A p \in Orders : SameSerial(p) BY DEF SameSerial, TypeOK, OrderRows
<1>2. ASSUME NEW q \in Requests, txn'[q].op = "confirm" PROVE SameDraft(txn[q].order)
  <2>1. q # r /\ txn[q].op = "confirm" BY <1>2
  <2>2. txn[q].order \in Orders /\ OrderRow(txn[q].order) \in Holds(q)
    BY <2>1, ConfirmHolds
  <2>3. txn[q].order # o BY <2>1, <2>2 DEF Free
  <2> QED BY <2>2, <2>3 DEF SameDraft, TypeOK, OrderRows
<1>3. \A p \in Orders : /\ order'[p].completed = order[p].completed
                        /\ order'[p].back_office = order[p].back_office
                        /\ order'[p].details = order[p].details
  BY DEF TypeOK, OrderRows
<1>4. order'[o].cancelled BY DEF TypeOK, OrderRows
<1>5. \A p \in Orders \ {o} : order'[p] = order[p] /\ reservation'[p] = reservation[p]
  BY DEF TypeOK, Released
<1> QED BY <1>1, <1>2, <1>3, <1>4, <1>5 DEF QuietOrders

\* Cancellations and the sweep keep the invariant.
LEMMA CancelKeeps == SalesInv /\ TypeOK' /\ (Cancel \/ Sweep) => SalesInv'
<1> SUFFICES ASSUME SalesInv, TypeOK', Cancel \/ Sweep PROVE SalesInv' OBVIOUS
<1> USE DEF SalesInv
<1>r. ASSUME txn \in [Requests -> Transactions], order' = order, line' = line,
             reservation' = reservation, QuietTxn
      PROVE  SalesInv'
  <2>1. QuietOrders
    <3>1. \A r \in Requests : txn'[r].op = "confirm" => SameDraft(txn[r].order)
      BY <1>r DEF SameDraft
    <3> QED BY <1>r, <3>1 DEF QuietOrders, SameSerial
  <2> QED BY <1>r, <2>1, QuietKeeps
<1>1. ASSUME NEW r \in Requests, NEW o \in Orders, CancelRead(r, o) PROVE SalesInv'
  <2>1. QuietTxn BY <1>1 DEF CancelRead, QuietTxn, TypeOK, Holds
  <2> QED BY <1>1, <1>r, <2>1 DEF CancelRead, tables, TypeOK
<1>2. ASSUME NEW r \in Requests, CancelCommit(r) PROVE SalesInv'
  <2>1. txn[r].order \in Orders /\ txn[r].op # "confirm"
    BY <1>2 DEF CancelCommit, TypeOK, Transactions
  <2>2. QuietTxn /\ (\A q \in Requests \ {r} : txn'[q] = txn[q]) /\ txn'[r].op # "confirm"
    BY <1>2 DEF CancelCommit, Ends, Idle, QuietTxn, TypeOK, Holds
  <2>3. QuietOrders
    BY <1>2, <2>1, <2>2, RetireIsQuiet DEF CancelCommit
  <2> QED BY <2>2, <2>3, QuietKeeps
<1>3. ASSUME NEW r \in Requests, SweepRead(r) PROVE SalesInv'
  <2>1. QuietTxn BY <1>3 DEF SweepRead, QuietTxn, TypeOK, Holds
  <2> QED BY <1>3, <1>r, <2>1 DEF SweepRead, tables, TypeOK
<1>s. ASSUME NEW r \in Requests, NEW o \in Orders, NEW clear, txn[r].op = "sweep",
             txn' = [txn EXCEPT ![r] = SweepRest(r, o, clear)]
      PROVE  QuietTxn /\ (\A q \in Requests \ {r} : txn'[q] = txn[q]) /\ txn'[r].op # "confirm"
  <2>1. txn[r] \in [op : {"sweep"}, rows : SUBSET LockRows,
                    queue : SUBSET Orders, clear : SUBSET Orders]
    BY <1>s DEF TypeOK, Transactions
  <2>2. txn'[r] = SweepRest(r, o, clear) BY <1>s DEF TypeOK
  <2>3. txn'[r].op # "confirm" /\ Holds(r)' \subseteq Holds(r)
    BY <1>s, <2>1, <2>2 DEF SweepRest, Idle, Holds
  <2> QED BY <1>s, <2>3 DEF QuietTxn, TypeOK
<1>4. ASSUME NEW r \in Requests, NEW o \in Orders, SweepCancel(r, o) PROVE SalesInv'
  <2>1. QuietTxn /\ (\A q \in Requests \ {r} : txn'[q] = txn[q]) /\ txn'[r].op # "confirm"
    BY <1>4, <1>s DEF SweepCancel
  <2>2. QuietOrders
    BY <1>4, <2>1, RetireIsQuiet DEF SweepCancel
  <2> QED BY <2>1, <2>2, QuietKeeps
<1>5. ASSUME NEW r \in Requests, NEW o \in Orders, SweepSkip(r, o) PROVE SalesInv'
  <2>1. QuietTxn BY <1>5, <1>s DEF SweepSkip
  <2> QED BY <1>5, <1>r, <2>1 DEF SweepSkip, tables, TypeOK
<1> QED BY <1>1, <1>2, <1>3, <1>4, <1>5 DEF Cancel, Sweep

\* Dates, deliveries, stock movements and aborts keep the invariant.
LEMMA AroundKeeps ==
    SalesInv /\ TypeOK' /\ (Around \/ (\E r \in Requests : Abort(r)) \/ UNCHANGED vars) => SalesInv'
<1> SUFFICES ASSUME SalesInv, TypeOK',
                    Around \/ (\E r \in Requests : Abort(r)) \/ UNCHANGED vars
             PROVE  SalesInv'
    OBVIOUS
<1> USE DEF SalesInv
<1>q. ASSUME \A p \in Orders : SameSerial(p) /\ SameDraft(p), reservation' = reservation, QuietTxn
      PROVE  SalesInv'
  <2>1. \A r \in Requests : txn'[r].op = "confirm" => SameDraft(txn[r].order)
    BY <1>q, ConfirmHolds DEF QuietTxn
  <2>2. QuietOrders BY <1>q, <2>1 DEF QuietOrders, SameDraft
  <2> QED BY <1>q, <2>2, QuietKeeps
<1>1. ASSUME order' = order, line' = line, reservation' = reservation, txn' = txn
      PROVE  SalesInv'
  <2>1. \A p \in Orders : SameSerial(p) /\ SameDraft(p) BY <1>1 DEF SameSerial, SameDraft
  <2>2. QuietTxn BY <1>1 DEF QuietTxn
  <2> QED BY <1>1, <1>q, <2>1, <2>2
<1>2. ASSUME NEW o \in Orders, PlanDelivery(o) PROVE SalesInv'
  <2>1. \A p \in Orders : SameSerial(p) /\ SameDraft(p)
    BY <1>2 DEF PlanDelivery, SameSerial, SameDraft, TypeOK, OrderRows
  <2>2. QuietTxn BY <1>2 DEF PlanDelivery, QuietTxn
  <2> QED BY <1>2, <1>q, <2>1, <2>2 DEF PlanDelivery
<1>3. ASSUME NEW r \in Requests, Abort(r) PROVE SalesInv'
  <2>1. \A p \in Orders : SameSerial(p) /\ SameDraft(p)
    BY <1>3 DEF Abort, tables, SameSerial, SameDraft
  <2>2. QuietTxn BY <1>3 DEF Abort, Ends, Idle, QuietTxn, Holds, TypeOK
  <2> QED BY <1>3, <1>q, <2>1, <2>2 DEF Abort, tables
<1>4. CASE Around
  BY <1>4, <1>1, <1>2 DEF Around, Elapse, StockIn, StockOut, tables
<1>5. CASE UNCHANGED vars
  BY <1>5, <1>1 DEF vars, tables
<1> QED BY <1>3, <1>4, <1>5

\* create_order inserts an unnumbered draft nobody is confirming.
LEMMA CreateKeeps ==
    ASSUME SalesInv, TypeOK', NEW o \in Orders, NEW f \in Facilities, NEW c, NEW terms,
           NEW origin, NEW details, CreateOrder(o, f, c, terms, origin, details)
    PROVE  SalesInv'
<1> USE DEF SalesInv
<1>1. /\ ~ order[o].exists /\ line' = line /\ reservation' = reservation /\ txn' = txn
      /\ \A p \in Orders \ {o} : order'[p] = order[p]
      /\ order'[o].serial = 0 /\ ~ order'[o].completed
  BY DEF CreateOrder, TypeOK, BlankOrder
<1>2. LocksExclusive' BY <1>1 DEF LocksExclusive, Holds
<1>3. \A g \in Facilities : Serials(g) \subseteq Serials(g)' /\ Serials(g)' \subseteq Serials(g) \cup {0}
  BY <1>1 DEF Serials
<1>4. ASSUME NEW r \in Requests, txn'[r].op = "confirm" PROVE Covered(r)'
  <2> DEFINE p == txn[r].order
             g == order[p].facility
  <2>1. Covered(r) /\ p \in Orders /\ txn'[r] = txn[r]
    BY <1>1, <1>4 DEF ConfirmCovered, TypeOK, Transactions
  <2>2. p # o BY <1>1, <2>1 DEF Covered, Editable
  <2>3. order'[p] = order[p] /\ line'[p] = line[p] BY <1>1, <2>1, <2>2
  <2>4. g \in Facilities BY <2>1 DEF TypeOK, OrderRows
  <2>5. Serials(g) \subseteq Serials(g)' /\ Serials(g)' \subseteq Serials(g) \cup {0}
    BY <1>1, <2>1, <2>2, <2>4 DEF Serials
  <2>6. Claims(p)' = Claims(p) BY <2>1, <2>3, ClaimsKept DEF Claims, Filled
  <2>7. Editable(p)' BY <2>1, <2>3 DEF Covered, Editable
  <2> QED BY <2>1, <2>3, <2>5, <2>6, <2>7 DEF Covered, OrderRow, FacilityRow
<1>5. ConfirmCovered' BY <1>4 DEF ConfirmCovered
<1>6. FoliosUnique' BY <1>1 DEF FoliosUnique
<1>7. FoliosConsecutive'
  <2> SUFFICES ASSUME NEW g \in Facilities, NEW s \in Serials(g)', s > 1
               PROVE  s - 1 \in Serials(g)'
    BY DEF FoliosConsecutive
  <2>1. s \in Serials(g) BY <1>3
  <2> QED BY <1>3, <2>1 DEF FoliosConsecutive
<1>8. ClaimsMatchLines'
  <2> SUFFICES ASSUME NEW p \in Orders, order'[p].completed, ~ order'[p].cancelled
               PROVE  reservation'[p] = Claims(p)'
    BY DEF ClaimsMatchLines
  <2>1. p # o /\ order'[p] = order[p] BY <1>1
  <2>2. Claims(p)' = Claims(p) BY <1>1, ClaimsKept
  <2> QED BY <1>1, <2>1, <2>2 DEF ClaimsMatchLines
<1>9. BackOfficeIsDeliverable' BY <1>1 DEF BackOfficeIsDeliverable
<1>10. DraftsUnnumbered' BY <1>1 DEF DraftsUnnumbered
<1> QED BY <1>2, <1>5, <1>6, <1>7, <1>8, <1>9, <1>10

\* The checks of a confirmation establish what its locks then keep.
LEMMA ConfirmReadKeeps ==
    ASSUME SalesInv, TypeOK', NEW r \in Requests, NEW o \in Orders, ConfirmRead(r, o)
    PROVE  SalesInv'
<1> USE DEF SalesInv
<1> DEFINE t == [op |-> "confirm", order |-> o, rows |-> ConfirmRows(o),
                 serial |-> NextFolio(order[o].facility), claims |-> Claims(o)]
           f == order[o].facility
<1>1. /\ order' = order /\ line' = line /\ reservation' = reservation
      /\ txn' = [txn EXCEPT ![r] = t] /\ Free(r, ConfirmRows(o)) /\ Confirmable(o)
  BY DEF ConfirmRead, tables
<1>2. txn'[r] = t /\ \A q \in Requests \ {r} : txn'[q] = txn[q]
  BY <1>1 DEF TypeOK
<1>3. f \in Facilities BY DEF TypeOK, OrderRows
<1>4. LocksExclusive'
  <2>1. Holds(r)' = ConfirmRows(o) BY <1>2 DEF Holds
  <2>2. \A q \in Requests \ {r} : Holds(q)' = Holds(q) BY <1>2 DEF Holds
  <2> QED BY <1>1, <2>1, <2>2 DEF LocksExclusive, Free
<1>5. Covered(r)'
  <2>1. txn'[r].order = o /\ txn'[r].rows = ConfirmRows(o) /\ txn'[r].serial = NextFolio(f)
          /\ txn'[r].claims = Claims(o)
    BY <1>2
  <2>2. Claims(o)' = Claims(o) BY <1>1, ClaimsKept
  <2>3. Serials(f)' = Serials(f) BY <1>1 DEF Serials
  <2>4. OrderRow(o) \in ConfirmRows(o) /\ FacilityRow(f) \in ConfirmRows(o) BY DEF ConfirmRows
  <2>5. Editable(o) /\ Editable(o)' BY <1>1 DEF Confirmable, Editable
  <2>6. order[o].back_office => order[o].details
    BY <1>1 DEF Confirmable, DeliveryDetailsComplete
  <2>7. /\ NextFolio(f) > 0 /\ \A s \in Serials(f) : s < NextFolio(f)
        /\ NextFolio(f) > 1 => NextFolio(f) - 1 \in Serials(f)
    BY <1>3, NextFolioFollows DEF TypeOK
  <2>8. order'[o] = order[o] BY <1>1
  <2> HIDE DEF t
  <2>9. txn'[r].claims = Claims(o)' BY <2>1, <2>2
  <2> QED BY <2>1, <2>3, <2>4, <2>5, <2>6, <2>7, <2>8, <2>9 DEF Covered, OrderRow, FacilityRow, Claims, Filled, Editable
<1>6. ASSUME NEW q \in Requests \ {r}, txn'[q].op = "confirm" PROVE Covered(q)'
  <2>1. txn'[q] = txn[q] /\ Covered(q) /\ txn[q].order \in Orders
    BY <1>2, <1>6 DEF ConfirmCovered, TypeOK, Transactions
  <2>2. Claims(txn[q].order)' = Claims(txn[q].order)
    BY <1>1, <2>1, ClaimsKept DEF Claims, Filled
  <2> QED BY <1>1, <2>1, <2>2 DEF Covered, Serials, Editable, OrderRow, FacilityRow
<1>7. ConfirmCovered' BY <1>5, <1>6 DEF ConfirmCovered
<1>8. FoliosUnique' BY <1>1 DEF FoliosUnique
<1>9. FoliosConsecutive' BY <1>1 DEF FoliosConsecutive, Serials
<1>10. ClaimsMatchLines' BY <1>1, ClaimsKept DEF ClaimsMatchLines
<1>11. BackOfficeIsDeliverable' BY <1>1 DEF BackOfficeIsDeliverable
<1>12. DraftsUnnumbered' BY <1>1 DEF DraftsUnnumbered
<1> QED BY <1>4, <1>7, <1>8, <1>9, <1>10, <1>11, <1>12

\* The commit of a confirmation: its number is above every serial of its
\* facility, and no other confirmation of that facility is in flight.
LEMMA ConfirmCommitKeeps ==
    ASSUME SalesInv, TypeOK', NEW r \in Requests, ConfirmCommit(r)
    PROVE  SalesInv'
<1> USE DEF SalesInv
<1>0. /\ txn[r].op = "confirm" /\ txn[r].order \in Orders /\ txn[r].serial \in Nat
      /\ order[txn[r].order].facility \in Facilities
  BY DEF ConfirmCommit, TypeOK, Transactions, OrderRows
<1> SUFFICES ASSUME NEW o \in Orders, o = txn[r].order, NEW f \in Facilities,
                    f = order[o].facility, NEW s \in Nat, s = txn[r].serial
             PROVE  SalesInv'
    BY <1>0
<1>1. txn[r].op = "confirm" /\ Covered(r)
  BY <1>0 DEF ConfirmCovered
<1>2. /\ \A p \in Orders \ {o} : order'[p] = order[p] /\ reservation'[p] = reservation[p]
      /\ order'[o].completed /\ order'[o].serial = s
      /\ order'[o].exists = order[o].exists /\ order'[o].facility = f
      /\ order'[o].cancelled = order[o].cancelled
      /\ order'[o].back_office = order[o].back_office /\ order'[o].details = order[o].details
      /\ reservation'[o] = txn[r].claims /\ line' = line
  BY <1>1 DEF ConfirmCommit, TypeOK, OrderRows
<1>3. txn'[r] = Idle /\ \A q \in Requests \ {r} : txn'[q] = txn[q]
  BY DEF ConfirmCommit, Ends, TypeOK
<1>4. LocksExclusive'
  <2>1. Holds(r)' = {} BY <1>3 DEF Holds, Idle
  <2>2. \A q \in Requests \ {r} : Holds(q)' = Holds(q) BY <1>3 DEF Holds
  <2> QED BY <2>1, <2>2 DEF LocksExclusive
<1>5. /\ order[o].exists /\ ~ order[o].completed /\ s > 0
      /\ \A u \in Serials(f) : u < s
      /\ s > 1 => s - 1 \in Serials(f)
      /\ txn[r].claims = Claims(o)
      /\ order[o].back_office => order[o].details
  BY <1>1 DEF Covered, Editable
<1>6. \A g \in Facilities \ {f} : Serials(g)' = Serials(g)
  BY <1>1, <1>2 DEF Serials
<1>7. \A p \in Orders \ {o} : order[p].exists /\ order[p].facility = f =>
         order[p].serial < s
  <2>1. \A p \in Orders : order[p].exists /\ order[p].facility = f => order[p].serial \in Serials(f)
    BY DEF Serials
  <2> QED BY <1>5, <2>1
<1>8. ASSUME NEW q \in Requests, txn'[q].op = "confirm" PROVE Covered(q)'
  <2> DEFINE p == txn[q].order
             g == order[p].facility
  <2>1. q # r /\ txn'[q] = txn[q] BY <1>3, <1>8 DEF Idle
  <2>2. Covered(q) /\ p \in Orders /\ g \in Facilities /\ txn[q].op = "confirm"
    BY <1>8, <2>1 DEF ConfirmCovered, TypeOK, Transactions, OrderRows
  <2>3. FacilityRow(g) \in Holds(q) /\ OrderRow(p) \in Holds(q)
    BY <2>2 DEF Covered, Holds
  <2>4. FacilityRow(f) \in Holds(r) /\ OrderRow(o) \in Holds(r)
    BY <1>1 DEF Covered, Holds
  <2>5. Holds(q) \cap Holds(r) = {} BY <2>1 DEF LocksExclusive
  <2>6. g # f /\ p # o BY <2>3, <2>4, <2>5
  <2>7. Serials(g)' = Serials(g)
    BY <1>1, <1>2, <2>1, <2>2, <2>6 DEF Serials
  <2>8. order'[p] = order[p] /\ line'[p] = line[p] BY <1>2, <2>2, <2>6
  <2>9. Claims(p)' = Claims(p) BY <2>1, <2>2, <2>8, ClaimsKept DEF Claims, Filled
  <2>10. Editable(p)' BY <2>1, <2>2, <2>8 DEF Covered, Editable
  <2> QED BY <2>1, <2>2, <2>7, <2>8, <2>9, <2>10 DEF Covered, OrderRow, FacilityRow
<1>9. ConfirmCovered' BY <1>8 DEF ConfirmCovered
<1>10. FoliosUnique'
  <2>1. \A p \in Orders \ {o} : order[p].exists /\ order[p].facility = f => order[p].serial # s
    <3> SUFFICES ASSUME NEW p \in Orders \ {o}, order[p].exists, order[p].facility = f
                 PROVE  order[p].serial # s
      OBVIOUS
    <3>1. order[p].serial \in Nat /\ order[p].serial < s
      BY <1>7 DEF TypeOK, OrderRows
    <3> QED BY <1>1, <3>1
  <2> QED BY <1>2, <2>1 DEF FoliosUnique
<1>11. FoliosConsecutive'
  <2> SUFFICES ASSUME NEW g \in Facilities, NEW u \in Serials(g)', u > 1
               PROVE  u - 1 \in Serials(g)'
    BY DEF FoliosConsecutive
  <2>1. CASE g # f BY <1>6, <2>1 DEF FoliosConsecutive
  <2>2. CASE g = f
    <3>0. order[o].serial = 0 BY <1>5 DEF DraftsUnnumbered
    <3>1. \A v \in Serials(f) : v # 0 => v \in Serials(f)'
      BY <1>2, <3>0 DEF Serials
    <3>2. u = s \/ u \in Serials(f)
      BY <1>2, <2>2 DEF Serials
    <3>3. u \in Nat /\ u - 1 \in Serials(f)
      BY <1>5, <2>2, <3>2, SerialsFinite DEF FoliosConsecutive, TypeOK
    <3> QED BY <2>2, <3>1, <3>3
  <2> QED BY <2>1, <2>2
<1>12. ClaimsMatchLines'
  <2> SUFFICES ASSUME NEW p \in Orders, order'[p].completed, ~ order'[p].cancelled
               PROVE  reservation'[p] = Claims(p)'
    BY DEF ClaimsMatchLines
  <2>1. Claims(p)' = Claims(p) BY <1>2, ClaimsKept
  <2> QED BY <1>2, <1>5, <2>1 DEF ClaimsMatchLines
<1>13. BackOfficeIsDeliverable' BY <1>2, <1>5 DEF BackOfficeIsDeliverable
<1>14. DraftsUnnumbered' BY <1>2, <1>5 DEF DraftsUnnumbered
<1> QED BY <1>4, <1>9, <1>10, <1>11, <1>12, <1>13, <1>14

-----------------------------------------------------------------------------
(***************************************************************************)
(* The theorems.                                                           *)
(***************************************************************************)

\* The invariant holds initially: there is no order and no transaction.
LEMMA InitInv == Init => SalesInv
<1> SUFFICES ASSUME Init PROVE SalesInv OBVIOUS
<1>1. TypeOK BY InitType
<1>2. /\ \A r \in Requests : txn[r] = Idle
      /\ \A o \in Orders : order[o].serial = 0 /\ ~ order[o].completed /\ ~ order[o].exists
  BY DEF Init, BlankOrder
<1>3. LocksExclusive /\ ConfirmCovered
  BY <1>2 DEF LocksExclusive, ConfirmCovered, Holds, Idle
<1>4. \A f \in Facilities : Serials(f) = {}
  BY <1>2 DEF Serials
<1>5. FoliosUnique /\ FoliosConsecutive /\ DraftsUnnumbered
  BY <1>2, <1>4 DEF FoliosUnique, FoliosConsecutive, DraftsUnnumbered
<1>6. ClaimsMatchLines /\ BackOfficeIsDeliverable
  BY <1>2 DEF ClaimsMatchLines, BackOfficeIsDeliverable
<1> QED BY <1>1, <1>3, <1>5, <1>6 DEF SalesInv

\* Every step keeps the invariant.
LEMMA NextInv == SalesInv /\ [Next]_vars => SalesInv'
<1> SUFFICES ASSUME SalesInv, [Next]_vars PROVE SalesInv' OBVIOUS
<1>1. TypeOK' BY NextType DEF SalesInv
<1>2. CASE Draft BY <1>1, <1>2, CreateKeeps, EditKeeps DEF Draft
<1>3. CASE Confirm BY <1>1, <1>3, ConfirmReadKeeps, ConfirmCommitKeeps DEF Confirm
<1>4. CASE Cancel \/ Sweep BY <1>1, <1>4, CancelKeeps
<1>5. CASE Around \/ (\E r \in Requests : Abort(r)) \/ UNCHANGED vars BY <1>1, <1>5, AroundKeeps
<1> QED BY <1>2, <1>3, <1>4, <1>5 DEF Next

\* Whatever requests, sweeps and movements interleave, the sales tables keep
\* their shape, every transaction that holds an order still knows the truth
\* about it, and confirmed orders are numbered, claimed and complete.
THEOREM Invariance == Spec => []SalesInv
<1>1. Init => SalesInv BY InitInv
<1>2. SalesInv /\ [Next]_vars => SalesInv' BY NextInv
<1> QED BY <1>1, <1>2, PTL DEF Spec

\* However confirmations interleave, abort or are refused, no two orders of a
\* facility share a folio and the facility's folios have no gap.
THEOREM FoliosCorrect == Spec => [](FoliosUnique /\ FoliosConsecutive)
<1>1. SalesInv => FoliosUnique /\ FoliosConsecutive BY DEF SalesInv
<1> QED BY <1>1, Invariance, PTL

\* A standing confirmed order claims exactly its stocked lines.
THEOREM ClaimsCorrect == Spec => []ClaimsMatchLines
<1>1. SalesInv => ClaimsMatchLines BY DEF SalesInv
<1> QED BY <1>1, Invariance, PTL

\* A confirmed back-office order has its delivery details.
THEOREM DeliverableCorrect == Spec => []BackOfficeIsDeliverable
<1>1. SalesInv => BackOfficeIsDeliverable BY DEF SalesInv
<1> QED BY <1>1, Invariance, PTL

\* Confirmation is the point of no return: no step changes the lines, the
\* customer, the terms or the folio of a confirmed order.
THEOREM ConfirmedIsFrozen == Spec => CompletedIsFrozen
<1> DEFINE Frozen(o) == /\ line'[o] = line[o]
                        /\ order'[o].customer = order[o].customer
                        /\ order'[o].payment_terms = order[o].payment_terms
                        /\ order'[o].serial = order[o].serial
                        /\ order'[o].completed
<1>1. ASSUME SalesInv, [Next]_vars, NEW o \in Orders, order[o].completed PROVE Frozen(o)
  <2> USE DEF SalesInv
  <2>1. order[o] \in OrderRows /\ order[o].exists /\ ~ Editable(o)
    BY <1>1 DEF TypeOK, DraftsUnnumbered, Editable
  <2>2. CASE Draft
    <3>1. \A p \in Orders : LocksForEdit(p) => p # o
      BY <2>1 DEF LocksForEdit
    <3>2. ASSUME NEW p \in Orders, NEW f, NEW c, NEW terms, NEW origin, NEW details,
                 CreateOrder(p, f, c, terms, origin, details)
          PROVE  Frozen(o)
      BY <1>1, <2>1, <3>2 DEF CreateOrder, TypeOK
    <3>3. ASSUME NEW p \in Orders, NEW c, NEW terms, UpdateOrder(p, c, terms)
          PROVE  Frozen(o)
      BY <1>1, <3>1, <3>3 DEF UpdateOrder, TypeOK
    <3>4. ASSUME NEW p \in Orders, NEW details, UpdateDetails(p, details)
          PROVE  Frozen(o)
      BY <1>1, <3>1, <3>4 DEF UpdateDetails, TypeOK
    <3>5. ASSUME NEW p \in Orders, NEW l, NEW m,
                 AddLine(p, l, m) \/ UpdateLine(p, l, m) \/ RemoveLine(p, l)
          PROVE  Frozen(o)
      BY <1>1, <3>1, <3>5 DEF AddLine, UpdateLine, RemoveLine, TypeOK
    <3> QED BY <2>2, <3>2, <3>3, <3>4, <3>5 DEF Draft
  <2>3. ASSUME NEW r \in Requests, ConfirmCommit(r) PROVE Frozen(o)
    <3>1. txn[r].op = "confirm" /\ txn[r].order \in Orders
      BY <1>1, <2>3 DEF ConfirmCommit, TypeOK, Transactions
    <3>2. txn[r].order # o
      BY <1>1, <2>1, <3>1 DEF ConfirmCovered, Covered
    <3> QED BY <1>1, <2>3, <3>1, <3>2 DEF ConfirmCommit, TypeOK
  <2>4. ASSUME NEW r \in Requests, NEW p \in Orders, ConfirmRead(r, p) PROVE Frozen(o)
    BY <1>1, <2>4 DEF ConfirmRead, tables
  <2>5. CASE Confirm BY <2>3, <2>4, <2>5 DEF Confirm
  <2>6. ASSUME NEW r \in Requests, CancelCommit(r) PROVE Frozen(o)
    <3>1. txn[r].order \in Orders BY <1>1, <2>6 DEF CancelCommit, TypeOK, Transactions
    <3> QED BY <1>1, <2>6, <3>1 DEF CancelCommit, TypeOK, OrderRows
  <2>7. ASSUME NEW r \in Requests, NEW p \in Orders, SweepCancel(r, p) PROVE Frozen(o)
    BY <1>1, <2>7 DEF SweepCancel, TypeOK, OrderRows
  <2>8. CASE Cancel \/ Sweep
    BY <1>1, <2>6, <2>7, <2>8 DEF Cancel, Sweep, CancelRead, SweepRead, SweepSkip, tables
  <2>9. ASSUME NEW p \in Orders, PlanDelivery(p) PROVE Frozen(o)
    BY <1>1, <2>9 DEF PlanDelivery, TypeOK, OrderRows
  <2>10. CASE Around
    BY <1>1, <2>9, <2>10 DEF Around, Elapse, StockIn, StockOut, tables
  <2>11. CASE (\E r \in Requests : Abort(r)) \/ UNCHANGED vars
    BY <1>1, <2>11 DEF Abort, vars, tables
  <2> QED BY <1>1, <2>2, <2>5, <2>8, <2>10, <2>11 DEF Next
<1>2. SalesInv /\ [Next]_vars =>
         [\A o \in Orders : order[o].completed => Frozen(o)]_vars
  BY <1>1
<1> QED BY <1>2, Invariance, PTL DEF Spec, CompletedIsFrozen

-----------------------------------------------------------------------------
(***************************************************************************)
(* The limits: stock and credit.  What a confirmation read under its locks *)
(* is still so when it commits, so these lemmas say what a step leaves     *)
(* alone.                                                                  *)
(***************************************************************************)

\* A confirmation in flight was in flight before, or has just made its checks.
LEMMA ConfirmBegins ==
    ASSUME SalesInv, [Next]_vars, NEW r \in Requests, txn'[r].op = "confirm"
    PROVE  txn'[r] = txn[r] \/ \E o \in Orders : ConfirmRead(r, o)
<1> USE DEF SalesInv
<1>t. txn \in [Requests -> Transactions] BY DEF TypeOK
<1>1. CASE Draft
  BY <1>1 DEF Draft, CreateOrder, UpdateOrder, UpdateDetails, AddLine, UpdateLine, RemoveLine
<1>2. ASSUME NEW q \in Requests, NEW o \in Orders, ConfirmRead(q, o) PROVE txn'[r] = txn[r] \/ q = r
  BY <1>2, <1>t DEF ConfirmRead
<1>3. ASSUME NEW q \in Requests, Ends(q) PROVE txn'[r] = txn[r]
  BY <1>3, <1>t DEF Ends, Idle
<1>4. CASE Confirm BY <1>2, <1>3, <1>4 DEF Confirm, ConfirmCommit
<1>5. ASSUME NEW q \in Requests, NEW o \in Orders, CancelRead(q, o) PROVE txn'[r] = txn[r]
  BY <1>5, <1>t DEF CancelRead
<1>6. CASE Cancel BY <1>3, <1>5, <1>6 DEF Cancel, CancelCommit
<1>7. ASSUME NEW q \in Requests, SweepRead(q) PROVE txn'[r] = txn[r]
  BY <1>7, <1>t DEF SweepRead
<1>8. ASSUME NEW q \in Requests, NEW o \in Orders, NEW clear, txn[q].op = "sweep",
             txn' = [txn EXCEPT ![q] = SweepRest(q, o, clear)]
      PROVE  txn'[r] = txn[r]
  <2>1. CASE q # r BY <1>8, <1>t, <2>1
  <2>2. CASE q = r
    <3>1. txn[q] \in [op : {"sweep"}, rows : SUBSET LockRows,
                      queue : SUBSET Orders, clear : SUBSET Orders]
      BY <1>8, <1>t DEF Transactions
    <3>2. SweepRest(q, o, clear).op # "confirm" BY <3>1 DEF SweepRest, Idle
    <3> QED BY <1>8, <1>t, <2>2, <3>2
  <2> QED BY <2>1, <2>2
<1>9. CASE Sweep BY <1>7, <1>8, <1>9 DEF Sweep, SweepCancel, SweepSkip
<1>10. CASE Around BY <1>10 DEF Around, Elapse, PlanDelivery, StockIn, StockOut
<1>11. CASE UNCHANGED vars BY <1>11 DEF vars
<1> QED BY <1>1, <1>4, <1>6, <1>9, <1>10, <1>11, <1>3 DEF Next, Abort

\* Only the commit of a confirmation completes an order.
LEMMA CompletionIsConfirmation ==
    ASSUME SalesInv, [Next]_vars, NEW o \in Orders, order'[o].completed
    PROVE  order[o].completed \/ \E r \in Requests : ConfirmCommit(r) /\ o = txn[r].order
<1> USE DEF SalesInv
<1>t. order \in [Orders -> OrderRows] BY DEF TypeOK
<1>a. ASSUME NEW p \in Orders, NEW f, NEW c, NEW terms, NEW origin, NEW details,
             CreateOrder(p, f, c, terms, origin, details)
      PROVE  order[o].completed
  BY <1>a, <1>t DEF CreateOrder, BlankOrder
<1>b. ASSUME NEW p \in Orders, NEW c, NEW terms, UpdateOrder(p, c, terms) PROVE order[o].completed
  BY <1>b, <1>t DEF UpdateOrder, OrderRows
<1>c. ASSUME NEW p \in Orders, NEW details, UpdateDetails(p, details) PROVE order[o].completed
  BY <1>c, <1>t DEF UpdateDetails, OrderRows
<1>1. CASE Draft BY <1>1, <1>a, <1>b, <1>c DEF Draft, AddLine, UpdateLine, RemoveLine
<1>2. ASSUME NEW r \in Requests, ConfirmCommit(r) PROVE order[o].completed \/ o = txn[r].order
  BY <1>2, <1>t DEF ConfirmCommit
<1>3. CASE Confirm BY <1>2, <1>3 DEF Confirm, ConfirmRead, tables
<1>4. CASE Cancel \/ Sweep
  BY <1>4, <1>t DEF Cancel, Sweep, CancelRead, CancelCommit, SweepRead, SweepCancel, SweepSkip,
     tables, OrderRows
<1>5. CASE Around
  BY <1>5, <1>t DEF Around, Elapse, PlanDelivery, StockIn, StockOut, tables, OrderRows
<1>6. CASE (\E r \in Requests : Abort(r)) \/ UNCHANGED vars
  BY <1>6 DEF Abort, vars, tables
<1> QED BY <1>1, <1>3, <1>4, <1>5, <1>6 DEF Next

\* Whoever confirmed or is confirming an order reads the order the step leaves.
LEMMA DraftStands ==
    ASSUME SalesInv, [Next]_vars, NEW o \in Orders,
           order[o].completed \/ \E r \in Requests : OrderRow(o) \in Holds(r),
           order[o].exists
    PROVE  /\ line'[o] = line[o]
           /\ order'[o].exists
           /\ order'[o].customer = order[o].customer
           /\ order'[o].payment_terms = order[o].payment_terms
           /\ order'[o].facility = order[o].facility
           /\ order[o].completed => order'[o].completed
           /\ order[o].cancelled => order'[o].cancelled
           /\ order'[o].paid = order[o].paid
<1> DEFINE Stands == /\ line'[o] = line[o]
                     /\ order'[o].exists
                     /\ order'[o].customer = order[o].customer
                     /\ order'[o].payment_terms = order[o].payment_terms
                     /\ order'[o].facility = order[o].facility
                     /\ order[o].completed => order'[o].completed
                     /\ order[o].cancelled => order'[o].cancelled
                     /\ order'[o].paid = order[o].paid
<1> USE DEF SalesInv
<1>t. order \in [Orders -> OrderRows] /\ line \in [Orders -> [LineIds -> Lines \cup {None}]]
  BY DEF TypeOK
<1>0. \A p \in Orders : LocksForEdit(p) => p # o
  BY DEF LocksForEdit, Editable
<1>1. ASSUME NEW p \in Orders, NEW f, NEW c, NEW terms, NEW origin, NEW details,
             CreateOrder(p, f, c, terms, origin, details)
      PROVE  Stands
  BY <1>1, <1>t DEF CreateOrder
<1>2. ASSUME NEW p \in Orders, NEW c, NEW terms, UpdateOrder(p, c, terms) PROVE Stands
  BY <1>2, <1>0, <1>t DEF UpdateOrder
<1>3. ASSUME NEW p \in Orders, NEW details, UpdateDetails(p, details) PROVE Stands
  BY <1>3, <1>0, <1>t DEF UpdateDetails
<1>4. ASSUME NEW p \in Orders, NEW l, NEW m,
             AddLine(p, l, m) \/ UpdateLine(p, l, m) \/ RemoveLine(p, l)
      PROVE  Stands
  BY <1>4, <1>0, <1>t DEF AddLine, UpdateLine, RemoveLine
<1>5. CASE Draft BY <1>1, <1>2, <1>3, <1>4, <1>5 DEF Draft
<1>6. ASSUME NEW r \in Requests, ConfirmCommit(r) PROVE Stands
  BY <1>6, <1>t DEF ConfirmCommit, OrderRows
<1>7. CASE Confirm BY <1>6, <1>7 DEF Confirm, ConfirmRead, tables
<1>a. ASSUME NEW p, order' = [order EXCEPT ![p].cancelled = TRUE], line' = line PROVE Stands
  BY <1>a, <1>t DEF OrderRows
<1>8. CASE Cancel \/ Sweep
  BY <1>8, <1>a DEF Cancel, Sweep, CancelRead, CancelCommit, SweepRead, SweepCancel, SweepSkip,
     tables
<1>b. ASSUME NEW p \in Orders, PlanDelivery(p) PROVE Stands
  BY <1>b, <1>t DEF PlanDelivery, OrderRows
<1>9. CASE Around BY <1>9, <1>b DEF Around, Elapse, StockIn, StockOut, tables
<1>10. CASE (\E r \in Requests : Abort(r)) \/ UNCHANGED vars
  BY <1>10 DEF Abort, vars, tables
<1> QED BY <1>5, <1>7, <1>8, <1>9, <1>10 DEF Next

\* Only the commit of a confirmation adds claims.
LEMMA ClaimsOnlyLeave ==
    ASSUME SalesInv, [Next]_vars, \A r \in Requests : ~ ConfirmCommit(r), NEW o \in Orders
    PROVE  reservation'[o] = reservation[o] \/ reservation'[o] = NoClaims
<1> USE DEF SalesInv
<1>t. reservation \in [Orders -> ClaimRows] BY DEF TypeOK
<1>1. CASE Draft
  BY <1>1 DEF Draft, CreateOrder, UpdateOrder, UpdateDetails, AddLine, UpdateLine, RemoveLine
<1>2. CASE Confirm BY <1>2 DEF Confirm, ConfirmRead, tables
<1>3. CASE Cancel \/ Sweep
  BY <1>3, <1>t DEF Cancel, Sweep, CancelRead, CancelCommit, SweepRead, SweepCancel, SweepSkip,
     tables, Released
<1>4. CASE Around \/ (\E r \in Requests : Abort(r)) \/ UNCHANGED vars
  BY <1>4 DEF Around, Elapse, PlanDelivery, StockIn, StockOut, Abort, vars, tables
<1> QED BY <1>1, <1>2, <1>3, <1>4 DEF Next

\* Stock moves only in a warehouse nobody holds.
LEMMA StockMoves ==
    ASSUME [Next]_vars, NEW r \in Requests, NEW k \in StockKeys, WarehouseRow(k[2]) \in Holds(r),
           onHand \in [StockKeys -> Int]
    PROVE  onHand'[k] = onHand[k]
<1>1. CASE Draft \/ Confirm \/ Cancel \/ Sweep
  BY <1>1 DEF Draft, CreateOrder, UpdateOrder, UpdateDetails, AddLine, UpdateLine, RemoveLine,
     Confirm, ConfirmRead, ConfirmCommit, Cancel, Sweep, CancelRead, CancelCommit, SweepRead,
     SweepCancel, SweepSkip, tables
<1>2. ASSUME NEW j \in StockKeys, NEW q, StockIn(j, q) \/ StockOut(j, q) PROVE onHand'[k] = onHand[k]
  BY <1>2 DEF StockIn, StockOut
<1>3. CASE Around BY <1>2, <1>3 DEF Around, Elapse, PlanDelivery, tables
<1>4. CASE (\E q \in Requests : Abort(q)) \/ UNCHANGED vars BY <1>4 DEF Abort, vars, tables
<1> QED BY <1>1, <1>3, <1>4 DEF Next

-----------------------------------------------------------------------------
(***************************************************************************)
(* What is reserved of a stock key, as one sum over every line there can   *)
(* be: a line that claims another key, or nothing, counts zero.            *)
(***************************************************************************)
ClaimOf(row, k) == IF row # None /\ row.key = k THEN row.quantity ELSE 0

ClaimTable(res, k) == [c \in Orders \X LineIds |-> ClaimOf(res[c[1]][c[2]], k)]

OrderClaims(rows, k) == [l \in LineIds |-> ClaimOf(rows[l], k)]

ReservedIn(res, k) == SumFunctionOnSet(ClaimTable(res, k), Orders \X LineIds)

\* A claim is a natural number of units.
LEMMA ClaimIsNat ==
    ASSUME NEW row \in ReservationRows \cup {None}, NEW k
    PROVE  ClaimOf(row, k) \in Nat
<1>1. CASE row \in ReservationRows BY <1>1 DEF ClaimOf, ReservationRows
<1>2. CASE row = None BY <1>2 DEF ClaimOf
<1> QED BY <1>1, <1>2

\* Every line there can be, once per order.
LEMMA LinesFinite == IsFiniteSet(Orders \X LineIds) /\ IsFiniteSet(LineIds)
BY FS_Product, SalesConstants DEF SalesConstants

\* The terms of the sum are naturals.
LEMMA ClaimTableType ==
    ASSUME NEW res \in [Orders -> ClaimRows], NEW k
    PROVE  \A c \in Orders \X LineIds : ClaimTable(res, k)[c] \in Nat
<1> SUFFICES ASSUME NEW c \in Orders \X LineIds PROVE ClaimTable(res, k)[c] \in Nat
  OBVIOUS
<1>1. c[1] \in Orders /\ c[2] \in LineIds OBVIOUS
<1>2. res[c[1]][c[2]] \in ReservationRows \cup {None}
  BY <1>1 DEF ClaimRows
<1>3. ClaimTable(res, k)[c] = ClaimOf(res[c[1]][c[2]], k) BY DEF ClaimTable
<1> QED BY <1>2, <1>3, ClaimIsNat

\* The claims that name the key are the ones that count.
LEMMA ReservedIsSum ==
    ASSUME NEW res \in [Orders -> ClaimRows], NEW k,
           NEW claiming, claiming = {c \in Orders \X LineIds : /\ res[c[1]][c[2]] # None
                                                              /\ res[c[1]][c[2]].key = k}
    PROVE  SumFunction([c \in claiming |-> res[c[1]][c[2]].quantity]) = ReservedIn(res, k)
<1> DEFINE f == [c \in claiming |-> res[c[1]][c[2]].quantity]
           g == ClaimTable(res, k)
           S == Orders \X LineIds
<1>1. SumFunction(f) = SumFunctionOnSet(f, claiming)
  BY DEF SumFunction, SumFunctionOnSet, FoldFunction, f
<1>2. IsFiniteSet(S) /\ claiming \in SUBSET S /\ IsFiniteSet(claiming)
  BY LinesFinite, FS_Subset
<1>3. \A c \in S : g[c] \in Int BY ClaimTableType
<1>4. \A c \in S : g[c] = ClaimOf(res[c[1]][c[2]], k) BY DEF ClaimTable
<1>5. \A c \in S \ claiming : g[c] = 0 BY <1>4 DEF ClaimOf
<1>6. \A c \in claiming : f[c] = g[c] BY <1>2, <1>4 DEF ClaimOf
<1> HIDE DEF f, g, S
<1>7. SumFunctionOnSet(g, S) = SumFunctionOnSet(g, claiming)
  BY <1>2, <1>3, <1>5, SumOfPart
<1>8. SumFunctionOnSet(f, claiming) = SumFunctionOnSet(g, claiming)
  BY <1>2, <1>6, SumOfEqual
<1> QED BY <1>1, <1>7, <1>8 DEF ReservedIn, f, g, S

\* So before and after a step.
LEMMA ReservedSums ==
    ASSUME TypeOK, TypeOK', NEW k
    PROVE  Reserved(k) = ReservedIn(reservation, k) /\ Reserved(k)' = ReservedIn(reservation', k)
<1>1. reservation \in [Orders -> ClaimRows] /\ reservation' \in [Orders -> ClaimRows]
  BY DEF TypeOK
<1>2. PICK old : old = reservation OBVIOUS
<1>3. PICK new : new = reservation' OBVIOUS
<1>4. Reserved(k) = ReservedIn(old, k)
  BY <1>1, <1>2, ReservedIsSum DEF Reserved
<1>5. Reserved(k)' = ReservedIn(new, k)
  BY <1>1, <1>3, ReservedIsSum DEF Reserved
<1> QED BY <1>2, <1>3, <1>4, <1>5

\* Where claims only leave, no more is reserved.
LEMMA ReservedFalls ==
    ASSUME NEW old \in [Orders -> ClaimRows], NEW new \in [Orders -> ClaimRows], NEW k,
           \A o \in Orders, l \in LineIds : ClaimOf(new[o][l], k) <= ClaimOf(old[o][l], k)
    PROVE  ReservedIn(new, k) <= ReservedIn(old, k)
<1> DEFINE f == ClaimTable(new, k)
           g == ClaimTable(old, k)
           S == Orders \X LineIds
<1>1. \A c \in S : f[c] \in Int /\ g[c] \in Int BY ClaimTableType
<1>2. \A c \in S : f[c] <= g[c] BY DEF ClaimTable
<1>3. IsFiniteSet(S) BY LinesFinite
<1> HIDE DEF f, g, S
<1> QED BY <1>1, <1>2, <1>3, SumAtMost DEF ReservedIn, f, g, S

\* An order's claims add at most what they ask for.
LEMMA ReservedGrows ==
    ASSUME NEW old \in [Orders -> ClaimRows], NEW new \in [Orders -> ClaimRows], NEW k,
           NEW o \in Orders, \A p \in Orders \ {o} : new[p] = old[p]
    PROVE  ReservedIn(new, k) <= ReservedIn(old, k) + SumFunctionOnSet(OrderClaims(new[o], k), LineIds)
<1> DEFINE S == Orders \X LineIds
           O == {o} \X LineIds
           f == ClaimTable(new, k)
           g == ClaimTable(old, k)
           d == [c \in S |-> IF c[1] = o THEN f[c] ELSE 0]
           m == [c \in S |-> IF c[1] = o THEN 0 ELSE f[c]]
           w == OrderClaims(new[o], k)
           h == [l \in LineIds |-> <<o, l>>]
<1>1. IsFiniteSet(S) /\ IsFiniteSet(LineIds) /\ O \in SUBSET S BY LinesFinite
<1>2. \A c \in S : f[c] \in Nat /\ g[c] \in Nat BY ClaimTableType
<1>3. \A c \in S : d[c] \in Int /\ m[c] \in Int /\ m[c] = f[c] - d[c] BY <1>2
<1>4. \A c \in S : m[c] <= g[c]
  <2> SUFFICES ASSUME NEW c \in S PROVE m[c] <= g[c] OBVIOUS
  <2>1. CASE c[1] = o BY <1>2, <2>1
  <2>2. CASE c[1] # o
    <3>1. c[1] \in Orders \ {o} BY <2>2
    <3>2. new[c[1]] = old[c[1]] BY <3>1
    <3>3. f[c] = g[c] BY <3>2 DEF ClaimTable
    <3> QED BY <1>2, <2>2, <3>3
  <2> QED BY <2>1, <2>2
<1>5. \A c \in S \ O : d[c] = 0
  <2>1. \A c \in S \ O : c[1] # o OBVIOUS
  <2> QED BY <2>1
<1>6. \A l \in LineIds : h[l] \in O /\ w[l] \in Int /\ w[l] = d[h[l]]
  <2> SUFFICES ASSUME NEW l \in LineIds PROVE h[l] \in O /\ w[l] \in Int /\ w[l] = d[h[l]] OBVIOUS
  <2>1. h[l] = <<o, l>> /\ <<o, l>> \in S /\ <<o, l>> \in O OBVIOUS
  <2>2. d[<<o, l>>] = f[<<o, l>>] BY <2>1
  <2>3. f[<<o, l>>] = ClaimOf(new[o][l], k) BY <2>1 DEF ClaimTable
  <2>4. w[l] = ClaimOf(new[o][l], k) BY DEF OrderClaims
  <2> QED BY <1>2, <2>1, <2>2, <2>3, <2>4
<1>7. h \in [LineIds -> O] BY <1>6
<1>8. \A x, y \in LineIds : h[x] = h[y] => x = y OBVIOUS
<1>9. \A y \in O : \E x \in LineIds : h[x] = y OBVIOUS
<1> HIDE DEF f, g, d, m, w, h, S, O
<1>10. SumFunctionOnSet(m, S) = SumFunctionOnSet(f, S) - SumFunctionOnSet(d, S)
  <2>1. \A c \in S : f[c] \in Int /\ d[c] \in Int /\ m[c] = f[c] - d[c] BY <1>2, <1>3
  <2> QED BY <1>1, <2>1, SumOfDifferences
<1>11. SumFunctionOnSet(m, S) <= SumFunctionOnSet(g, S)
  <2>1. \A c \in S : m[c] \in Int /\ g[c] \in Int /\ m[c] <= g[c] BY <1>2, <1>3, <1>4
  <2> QED BY <1>1, <2>1, SumAtMost
<1>12. SumFunctionOnSet(d, S) = SumFunctionOnSet(d, O)
  BY <1>1, <1>3, <1>5, SumOfPart
<1>13. SumFunctionOnSet(w, LineIds) = SumFunctionOnSet(d, O)
  BY <1>1, <1>6, <1>7, <1>8, <1>9, SumRenamed
<1>14. /\ SumFunctionOnSet(f, S) \in Int /\ SumFunctionOnSet(g, S) \in Int
       /\ SumFunctionOnSet(d, S) \in Int /\ SumFunctionOnSet(m, S) \in Int
  <2>1. \A c \in S : f[c] \in Int /\ g[c] \in Int BY <1>2
  <2> QED BY <1>1, <1>3, <2>1, SumIsInt
<1>15. SumFunctionOnSet(f, S) <= SumFunctionOnSet(g, S) + SumFunctionOnSet(w, LineIds)
  BY <1>10, <1>11, <1>12, <1>13, <1>14
<1> QED BY <1>15 DEF ReservedIn, f, g, w, S

\* What a confirmation claims of a key is no more than its lines ask of it.
LEMMA ClaimsAreDemand ==
    ASSUME TypeOK, NEW o \in Orders, NEW k
    PROVE  /\ SumFunctionOnSet(OrderClaims(Claims(o), k), LineIds) <= Demand(o, k)
           /\ SumFunctionOnSet(OrderClaims(Claims(o), k), LineIds) \in Int
           /\ Demand(o, k) \in Int
<1> DEFINE asking == {l \in Filled(o) : /\ Reserves(line[o][l])
                                        /\ k = <<line[o][l].product, line[o][l].warehouse>>}
           w == OrderClaims(Claims(o), k)
           f == [l \in asking |-> line[o][l].quantity]
<1>1. Demand(o, k) = SumFunction(f) BY DEF Demand
<1>2. SumFunction(f) = SumFunctionOnSet(f, asking)
  BY DEF SumFunction, SumFunctionOnSet, FoldFunction, f
<1>3. asking \in SUBSET LineIds /\ IsFiniteSet(LineIds) BY LinesFinite DEF Filled
<1>c. Claims(o) \in ClaimRows BY ClaimsType
<1>4. \A l \in LineIds : w[l] = ClaimOf(Claims(o)[l], k) BY DEF OrderClaims
<1>5. \A l \in LineIds : w[l] \in Int
  BY <1>4, <1>c, ClaimIsNat DEF ClaimRows
<1>n. \A l \in Filled(o) : line[o][l] \in Lines BY DEF Filled, TypeOK
<1>6. \A l \in asking : f[l] \in Int /\ w[l] <= f[l]
  <2> SUFFICES ASSUME NEW l \in asking PROVE f[l] \in Int /\ w[l] <= f[l] OBVIOUS
  <2>1. l \in LineIds /\ l \in Filled(o) /\ Reserves(line[o][l]) BY <1>3
  <2>2. Claims(o)[l] = [key |-> <<line[o][l].product, line[o][l].warehouse>>,
                        quantity |-> line[o][l].quantity]
    BY <2>1 DEF Claims
  <2>3. f[l] = line[o][l].quantity /\ f[l] \in Nat BY <1>n, <2>1 DEF Lines
  <2>4. w[l] = 0 \/ w[l] = f[l] BY <1>4, <2>1, <2>2, <2>3 DEF ClaimOf
  <2> QED BY <2>3, <2>4
<1>7. \A l \in LineIds \ asking : w[l] = 0
  <2> SUFFICES ASSUME NEW l \in LineIds \ asking PROVE w[l] = 0 OBVIOUS
  <2>1. CASE l \in Filled(o) /\ Reserves(line[o][l])
    <3>1. Claims(o)[l] = [key |-> <<line[o][l].product, line[o][l].warehouse>>,
                          quantity |-> line[o][l].quantity]
      BY <2>1 DEF Claims
    <3> QED BY <1>4, <2>1, <3>1 DEF ClaimOf
  <2>2. CASE ~ (l \in Filled(o) /\ Reserves(line[o][l]))
    <3>1. Claims(o)[l] = None BY <2>2 DEF Claims
    <3> QED BY <1>4, <3>1 DEF ClaimOf
  <2> QED BY <2>1, <2>2
<1> HIDE DEF asking, w, f
<1>8. SumFunctionOnSet(w, LineIds) = SumFunctionOnSet(w, asking)
  BY <1>3, <1>5, <1>7, SumOfPart
<1>9. SumFunctionOnSet(w, asking) <= SumFunctionOnSet(f, asking)
  <2>1. IsFiniteSet(asking) BY <1>3, FS_Subset
  <2>2. \A l \in asking : w[l] \in Int /\ f[l] \in Int /\ w[l] <= f[l] BY <1>3, <1>5, <1>6
  <2> QED BY <2>1, <2>2, SumAtMost
<1>10. SumFunctionOnSet(f, asking) \in Int /\ SumFunctionOnSet(w, LineIds) \in Int
  <2>1. IsFiniteSet(asking) BY <1>3, FS_Subset
  <2> QED BY <1>3, <1>5, <1>6, <2>1, SumIsInt
<1> QED BY <1>1, <1>2, <1>8, <1>9, <1>10 DEF w

\* Sums of claims are whole numbers.
LEMMA ReservedIsInt ==
    ASSUME TypeOK, TypeOK', NEW k
    PROVE  Reserved(k) \in Int /\ Reserved(k)' \in Int
<1>1. ASSUME NEW res \in [Orders -> ClaimRows] PROVE ReservedIn(res, k) \in Int
  <2> DEFINE f == ClaimTable(res, k)
  <2>1. \A c \in Orders \X LineIds : f[c] \in Int BY ClaimTableType
  <2> HIDE DEF f
  <2>2. SumFunctionOnSet(f, Orders \X LineIds) \in Int BY <2>1, SumIsInt, LinesFinite
  <2> QED BY <2>2 DEF ReservedIn, f
<1>2. reservation \in [Orders -> ClaimRows] /\ reservation' \in [Orders -> ClaimRows]
  BY DEF TypeOK
<1> QED BY <1>1, <1>2, ReservedSums

\* Outside the commits of confirmations, no more becomes reserved.
LEMMA ReservedNotMore ==
    ASSUME SalesInv, TypeOK', [Next]_vars, \A r \in Requests : ~ ConfirmCommit(r), NEW k
    PROVE  Reserved(k)' <= Reserved(k)
<1> USE DEF SalesInv
<1>1. reservation \in [Orders -> ClaimRows] /\ reservation' \in [Orders -> ClaimRows]
  BY DEF TypeOK
<1>2. \A o \in Orders : reservation'[o] = reservation[o] \/ reservation'[o] = NoClaims
  BY ClaimsOnlyLeave
<1>3. PICK old : old = reservation OBVIOUS
<1>4. PICK new : new = reservation' OBVIOUS
<1>5. \A o \in Orders, l \in LineIds : ClaimOf(new[o][l], k) <= ClaimOf(old[o][l], k)
  <2> SUFFICES ASSUME NEW o \in Orders, NEW l \in LineIds
               PROVE  ClaimOf(new[o][l], k) <= ClaimOf(old[o][l], k)
    OBVIOUS
  <2>1. ClaimOf(old[o][l], k) \in Nat BY <1>1, <1>3, ClaimIsNat DEF ClaimRows
  <2>2. CASE new[o] = old[o] BY <2>1, <2>2
  <2>3. CASE new[o] = NoClaims
    <3>1. ClaimOf(new[o][l], k) = 0 BY <2>3 DEF NoClaims, ClaimOf
    <3> QED BY <2>1, <3>1
  <2> QED BY <1>2, <1>3, <1>4, <2>2, <2>3
<1>6. ReservedIn(new, k) <= ReservedIn(old, k) BY <1>1, <1>3, <1>4, <1>5, ReservedFalls
<1> QED BY <1>3, <1>4, <1>6, ReservedSums

\* The commit of a confirmation reserves at most what its order asks for, and
\* nothing of the keys it does not draw on.
LEMMA CommitReserves ==
    ASSUME SalesInv, TypeOK', NEW r \in Requests, ConfirmCommit(r),
           NEW o \in Orders, o = txn[r].order, NEW k
    PROVE  /\ Demand(o, k) \in Int
           /\ Reserved(k)' <= Reserved(k) + Demand(o, k)
           /\ ~ Draws(o, k) => Reserved(k)' <= Reserved(k)
<1> USE DEF SalesInv
<1>1. reservation \in [Orders -> ClaimRows] /\ reservation' \in [Orders -> ClaimRows]
  BY DEF TypeOK
<1>2. txn[r].claims = Claims(o) BY DEF ConfirmCommit, ConfirmCovered, Covered
<1>3. reservation'[o] = Claims(o) /\ \A p \in Orders \ {o} : reservation'[p] = reservation[p]
  BY <1>1, <1>2 DEF ConfirmCommit
<1>4. PICK old : old = reservation OBVIOUS
<1>5. PICK new : new = reservation' OBVIOUS
<1>6. Reserved(k) = ReservedIn(old, k) /\ Reserved(k)' = ReservedIn(new, k)
  BY <1>4, <1>5, ReservedSums
<1>7. ReservedIn(new, k) <= ReservedIn(old, k) + SumFunctionOnSet(OrderClaims(new[o], k), LineIds)
  BY <1>1, <1>3, <1>4, <1>5, ReservedGrows
<1>8. new[o] = Claims(o) BY <1>3, <1>5
<1>9. PICK s : s = SumFunctionOnSet(OrderClaims(Claims(o), k), LineIds) OBVIOUS
<1>10. s <= Demand(o, k) /\ s \in Int /\ Demand(o, k) \in Int BY <1>9, ClaimsAreDemand
<1>11. Reserved(k) \in Int /\ Reserved(k)' \in Int BY ReservedIsInt
<1>12. Reserved(k)' <= Reserved(k) + s BY <1>6, <1>7, <1>8, <1>9
<1>13. Reserved(k)' <= Reserved(k) + Demand(o, k) BY <1>10, <1>11, <1>12
<1>14. ASSUME ~ Draws(o, k) PROVE Reserved(k)' <= Reserved(k)
  <2>1. \A l \in LineIds : ClaimOf(Claims(o)[l], k) = 0
    <3> SUFFICES ASSUME NEW l \in LineIds PROVE ClaimOf(Claims(o)[l], k) = 0 OBVIOUS
    <3>1. CASE l \in Filled(o) /\ Reserves(line[o][l])
      <4>1. Claims(o)[l].key # k BY <1>14, <3>1 DEF Claims, Draws
      <4> QED BY <4>1 DEF ClaimOf
    <3>2. CASE ~ (l \in Filled(o) /\ Reserves(line[o][l]))
      <4>1. Claims(o)[l] = None BY <3>2 DEF Claims
      <4> QED BY <4>1 DEF ClaimOf
    <3> QED BY <3>1, <3>2
  <2>2. \A p \in Orders, l \in LineIds : ClaimOf(new[p][l], k) <= ClaimOf(old[p][l], k)
    <3> SUFFICES ASSUME NEW p \in Orders, NEW l \in LineIds
                 PROVE  ClaimOf(new[p][l], k) <= ClaimOf(old[p][l], k)
      OBVIOUS
    <3>1. ClaimOf(old[p][l], k) \in Nat BY <1>1, <1>4, ClaimIsNat DEF ClaimRows
    <3>2. CASE p # o BY <1>3, <1>4, <1>5, <3>1, <3>2
    <3>3. CASE p = o
      <4>1. ClaimOf(new[p][l], k) = 0 BY <1>8, <2>1, <3>3
      <4> QED BY <3>1, <4>1
    <3> QED BY <3>2, <3>3
  <2>3. ReservedIn(new, k) <= ReservedIn(old, k) BY <1>1, <1>4, <1>5, <2>2, ReservedFalls
  <2> QED BY <1>6, <2>3
<1> QED BY <1>10, <1>13, <1>14

\* An order in flight asks the same of every key after a step that leaves its
\* lines alone.
LEMMA DemandKept ==
    ASSUME NEW o, line'[o] = line[o], NEW k
    PROVE  Demand(o, k)' = Demand(o, k) /\ Draws(o, k)' = Draws(o, k) /\ Total(o)' = Total(o)
<1>1. Filled(o)' = Filled(o) BY DEF Filled
<1> QED BY <1>1 DEF Demand, Draws, Total, Reserves

\* The stock half of the limits.
StockInv ==
    /\ NotOversold
    /\ \A r \in Requests : txn[r].op = "confirm" => StockAfforded(r)

\* Stock is not oversold by any step: whoever adds claims checked them
\* against what was available, in warehouses it still holds.
LEMMA StockKeeps ==
    ASSUME SalesInv, TypeOK', StockInv, [Next]_vars
    PROVE  StockInv'
<1> USE DEF SalesInv, StockInv
<1>i. \A k \in StockKeys : Reserved(k) \in Int /\ Reserved(k)' \in Int /\ onHand[k] \in Int
                             /\ onHand'[k] \in Int
  BY ReservedIsInt DEF TypeOK
<1>1. NotOversold'
  <2> SUFFICES ASSUME NEW k \in StockKeys PROVE Reserved(k)' <= onHand'[k] BY DEF NotOversold
  <2>0. Reserved(k) <= onHand[k] BY DEF NotOversold
  <2>1. ASSUME NEW r \in Requests, ConfirmCommit(r) PROVE Reserved(k)' <= onHand'[k]
    <3>1. PICK o : o = txn[r].order OBVIOUS
    <3>2. txn[r].op = "confirm" /\ o \in Orders /\ onHand' = onHand
      BY <2>1, <3>1 DEF ConfirmCommit, TypeOK, Transactions
    <3>3. Draws(o, k) => Reserved(k) + Demand(o, k) <= onHand[k]
      BY <3>1, <3>2 DEF StockAfforded
    <3>4. /\ Demand(o, k) \in Int /\ Reserved(k)' <= Reserved(k) + Demand(o, k)
          /\ ~ Draws(o, k) => Reserved(k)' <= Reserved(k)
      BY <2>1, <3>1, <3>2, CommitReserves
    <3> QED BY <1>i, <2>0, <3>2, <3>3, <3>4
  <2>2. ASSUME NEW j \in StockKeys, NEW q \in Movements, StockIn(j, q)
        PROVE  Reserved(k)' <= onHand'[k]
    <3>1. Reserved(k)' = Reserved(k) BY <2>2 DEF StockIn, Reserved
    <3>2. q \in Nat BY SalesOrderConstants DEF SalesOrderConstants
    <3>3. onHand'[k] >= onHand[k] BY <1>i, <2>2, <3>2 DEF StockIn, TypeOK
    <3> QED BY <1>i, <2>0, <3>1, <3>3
  <2>3. ASSUME NEW j \in StockKeys, NEW q \in Movements, StockOut(j, q)
        PROVE  Reserved(k)' <= onHand'[k]
    <3>1. Reserved(k)' = Reserved(k) BY <2>3 DEF StockOut, Reserved
    <3>2. q \in Nat BY SalesOrderConstants DEF SalesOrderConstants
    <3>3. CASE j # k BY <2>0, <2>3, <3>1, <3>3 DEF StockOut, TypeOK
    <3>4. CASE j = k
      <4>1. onHand'[k] = onHand[k] - q BY <2>3, <3>4 DEF StockOut, TypeOK
      <4>2. q <= onHand[k] - Reserved(k) BY <2>3, <3>4 DEF StockOut, Available
      <4> QED BY <1>i, <3>1, <3>2, <4>1, <4>2
    <3> QED BY <3>3, <3>4
  <2>4. CASE /\ \A r \in Requests : ~ ConfirmCommit(r)
             /\ \A j \in StockKeys, q \in Movements : ~ StockIn(j, q) /\ ~ StockOut(j, q)
    <3>1. onHand' = onHand
      <4>1. CASE Draft \/ Confirm \/ Cancel \/ Sweep
        BY <4>1 DEF Draft, CreateOrder, UpdateOrder, UpdateDetails, AddLine, UpdateLine,
           RemoveLine, Confirm, ConfirmRead, ConfirmCommit, Cancel, Sweep, CancelRead,
           CancelCommit, SweepRead, SweepCancel, SweepSkip, tables
      <4>2. CASE Around \/ (\E r \in Requests : Abort(r)) \/ UNCHANGED vars
        BY <2>4, <4>2 DEF Around, Elapse, PlanDelivery, Abort, vars, tables
      <4> QED BY <4>1, <4>2 DEF Next
    <3>2. Reserved(k)' <= Reserved(k) BY <2>4, ReservedNotMore
    <3> QED BY <1>i, <2>0, <3>1, <3>2
  <2> QED BY <2>1, <2>2, <2>3, <2>4
<1>2. ASSUME NEW r \in Requests, NEW o \in Orders, ConfirmRead(r, o) PROVE StockAfforded(r)'
  <2>1. txn'[r].order = o /\ txn'[r].rows = ConfirmRows(o)
    BY <1>2 DEF ConfirmRead, TypeOK
  <2>2. line' = line /\ reservation' = reservation /\ onHand' = onHand /\ ~ StockShortfall(o)
    BY <1>2 DEF ConfirmRead, tables, Confirmable
  <2>3. ASSUME NEW k \in StockKeys, Draws(o, k)
        PROVE  WarehouseRow(k[2]) \in ConfirmRows(o) /\ Reserved(k) + Demand(o, k) <= onHand[k]
    <3>1. PICK l \in Filled(o) : Reserves(line[o][l]) /\ k = <<line[o][l].product, line[o][l].warehouse>>
      BY <2>3 DEF Draws
    <3>2. k[2] = line[o][l].warehouse /\ k[2] # None BY <3>1 DEF Reserves
    <3>3. WarehouseRow(k[2]) \in ConfirmRows(o)
      <4>1. k[2] \in {line[o][m].warehouse : m \in Filled(o)} \ {None} BY <3>1, <3>2
      <4> QED BY <4>1 DEF ConfirmRows, WarehouseRows
    <3>4. ~ (Demand(o, k) > Available(k)) BY <2>2, <3>1 DEF StockShortfall
    <3>5. Demand(o, k) \in Int BY ClaimsAreDemand
    <3> QED BY <1>i, <3>3, <3>4, <3>5 DEF Available
  <2>4. \A k \in StockKeys : Demand(o, k)' = Demand(o, k) /\ Draws(o, k)' = Draws(o, k)
                               /\ Reserved(k)' = Reserved(k)
    BY <2>2, DemandKept DEF Reserved
  <2>5. \A k \in StockKeys : Draws(o, k)' =>
           WarehouseRow(k[2]) \in txn'[r].rows /\ Reserved(k)' + Demand(o, k)' <= onHand'[k]
    BY <2>1, <2>2, <2>3, <2>4
  <2>6. PICK p : p = txn'[r].order OBVIOUS
  <2>7. p = o BY <2>1, <2>6
  <2> QED BY <2>5, <2>6, <2>7 DEF StockAfforded, WarehouseRow
<1>3. ASSUME NEW r \in Requests, txn'[r].op = "confirm", txn'[r] = txn[r] PROVE StockAfforded(r)'
  <2>1. PICK o : o = txn[r].order OBVIOUS
  <2>2. o \in Orders /\ StockAfforded(r) /\ Covered(r) /\ OrderRow(o) \in Holds(r)
    BY <1>3, <2>1, ConfirmHolds DEF ConfirmCovered
  <2>3. line'[o] = line[o]
    <3>1. order[o].exists BY <2>1, <2>2 DEF Covered, Editable
    <3> QED BY <2>2, <3>1, DraftStands
  <2>4. \A k \in StockKeys : Demand(o, k)' = Demand(o, k) /\ Draws(o, k)' = Draws(o, k)
    BY <2>3, DemandKept
  <2>5. ASSUME NEW k \in StockKeys, Draws(o, k)
        PROVE  WarehouseRow(k[2]) \in txn'[r].rows /\ Reserved(k)' + Demand(o, k) <= onHand'[k]
    <3>1. WarehouseRow(k[2]) \in txn[r].rows /\ Reserved(k) + Demand(o, k) <= onHand[k]
      BY <2>1, <2>2, <2>5 DEF StockAfforded
    <3>2. WarehouseRow(k[2]) \in Holds(r) BY <1>3, <3>1 DEF Holds
    <3>3. onHand'[k] = onHand[k] BY <3>2, StockMoves DEF TypeOK
    <3>4. Reserved(k)' <= Reserved(k)
      <4>1. ASSUME NEW q \in Requests, ConfirmCommit(q) PROVE Reserved(k)' <= Reserved(k)
        <5>1. PICK p : p = txn[q].order OBVIOUS
        <5>2. txn[q].op = "confirm" /\ p \in Orders
          BY <4>1, <5>1 DEF ConfirmCommit, TypeOK, Transactions
        <5>3. q # r BY <1>3, <4>1 DEF ConfirmCommit, Ends, Idle, TypeOK
        <5>4. WarehouseRow(k[2]) \notin Holds(q) BY <3>2, <5>3 DEF LocksExclusive
        <5>5. ~ Draws(p, k)
          <6>1. Draws(p, k) => WarehouseRow(k[2]) \in txn[q].rows
            BY <5>1, <5>2 DEF StockAfforded
          <6> QED BY <5>2, <5>4, <6>1 DEF Holds
        <5> QED BY <4>1, <5>1, <5>2, <5>5, CommitReserves
      <4> QED BY <4>1, ReservedNotMore
    <3>5. Demand(o, k) \in Int BY <2>2, ClaimsAreDemand
    <3> QED BY <1>3, <1>i, <3>1, <3>3, <3>4, <3>5
  <2>6. \A k \in StockKeys : Draws(o, k)' =>
           WarehouseRow(k[2]) \in txn'[r].rows /\ Reserved(k)' + Demand(o, k)' <= onHand'[k]
    BY <2>4, <2>5
  <2>7. PICK p : p = txn'[r].order OBVIOUS
  <2>8. p = o BY <1>3, <2>1, <2>7
  <2> QED BY <2>6, <2>7, <2>8 DEF StockAfforded, WarehouseRow
<1>4. ASSUME NEW r \in Requests, txn'[r].op = "confirm" PROVE StockAfforded(r)'
  BY <1>2, <1>3, <1>4, ConfirmBegins
<1> QED BY <1>1, <1>4

-----------------------------------------------------------------------------
(***************************************************************************)
(* What a customer owes, as one sum over all orders.                       *)
(***************************************************************************)
Owed(o, c) ==
    IF CreditCandidate(o) /\ order[o].customer = c /\ Total(o) > Settled THEN Total(o) ELSE 0

\* The lines of an order cost a natural number of cents.
LEMMA LinesCost ==
    ASSUME NEW rows \in [LineIds -> Lines \cup {None}], NEW filled \in SUBSET LineIds,
           \A l \in filled : rows[l] # None
    PROVE  SumFunction([l \in filled |-> rows[l].quantity * rows[l].price]) \in Nat
<1> DEFINE f == [l \in filled |-> rows[l].quantity * rows[l].price]
<1>1. \A l \in filled : f[l] \in Nat
  <2> SUFFICES ASSUME NEW l \in filled PROVE f[l] \in Nat OBVIOUS
  <2>1. rows[l] \in Lines OBVIOUS
  <2>2. rows[l].quantity \in Nat /\ rows[l].price \in Nat BY <2>1 DEF Lines
  <2>3. \A x, y \in Nat : x * y \in Nat OBVIOUS
  <2> QED BY <2>2, <2>3
<1>2. SumFunction(f) = SumFunctionOnSet(f, filled)
  BY DEF SumFunction, SumFunctionOnSet, FoldFunction, f
<1>3. IsFiniteSet(filled) BY LinesFinite, FS_Subset
<1> HIDE DEF f
<1>4. SumFunctionOnSet(f, filled) \in Nat BY <1>1, <1>3, SumIsNat
<1> QED BY <1>2, <1>4 DEF f

\* Before a step and after it.
LEMMA TotalIsNat ==
    ASSUME TypeOK, TypeOK', NEW o \in Orders
    PROVE  Total(o) \in Nat /\ Total(o)' \in Nat
<1>1. ASSUME NEW rows \in [LineIds -> Lines \cup {None}], NEW filled,
             filled = {l \in LineIds : rows[l] # None}
      PROVE  SumFunction([l \in filled |-> rows[l].quantity * rows[l].price]) \in Nat
  BY <1>1, LinesCost
<1>2. line[o] \in [LineIds -> Lines \cup {None}] /\ line'[o] \in [LineIds -> Lines \cup {None}]
  BY DEF TypeOK
<1>3. PICK old : old = line[o] OBVIOUS
<1>4. PICK new : new = line'[o] OBVIOUS
<1>5. Total(o) \in Nat BY <1>1, <1>2, <1>3 DEF Total, Filled
<1>6. Total(o)' \in Nat BY <1>1, <1>2, <1>4 DEF Total, Filled
<1> QED BY <1>5, <1>6

\* A sum of no terms is zero.
LEMMA SumEmpty == ASSUME NEW f, DOMAIN f = {} PROVE SumFunction(f) = 0
<1>1. SumFunction(f) = SumFunctionOnSet(f, {})
  BY DEF SumFunction, SumFunctionOnSet, FoldFunction
<1> QED BY <1>1, SumOfNone

\* With nothing paid and nothing refunded, an order's balance is its total.
LEMMA BalanceIsTotal ==
    ASSUME NoMoney, NEW o \in Orders
    PROVE  Balance(o) = Remaining(Total(o), 0)
<1>1. LiveApplications(o) = {} BY DEF NoMoney, LiveApplications
<1>2. Applied(o) = 0 BY <1>1, SumEmpty DEF Applied
<1>3. {n \in Refunds : /\ refund[n] # None
                       /\ refund[n].order = o
                       /\ refund[n].completed
                       /\ ~ refund[n].cancelled} = {}
  BY DEF NoMoney
<1>4. Refunded(o) = 0 BY <1>3, SumEmpty DEF Refunded
<1> QED BY <1>2, <1>4 DEF Balance

\* The orders that owe nothing count zero.
LEMMA OpenSum ==
    ASSUME NEW open \in SUBSET Orders, NEW bal, NEW f,
           \A o \in Orders : f[o] \in Int,
           \A o \in open : bal[o] = f[o], \A o \in Orders \ open : f[o] = 0
    PROVE  SumFunction([o \in open |-> bal[o]]) = SumFunctionOnSet(f, Orders)
<1> DEFINE g == [o \in open |-> bal[o]]
<1>1. IsFiniteSet(Orders) /\ IsFiniteSet(open)
  BY SalesConstants, FS_Subset DEF SalesConstants
<1>2. SumFunction(g) = SumFunctionOnSet(g, open)
  BY DEF SumFunction, SumFunctionOnSet, FoldFunction, g
<1>3. \A o \in open : g[o] = f[o] OBVIOUS
<1> HIDE DEF g
<1>4. SumFunctionOnSet(g, open) = SumFunctionOnSet(f, open) BY <1>1, <1>3, SumOfEqual
<1>5. SumFunctionOnSet(f, Orders) = SumFunctionOnSet(f, open) BY <1>1, SumOfPart
<1> QED BY <1>2, <1>4, <1>5 DEF g

\* The customer's debt is what their orders owe, before a step and after it.
LEMMA DebtIsOwed ==
    ASSUME TypeOK, TypeOK', NoMoney, NoMoney', NEW c,
           NEW f, \A o \in Orders : f[o] = Owed(o, c),
           NEW g, \A o \in Orders : g[o] = Owed(o, c)'
    PROVE  /\ CreditDebt(c) = SumFunctionOnSet(f, Orders)
           /\ CreditDebt(c)' = SumFunctionOnSet(g, Orders)
           /\ \A o \in Orders : f[o] \in Nat /\ g[o] \in Nat
<1>1. \A o \in Orders : Owed(o, c) \in Nat /\ Owed(o, c)' \in Nat
  BY TotalIsNat DEF Owed
<1>2. \A o \in Orders : f[o] \in Nat /\ g[o] \in Nat BY <1>1
<1>3. \A o \in Orders : Balance(o) = Remaining(Total(o), 0) BY BalanceIsTotal
<1>4. \A o \in Orders : Balance(o)' = Remaining(Total(o)', 0)
  <2>1. \A o \in Orders : LiveApplications(o)' = {} BY DEF NoMoney, LiveApplications
  <2>2. \A o \in Orders : Applied(o)' = 0 BY <2>1, SumEmpty DEF Applied
  <2>3. \A o \in Orders : {n \in Refunds : /\ refund'[n] # None
                                           /\ refund'[n].order = o
                                           /\ refund'[n].completed
                                           /\ ~ refund'[n].cancelled} = {}
    BY DEF NoMoney
  <2>4. \A o \in Orders : Refunded(o)' = 0 BY <2>3, SumEmpty DEF Refunded
  <2> QED BY <2>2, <2>4 DEF Balance, Remaining
<1>5. PICK open : open = OpenCreditOrders(c) OBVIOUS
<1>6. PICK bal : bal = [o \in Orders |-> Balance(o)] OBVIOUS
<1>7. PICK open2 : open2 = OpenCreditOrders(c)' OBVIOUS
<1>8. PICK bal2 : bal2 = [o \in Orders |-> Balance(o)'] OBVIOUS
<1>9. open \in SUBSET Orders /\ open2 \in SUBSET Orders BY <1>5, <1>7 DEF OpenCreditOrders
<1>10. /\ \A o \in open : bal[o] = f[o]
       /\ \A o \in Orders \ open : f[o] = 0
  <2>1. \A o \in Orders : o \in open <=> (CreditCandidate(o) /\ order[o].customer = c /\ Balance(o) > Settled)
    BY <1>5 DEF OpenCreditOrders
  <2>2. \A o \in Orders : Total(o) \in Nat BY TotalIsNat
  <2> QED BY <1>3, <1>6, <1>9, <2>1, <2>2 DEF Owed, Remaining, Settled
<1>11. /\ \A o \in open2 : bal2[o] = g[o]
       /\ \A o \in Orders \ open2 : g[o] = 0
  <2>1. \A o \in Orders : o \in open2 <=>
           (CreditCandidate(o)' /\ order'[o].customer = c /\ Balance(o)' > Settled)
    BY <1>7 DEF OpenCreditOrders, Settled
  <2>2. \A o \in Orders : Total(o)' \in Nat BY TotalIsNat
  <2>3. \A o \in Orders : g[o] = IF CreditCandidate(o)' /\ order'[o].customer = c /\ Total(o)' > Settled
                                 THEN Total(o)' ELSE 0
    BY DEF Owed, Settled
  <2> QED BY <1>4, <1>8, <1>9, <2>1, <2>2, <2>3 DEF Remaining, Settled
<1>12. CreditDebt(c) = SumFunction([o \in open |-> bal[o]])
  <2>1. [o \in OpenCreditOrders(c) |-> Balance(o)] = [o \in open |-> bal[o]]
    BY <1>5, <1>6, <1>9
  <2> QED BY <2>1 DEF CreditDebt
<1>13. CreditDebt(c)' = SumFunction([o \in open2 |-> bal2[o]])
  <2>1. [o \in OpenCreditOrders(c)' |-> Balance(o)'] = [o \in open2 |-> bal2[o]]
    BY <1>7, <1>8, <1>9
  <2> QED BY <2>1 DEF CreditDebt
<1>14. CreditDebt(c) = SumFunctionOnSet(f, Orders) BY <1>2, <1>9, <1>10, <1>12, OpenSum
<1>15. CreditDebt(c)' = SumFunctionOnSet(g, Orders) BY <1>2, <1>9, <1>11, <1>13, OpenSum
<1> QED BY <1>2, <1>14, <1>15

\* The debt moves with the one order that comes to owe, and otherwise falls.
LEMMA DebtMoves ==
    ASSUME TypeOK, TypeOK', NoMoney, NoMoney', NEW c, NEW o \in Orders, NEW n \in Nat,
           \A p \in Orders \ {o} : Owed(p, c)' <= Owed(p, c),
           Owed(o, c)' <= Owed(o, c) + n
    PROVE  CreditDebt(c)' <= CreditDebt(c) + n /\ CreditDebt(c) \in Int /\ CreditDebt(c)' \in Int
<1>1. PICK f : f = [p \in Orders |-> Owed(p, c)] OBVIOUS
<1>2. PICK g : g = [p \in Orders |-> Owed(p, c)'] OBVIOUS
<1>3. \A p \in Orders : f[p] = Owed(p, c) /\ g[p] = Owed(p, c)' BY <1>1, <1>2
<1>4. /\ CreditDebt(c) = SumFunctionOnSet(f, Orders)
      /\ CreditDebt(c)' = SumFunctionOnSet(g, Orders)
      /\ \A p \in Orders : f[p] \in Nat /\ g[p] \in Nat
  BY <1>3, DebtIsOwed
<1> DEFINE h == [p \in Orders |-> IF p = o THEN f[p] + n ELSE f[p]]
<1>5. IsFiniteSet(Orders) BY SalesConstants DEF SalesConstants
<1>6. /\ \A p \in Orders : f[p] \in Int /\ h[p] \in Int /\ g[p] \in Int
      /\ \A p \in Orders \ {o} : f[p] = h[p]
      /\ h[o] = f[o] + n
  BY <1>4
<1>7. \A p \in Orders : g[p] <= h[p] BY <1>3, <1>4
<1> HIDE DEF h
<1>8. SumFunctionOnSet(h, Orders) = SumFunctionOnSet(f, Orders) - f[o] + h[o]
  BY <1>5, <1>6, SumChanged
<1>9. SumFunctionOnSet(g, Orders) <= SumFunctionOnSet(h, Orders)
  BY <1>5, <1>6, <1>7, SumAtMost
<1>10. SumFunctionOnSet(f, Orders) \in Int /\ SumFunctionOnSet(g, Orders) \in Int
         /\ SumFunctionOnSet(h, Orders) \in Int
  BY <1>5, <1>6, SumIsInt
<1> QED BY <1>4, <1>6, <1>8, <1>9, <1>10

\* With no such order it falls.
LEMMA DebtFalls ==
    ASSUME TypeOK, TypeOK', NoMoney, NoMoney', NEW c,
           \A p \in Orders : Owed(p, c)' <= Owed(p, c)
    PROVE  CreditDebt(c)' <= CreditDebt(c) /\ CreditDebt(c) \in Int /\ CreditDebt(c)' \in Int
<1>1. PICK f : f = [p \in Orders |-> Owed(p, c)] OBVIOUS
<1>2. PICK g : g = [p \in Orders |-> Owed(p, c)'] OBVIOUS
<1>3. \A p \in Orders : f[p] = Owed(p, c) /\ g[p] = Owed(p, c)' BY <1>1, <1>2
<1>4. /\ CreditDebt(c) = SumFunctionOnSet(f, Orders)
      /\ CreditDebt(c)' = SumFunctionOnSet(g, Orders)
      /\ \A p \in Orders : f[p] \in Nat /\ g[p] \in Nat
  BY <1>3, DebtIsOwed
<1>5. IsFiniteSet(Orders) BY SalesConstants DEF SalesConstants
<1>6. \A p \in Orders : f[p] \in Int /\ g[p] \in Int /\ g[p] <= f[p] BY <1>3, <1>4
<1>7. SumFunctionOnSet(g, Orders) <= SumFunctionOnSet(f, Orders) BY <1>5, <1>6, SumAtMost
<1>8. SumFunctionOnSet(f, Orders) \in Int /\ SumFunctionOnSet(g, Orders) \in Int
  BY <1>5, <1>6, SumIsInt
<1> QED BY <1>4, <1>7, <1>8

\* Nothing in this module pays or refunds.
LEMMA NoMoneyKept == ASSUME NoMoney, [Next]_vars PROVE NoMoney'
<1>1. application' = application /\ refund' = refund
  <2>1. CASE Draft \/ Confirm \/ Cancel \/ Sweep
    BY <2>1 DEF Draft, CreateOrder, UpdateOrder, UpdateDetails, AddLine, UpdateLine,
       RemoveLine, Confirm, ConfirmRead, ConfirmCommit, Cancel, Sweep, CancelRead,
       CancelCommit, SweepRead, SweepCancel, SweepSkip, tables
  <2>2. CASE Around \/ (\E r \in Requests : Abort(r)) \/ UNCHANGED vars
    BY <2>2 DEF Around, Elapse, PlanDelivery, StockIn, StockOut, Abort, vars, tables
  <2> QED BY <2>1, <2>2 DEF Next
<1> QED BY <1>1 DEF NoMoney

\* A completed order stays what it was, and owes no more than it did.
LEMMA OldDebtFalls ==
    ASSUME SalesInv, TypeOK', [Next]_vars, NEW c, NEW o \in Orders,
           order'[o].completed => order[o].completed \/ order[o].customer # c \/ order[o].payment_terms # "NET_D",
           order'[o].completed => order[o].completed \/ \E r \in Requests : OrderRow(o) \in Holds(r),
           order[o].exists \/ ~ order'[o].completed
    PROVE  Owed(o, c)' <= Owed(o, c)
<1> USE DEF SalesInv
<1>1. Total(o) \in Nat /\ Total(o)' \in Nat BY TotalIsNat
<1>2. Owed(o, c) \in Nat BY <1>1 DEF Owed
<1>3. CASE ~ order'[o].completed
  <2>1. Owed(o, c)' = 0 BY <1>3 DEF Owed, CreditCandidate
  <2> QED BY <1>2, <2>1
<1>4. CASE order'[o].completed
  <2>1. order[o].exists BY <1>4
  <2>2. order[o].completed \/ \E r \in Requests : OrderRow(o) \in Holds(r) BY <1>4
  <2>3. /\ line'[o] = line[o] /\ order'[o].exists
        /\ order'[o].customer = order[o].customer
        /\ order'[o].payment_terms = order[o].payment_terms
        /\ order[o].cancelled => order'[o].cancelled
        /\ order'[o].paid = order[o].paid
    BY <2>1, <2>2, DraftStands
  <2>4. Total(o)' = Total(o) BY <2>3 DEF Total, Filled
  <2>5. CASE order[o].completed
    <3>1. CreditCandidate(o)' => CreditCandidate(o)
      BY <2>1, <2>3, <2>5 DEF CreditCandidate
    <3> QED BY <1>1, <1>2, <2>3, <2>4, <3>1 DEF Owed, Settled
  <2>6. CASE ~ order[o].completed
    <3>1. ~ (CreditCandidate(o)' /\ order'[o].customer = c) BY <1>4, <2>3, <2>6 DEF CreditCandidate
    <3>2. Owed(o, c)' = 0 BY <3>1 DEF Owed
    <3> QED BY <1>2, <3>2
  <2> QED BY <2>5, <2>6
<1> QED BY <1>3, <1>4

\* The credit half of the limits.
CreditInv ==
    /\ CreditWithinLimit
    /\ NoMoney
    /\ \A r \in Requests : txn[r].op = "confirm" => CreditAfforded(r)

\* Every completed order of the customer was confirmed in this facility.
AllIn(c, f) == \A p \in Orders : order[p].completed /\ order[p].customer = c => order[p].facility = f

\* Completed orders keep their customer and their facility.
LEMMA CompletedStays ==
    ASSUME SalesInv, [Next]_vars, NEW o \in Orders, order[o].completed
    PROVE  /\ order'[o].completed
           /\ order'[o].customer = order[o].customer
           /\ order'[o].facility = order[o].facility
<1>1. order[o].exists BY DEF SalesInv, DraftsUnnumbered
<1> QED BY <1>1, DraftStands

\* The commit of a confirmation: which orders of a customer may owe more.
LEMMA CommitDebt ==
    ASSUME SalesInv, TypeOK', CreditInv, NoMoney', [Next]_vars,
           NEW r \in Requests, ConfirmCommit(r), NEW o \in Orders, o = txn[r].order, NEW c
    PROVE  /\ CreditDebt(c) \in Int /\ CreditDebt(c)' \in Int
           /\ order[o].customer = c /\ order[o].payment_terms = "NET_D" =>
                 CreditDebt(c)' <= CreditDebt(c) + Total(o)
           /\ ~ (order[o].customer = c /\ order[o].payment_terms = "NET_D") =>
                 CreditDebt(c)' <= CreditDebt(c)
<1> USE DEF SalesInv, CreditInv
<1>1. txn[r].op = "confirm" /\ Covered(r) /\ OrderRow(o) \in Holds(r)
  BY ConfirmHolds DEF ConfirmCommit, ConfirmCovered
<1>2. order[o].exists /\ ~ order[o].completed BY <1>1 DEF Covered, Editable
<1>3. \A p \in Orders \ {o} : order'[p] = order[p] BY DEF ConfirmCommit, TypeOK
<1>4. \A p \in Orders \ {o} : Owed(p, c)' <= Owed(p, c)
  <2> SUFFICES ASSUME NEW p \in Orders \ {o} PROVE Owed(p, c)' <= Owed(p, c) OBVIOUS
  <2>1. order'[p] = order[p] BY <1>3
  <2>2. order[p].completed => order[p].exists BY DEF DraftsUnnumbered
  <2> QED BY <2>1, <2>2, OldDebtFalls
<1>5. Total(o) \in Nat BY TotalIsNat
<1>6. ASSUME order[o].customer = c, order[o].payment_terms = "NET_D"
      PROVE  /\ CreditDebt(c) \in Int /\ CreditDebt(c)' \in Int
             /\ CreditDebt(c)' <= CreditDebt(c) + Total(o)
  <2>1. Owed(o, c) = 0 BY <1>2 DEF Owed, CreditCandidate
  <2>2. line'[o] = line[o] BY <1>1, <1>2, DraftStands
  <2>3. Total(o)' = Total(o) BY <2>2 DEF Total, Filled
  <2>4. Owed(o, c)' <= Total(o) BY <1>5, <2>3 DEF Owed
  <2>5. PICK n \in Nat : n = Total(o) BY <1>5
  <2>6. Owed(o, c)' <= Owed(o, c) + n BY <1>5, <2>1, <2>4, <2>5
  <2> QED BY <1>4, <2>5, <2>6, DebtMoves
<1>7. ASSUME ~ (order[o].customer = c /\ order[o].payment_terms = "NET_D")
      PROVE  /\ CreditDebt(c) \in Int /\ CreditDebt(c)' \in Int
             /\ CreditDebt(c)' <= CreditDebt(c)
  <2>1. Owed(o, c)' <= Owed(o, c) BY <1>1, <1>2, <1>7, OldDebtFalls
  <2>2. \A p \in Orders : Owed(p, c)' <= Owed(p, c) BY <1>4, <2>1
  <2> QED BY <2>2, DebtFalls
<1> QED BY <1>6, <1>7

\* Any other step adds no debt.
LEMMA QuietDebt ==
    ASSUME SalesInv, TypeOK', CreditInv, NoMoney', [Next]_vars,
           \A r \in Requests : ~ ConfirmCommit(r), NEW c
    PROVE  CreditDebt(c)' <= CreditDebt(c) /\ CreditDebt(c) \in Int /\ CreditDebt(c)' \in Int
<1> USE DEF SalesInv, CreditInv
<1>1. \A p \in Orders : Owed(p, c)' <= Owed(p, c)
  <2> SUFFICES ASSUME NEW p \in Orders PROVE Owed(p, c)' <= Owed(p, c) OBVIOUS
  <2>1. order'[p].completed => order[p].completed BY CompletionIsConfirmation
  <2>2. order[p].completed => order[p].exists BY DEF DraftsUnnumbered
  <2> QED BY <2>1, <2>2, OldDebtFalls
<1> QED BY <1>1, DebtFalls

\* No step takes a customer of one facility over their limit.
LEMMA CreditKeeps ==
    ASSUME SalesInv, TypeOK', CreditInv, [Next]_vars
    PROVE  CreditInv'
<1> USE DEF SalesInv, CreditInv
<1>0. NoMoney' BY NoMoneyKept
<1>l. \A c \in Customers : CreditLimit[c] \in Nat BY SalesConstants DEF SalesConstants
<1>a. ASSUME NEW c, NEW f PROVE AllIn(c, f)' => AllIn(c, f)
  BY CompletedStays DEF AllIn
<1>1. CreditWithinLimit'
  <2> SUFFICES ASSUME NEW c \in Customers \ {WalkIn}, OneFacility(c)'
               PROVE  CreditDebt(c)' <= CreditLimit[c]
    BY DEF CreditWithinLimit
  <2>1. OneFacility(c) BY CompletedStays DEF OneFacility
  <2>2. CreditDebt(c) <= CreditLimit[c] BY <2>1 DEF CreditWithinLimit
  <2>3. ASSUME NEW r \in Requests, ConfirmCommit(r) PROVE CreditDebt(c)' <= CreditLimit[c]
    <3>1. PICK o : o = txn[r].order OBVIOUS
    <3>2. txn[r].op = "confirm" /\ o \in Orders
      BY <2>3, <3>1 DEF ConfirmCommit, TypeOK, Transactions
    <3>3. /\ CreditDebt(c) \in Int /\ CreditDebt(c)' \in Int
          /\ order[o].customer = c /\ order[o].payment_terms = "NET_D" =>
                CreditDebt(c)' <= CreditDebt(c) + Total(o)
          /\ ~ (order[o].customer = c /\ order[o].payment_terms = "NET_D") =>
                CreditDebt(c)' <= CreditDebt(c)
      BY <1>0, <2>3, <3>1, <3>2, CommitDebt
    <3>4. CASE ~ (order[o].customer = c /\ order[o].payment_terms = "NET_D")
      BY <1>l, <2>2, <3>3, <3>4
    <3>5. CASE order[o].customer = c /\ order[o].payment_terms = "NET_D"
      <4>1. /\ order'[o].completed /\ order'[o].customer = c
            /\ order'[o].facility = order[o].facility
        BY <2>3, <3>1, <3>2, <3>5 DEF ConfirmCommit, TypeOK, OrderRows
      <4>2. \A p \in Orders : order[p].completed /\ order[p].customer = c
               => order[p].facility = order[o].facility
        BY <4>1, <3>2, CompletedStays DEF OneFacility
      <4>3. CreditDebt(c) + Total(o) <= CreditLimit[c]
        BY <3>1, <3>2, <3>5, <4>2 DEF CreditAfforded
      <4>4. Total(o) \in Nat BY <3>2, TotalIsNat
      <4> QED BY <1>l, <3>3, <3>5, <4>3, <4>4
    <3> QED BY <3>4, <3>5
  <2>4. CASE \A r \in Requests : ~ ConfirmCommit(r)
    <3>1. CreditDebt(c)' <= CreditDebt(c) /\ CreditDebt(c) \in Int /\ CreditDebt(c)' \in Int
      BY <1>0, <2>4, QuietDebt
    <3> QED BY <1>l, <2>2, <3>1
  <2> QED BY <2>3, <2>4
<1>2. ASSUME NEW r \in Requests, NEW o \in Orders, ConfirmRead(r, o) PROVE CreditAfforded(r)'
  <2>1. txn'[r].order = o BY <1>2 DEF ConfirmRead, TypeOK
  <2>2. PICK p : p = txn'[r].order OBVIOUS
  <2>3. p = o /\ p \in Orders BY <2>1, <2>2
  <2>4. order' = order /\ line' = line /\ Confirmable(p)
          /\ application' = application /\ refund' = refund
    BY <1>2, <2>3 DEF ConfirmRead, tables
  <2>5. PICK c : c = order[p].customer OBVIOUS
  <2>6. order[p].payment_terms = "NET_D" /\ c # WalkIn => CreditDebt(c) + Total(p) <= CreditLimit[c]
    BY <2>4, <2>5 DEF Confirmable, WithinCreditLimit
  <2>7. CreditDebt(c)' = CreditDebt(c) /\ Total(p)' = Total(p)
    BY <2>4 DEF CreditDebt, OpenCreditOrders, CreditCandidate, Balance, Total, Refunded, Applied,
       RefundTotal, LiveApplications, Filled, Remaining, Settled
  <2>8. order'[p].payment_terms = "NET_D" /\ c # WalkIn
           => CreditDebt(c)' + Total(p)' <= CreditLimit[c]
    BY <2>4, <2>6, <2>7
  <2>9. c = order'[p].customer BY <2>4, <2>5
  <2> QED BY <2>2, <2>8, <2>9 DEF CreditAfforded
<1>3. ASSUME NEW r \in Requests, txn'[r].op = "confirm", txn'[r] = txn[r] PROVE CreditAfforded(r)'
  <2>1. PICK o : o = txn[r].order OBVIOUS
  <2>2. o \in Orders /\ CreditAfforded(r) /\ Covered(r) /\ OrderRow(o) \in Holds(r)
    BY <1>3, <2>1, ConfirmHolds DEF ConfirmCovered
  <2>3. order[o].exists BY <2>1, <2>2 DEF Covered, Editable
  <2>4. /\ line'[o] = line[o]
        /\ order'[o].customer = order[o].customer
        /\ order'[o].payment_terms = order[o].payment_terms
        /\ order'[o].facility = order[o].facility
    BY <2>2, <2>3, DraftStands
  <2>5. Total(o)' = Total(o) /\ Total(o) \in Nat
    BY <2>2, <2>4, TotalIsNat DEF Total, Filled
  <2>6. PICK c : c = order[o].customer OBVIOUS
  <2>c. c \in Customers BY <2>2, <2>6 DEF TypeOK, OrderRows
  <2>7. PICK f : f = order[o].facility OBVIOUS
  <2>8. order[o].payment_terms = "NET_D" /\ c # WalkIn /\ AllIn(c, f)
           => CreditDebt(c) + Total(o) <= CreditLimit[c]
    BY <2>1, <2>2, <2>6, <2>7 DEF CreditAfforded, AllIn
  <2>9. ASSUME order[o].payment_terms = "NET_D", c # WalkIn, AllIn(c, f)'
        PROVE  CreditDebt(c)' + Total(o) <= CreditLimit[c]
    <3>1. CreditDebt(c) + Total(o) <= CreditLimit[c] BY <1>a, <2>8, <2>9
    <3>2. CreditDebt(c)' <= CreditDebt(c) /\ CreditDebt(c) \in Int /\ CreditDebt(c)' \in Int
      <4>1. ASSUME NEW q \in Requests, ConfirmCommit(q)
            PROVE  CreditDebt(c)' <= CreditDebt(c) /\ CreditDebt(c) \in Int /\ CreditDebt(c)' \in Int
        <5>1. PICK p : p = txn[q].order OBVIOUS
        <5>2. txn[q].op = "confirm" /\ p \in Orders
          BY <4>1, <5>1 DEF ConfirmCommit, TypeOK, Transactions
        <5>3. q # r BY <1>3, <4>1 DEF ConfirmCommit, Ends, Idle, TypeOK
        <5>4. order[p].customer # c
          <6> SUFFICES ASSUME order[p].customer = c PROVE FALSE OBVIOUS
          <6>1. order'[p].completed /\ order'[p].customer = c
                  /\ order'[p].facility = order[p].facility
            BY <4>1, <5>1, <5>2 DEF ConfirmCommit, TypeOK, OrderRows
          <6>2. order[p].facility = f BY <2>9, <5>2, <6>1 DEF AllIn
          <6>3. FacilityRow(f) \in Holds(q)
            BY <5>1, <5>2, <6>2 DEF ConfirmCovered, Covered, Holds
          <6>4. FacilityRow(f) \in Holds(r)
            BY <1>3, <2>1, <2>2, <2>7 DEF Covered, Holds
          <6> QED BY <5>3, <6>3, <6>4 DEF LocksExclusive
        <5> QED BY <1>0, <4>1, <5>1, <5>2, <5>4, CommitDebt
      <4> QED BY <1>0, <4>1, QuietDebt
    <3> QED BY <1>l, <2>5, <2>c, <3>1, <3>2
  <2>10. order'[o].payment_terms = "NET_D" /\ c # WalkIn /\ AllIn(c, f)'
            => CreditDebt(c)' + Total(o)' <= CreditLimit[c]
    BY <2>4, <2>5, <2>9
  <2>11. PICK p : p = txn'[r].order OBVIOUS
  <2>12. p = o /\ order'[p].customer = c /\ order'[p].facility = f
    BY <1>3, <2>1, <2>4, <2>6, <2>7, <2>11
  <2> QED BY <2>10, <2>11, <2>12 DEF CreditAfforded, AllIn
<1>4. ASSUME NEW r \in Requests, txn'[r].op = "confirm" PROVE CreditAfforded(r)'
  BY <1>2, <1>3, <1>4, ConfirmBegins
<1> QED BY <1>0, <1>1, <1>4

-----------------------------------------------------------------------------
\* The limits hold initially: nothing is claimed and nothing owed.
LEMMA InitLimits == Init => LimitsInv
<1> SUFFICES ASSUME Init PROVE LimitsInv OBVIOUS
<1>1. \A r \in Requests : txn[r].op # "confirm" BY DEF Init, Idle
<1>2. NoMoney BY DEF Init, NoMoney
<1>3. NotOversold
  <2> SUFFICES ASSUME NEW k \in StockKeys PROVE Reserved(k) <= onHand[k] BY DEF NotOversold
  <2>1. {c \in Orders \X LineIds : /\ reservation[c[1]][c[2]] # None
                                   /\ reservation[c[1]][c[2]].key = k} = {}
    BY DEF Init, NoClaims
  <2>2. Reserved(k) = 0 BY <2>1, SumEmpty DEF Reserved
  <2>3. onHand[k] \in Nat BY SalesOrderConstants DEF Init, SalesOrderConstants
  <2> QED BY <2>2, <2>3
<1>4. CreditWithinLimit
  <2> SUFFICES ASSUME NEW c \in Customers PROVE CreditDebt(c) <= CreditLimit[c]
    BY DEF CreditWithinLimit
  <2>1. OpenCreditOrders(c) = {} BY DEF Init, BlankOrder, OpenCreditOrders, CreditCandidate
  <2>2. CreditDebt(c) = 0 BY <2>1, SumEmpty DEF CreditDebt
  <2> QED BY <2>2, SalesConstants DEF SalesConstants
<1> QED BY <1>1, <1>2, <1>3, <1>4 DEF LimitsInv

\* What is available and what is owed on credit are read under locks that the
\* confirmation still holds when it adds to them, so the limits hold always.
THEOREM LimitsHold == Spec => []LimitsInv
<1>1. Init => SalesInv /\ LimitsInv BY InitInv, InitLimits
<1>2. SalesInv /\ LimitsInv /\ [Next]_vars => SalesInv' /\ LimitsInv'
  <2> SUFFICES ASSUME SalesInv, LimitsInv, [Next]_vars PROVE SalesInv' /\ LimitsInv' OBVIOUS
  <2>1. SalesInv' /\ TypeOK' BY NextInv DEF SalesInv
  <2>2. StockInv' BY <2>1, StockKeeps DEF LimitsInv, StockInv
  <2>3. CreditInv' BY <2>1, CreditKeeps DEF LimitsInv, CreditInv
  <2> QED BY <2>1, <2>2, <2>3 DEF LimitsInv, StockInv, CreditInv
<1> QED BY <1>1, <1>2, PTL DEF Spec

\* Confirmed orders never claim more of a product than its warehouse holds,
\* for any number of orders confirmed at once in any number of warehouses.
THEOREM NeverOversold == Spec => []NotOversold
<1>1. LimitsInv => NotOversold BY DEF LimitsInv
<1> QED BY <1>1, LimitsHold, PTL

\* No customer of one facility owes more on credit than their limit, however
\* their orders' confirmations interleave.
THEOREM CreditIsWithinLimit == Spec => []CreditWithinLimit
<1>1. LimitsInv => CreditWithinLimit BY DEF LimitsInv
<1> QED BY <1>1, LimitsHold, PTL

-----------------------------------------------------------------------------
(***************************************************************************)
(* The sweep spares what is scheduled.                                     *)
(***************************************************************************)
\* The order's window is over: the longer one, or the counter's when nobody
\* has scheduled it.
WindowIsOver(o) ==
    \/ "scheduled_cutoff" \in elapsed[o]
    \/ "promise" \in elapsed[o] /\ "cutoff" \in elapsed[o]

\* What a sweep has found stays past its window, whatever is scheduled since.
SweepKnows ==
    \A r \in Requests : txn[r].op = "sweep" =>
        txn[r].queue \in SUBSET Orders /\ \A o \in txn[r].queue : WindowIsOver(o)

LEMMA SweepStillKnows == TypeOK /\ SweepKnows /\ [Next]_vars => SweepKnows'
<1> SUFFICES ASSUME TypeOK, SweepKnows, [Next]_vars PROVE SweepKnows'
  OBVIOUS
<1>1. \A o \in Orders : elapsed[o] \subseteq elapsed'[o]
  <2>1. ASSUME NEW o \in Orders, NEW d \in Clock, Elapse(o, d)
        PROVE  \A p \in Orders : elapsed[p] \subseteq elapsed'[p]
    BY <2>1 DEF Elapse, TypeOK
  <2>2. CASE elapsed' = elapsed
    BY <2>2
  <2> QED BY <2>1, <2>2, Zenon DEF Next, Draft, Confirm, Cancel, Sweep, Around, Abort, CreateOrder, UpdateOrder,
          UpdateDetails, AddLine, UpdateLine, RemoveLine, ConfirmRead, ConfirmCommit, CancelRead,
          CancelCommit, SweepRead, SweepCancel, SweepSkip, PlanDelivery, StockIn, StockOut, vars
<1>2. \A o \in Orders : WindowIsOver(o) => WindowIsOver(o)'
  BY <1>1 DEF WindowIsOver
<1>3. ASSUME txn' = txn PROVE SweepKnows'
  BY <1>2, <1>3 DEF SweepKnows
<1>4. ASSUME NEW r \in Requests, NEW t, txn' = [txn EXCEPT ![r] = t],
             t.op = "sweep" => t.queue \in SUBSET Orders /\ \A o \in t.queue : WindowIsOver(o)
      PROVE  SweepKnows'
  <2>1. txn'[r] = t /\ \A q \in Requests \ {r} : txn'[q] = txn[q]
    BY <1>4 DEF TypeOK
  <2> QED BY <1>2, <1>4, <2>1 DEF SweepKnows
<1>5. ASSUME NEW r \in Requests, Ends(r) PROVE SweepKnows'
  <2>1. Idle.op # "sweep"
    BY DEF Idle
  <2> QED BY <1>4, <1>5, <2>1 DEF Ends
<1>6. ASSUME NEW r \in Requests, NEW o \in Orders, ConfirmRead(r, o) \/ CancelRead(r, o) PROVE SweepKnows'
  <2>1. CASE ConfirmRead(r, o)
    <3>1. PICK t : t = [op |-> "confirm", order |-> o, rows |-> ConfirmRows(o),
                        serial |-> NextFolio(order[o].facility), claims |-> Claims(o)]
      OBVIOUS
    <3>2. t.op # "sweep" /\ txn' = [txn EXCEPT ![r] = t]
      BY <2>1, <3>1 DEF ConfirmRead
    <3> QED BY <1>4, <3>2
  <2>2. CASE CancelRead(r, o)
    <3>1. PICK t : t = [op |-> "cancel", order |-> o, rows |-> {}, completed |-> order[o].completed]
      OBVIOUS
    <3>2. t.op # "sweep" /\ txn' = [txn EXCEPT ![r] = t]
      BY <2>2, <3>1 DEF CancelRead
    <3> QED BY <1>4, <3>2
  <2> QED BY <1>6, <2>1, <2>2
<1>7. ASSUME NEW r \in Requests, SweepRead(r) PROVE SweepKnows'
  <2>1. PICK found : found = {o \in Orders : Expired(o)}
    OBVIOUS
  <2>2. PICK t : t = [op |-> "sweep", rows |-> {}, queue |-> found,
                      clear |-> {o \in found : LiveApplications(o) = {}}]
    OBVIOUS
  <2>3. t.queue = found /\ txn' = [txn EXCEPT ![r] = t]
    BY <1>7, <2>1, <2>2 DEF SweepRead
  <2>4. found \in SUBSET Orders /\ \A o \in found : WindowIsOver(o)
    BY <2>1 DEF Expired, WindowIsOver
  <2> QED BY <1>4, <2>3, <2>4
<1>8. ASSUME NEW r \in Requests, NEW o \in Orders, SweepCancel(r, o) \/ SweepSkip(r, o) PROVE SweepKnows'
  <2>1. PICK clear : txn' = [txn EXCEPT ![r] = SweepRest(r, o, clear)]
    BY <1>8 DEF SweepCancel, SweepSkip
  <2>2. txn[r].op = "sweep" /\ txn[r] \in Transactions
    BY <1>8 DEF SweepCancel, SweepSkip, TypeOK
  <2>3. PICK t : t = SweepRest(r, o, clear)
    OBVIOUS
  <2>4. t.op = "sweep" => t.queue \in SUBSET txn[r].queue
    BY <2>2, <2>3 DEF SweepRest, Idle, Transactions
  <2> QED BY <1>4, <2>1, <2>2, <2>3, <2>4 DEF SweepKnows
<1> QED BY <1>3, <1>5, <1>6, <1>7, <1>8, Zenon DEF Next, Draft, Confirm, Cancel, Sweep, Around, Abort,
        CreateOrder, UpdateOrder, UpdateDetails, AddLine, UpdateLine, RemoveLine, ConfirmCommit,
        CancelCommit, Elapse, PlanDelivery, StockIn, StockOut, vars

\* However late a sweep gets to an order it found, and whatever is planned or
\* paid since, it cancels none before its own window is over.
THEOREM ScheduledAreSpared == Spec => SweepSparesScheduled
<1>1. Init => SweepKnows
  BY DEF Init, SweepKnows, Idle
<1>2. TypeOK /\ SweepKnows /\ [Next]_vars => SweepKnows'
  BY SweepStillKnows
<1>3. SweepKnows => [\A o \in Orders : (\E r \in Requests : SweepCancel(r, o)) =>
                        \/ "scheduled_cutoff" \in elapsed[o]
                        \/ "promise" \in elapsed[o] /\ "cutoff" \in elapsed[o]]_vars
  BY DEF SweepKnows, SweepCancel, WindowIsOver
<1> QED BY <1>1, <1>2, <1>3, TypeCorrect, PTL DEF Spec, SweepSparesScheduled

-----------------------------------------------------------------------------
(***************************************************************************)
(* Quotes.                                                                 *)
(***************************************************************************)
\* What a request knows of its quote: an edit had read a draft; a confirmation
\* holds the quote, still a draft, and its facility, whose serials are lower; a
\* sweep holds nothing.
QuoteKnown(r) ==
    LET t == txn[r]
    IN  /\ t.op \in {"edit quote", "confirm quote", "cancel quote"} => t.quote \in Quotes /\ Raised(t.quote)
        /\ t.op = "edit quote" =>
              /\ ~ t.completed
              /\ t.edit.kind = "header" => /\ t.edit.to.customer \in Customers
                                           /\ t.edit.to.payment_terms \in Terms
                                           /\ t.edit.to.lapsed \in BOOLEAN
        /\ t.op = "confirm quote" =>
              /\ ~ quote[t.quote].completed
              /\ t.rows = QuoteConfirmRows(t.quote)
              /\ t.serial \in Nat \ {0}
              /\ \A s \in QuoteSerials(quote[t.quote].facility) : s < t.serial
        /\ t.op = "sweep" => t = [op |-> "sweep", rows |-> {}, queue |-> t.queue, clear |-> t.clear]

\* No two confirmed quotes of a facility carry one number; drafts carry none.
QuotesNumbered ==
    /\ \A q \in Quotes : Raised(q) => (quote[q].completed <=> quote[q].serial # 0)
    /\ \A p, q \in Quotes :
          p # q /\ Raised(p) /\ Raised(q) /\ quote[p].completed /\ quote[q].completed
             /\ quote[p].facility = quote[q].facility => quote[p].serial # quote[q].serial

QuoteInv ==
    /\ txn = [r \in Requests |-> txn[r]]
    /\ quote \in [Quotes -> QuoteRows \cup {None}]
    /\ qline = [q \in Quotes |-> qline[q]]
    /\ LocksExclusive
    /\ \A r \in Requests : QuoteKnown(r)
    /\ QuotesNumbered

LEMMA QuoteSerialsAre ==
    ASSUME NEW f
    PROVE  \A s : s \in QuoteSerials(f) <=>
               \E q \in Quotes : Raised(q) /\ quote[q].facility = f /\ s = quote[q].serial
BY DEF QuoteSerials

\* A request's transaction moves, the quotes as they were.
LEMMA RequestKeeps ==
    ASSUME QuoteInv, NEW r \in Requests, NEW t, txn' = [txn EXCEPT ![r] = t], UNCHANGED <<quote, qline>>,
           \A q \in Requests \ {r} : Holds(q) \cap Holds(r)' = {}, QuoteKnown(r)'
    PROVE  QuoteInv'
<1>1. txn' = [q \in Requests |-> txn'[q]] /\ \A q \in Requests \ {r} : txn'[q] = txn[q]
  BY DEF QuoteInv
<1>2. \A q \in Requests \ {r} : Holds(q)' = Holds(q)
  BY <1>1 DEF Holds
<1>3. LocksExclusive'
  BY <1>2 DEF QuoteInv, LocksExclusive
<1>4. \A q : Raised(q)' = Raised(q)
  BY DEF Raised
<1>5. \A f : QuoteSerials(f)' = QuoteSerials(f)
  BY <1>4 DEF QuoteSerials
<1>6. ASSUME NEW q \in Requests PROVE QuoteKnown(q)'
  <2>1. CASE q = r
    BY <2>1
  <2>2. CASE q # r
    BY <1>1, <1>4, <1>5, <2>2 DEF QuoteInv, QuoteKnown, QuoteConfirmRows
  <2> QED BY <2>1, <2>2
<1>7. QuotesNumbered'
  BY <1>4 DEF QuoteInv, QuotesNumbered
<1> QED BY <1>1, <1>3, <1>6, <1>7 DEF QuoteInv

LEMMA EndKeeps ==
    ASSUME QuoteInv, NEW r \in Requests, Ends(r), UNCHANGED <<quote, qline>>
    PROVE  QuoteInv'
<1>1. txn'[r] = Idle
  BY DEF QuoteInv, Ends
<1>2. Holds(r)' = {} /\ QuoteKnown(r)'
  BY <1>1 DEF Holds, Idle, QuoteKnown
<1> QED BY <1>2, RequestKeeps DEF Ends

LEMMA NothingKeeps == ASSUME QuoteInv, UNCHANGED <<txn, quote, qline>> PROVE QuoteInv'
<1>1. \A q : Raised(q)' = Raised(q) /\ Holds(q)' = Holds(q)
  BY DEF Raised, Holds
<1>2. \A f : QuoteSerials(f)' = QuoteSerials(f)
  BY <1>1 DEF QuoteSerials
<1>3. ASSUME NEW q \in Requests PROVE QuoteKnown(q)'
  BY <1>1, <1>2 DEF QuoteInv, QuoteKnown, QuoteConfirmRows
<1>4. QuotesNumbered' /\ LocksExclusive'
  BY <1>1 DEF QuoteInv, QuotesNumbered, LocksExclusive
<1> QED BY <1>3, <1>4 DEF QuoteInv

\* A quote is raised, or changes neither number nor facility; its request ends.
LEMMA QuoteKeeps ==
    ASSUME QuoteInv, NEW q \in Quotes, NEW x \in QuoteRows, quote' = [quote EXCEPT ![q] = x],
           qline' = [p \in Quotes |-> qline'[p]],
           \/ ~ Raised(q) /\ x.serial = 0 /\ ~ x.completed
           \/ /\ Raised(q) /\ x.serial = quote[q].serial /\ x.facility = quote[q].facility
              /\ x.completed = quote[q].completed,
           txn' = [r \in Requests |-> txn'[r]], \A r \in Requests : txn'[r] = txn[r] \/ txn'[r] = Idle
    PROVE  QuoteInv'
<1>1. /\ quote' \in [Quotes -> QuoteRows \cup {None}] /\ quote'[q] = x /\ x # None
      /\ \A p \in Quotes \ {q} : quote'[p] = quote[p]
  BY NoneIsNoQuoteRow DEF QuoteInv, NoneIsNoQuoteRow
<1>2. Raised(q)' /\ \A p \in Quotes \ {q} : Raised(p)' <=> Raised(p)
  BY <1>1 DEF Raised
<1>3. \A r \in Requests : Holds(r)' = Holds(r) \/ Holds(r)' = {}
  BY DEF Holds, Idle
<1>4. LocksExclusive'
  BY <1>3 DEF QuoteInv, LocksExclusive
<1>5. QuotesNumbered'
  BY <1>1, <1>2 DEF QuoteInv, QuotesNumbered
<1>6. ASSUME NEW f, NEW s \in QuoteSerials(f)' PROVE s = 0 \/ s \in QuoteSerials(f)
  <2>1. PICK p \in Quotes : Raised(p)' /\ quote'[p].facility = f /\ s = quote'[p].serial
    BY <1>6 DEF QuoteSerials
  <2> QED BY <1>1, <1>2, <2>1, QuoteSerialsAre
<1>7. ASSUME NEW r \in Requests PROVE QuoteKnown(r)'
  <2>1. QuoteKnown(r)
    BY DEF QuoteInv
  <2>2. CASE txn'[r] = Idle
    BY <2>2 DEF QuoteKnown, Idle
  <2>3. CASE txn'[r] = txn[r]
    <3>1. PICK t : t = txn[r]
      OBVIOUS
    <3>2. CASE t.op = "confirm quote"
      <4>1. /\ t.quote \in Quotes /\ Raised(t.quote) /\ ~ quote[t.quote].completed
            /\ t.rows = QuoteConfirmRows(t.quote) /\ t.serial \in Nat \ {0}
            /\ \A s \in QuoteSerials(quote[t.quote].facility) : s < t.serial
        BY <2>1, <3>1, <3>2 DEF QuoteKnown
      <4>2. /\ Raised(t.quote)' /\ ~ quote'[t.quote].completed
            /\ quote'[t.quote].facility = quote[t.quote].facility
        BY <1>1, <1>2, <4>1
      <4>3. \A s \in QuoteSerials(quote[t.quote].facility)' : s < t.serial
        <5>1. PICK f : f = quote[t.quote].facility
          OBVIOUS
        <5>2. \A s \in QuoteSerials(f)' : s < t.serial
          BY <1>6, <4>1, <5>1
        <5> QED BY <4>2, <5>1, <5>2
      <4> QED BY <2>3, <3>1, <3>2, <4>1, <4>2, <4>3 DEF QuoteKnown, QuoteConfirmRows
    <3>3. CASE t.op # "confirm quote"
      BY <1>1, <1>2, <2>1, <2>3, <3>1, <3>3 DEF QuoteKnown
    <3> QED BY <3>2, <3>3
  <2> QED BY <2>2, <2>3
<1> QED BY <1>1, <1>4, <1>5, <1>7 DEF QuoteInv

\* Orders' requests hold what is free, or nothing, and leave the quotes.
LEMMA OrdersKeepQuotes ==
    ASSUME QuoteInv, Next, UNCHANGED quoteVars
    PROVE  QuoteInv'
<1>1. UNCHANGED <<quote, qline>>
  BY DEF quoteVars
<1>2. CASE txn' = txn
  BY <1>1, <1>2, NothingKeeps
<1>3. ASSUME NEW r \in Requests, Ends(r) PROVE QuoteInv'
  BY <1>1, <1>3, EndKeeps
<1>4. ASSUME NEW r \in Requests, NEW o \in Orders, ConfirmRead(r, o) PROVE QuoteInv'
  <2>1. PICK t : t = [op |-> "confirm", order |-> o, rows |-> ConfirmRows(o),
                      serial |-> NextFolio(order[o].facility), claims |-> Claims(o)]
    OBVIOUS
  <2>2. t.op = "confirm" /\ t.rows = ConfirmRows(o) /\ txn' = [txn EXCEPT ![r] = t]
    BY <1>4, <2>1 DEF ConfirmRead
  <2>3. txn'[r] = t
    BY <2>2 DEF QuoteInv
  <2>4. Holds(r)' = ConfirmRows(o) /\ QuoteKnown(r)'
    BY <2>2, <2>3 DEF Holds, QuoteKnown
  <2>5. \A q \in Requests \ {r} : Holds(q) \cap Holds(r)' = {}
    BY <1>4, <2>4 DEF ConfirmRead, Free
  <2> QED BY <1>1, <2>2, <2>4, <2>5, RequestKeeps
<1>5. ASSUME NEW r \in Requests, NEW t, txn' = [txn EXCEPT ![r] = t], t.rows = {},
             t.op \in {"cancel", "sweep"},
             t.op = "sweep" => t = [op |-> "sweep", rows |-> {}, queue |-> t.queue, clear |-> t.clear]
      PROVE  QuoteInv'
  <2>1. txn'[r] = t
    BY <1>5 DEF QuoteInv
  <2>2. Holds(r)' = {} /\ QuoteKnown(r)'
    BY <1>5, <2>1 DEF Holds, QuoteKnown
  <2> QED BY <1>1, <1>5, <2>2, RequestKeeps
<1>6. ASSUME NEW r \in Requests, NEW o \in Orders, CancelRead(r, o) PROVE QuoteInv'
  <2>1. PICK t : t = [op |-> "cancel", order |-> o, rows |-> {}, completed |-> order[o].completed]
    OBVIOUS
  <2>2. t.op = "cancel" /\ t.rows = {} /\ txn' = [txn EXCEPT ![r] = t]
    BY <1>6, <2>1 DEF CancelRead
  <2> QED BY <1>5, <2>2
<1>7. ASSUME NEW r \in Requests, SweepRead(r) PROVE QuoteInv'
  <2>1. PICK found : found = {o \in Orders : Expired(o)}
    OBVIOUS
  <2>2. PICK t : t = [op |-> "sweep", rows |-> {}, queue |-> found,
                      clear |-> {o \in found : LiveApplications(o) = {}}]
    OBVIOUS
  <2>3. t.rows = {} /\ t.op = "sweep" /\ txn' = [txn EXCEPT ![r] = t]
    BY <1>7, <2>1, <2>2 DEF SweepRead
  <2>4. t = [op |-> "sweep", rows |-> {}, queue |-> t.queue, clear |-> t.clear]
    BY <2>2
  <2> QED BY <1>5, <2>3, <2>4
<1>8. ASSUME NEW r \in Requests, NEW o \in Orders, SweepCancel(r, o) \/ SweepSkip(r, o) PROVE QuoteInv'
  <2>1. PICK clear : txn' = [txn EXCEPT ![r] = SweepRest(r, o, clear)]
    BY <1>8 DEF SweepCancel, SweepSkip
  <2>2. PICK u : u = txn[r]
    OBVIOUS
  <2>3. u = [op |-> "sweep", rows |-> {}, queue |-> u.queue, clear |-> u.clear]
    BY <1>8, <2>2 DEF SweepCancel, SweepSkip, QuoteInv, QuoteKnown
  <2>4. CASE u.queue = {o}
    BY <1>3, <2>1, <2>2, <2>4 DEF SweepRest, Ends
  <2>5. CASE u.queue # {o}
    <3>1. PICK a, b, n : a = u.queue /\ b = u.clear /\ n = u.queue \ {o}
      OBVIOUS
    <3>2. u = [op |-> "sweep", rows |-> {}, queue |-> a, clear |-> b]
      BY <2>3, <3>1
    <3>3. PICK v : v = [u EXCEPT !.queue = n]
      OBVIOUS
    <3>4. v = [op |-> "sweep", rows |-> {}, queue |-> n, clear |-> b]
      BY <3>2, <3>3
    <3>5. PICK t : t = [v EXCEPT !.clear = clear]
      OBVIOUS
    <3>6. t = [op |-> "sweep", rows |-> {}, queue |-> u.queue \ {o}, clear |-> clear]
      BY <3>4, <3>5, <3>1
    <3>7. t.op = "sweep" /\ t.rows = {} /\ t.queue = u.queue \ {o} /\ t.clear = clear
      BY <3>6
    <3>8. t = [op |-> "sweep", rows |-> {}, queue |-> t.queue, clear |-> t.clear]
      BY <3>6, <3>7
    <3>9. SweepRest(r, o, clear) = t
      BY <2>2, <2>5, <3>1, <3>3, <3>5 DEF SweepRest
    <3> QED BY <1>5, <2>1, <3>7, <3>8, <3>9
  <2> QED BY <2>4, <2>5
<1> QED BY <1>2, <1>3, <1>4, <1>6, <1>7, <1>8, Zenon DEF Next, Draft, Confirm, Cancel, Sweep, Around, Abort,
        CreateOrder, UpdateOrder, UpdateDetails, AddLine, UpdateLine, RemoveLine, ConfirmCommit,
        CancelCommit, Elapse, PlanDelivery, StockIn, StockOut

\* An edit reads a draft, and asks for a customer and terms of the tables.
LEMMA EditReadKeeps ==
    ASSUME QuoteInv, NEW r \in Requests, NEW q \in Quotes, EditRead(r, q)
    PROVE  QuoteInv'
<1>1. PICK e \in Edits(q) :
          txn' = [txn EXCEPT ![r] = [op |-> "edit quote", quote |-> q, rows |-> {},
                                     completed |-> quote[q].completed, edit |-> e]]
  BY DEF EditRead
<1>2. PICK t : t = [op |-> "edit quote", quote |-> q, rows |-> {},
                    completed |-> quote[q].completed, edit |-> e]
  OBVIOUS
<1>3. /\ t.op = "edit quote" /\ t.quote = q /\ t.rows = {} /\ t.completed = quote[q].completed
      /\ t.edit = e /\ txn' = [txn EXCEPT ![r] = t]
  BY <1>1, <1>2
<1>4. UNCHANGED <<quote, qline>> /\ Raised(q) /\ ~ quote[q].completed /\ quote[q] \in QuoteRows
  BY DEF EditRead, QuoteEditable, quoteVars, Raised, QuoteInv
<1>5. e.kind = "header" => /\ e.to.customer \in Customers
                           /\ e.to.payment_terms \in Terms
                           /\ e.to.lapsed \in BOOLEAN
  <2>1. SUFFICES ASSUME e.kind = "header"
                 PROVE  /\ e.to.customer \in Customers
                        /\ e.to.payment_terms \in Terms
                        /\ e.to.lapsed \in BOOLEAN
    OBVIOUS
  <2>2. e \in {[kind |-> "header", to |-> Header(q, c, h)] : c \in Customers, h \in Terms \cup {None}}
    BY <2>1 DEF Edits
  <2>3. PICK c \in Customers, h \in Terms \cup {None} : e = [kind |-> "header", to |-> Header(q, c, h)]
    BY <2>2
  <2>4. PICK to : to = Header(q, c, h)
    OBVIOUS
  <2>5. e.to = to
    BY <2>3, <2>4
  <2>6. to.customer = c /\ to.lapsed = FALSE
    BY <2>4 DEF Header
  <2>7. to.payment_terms \in Terms
    <3>1. \/ to.payment_terms = h /\ h # None
          \/ to.payment_terms = "NET_D"
          \/ to.payment_terms = quote[q].payment_terms
      BY <2>4 DEF Header
    <3> QED BY <1>4, <3>1 DEF QuoteRows, Terms
  <2> QED BY <2>5, <2>6, <2>7
<1>6. txn'[r] = t
  BY <1>3 DEF QuoteInv
<1>7. Holds(r)' = {}
  BY <1>3, <1>6 DEF Holds
<1>8. QuoteKnown(r)'
  BY <1>3, <1>4, <1>5, <1>6 DEF QuoteKnown, Raised
<1> QED BY <1>3, <1>4, <1>7, <1>8, RequestKeeps

LEMMA EditCommitKeeps ==
    ASSUME QuoteInv, NEW r \in Requests, EditCommit(r)
    PROVE  QuoteInv'
<1>1. PICK q, e : q = txn[r].quote /\ e = txn[r].edit
  OBVIOUS
<1>2. q \in Quotes /\ Raised(q) /\ quote[q] \in QuoteRows
  BY <1>1 DEF EditCommit, QuoteInv, QuoteKnown, Raised
<1>3. txn' = [p \in Requests |-> txn'[p]] /\ \A p \in Requests : txn'[p] = txn[p] \/ txn'[p] = Idle
  BY DEF EditCommit, Ends, QuoteInv
<1>4. qline' = [p \in Quotes |-> qline'[p]]
  BY <1>2 DEF EditCommit, QuoteInv
<1>5. CASE e.kind = "header"
  <2>1. PICK a, b, d : a = e.to.customer /\ b = e.to.payment_terms /\ d = e.to.lapsed
    OBVIOUS
  <2>2. a \in Customers /\ b \in Terms /\ d \in BOOLEAN
    BY <1>1, <1>5, <2>1 DEF EditCommit, QuoteInv, QuoteKnown
  <2>3. PICK x : x = [quote[q] EXCEPT !.customer = a, !.payment_terms = b, !.lapsed = d]
    OBVIOUS
  <2>4. /\ x \in QuoteRows /\ x.serial = quote[q].serial /\ x.facility = quote[q].facility
        /\ x.completed = quote[q].completed
    BY <1>2, <2>2, <2>3 DEF QuoteRows
  <2>5. quote' = [quote EXCEPT ![q] = x]
    BY <1>1, <1>5, <2>1, <2>3 DEF EditCommit
  <2> QED BY <1>2, <1>3, <1>4, <2>4, <2>5, QuoteKeeps
<1>6. CASE e.kind # "header"
  <2>1. quote' = [quote EXCEPT ![q] = quote[q]]
    BY <1>1, <1>6 DEF EditCommit, QuoteInv
  <2> QED BY <1>2, <1>3, <1>4, <2>1, QuoteKeeps
<1> QED BY <1>5, <1>6

\* A confirmation holds the quote, a draft, and its facility, and takes the next
\* of the facility's numbers.
LEMMA QuoteConfirmReadKeeps ==
    ASSUME QuoteInv, NEW r \in Requests, NEW q \in Quotes, QuoteConfirmRead(r, q)
    PROVE  QuoteInv'
<1>1. PICK f : f = quote[q].facility
  OBVIOUS
<1>2. /\ QuoteSerials(f) \in SUBSET Nat
      /\ IsFiniteSet(QuoteSerials(f))
  <2>1. \A p \in Quotes : Raised(p) => quote[p].serial \in Nat
    BY DEF QuoteInv, Raised, QuoteRows
  <2> DEFINE Of == {p \in Quotes : Raised(p) /\ quote[p].facility = f}
             g == [p \in Of |-> quote[p].serial]
  <2>2. QuoteSerials(f) = {quote[p].serial : p \in Of}
    BY DEF QuoteSerials
  <2>3. IsFiniteSet(Of)
    BY QuoteConstants, FS_Subset DEF QuoteConstants
  <2>4. g \in Surjection(Of, QuoteSerials(f))
    BY <2>2 DEF Surjection
  <2>5. IsFiniteSet(QuoteSerials(f))
    BY <2>3, <2>4, FS_Surjection
  <2> QED BY <2>1, <2>2, <2>5
<1>3. PICK n : n = Max(QuoteSerials(f) \cup {0})
  OBVIOUS
<1>4. n \in Nat /\ \A s \in QuoteSerials(f) : s \in Nat /\ n >= s
  <2> DEFINE S == QuoteSerials(f) \cup {0}
  <2>1. IsFiniteSet(S) /\ S \in SUBSET Nat /\ S # {}
    BY <1>2, FS_AddElement
  <2>2. Max(S) \in S /\ \A y \in S : Max(S) >= y
    BY <2>1, MaxIsGreatest
  <2> QED BY <1>3, <2>1, <2>2
<1>5. n + 1 \in Nat \ {0} /\ \A s \in QuoteSerials(f) : s < n + 1
  BY <1>4
<1>6. PICK t : t = [op |-> "confirm quote", quote |-> q, rows |-> QuoteConfirmRows(q), serial |-> n + 1]
  OBVIOUS
<1>7. /\ t.op = "confirm quote" /\ t.quote = q /\ t.rows = QuoteConfirmRows(q) /\ t.serial = n + 1
      /\ txn' = [txn EXCEPT ![r] = t]
  BY <1>1, <1>3, <1>6 DEF QuoteConfirmRead
<1>8. txn'[r] = t
  BY <1>7 DEF QuoteInv
<1>9. UNCHANGED <<quote, qline>> /\ Raised(q) /\ ~ quote[q].completed
  BY DEF QuoteConfirmRead, QuoteEditable, quoteVars
<1>10. Holds(r)' = QuoteConfirmRows(q)
  BY <1>7, <1>8 DEF Holds
<1>11. \A p \in Requests \ {r} : Holds(p) \cap Holds(r)' = {}
  BY <1>10 DEF QuoteConfirmRead, Free
<1>12. QuoteKnown(r)'
  <2>1. Raised(q)' /\ QuoteConfirmRows(q)' = QuoteConfirmRows(q) /\ QuoteSerials(f)' = QuoteSerials(f)
    BY <1>9 DEF Raised, QuoteConfirmRows, QuoteSerials
  <2> QED BY <1>1, <1>5, <1>7, <1>8, <1>9, <2>1 DEF QuoteKnown
<1> QED BY <1>7, <1>9, <1>11, <1>12, RequestKeeps

LEMMA RowsTell ==
    /\ \A p, q : QuoteRow(p) = QuoteRow(q) => p = q
    /\ \A f, g : FacilityRow(f) = FacilityRow(g) => f = g
BY FacilityRowInjective DEF QuoteRow

\* The confirmed quote takes a number above all of its facility's, which no
\* other confirmation in flight can be giving: it would hold the facility too.
LEMMA QuoteConfirmCommitKeeps ==
    ASSUME QuoteInv, NEW r \in Requests, QuoteConfirmCommit(r)
    PROVE  QuoteInv'
<1>1. PICK q, n, f : q = txn[r].quote /\ n = txn[r].serial /\ f = quote[q].facility
  OBVIOUS
<1>2. /\ q \in Quotes /\ Raised(q) /\ ~ quote[q].completed /\ n \in Nat \ {0} /\ quote[q] \in QuoteRows
      /\ txn[r].op = "confirm quote" /\ txn[r].rows = QuoteConfirmRows(q)
      /\ \A s \in QuoteSerials(f) : s < n
  BY <1>1 DEF QuoteConfirmCommit, QuoteInv, QuoteKnown, Raised
<1>3. Holds(r) = QuoteConfirmRows(q) /\ QuoteRow(q) \in Holds(r) /\ FacilityRow(f) \in Holds(r)
  BY <1>1, <1>2 DEF Holds, QuoteConfirmRows
<1>4. PICK y : y = [quote[q] EXCEPT !.completed = TRUE]
  OBVIOUS
<1>5. PICK x : x = [y EXCEPT !.serial = n]
  OBVIOUS
<1>6. /\ x \in QuoteRows /\ x.completed /\ x.serial = n /\ x.facility = f
      /\ quote' = [quote EXCEPT ![q] = x]
  <2>1. y \in QuoteRows /\ y.completed /\ y.facility = f
    BY <1>1, <1>2, <1>4 DEF QuoteRows
  <2>2. x \in QuoteRows /\ x.completed /\ x.serial = n /\ x.facility = f
    BY <1>2, <1>5, <2>1 DEF QuoteRows
  <2>3. quote' = [quote EXCEPT ![q] = x]
    BY <1>1, <1>4, <1>5 DEF QuoteConfirmCommit
  <2> QED BY <2>2, <2>3
<1>7. /\ quote' \in [Quotes -> QuoteRows \cup {None}] /\ quote'[q] = x
      /\ \A p \in Quotes \ {q} : quote'[p] = quote[p]
  BY <1>2, <1>6 DEF QuoteInv
<1>8. Raised(q)' /\ \A p \in Quotes \ {q} : Raised(p)' <=> Raised(p)
  BY <1>6, <1>7, NoneIsNoQuoteRow DEF Raised, NoneIsNoQuoteRow
<1>9. /\ txn' = [p \in Requests |-> txn'[p]] /\ txn'[r] = Idle
      /\ \A p \in Requests \ {r} : txn'[p] = txn[p]
  BY DEF QuoteConfirmCommit, Ends, QuoteInv
<1>10. Holds(r)' = {} /\ \A p \in Requests \ {r} : Holds(p)' = Holds(p)
  BY <1>9 DEF Holds, Idle
<1>11. LocksExclusive'
  BY <1>10 DEF QuoteInv, LocksExclusive
<1>12. QuotesNumbered'
  <2>1. \A p \in Quotes \ {q} : Raised(p) /\ quote[p].facility = f => quote[p].serial # n
    <3> SUFFICES ASSUME NEW p \in Quotes, Raised(p), quote[p].facility = f PROVE quote[p].serial # n
      OBVIOUS
    <3>1. PICK s : s = quote[p].serial
      OBVIOUS
    <3>2. s \in QuoteSerials(f)
      BY <3>1, QuoteSerialsAre
    <3>3. s \in Nat
      BY <3>1 DEF QuoteInv, Raised, QuoteRows
    <3>4. s < n /\ n \in Nat
      BY <1>2, <3>2
    <3>5. s # n
      BY <3>3, <3>4
    <3> QED BY <3>1, <3>5
  <2>2. \A p \in Quotes : Raised(p)' => (quote'[p].completed <=> quote'[p].serial # 0)
    BY <1>2, <1>6, <1>7, <1>8 DEF QuoteInv, QuotesNumbered
  <2>3. ASSUME NEW a \in Quotes, NEW b \in Quotes, a # b, Raised(a)', Raised(b)', quote'[a].completed,
               quote'[b].completed, quote'[a].facility = quote'[b].facility
        PROVE  quote'[a].serial # quote'[b].serial
    <3>1. CASE a = q
      BY <1>6, <1>7, <1>8, <2>1, <2>3, <3>1
    <3>2. CASE b = q
      BY <1>6, <1>7, <1>8, <2>1, <2>3, <3>2
    <3>3. CASE a # q /\ b # q
      BY <1>7, <1>8, <2>3, <3>3 DEF QuoteInv, QuotesNumbered
    <3> QED BY <3>1, <3>2, <3>3
  <2> QED BY <2>2, <2>3 DEF QuotesNumbered
<1>13. \A g : g # f => \A s : s \in QuoteSerials(g)' => s \in QuoteSerials(g)
  <2> SUFFICES ASSUME NEW g, g # f, NEW s \in QuoteSerials(g)' PROVE s \in QuoteSerials(g)
    OBVIOUS
  <2>1. PICK p \in Quotes : Raised(p)' /\ quote'[p].facility = g /\ s = quote'[p].serial
    BY DEF QuoteSerials
  <2> QED BY <1>6, <1>7, <1>8, <2>1, QuoteSerialsAre
<1>14. ASSUME NEW p \in Requests PROVE QuoteKnown(p)'
  <2>1. CASE p = r
    <3>1. txn'[p].op = "idle"
      BY <1>9, <2>1 DEF Idle
    <3> QED BY <3>1 DEF QuoteKnown
  <2>2. CASE p # r
    <3>1. PICK t : t = txn[p]
      OBVIOUS
    <3>2. QuoteKnown(p) /\ txn'[p] = t
      BY <1>9, <2>2, <3>1 DEF QuoteInv
    <3>3. CASE t.op = "confirm quote"
      <4>1. /\ t.quote \in Quotes /\ Raised(t.quote) /\ ~ quote[t.quote].completed
            /\ t.rows = QuoteConfirmRows(t.quote) /\ t.serial \in Nat \ {0}
            /\ \A s \in QuoteSerials(quote[t.quote].facility) : s < t.serial
        BY <3>1, <3>2, <3>3 DEF QuoteKnown
      <4>2. Holds(p) = {QuoteRow(t.quote), FacilityRow(quote[t.quote].facility)} /\ Holds(p) \cap Holds(r) = {}
        <5>1. Holds(p) = t.rows
          BY <3>1, <3>3 DEF Holds
        <5>2. Holds(p) \cap Holds(r) = {}
          BY <2>2, Zenon DEF QuoteInv, LocksExclusive
        <5> QED BY <4>1, <5>1, <5>2 DEF QuoteConfirmRows
      <4>3. t.quote # q /\ quote[t.quote].facility # f
        BY <1>3, <4>2, RowsTell DEF QuoteConfirmRows
      <4>4. PICK g : g = quote[t.quote].facility
        OBVIOUS
      <4>5. \A s \in QuoteSerials(g)' : s < t.serial
        BY <1>13, <4>1, <4>3, <4>4
      <4>6. Raised(t.quote)' /\ quote'[t.quote] = quote[t.quote]
        BY <1>7, <1>8, <4>1, <4>3
      <4> QED BY <3>2, <3>3, <4>1, <4>4, <4>5, <4>6 DEF QuoteKnown, QuoteConfirmRows
    <3>4. CASE t.op # "confirm quote"
      BY <1>8, <3>1, <3>2, <3>4 DEF QuoteKnown
    <3> QED BY <3>3, <3>4
  <2> QED BY <2>1, <2>2
<1>15. qline' = [p \in Quotes |-> qline'[p]]
  BY DEF QuoteConfirmCommit, QuoteInv
<1> QED BY <1>7, <1>9, <1>11, <1>12, <1>14, <1>15 DEF QuoteInv

LEMMA QuoteCancelReadKeeps ==
    ASSUME QuoteInv, NEW r \in Requests, NEW q \in Quotes, QuoteCancelRead(r, q)
    PROVE  QuoteInv'
<1>1. PICK t : t = [op |-> "cancel quote", quote |-> q, rows |-> {}]
  OBVIOUS
<1>2. t.op = "cancel quote" /\ t.quote = q /\ t.rows = {} /\ txn' = [txn EXCEPT ![r] = t]
  BY <1>1 DEF QuoteCancelRead
<1>3. UNCHANGED <<quote, qline>> /\ Raised(q)'
  BY DEF QuoteCancelRead, quoteVars, Raised
<1>4. txn'[r] = t
  BY <1>2 DEF QuoteInv
<1>5. Holds(r)' = {} /\ QuoteKnown(r)'
  BY <1>2, <1>3, <1>4 DEF Holds, QuoteKnown
<1> QED BY <1>2, <1>3, <1>5, RequestKeeps

LEMMA QuoteCancelCommitKeeps ==
    ASSUME QuoteInv, NEW r \in Requests, QuoteCancelCommit(r)
    PROVE  QuoteInv'
<1>1. PICK q : q = txn[r].quote
  OBVIOUS
<1>2. q \in Quotes /\ Raised(q) /\ quote[q] \in QuoteRows
  BY <1>1 DEF QuoteCancelCommit, QuoteInv, QuoteKnown, Raised
<1>3. txn' = [p \in Requests |-> txn'[p]] /\ \A p \in Requests : txn'[p] = txn[p] \/ txn'[p] = Idle
  BY DEF QuoteCancelCommit, Ends, QuoteInv
<1>4. qline' = [p \in Quotes |-> qline'[p]]
  BY DEF QuoteCancelCommit, QuoteInv
<1>5. PICK x : x = [quote[q] EXCEPT !.cancelled = TRUE]
  OBVIOUS
<1>6. /\ x \in QuoteRows /\ x.serial = quote[q].serial /\ x.facility = quote[q].facility
      /\ x.completed = quote[q].completed
  BY <1>2, <1>5 DEF QuoteRows
<1>7. quote' = [quote EXCEPT ![q] = x]
  BY <1>1, <1>5 DEF QuoteCancelCommit
<1> QED BY <1>2, <1>3, <1>4, <1>6, <1>7, QuoteKeeps

LEMMA LapseKeeps == ASSUME QuoteInv, NEW q \in Quotes, Lapse(q) PROVE QuoteInv'
<1>1. Raised(q) /\ quote[q] \in QuoteRows
  BY DEF Lapse, QuoteInv, Raised
<1>2. txn' = [p \in Requests |-> txn'[p]] /\ \A p \in Requests : txn'[p] = txn[p] \/ txn'[p] = Idle
  BY DEF Lapse, vars, QuoteInv
<1>3. qline' = [p \in Quotes |-> qline'[p]]
  BY DEF Lapse, QuoteInv
<1>4. PICK x : x = [quote[q] EXCEPT !.lapsed = TRUE]
  OBVIOUS
<1>5. /\ x \in QuoteRows /\ x.serial = quote[q].serial /\ x.facility = quote[q].facility
      /\ x.completed = quote[q].completed
  BY <1>1, <1>4 DEF QuoteRows
<1>6. quote' = [quote EXCEPT ![q] = x]
  BY <1>4 DEF Lapse
<1> QED BY <1>1, <1>2, <1>3, <1>5, <1>6, QuoteKeeps

LEMMA CreateQuoteKeeps ==
    ASSUME QuoteInv, NEW q \in Quotes, NEW f \in Facilities, NEW c \in Customers,
           NEW terms \in Terms \cup {None}, CreateQuote(q, f, c, terms)
    PROVE  QuoteInv'
<1>1. PICK d : d = CASE terms # None -> terms
                     [] terms = None /\ IsCreditCustomer(c) -> "NET_D"
                     [] OTHER -> "IMMEDIATE"
  OBVIOUS
<1>2. d \in Terms
  BY <1>1 DEF Terms
<1>3. PICK x : x = [facility |-> f, customer |-> c, completed |-> FALSE, cancelled |-> FALSE,
                    payment_terms |-> d, lapsed |-> FALSE, serial |-> 0]
  OBVIOUS
<1>4. x \in QuoteRows /\ x.serial = 0 /\ ~ x.completed
  BY <1>2, <1>3 DEF QuoteRows
<1>5. quote' = [quote EXCEPT ![q] = x] /\ ~ Raised(q)
  BY <1>1, <1>3 DEF CreateQuote
<1>6. txn' = [p \in Requests |-> txn'[p]] /\ \A p \in Requests : txn'[p] = txn[p] \/ txn'[p] = Idle
  BY DEF CreateQuote, vars, QuoteInv
<1>7. qline' = [p \in Quotes |-> qline'[p]]
  BY DEF CreateQuote, QuoteInv
<1> QED BY <1>4, <1>5, <1>6, <1>7, QuoteKeeps

LEMMA DuplicateKeeps ==
    ASSUME QuoteInv, NEW q \in Quotes, NEW copy \in Quotes, Duplicate(q, copy)
    PROVE  QuoteInv'
<1>1. Raised(q) /\ ~ Raised(copy) /\ quote[q] \in QuoteRows
  BY DEF Duplicate, QuoteInv, Raised
<1>2. txn' = [p \in Requests |-> txn'[p]] /\ \A p \in Requests : txn'[p] = txn[p] \/ txn'[p] = Idle
  BY DEF Duplicate, vars, QuoteInv
<1>3. qline' = [p \in Quotes |-> qline'[p]]
  BY DEF Duplicate, QuoteInv
<1>4. PICK x : x = [quote[q] EXCEPT !.completed = FALSE, !.cancelled = FALSE,
                                    !.lapsed = FALSE, !.serial = 0]
  OBVIOUS
<1>5. x \in QuoteRows /\ x.serial = 0 /\ ~ x.completed
  BY <1>1, <1>4 DEF QuoteRows
<1>6. quote' = [quote EXCEPT ![copy] = x]
  BY <1>4 DEF Duplicate
<1> QED BY <1>1, <1>2, <1>3, <1>5, <1>6, QuoteKeeps

LEMMA EmailSendKeeps ==
    ASSUME QuoteInv, NEW r \in Requests, NEW q \in Quotes, EmailSend(r, q)
    PROVE  QuoteInv'
<1>1. PICK t : t = [op |-> "email quote", quote |-> q, rows |-> {}]
  OBVIOUS
<1>2. t.op = "email quote" /\ t.rows = {} /\ txn' = [txn EXCEPT ![r] = t] /\ UNCHANGED <<quote, qline>>
  BY <1>1 DEF EmailSend
<1>3. txn'[r] = t
  BY <1>2 DEF QuoteInv
<1>4. Holds(r)' = {} /\ QuoteKnown(r)'
  BY <1>2, <1>3 DEF Holds, QuoteKnown
<1> QED BY <1>2, <1>4, RequestKeeps

\* No step takes one of a quote's numbers again, nor lets a confirmation go on
\* without what it holds.
LEMMA QuoteInvKept == ASSUME QuoteInv, [QuoteNext]_allVars PROVE QuoteInv'
<1>1. CASE UNCHANGED allVars
  BY <1>1, NothingKeeps DEF allVars, vars, quoteVars
<1>2. CASE Next /\ UNCHANGED quoteVars
  BY <1>2, OrdersKeepQuotes
<1>3. ASSUME NEW r \in Requests, EmailRecord(r) PROVE QuoteInv'
  BY <1>3, EndKeeps DEF EmailRecord
<1>4. ASSUME NEW q \in Quotes, NEW o \in Orders, Convert(q, o) PROVE QuoteInv'
  BY <1>4, NothingKeeps DEF Convert
<1>5. CASE Offer
  BY <1>3, <1>4, <1>5, CreateQuoteKeeps, EditReadKeeps, EditCommitKeeps, LapseKeeps,
     QuoteConfirmReadKeeps, QuoteConfirmCommitKeeps, QuoteCancelReadKeeps, QuoteCancelCommitKeeps,
     EmailSendKeeps, DuplicateKeeps, Zenon DEF Offer
<1> QED BY <1>1, <1>2, <1>5 DEF QuoteNext

\* Quotes keep their numbers and requests what they know of them, whatever edits,
\* confirmations, cancellations and orders run beside one another.
THEOREM QuoteInvariance == QuoteSpec => []QuoteInv
<1>1. QuoteInit => QuoteInv
  <2> SUFFICES ASSUME QuoteInit PROVE QuoteInv
    OBVIOUS
  <2>1. \A q \in Quotes : ~ Raised(q)
    BY DEF QuoteInit, Raised
  <2>2. \A r \in Requests : txn[r].op = "idle"
    BY DEF QuoteInit, Init, Idle
  <2>3. LocksExclusive
    BY <2>2 DEF LocksExclusive, Holds
  <2>4. QuotesNumbered
    BY <2>1 DEF QuotesNumbered
  <2>5. \A r \in Requests : QuoteKnown(r)
    BY <2>2 DEF QuoteKnown
  <2> QED BY <2>3, <2>4, <2>5 DEF QuoteInv, QuoteInit, Init
<1> QED BY <1>1, QuoteInvKept, PTL DEF QuoteSpec

\* Two confirmed quotes of a facility never carry one number (confirm_quote
\* numbers under the facility's lock).
THEOREM QuotesStayNumbered == QuoteSpec => []QuotesNumbered
<1>1. QuoteInv => QuotesNumbered
  BY DEF QuoteInv
<1> QED BY <1>1, QuoteInvariance, PTL

\* What a quote offers, once confirmed, changes by no step but that of an edit
\* that had read it as a draft.
THEOREM OffersStand == QuoteSpec => OfferStands
<1> DEFINE Altered(q) == \/ qline'[q] # qline[q]
                         \/ quote'[q].customer # quote[q].customer
                         \/ quote'[q].payment_terms # quote[q].payment_terms
           Edited(q) == \E r \in Requests : /\ txn[r].op = "edit quote" /\ txn[r].quote = q
                                            /\ ~ txn[r].completed
<1>1. ASSUME QuoteInv, [QuoteNext]_allVars, NEW q \in Quotes, Raised(q), Altered(q) PROVE Edited(q)
  <2>1. CASE UNCHANGED <<quote, qline>>
    BY <1>1, <2>1
  <2>2. ASSUME NEW r \in Requests, EditCommit(r) PROVE Edited(q)
    <3>1. PICK p, e : p = txn[r].quote /\ e = txn[r].edit
      OBVIOUS
    <3>2. p \in Quotes /\ txn[r].op = "edit quote" /\ ~ txn[r].completed
      BY <1>1, <2>2, <3>1 DEF EditCommit, QuoteInv, QuoteKnown
    <3>3. CASE p = q
      BY <3>1, <3>2, <3>3
    <3>4. CASE p # q
      <4>1. qline'[q] = qline[q]
        BY <1>1, <2>2, <3>1, <3>4 DEF EditCommit, QuoteInv
      <4>2. quote'[q] = quote[q]
        BY <1>1, <2>2, <3>1, <3>4 DEF EditCommit, QuoteInv
      <4> QED BY <1>1, <4>1, <4>2
    <3> QED BY <3>3, <3>4
  <2>3. ASSUME NEW p \in Quotes, NEW x, quote' = [quote EXCEPT ![p] = x],
               p = q => x.customer = quote[q].customer /\ x.payment_terms = quote[q].payment_terms,
               qline'[q] = qline[q]
        PROVE  FALSE
    BY <1>1, <2>3 DEF QuoteInv
  <2>4. ASSUME NEW p \in Quotes, ~ Raised(p), NEW x, quote' = [quote EXCEPT ![p] = x], qline'[q] = qline[q]
        PROVE  FALSE
    BY <1>1, <2>3, <2>4
  <2>5. ASSUME NEW p \in Quotes, NEW f \in Facilities, NEW c \in Customers, NEW t \in Terms \cup {None},
               CreateQuote(p, f, c, t)
        PROVE  FALSE
    BY <1>1, <2>4, <2>5 DEF CreateQuote
  <2>6. ASSUME NEW p \in Quotes, NEW copy \in Quotes, Duplicate(p, copy) PROVE FALSE
    <3>1. copy # q
      BY <1>1, <2>6 DEF Duplicate
    <3>2. qline'[q] = qline[q]
      BY <1>1, <2>6, <3>1 DEF Duplicate, QuoteInv
    <3> QED BY <2>4, <2>6, <3>2 DEF Duplicate
  <2>7. \A p \in Quotes : Raised(p) => quote[p] \in QuoteRows
    BY <1>1 DEF QuoteInv, Raised
  <2>8. ASSUME NEW p \in Quotes, Lapse(p) PROVE FALSE
    <3>1. PICK x : x = [quote[p] EXCEPT !.lapsed = TRUE]
      OBVIOUS
    <3>2. quote[p] \in QuoteRows /\ quote' = [quote EXCEPT ![p] = x] /\ qline'[q] = qline[q]
      BY <2>7, <2>8, <3>1 DEF Lapse
    <3>3. x.customer = quote[p].customer /\ x.payment_terms = quote[p].payment_terms
      BY <3>1, <3>2 DEF QuoteRows
    <3> QED BY <2>3, <3>2, <3>3
  <2>9. ASSUME NEW r \in Requests, QuoteCancelCommit(r) PROVE FALSE
    <3>1. PICK p : p = txn[r].quote
      OBVIOUS
    <3>2. PICK x : x = [quote[p] EXCEPT !.cancelled = TRUE]
      OBVIOUS
    <3>3. p \in Quotes /\ Raised(p)
      BY <1>1, <2>9, <3>1 DEF QuoteCancelCommit, QuoteInv, QuoteKnown
    <3>4. quote' = [quote EXCEPT ![p] = x] /\ qline'[q] = qline[q]
      BY <2>9, <3>1, <3>2 DEF QuoteCancelCommit
    <3>5. x.customer = quote[p].customer /\ x.payment_terms = quote[p].payment_terms
      BY <2>7, <3>2, <3>3 DEF QuoteRows
    <3> QED BY <2>3, <3>3, <3>4, <3>5
  <2>10. ASSUME NEW r \in Requests, QuoteConfirmCommit(r) PROVE FALSE
    <3>1. PICK p, n : p = txn[r].quote /\ n = txn[r].serial
      OBVIOUS
    <3>2. PICK x : x = [quote[p] EXCEPT !.completed = TRUE, !.serial = n]
      OBVIOUS
    <3>3. p \in Quotes /\ Raised(p)
      BY <1>1, <2>10, <3>1 DEF QuoteConfirmCommit, QuoteInv, QuoteKnown
    <3>4. quote' = [quote EXCEPT ![p] = x] /\ qline'[q] = qline[q]
      BY <2>10, <3>1, <3>2 DEF QuoteConfirmCommit
    <3>5. x.customer = quote[p].customer /\ x.payment_terms = quote[p].payment_terms
      BY <2>7, <3>2, <3>3 DEF QuoteRows
    <3> QED BY <2>3, <3>3, <3>4, <3>5
  <2>11. Offer => \/ UNCHANGED <<quote, qline>>
                  \/ \E r \in Requests : EditCommit(r) \/ QuoteCancelCommit(r) \/ QuoteConfirmCommit(r)
                  \/ \E p \in Quotes : Lapse(p) \/ \E copy \in Quotes : Duplicate(p, copy)
                  \/ \E p \in Quotes, f \in Facilities, c \in Customers, t \in Terms \cup {None} :
                        CreateQuote(p, f, c, t)
    BY Zenon DEF Offer, EditRead, QuoteConfirmRead, QuoteCancelRead, EmailSend, EmailRecord, Convert, quoteVars
  <2>12. CASE Offer
    BY <2>1, <2>2, <2>5, <2>6, <2>8, <2>9, <2>10, <2>11, <2>12, Zenon
  <2>13. CASE UNCHANGED quoteVars
    BY <2>1, <2>13 DEF quoteVars
  <2> QED BY <1>1, <2>12, <2>13 DEF QuoteNext, allVars
<1>2. QuoteInv /\ [QuoteNext]_allVars =>
         [\A q \in Quotes : Raised(q) /\ quote[q].completed /\ Altered(q) => Edited(q)]_allVars
  BY <1>1
<1> QED BY <1>2, QuoteInvariance, PTL DEF QuoteSpec, OfferStands

-----------------------------------------------------------------------------
(***************************************************************************)
(* Payments and refunds.                                                   *)
(*                                                                         *)
(* FundsInv needs nothing of the constants: a request that has read        *)
(* payment and order under their locks still fits both when it commits,    *)
(* so nothing is ever spent twice.  ClerksInv is about refunds, and needs  *)
(* each draft to be worked on by one request: editing and cancelling a     *)
(* draft lock nothing, so a stale edit would land on a refund another      *)
(* request has completed.  Under it no line is returned beyond what it     *)
(* sold, and the paid flag follows the balance step by step.               *)
(*                                                                         *)
(* The steps are those of RefundNext, PaymentNext among them.              *)
(***************************************************************************)

-----------------------------------------------------------------------------
(***************************************************************************)
(* The inductive invariants.                                               *)
(***************************************************************************)
Operations == {"create_payment", "verify", "apply", "reverse", "stale_flags", "cancel", "sweep",
               "edit_refund", "cancel_refund", "confirm_refund"}
RefundOperations == {"edit_refund", "cancel_refund", "confirm_refund"}

\* The tables keep their shape.
TablesTyped ==
    /\ order \in [Orders -> OrderRows]
    /\ line \in [Orders -> [LineIds -> Lines \cup {None}]]
    /\ payment \in [Payments -> PaymentRows \cup {None}]
    /\ application \in [Applications -> ApplicationRows \cup {None}]
    /\ refund \in [Refunds -> RefundRows \cup {None}]

TxnShape ==
    /\ txn = [r \in Requests |-> txn[r]]
    /\ \A r \in Requests : txn[r] = Idle \/ txn[r].op \in Operations

\* An application is of a payment there is.
ApplicationsPaid ==
    \A a \in Applications : application[a] # None => payment[application[a].payment] # None

\* A request in flight: what it is about to write has its shape, and an
\* application still fits the payment and the order whose rows it holds.
CashierSound(t) ==
    /\ t.op = "create_payment" =>
          /\ t.customer \in Customers /\ t.facility \in Facilities
          /\ t.amount \in Nat /\ t.serial \in Nat
    /\ t.op = "verify" =>
          t.payment \in Payments /\ payment[t.payment] # None /\ t.verifier \in Verifiers
    /\ t.op = "reverse" => t.application \in Applications /\ application[t.application] # None
    /\ t.op = "sweep" =>
          t \in [op : {"sweep"}, rows : {{}}, queue : SUBSET Orders, clear : SUBSET Orders]

ApplierSound(t) ==
    t.op = "apply" =>
        /\ t.payment \in Payments /\ payment[t.payment] # None
        /\ t.order \in Orders
        /\ t.amount \in Nat /\ t.change \in Nat
        /\ PaymentRow(t.payment) \in t.rows /\ OrderRow(t.order) \in t.rows
        /\ Used(t.payment) + t.amount + t.change <= payment[t.payment].amount
        /\ Applied(t.order) + t.amount <= Total(t.order)

ClerkSound(t) ==
    t.op \in RefundOperations =>
        /\ t.refund \in Refunds /\ refund[t.refund] # None
        /\ t.op = "edit_refund" => t.line \in LineIds /\ t.quantity \in Nat
        /\ t.op = "confirm_refund" =>
              /\ t.quantity \in [LineIds -> Nat]
              /\ t.amount \in Nat /\ t.serial \in Nat /\ t.payment_serial \in Nat

Sound(t) == CashierSound(t) /\ ApplierSound(t) /\ ClerkSound(t)

FundsInv ==
    /\ TablesTyped
    /\ TxnShape
    /\ LocksExclusive
    /\ ApplicationsPaid
    /\ NothingBelowZero
    /\ \A r \in Requests : Sound(txn[r])

\* What a clerk has in hand is a draft of their own, as they read it: nobody
\* else completes it, and while its order's row is held nothing else moves
\* what the order owes or has given back.
DraftInHand(r, t) ==
    t.op \in RefundOperations => t.refund \in Desk[r] /\ EditableRefund(t.refund)

OwedAsRead(t) ==
    t.op = "apply" => t.amount <= Balance(t.order) /\ t.after = Balance(t.order) - t.amount

FitsTheOrder(t) ==
    t.op = "confirm_refund" =>
        LET o == refund[t.refund].order
        IN  /\ OrderRow(o) \in t.rows
            /\ t.amount = Amount(o, t.quantity)
            /\ t.after = Remaining(Total(o), Refunded(o) + t.amount + Applied(o))
            /\ \A l \in Filled(o) :
                  AlreadyRefunded(o, l) + t.quantity[l] <= line[o][l].quantity

Current(r, t) == DraftInHand(r, t) /\ OwedAsRead(t) /\ FitsTheOrder(t)

ClerksInv ==
    /\ NotOverRefunded
    /\ \A r \in Requests : Current(r, txn[r])

\* No two requests work on one draft.
OwnDrafts == \A r, q \in Requests : r # q => Desk[r] \cap Desk[q] = {}

-----------------------------------------------------------------------------
(***************************************************************************)
(* Rows and transactions.                                                  *)
(***************************************************************************)
LEMMA RowsDiffer ==
    /\ \A o, p : OrderRow(o) = OrderRow(p) => o = p
    /\ \A p, q : PaymentRow(p) = PaymentRow(q) => p = q
BY DEF OrderRow, PaymentRow

LEMMA IdleIsNoOperation == Idle.op = "idle" /\ "idle" \notin Operations
BY DEF Idle, Operations

LEMMA IdleIsSound == ASSUME NEW t, t = Idle PROVE Sound(t)
BY DEF Sound, CashierSound, ApplierSound, ClerkSound, RefundOperations, Idle

\* What a request holds, another does not.
LEMMA HeldByOne ==
    ASSUME LocksExclusive, NEW r \in Requests, NEW q \in Requests, NEW row,
           txn[r].op # "idle", txn[q].op # "idle", row \in txn[r].rows, row \in txn[q].rows
    PROVE  r = q
BY DEF LocksExclusive, Holds

\* A request begins on rows nobody holds, goes on, or ends.
LEMMA TxnStep ==
    ASSUME TxnShape, LocksExclusive, NEW r \in Requests, NEW t, txn' = [txn EXCEPT ![r] = t],
           t = Idle \/ (t.op \in Operations /\ Free(r, t.rows))
    PROVE  /\ TxnShape'
           /\ LocksExclusive'
           /\ txn'[r] = t
           /\ \A q \in Requests \ {r} : txn'[q] = txn[q]
<1>1. txn'[r] = t
  BY DEF TxnShape
<1>2. \A q \in Requests \ {r} : txn'[q] = txn[q]
  BY DEF TxnShape
<1>3. txn' = [q \in Requests |-> txn'[q]]
  BY DEF TxnShape
<1>4. \A q \in Requests : txn'[q] = Idle \/ txn'[q].op \in Operations
  BY <1>1, <1>2 DEF TxnShape
<1>5. TxnShape'
  BY <1>3, <1>4 DEF TxnShape
<1>6. \A q \in Requests \ {r} : Holds(q)' = Holds(q)
  BY <1>2 DEF Holds
<1>7. \A q \in Requests \ {r} : Holds(q) \cap Holds(r)' = {}
  BY <1>1, IdleIsNoOperation DEF Holds, Free
<1>8. LocksExclusive'
  BY <1>6, <1>7 DEF LocksExclusive
<1> QED BY <1>1, <1>2, <1>5, <1>8

-----------------------------------------------------------------------------
(***************************************************************************)
(* The sums.                                                               *)
(***************************************************************************)
LEMMA IdsFinite ==
    IsFiniteSet(LineIds) /\ IsFiniteSet(Applications) /\ IsFiniteSet(Refunds) /\ IsFiniteSet(Payments)
BY SalesConstants, PaymentConstants DEF SalesConstants, PaymentConstants

\* A sum, whatever function its terms are read from.
LEMMA SumReadFrom ==
    ASSUME NEW h, NEW S, IsFiniteSet(S), NEW f, DOMAIN h = S, \A x \in S : h[x] = f[x]
    PROVE  SumFunction(h) = SumFunctionOnSet(f, S)
<1>1. SumFunction(h) = SumFunctionOnSet(h, S)
  BY DEF SumFunction, SumFunctionOnSet, FoldFunction
<1> QED BY <1>1, SumOfEqual

LEMMA NatProduct == \A i, j \in Nat : i * j \in Nat
OBVIOUS

\* What lines cost, of some of the rows.
LEMMA PartsCost ==
    ASSUME NEW rows \in [LineIds -> Lines \cup {None}], NEW filled \in SUBSET LineIds,
           \A l \in filled : rows[l] # None, NEW quantity \in [LineIds -> Nat]
    PROVE  /\ SumFunction([l \in filled |-> rows[l].quantity * rows[l].price]) \in Nat
           /\ SumFunction([l \in filled |-> quantity[l] * rows[l].price]) \in Nat
<1> DEFINE f == [l \in filled |-> rows[l].quantity * rows[l].price]
           g == [l \in filled |-> quantity[l] * rows[l].price]
<1>1. ASSUME NEW l \in filled PROVE f[l] \in Nat /\ g[l] \in Nat
  <2>1. rows[l].quantity \in Nat /\ rows[l].price \in Nat /\ quantity[l] \in Nat
    BY DEF Lines
  <2> QED BY <2>1, NatProduct
<1>2. IsFiniteSet(filled)
  BY IdsFinite, FS_Subset
<1>3. DOMAIN f = filled /\ DOMAIN g = filled
  OBVIOUS
<1> HIDE DEF f, g
<1>4. SumFunction(f) = SumFunctionOnSet(f, filled) /\ SumFunction(g) = SumFunctionOnSet(g, filled)
  BY <1>2, <1>3, SumReadFrom
<1>5. SumFunctionOnSet(f, filled) \in Nat /\ SumFunctionOnSet(g, filled) \in Nat
  BY <1>1, <1>2, SumIsNat
<1> QED BY <1>4, <1>5 DEF f, g

\* Every figure is a number of cents or of units.
LEMMA OrderCosts ==
    ASSUME TablesTyped, NEW o \in Orders, NEW quantity \in [LineIds -> Nat]
    PROVE  Total(o) \in Nat /\ Amount(o, quantity) \in Nat
<1>1. PICK rows : rows = line[o]
  OBVIOUS
<1>2. PICK filled : filled = Filled(o)
  OBVIOUS
<1>3. /\ rows \in [LineIds -> Lines \cup {None}] /\ filled \in SUBSET LineIds
      /\ \A l \in filled : rows[l] # None
  BY <1>1, <1>2 DEF TablesTyped, Filled
<1>4. /\ SumFunction([l \in filled |-> rows[l].quantity * rows[l].price]) \in Nat
      /\ SumFunction([l \in filled |-> quantity[l] * rows[l].price]) \in Nat
  BY <1>3, PartsCost
<1> QED BY <1>1, <1>2, <1>4 DEF Total, Amount

LEMMA RefundCosts ==
    ASSUME TablesTyped, NEW n \in Refunds, refund[n] # None
    PROVE  RefundTotal(n) = Amount(refund[n].order, refund[n].quantity) /\ RefundTotal(n) \in Nat
<1>1. refund[n].order \in Orders /\ refund[n].quantity \in [LineIds -> Nat]
  BY DEF TablesTyped, RefundRows
<1>2. PICK o : o = refund[n].order
  OBVIOUS
<1>3. PICK quantity : quantity = refund[n].quantity
  OBVIOUS
<1>4. Amount(o, quantity) \in Nat
  BY <1>1, <1>2, <1>3, OrderCosts
<1>5. RefundTotal(n) = Amount(refund[n].order, refund[n].quantity)
  BY DEF RefundTotal, Amount
<1> QED BY <1>2, <1>3, <1>4, <1>5

\* Sums over the live applications and the standing refunds, as sums of rows.
LEMMA AppliedIsSum ==
    ASSUME NEW o
    PROVE  /\ IsFiniteSet(LiveApplications(o)) /\ LiveApplications(o) \in SUBSET Applications
           /\ Applied(o) = SumFunctionOnSet([a \in Applications |-> application[a].amount],
                                            LiveApplications(o))
           /\ Applied(o)' = SumFunctionOnSet([a \in Applications |-> application'[a].amount],
                                             LiveApplications(o)')
<1>1. ASSUME NEW S \in SUBSET Applications, NEW app
      PROVE  /\ IsFiniteSet(S)
             /\ SumFunction([a \in S |-> app[a].amount])
                    = SumFunctionOnSet([a \in Applications |-> app[a].amount], S)
  <2> DEFINE f == [a \in Applications |-> app[a].amount]
             h == [a \in S |-> app[a].amount]
  <2>1. IsFiniteSet(S)
    BY IdsFinite, FS_Subset
  <2>2. DOMAIN h = S /\ \A a \in S : h[a] = f[a]
    OBVIOUS
  <2> HIDE DEF f, h
  <2>3. SumFunction(h) = SumFunctionOnSet(f, S)
    BY <2>1, <2>2, SumReadFrom
  <2> QED BY <2>1, <2>3 DEF f, h
<1>2. LiveApplications(o) \in SUBSET Applications /\ LiveApplications(o)' \in SUBSET Applications
  BY DEF LiveApplications
<1>3. PICK app : app = application'
  OBVIOUS
<1> QED BY <1>1, <1>2, <1>3 DEF Applied

LEMMA UsedIsSum ==
    ASSUME NEW p
    PROVE  /\ IsFiniteSet(LiveOfPayment(p)) /\ LiveOfPayment(p) \in SUBSET Applications
           /\ Used(p) = SumFunctionOnSet(
                  [a \in Applications |-> application[a].amount + application[a].change],
                  LiveOfPayment(p))
           /\ Used(p)' = SumFunctionOnSet(
                  [a \in Applications |-> application'[a].amount + application'[a].change],
                  LiveOfPayment(p)')
<1>1. ASSUME NEW S \in SUBSET Applications, NEW app
      PROVE  /\ IsFiniteSet(S)
             /\ SumFunction([a \in S |-> app[a].amount + app[a].change])
                    = SumFunctionOnSet([a \in Applications |-> app[a].amount + app[a].change], S)
  <2> DEFINE f == [a \in Applications |-> app[a].amount + app[a].change]
             h == [a \in S |-> app[a].amount + app[a].change]
  <2>1. IsFiniteSet(S)
    BY IdsFinite, FS_Subset
  <2>2. DOMAIN h = S /\ \A a \in S : h[a] = f[a]
    OBVIOUS
  <2> HIDE DEF f, h
  <2>3. SumFunction(h) = SumFunctionOnSet(f, S)
    BY <2>1, <2>2, SumReadFrom
  <2> QED BY <2>1, <2>3 DEF f, h
<1>2. LiveOfPayment(p) \in SUBSET Applications /\ LiveOfPayment(p)' \in SUBSET Applications
  BY DEF LiveOfPayment
<1>3. PICK app : app = application'
  OBVIOUS
<1> QED BY <1>1, <1>2, <1>3 DEF Used

LEMMA RefundedIsSum ==
    ASSUME NEW o, NEW l
    PROVE  /\ IsFiniteSet(CompletedRefunds(o)) /\ CompletedRefunds(o) \in SUBSET Refunds
           /\ Refunded(o) = SumFunctionOnSet([n \in Refunds |-> RefundTotal(n)], CompletedRefunds(o))
           /\ Refunded(o)' = SumFunctionOnSet([n \in Refunds |-> RefundTotal(n)'], CompletedRefunds(o)')
           /\ AlreadyRefunded(o, l) = SumFunctionOnSet([n \in Refunds |-> refund[n].quantity[l]],
                                                       CompletedRefunds(o))
           /\ AlreadyRefunded(o, l)' = SumFunctionOnSet([n \in Refunds |-> refund'[n].quantity[l]],
                                                        CompletedRefunds(o)')
<1>1. ASSUME NEW S \in SUBSET Refunds, NEW f, DOMAIN f = Refunds
      PROVE  /\ IsFiniteSet(S)
             /\ SumFunction([n \in S |-> f[n]]) = SumFunctionOnSet(f, S)
  <2> DEFINE h == [n \in S |-> f[n]]
  <2>1. IsFiniteSet(S)
    BY IdsFinite, FS_Subset
  <2>2. DOMAIN h = S /\ \A n \in S : h[n] = f[n]
    OBVIOUS
  <2> HIDE DEF h
  <2>3. SumFunction(h) = SumFunctionOnSet(f, S)
    BY <2>1, <2>2, SumReadFrom
  <2> QED BY <2>1, <2>3 DEF h
<1> DEFINE f == [n \in Refunds |-> RefundTotal(n)]
           ff == [n \in Refunds |-> RefundTotal(n)']
           g == [n \in Refunds |-> refund[n].quantity[l]]
           gg == [n \in Refunds |-> refund'[n].quantity[l]]
           S == CompletedRefunds(o)
           R == CompletedRefunds(o)'
<1>2. S \in SUBSET Refunds /\ R \in SUBSET Refunds
  BY DEF CompletedRefunds
<1>3. /\ [n \in S |-> RefundTotal(n)] = [n \in S |-> f[n]]
      /\ [n \in R |-> RefundTotal(n)'] = [n \in R |-> ff[n]]
      /\ [n \in S |-> refund[n].quantity[l]] = [n \in S |-> g[n]]
      /\ [n \in R |-> refund'[n].quantity[l]] = [n \in R |-> gg[n]]
  BY <1>2
<1>4. /\ Refunded(o) = SumFunction([n \in S |-> f[n]])
      /\ Refunded(o)' = SumFunction([n \in R |-> ff[n]])
      /\ AlreadyRefunded(o, l) = SumFunction([n \in S |-> g[n]])
      /\ AlreadyRefunded(o, l)' = SumFunction([n \in R |-> gg[n]])
  BY <1>3 DEF Refunded, AlreadyRefunded, CompletedRefunds
<1>5. DOMAIN f = Refunds /\ DOMAIN ff = Refunds /\ DOMAIN g = Refunds /\ DOMAIN gg = Refunds
  OBVIOUS
<1> HIDE DEF f, ff, g, gg, S, R
<1>6. /\ Refunded(o) = SumFunctionOnSet(f, S)
      /\ Refunded(o)' = SumFunctionOnSet(ff, R)
      /\ AlreadyRefunded(o, l) = SumFunctionOnSet(g, S)
      /\ AlreadyRefunded(o, l)' = SumFunctionOnSet(gg, R)
      /\ IsFiniteSet(S)
  BY <1>1, <1>2, <1>4, <1>5
<1> QED BY <1>2, <1>6 DEF f, ff, g, gg, S, R

\* They are numbers of cents and of units.
LEMMA FiguresAreNat ==
    ASSUME TablesTyped, NEW o \in Orders
    PROVE  /\ Applied(o) \in Nat
           /\ Refunded(o) \in Nat /\ \A l \in LineIds : AlreadyRefunded(o, l) \in Nat
           /\ Total(o) \in Nat /\ Balance(o) \in Nat
<1>1. Applied(o) \in Nat
  <2> DEFINE f == [a \in Applications |-> application[a].amount]
  <2>1. \A a \in LiveApplications(o) : f[a] \in Nat
    BY DEF LiveApplications, TablesTyped, ApplicationRows
  <2> HIDE DEF f
  <2> QED BY <2>1, AppliedIsSum, SumIsNat DEF f
<1>2. ASSUME NEW l PROVE Refunded(o) \in Nat /\ (l \in LineIds => AlreadyRefunded(o, l) \in Nat)
  <2> DEFINE f == [n \in Refunds |-> RefundTotal(n)]
             g == [n \in Refunds |-> refund[n].quantity[l]]
  <2>1. \A n \in CompletedRefunds(o) : n \in Refunds /\ refund[n] # None
    BY DEF CompletedRefunds
  <2>2. \A n \in CompletedRefunds(o) : f[n] \in Nat
    BY <2>1, RefundCosts
  <2>3. l \in LineIds => \A n \in CompletedRefunds(o) : g[n] \in Nat
    BY <2>1 DEF TablesTyped, RefundRows
  <2>4. /\ IsFiniteSet(CompletedRefunds(o))
        /\ Refunded(o) = SumFunctionOnSet(f, CompletedRefunds(o))
        /\ AlreadyRefunded(o, l) = SumFunctionOnSet(g, CompletedRefunds(o))
    BY RefundedIsSum
  <2> HIDE DEF f, g
  <2>5. Refunded(o) \in Nat
    BY <2>2, <2>4, SumIsNat
  <2>6. l \in LineIds => AlreadyRefunded(o, l) \in Nat
    BY <2>3, <2>4, SumIsNat
  <2> QED BY <2>5, <2>6
<1>3. Total(o) \in Nat
  <2>1. [l \in LineIds |-> 0] \in [LineIds -> Nat]
    OBVIOUS
  <2> QED BY <2>1, OrderCosts
<1>4. Balance(o) \in Nat
  <2> DEFINE d == Refunded(o) + Applied(o)
             t == Total(o)
  <2>1. d \in Nat /\ t \in Nat
    BY <1>1, <1>2, <1>3
  <2> HIDE DEF d, t
  <2>2. Remaining(t, d) \in Nat
    BY <2>1 DEF Remaining
  <2> QED BY <2>2 DEF Balance, d, t
<1> QED BY <1>1, <1>2, <1>3, <1>4

\* So is what was taken of a payment.
LEMMA UsedIsNat ==
    ASSUME TablesTyped, NEW p
    PROVE  Used(p) \in Nat
<1> DEFINE f == [a \in Applications |-> application[a].amount + application[a].change]
<1>1. \A a \in LiveOfPayment(p) : f[a] \in Nat
  BY DEF LiveOfPayment, TablesTyped, ApplicationRows
<1> HIDE DEF f
<1> QED BY <1>1, UsedIsSum, SumIsNat DEF f

-----------------------------------------------------------------------------
(***************************************************************************)
(* What a step does to them.                                               *)
(***************************************************************************)
\* Figures depend on nothing but the rows they are sums of.
LEMMA LinesStand ==
    ASSUME UNCHANGED line
    PROVE  /\ \A o : Total(o)' = Total(o) /\ Filled(o)' = Filled(o)
           /\ \A o, quantity : Amount(o, quantity)' = Amount(o, quantity)
<1>1. \A o : Filled(o)' = Filled(o)
  BY DEF Filled
<1> QED BY <1>1 DEF Total, Amount

LEMMA ApplicationsStand ==
    ASSUME UNCHANGED application
    PROVE  /\ \A o : Applied(o)' = Applied(o)
           /\ \A p : Used(p)' = Used(p) /\ LiveOfPayment(p)' = LiveOfPayment(p)
<1>1. \A o : LiveApplications(o)' = LiveApplications(o)
  BY DEF LiveApplications
<1>2. \A p : LiveOfPayment(p)' = LiveOfPayment(p)
  BY DEF LiveOfPayment
<1> QED BY <1>1, <1>2 DEF Applied, Used

LEMMA RefundsStand ==
    ASSUME UNCHANGED <<line, refund>>
    PROVE  \A o : Refunded(o)' = Refunded(o) /\ \A l : AlreadyRefunded(o, l)' = AlreadyRefunded(o, l)
<1>1. \A o : CompletedRefunds(o)' = CompletedRefunds(o)
  BY DEF CompletedRefunds
<1>2. \A n : RefundTotal(n)' = RefundTotal(n)
  BY LinesStand DEF RefundTotal
<1>3. \A o : Refunded(o)' = Refunded(o)
  BY <1>1, <1>2 DEF Refunded, CompletedRefunds
<1>4. \A o : \A l : AlreadyRefunded(o, l)' = AlreadyRefunded(o, l)
  BY <1>1 DEF AlreadyRefunded
<1> QED BY <1>3, <1>4

\* An application is inserted.
LEMMA ApplicationMade ==
    ASSUME TablesTyped, NEW a \in Applications, application[a] = None,
           NEW x \in ApplicationRows, ~ x.cancelled, application' = [application EXCEPT ![a] = x]
    PROVE  /\ \A o : Applied(o)' = Applied(o) + (IF o = x.order THEN x.amount ELSE 0)
           /\ \A p : Used(p)' = Used(p) + (IF p = x.payment THEN x.amount + x.change ELSE 0)
           /\ \A p : p # x.payment => LiveOfPayment(p)' = LiveOfPayment(p)
<1>1. x # None /\ x.amount \in Nat /\ x.change \in Nat
  BY NoneIsNoPaymentRow DEF NoneIsNoPaymentRow, ApplicationRows
<1>2. application'[a] = x /\ \A b \in Applications \ {a} : application'[b] = application[b]
  BY DEF TablesTyped
<1>3. ASSUME NEW o PROVE Applied(o)' = Applied(o) + (IF o = x.order THEN x.amount ELSE 0)
  <2> DEFINE f == [b \in Applications |-> application[b].amount]
             g == [b \in Applications |-> application'[b].amount]
             S == LiveApplications(o)
             R == LiveApplications(o)'
  <2>1. /\ IsFiniteSet(S) /\ S \in SUBSET Applications
        /\ Applied(o) = SumFunctionOnSet(f, S)
    BY AppliedIsSum
  <2>2. Applied(o)' = SumFunctionOnSet(g, R)
    BY AppliedIsSum
  <2>3. a \notin S
    BY DEF LiveApplications
  <2>4. R = IF o = x.order THEN S \cup {a} ELSE S
    BY <1>1, <1>2 DEF LiveApplications
  <2>5. /\ \A b \in S : f[b] = g[b] /\ g[b] \in Nat
        /\ g[a] = x.amount
    BY <1>2, <2>3 DEF LiveApplications, TablesTyped, ApplicationRows
  <2> HIDE DEF f, g, S, R
  <2>6. SumFunctionOnSet(g, S) = SumFunctionOnSet(f, S) /\ SumFunctionOnSet(g, S) \in Nat
    BY <2>1, <2>5, SumOfEqual, SumIsNat
  <2>7. \A b \in S \cup {a} : g[b] \in Int
    BY <1>1, <2>5
  <2>8. SumFunctionOnSet(g, S \cup {a}) = g[a] + SumFunctionOnSet(g, S)
    BY <2>1, <2>3, <2>7, SumWith
  <2> QED BY <1>1, <2>1, <2>2, <2>4, <2>5, <2>6, <2>8
<1>4. ASSUME NEW p
      PROVE  /\ Used(p)' = Used(p) + (IF p = x.payment THEN x.amount + x.change ELSE 0)
             /\ p # x.payment => LiveOfPayment(p)' = LiveOfPayment(p)
  <2> DEFINE f == [b \in Applications |-> application[b].amount + application[b].change]
             g == [b \in Applications |-> application'[b].amount + application'[b].change]
             S == LiveOfPayment(p)
             R == LiveOfPayment(p)'
  <2>1. /\ IsFiniteSet(S) /\ S \in SUBSET Applications
        /\ Used(p) = SumFunctionOnSet(f, S)
    BY UsedIsSum
  <2>2. Used(p)' = SumFunctionOnSet(g, R)
    BY UsedIsSum
  <2>3. a \notin S
    BY DEF LiveOfPayment
  <2>4. R = IF p = x.payment THEN S \cup {a} ELSE S
    BY <1>1, <1>2 DEF LiveOfPayment
  <2>5. /\ \A b \in S : f[b] = g[b] /\ g[b] \in Nat
        /\ g[a] = x.amount + x.change
    BY <1>2, <2>3 DEF LiveOfPayment, TablesTyped, ApplicationRows
  <2>9. p # x.payment => LiveOfPayment(p)' = LiveOfPayment(p)
    BY <2>4
  <2> HIDE DEF f, g, S, R
  <2>6. SumFunctionOnSet(g, S) = SumFunctionOnSet(f, S) /\ SumFunctionOnSet(g, S) \in Nat
    BY <2>1, <2>5, SumOfEqual, SumIsNat
  <2>7. \A b \in S \cup {a} : g[b] \in Int
    BY <1>1, <2>5
  <2>8. SumFunctionOnSet(g, S \cup {a}) = g[a] + SumFunctionOnSet(g, S)
    BY <2>1, <2>3, <2>7, SumWith
  <2>10. Used(p)' = Used(p) + (IF p = x.payment THEN x.amount + x.change ELSE 0)
    BY <1>1, <2>1, <2>2, <2>4, <2>5, <2>6, <2>8
  <2> QED BY <2>9, <2>10
<1> QED BY <1>3, <1>4

\* An application is reversed.
LEMMA ApplicationReversed ==
    ASSUME TablesTyped, NEW a \in Applications, application[a] # None,
           application' = [application EXCEPT ![a].cancelled = TRUE]
    PROVE  LET x == application[a]
           IN  /\ \A o : Applied(o)' = Applied(o)
                            - (IF o = x.order /\ ~ x.cancelled THEN x.amount ELSE 0)
               /\ \A p : /\ Used(p)' <= Used(p) /\ Used(p)' \in Nat
                         /\ LiveOfPayment(p)' \subseteq LiveOfPayment(p)
<1>1. PICK x : x = application[a]
  OBVIOUS
<1>2. x \in ApplicationRows
  BY <1>1 DEF TablesTyped
<1>3. PICK y : y = [x EXCEPT !.cancelled = TRUE]
  OBVIOUS
<1>4. /\ y \in ApplicationRows /\ y # None /\ y.cancelled
      /\ x.amount \in Nat /\ x.change \in Nat
  BY <1>2, <1>3, NoneIsNoPaymentRow DEF NoneIsNoPaymentRow, ApplicationRows
<1>5. application'[a] = y /\ \A b \in Applications \ {a} : application'[b] = application[b]
  BY <1>1, <1>3 DEF TablesTyped
<1>6. ASSUME NEW o
      PROVE  Applied(o)' = Applied(o) - (IF o = x.order /\ ~ x.cancelled THEN x.amount ELSE 0)
  <2> DEFINE f == [b \in Applications |-> application[b].amount]
             g == [b \in Applications |-> application'[b].amount]
             S == LiveApplications(o)
             R == LiveApplications(o)'
  <2>1. /\ IsFiniteSet(S) /\ S \in SUBSET Applications
        /\ Applied(o) = SumFunctionOnSet(f, S)
    BY AppliedIsSum
  <2>2. Applied(o)' = SumFunctionOnSet(g, R)
    BY AppliedIsSum
  <2>3. a \in S <=> o = x.order /\ ~ x.cancelled
    BY <1>1 DEF LiveApplications
  <2>4. R = S \ {a}
    BY <1>4, <1>5 DEF LiveApplications
  <2>5. /\ \A b \in S : f[b] \in Nat
        /\ \A b \in S \ {a} : f[b] = g[b]
        /\ f[a] = x.amount
    BY <1>1, <1>5 DEF LiveApplications, TablesTyped, ApplicationRows
  <2> HIDE DEF f, g, S, R
  <2>6. IsFiniteSet(S \ {a})
    BY <2>1, FS_Subset
  <2>7. SumFunctionOnSet(g, S \ {a}) = SumFunctionOnSet(f, S \ {a}) /\ SumFunctionOnSet(f, S \ {a}) \in Nat
    BY <2>5, <2>6, SumOfEqual, SumIsNat
  <2>8. a \in S => SumFunctionOnSet(f, S) = f[a] + SumFunctionOnSet(f, S \ {a})
    BY <2>1, <2>5, SumWithout
  <2>9. a \notin S => S \ {a} = S
    OBVIOUS
  <2>10. CASE a \in S
    BY <1>4, <2>1, <2>2, <2>3, <2>4, <2>5, <2>7, <2>8, <2>10
  <2>11. CASE a \notin S
    <3>1. Applied(o)' = Applied(o) /\ Applied(o) \in Nat
      BY <2>1, <2>2, <2>4, <2>7, <2>9, <2>11
    <3>2. ~ (o = x.order /\ ~ x.cancelled)
      BY <2>3, <2>11
    <3> QED BY <3>1, <3>2
  <2> QED BY <2>10, <2>11
<1>7. ASSUME NEW p
      PROVE  /\ Used(p)' <= Used(p) /\ Used(p)' \in Nat
             /\ LiveOfPayment(p)' \subseteq LiveOfPayment(p)
  <2> DEFINE f == [b \in Applications |-> application[b].amount + application[b].change]
             g == [b \in Applications |-> application'[b].amount + application'[b].change]
             S == LiveOfPayment(p)
             R == LiveOfPayment(p)'
  <2>1. /\ IsFiniteSet(S) /\ S \in SUBSET Applications
        /\ Used(p) = SumFunctionOnSet(f, S)
    BY UsedIsSum
  <2>2. Used(p)' = SumFunctionOnSet(g, R)
    BY UsedIsSum
  <2>3. R = S \ {a}
    BY <1>4, <1>5 DEF LiveOfPayment
  <2>4. /\ \A b \in S : f[b] \in Nat
        /\ \A b \in S \ {a} : f[b] = g[b]
    BY <1>5 DEF LiveOfPayment, TablesTyped, ApplicationRows
  <2>5. LiveOfPayment(p)' \subseteq LiveOfPayment(p)
    BY <2>3
  <2> HIDE DEF f, g, S, R
  <2>6. IsFiniteSet(S \ {a}) /\ S \ {a} \in SUBSET S
    BY <2>1, FS_Subset
  <2>7. SumFunctionOnSet(g, S \ {a}) = SumFunctionOnSet(f, S \ {a})
    BY <2>4, <2>6, SumOfEqual
  <2>8. SumFunctionOnSet(f, S \ {a}) <= SumFunctionOnSet(f, S)
    BY <2>1, <2>4, <2>6, SumOfSome
  <2>9. SumFunctionOnSet(f, S \ {a}) \in Nat
    BY <2>4, <2>6, SumIsNat
  <2> QED BY <2>1, <2>2, <2>3, <2>5, <2>7, <2>8, <2>9
<1> QED BY <1>1, <1>6, <1>7

\* A refund that does not stand as completed counts for nothing, and its rows
\* are its own: drafting, editing and cancelling it move no order's figures.
Counts(x) == x # None /\ x.completed /\ ~ x.cancelled

LEMMA DraftWritten ==
    ASSUME TablesTyped, NEW n \in Refunds, ~ Counts(refund[n]), NEW x, ~ Counts(x),
           refund' = [refund EXCEPT ![n] = x], UNCHANGED line
    PROVE  \A o : Refunded(o)' = Refunded(o) /\ \A l : AlreadyRefunded(o, l)' = AlreadyRefunded(o, l)
<1>1. refund'[n] = x /\ \A m \in Refunds \ {n} : refund'[m] = refund[m]
  BY DEF TablesTyped
<1>2. \A o : CompletedRefunds(o)' = CompletedRefunds(o) /\ n \notin CompletedRefunds(o)
  BY <1>1 DEF CompletedRefunds, Counts
<1>3. \A m \in Refunds \ {n} : RefundTotal(m)' = RefundTotal(m)
  BY <1>1, LinesStand DEF RefundTotal
<1>4. ASSUME NEW o, NEW l
      PROVE  Refunded(o)' = Refunded(o) /\ AlreadyRefunded(o, l)' = AlreadyRefunded(o, l)
  <2>1. \A m \in CompletedRefunds(o) : m \in Refunds \ {n}
    BY <1>2 DEF CompletedRefunds
  <2>2. [m \in CompletedRefunds(o) |-> RefundTotal(m)] = [m \in CompletedRefunds(o) |-> RefundTotal(m)']
    BY <1>3, <2>1
  <2>3. [m \in CompletedRefunds(o) |-> refund[m].quantity[l]]
        = [m \in CompletedRefunds(o) |-> refund'[m].quantity[l]]
    BY <1>1, <2>1
  <2>4. Refunded(o)' = SumFunction([m \in CompletedRefunds(o)' |-> RefundTotal(m)'])
    BY DEF Refunded, CompletedRefunds
  <2>5. Refunded(o) = SumFunction([m \in CompletedRefunds(o) |-> RefundTotal(m)])
    BY DEF Refunded, CompletedRefunds
  <2>6. Refunded(o)' = Refunded(o)
    BY <1>2, <2>2, <2>4, <2>5
  <2>7. AlreadyRefunded(o, l)' = AlreadyRefunded(o, l)
    BY <1>2, <2>3 DEF AlreadyRefunded
  <2> QED BY <2>6, <2>7
<1> QED BY <1>4

\* A draft is completed.
LEMMA RefundCompleted ==
    ASSUME TablesTyped, NEW n \in Refunds, ~ Counts(refund[n]), NEW x \in RefundRows, Counts(x),
           refund' = [refund EXCEPT ![n] = x], UNCHANGED line
    PROVE  /\ \A o : Refunded(o)' = Refunded(o)
                        + (IF o = x.order THEN Amount(o, x.quantity) ELSE 0)
           /\ \A o : \A l \in LineIds : AlreadyRefunded(o, l)' = AlreadyRefunded(o, l)
                        + (IF o = x.order THEN x.quantity[l] ELSE 0)
<1>1. refund'[n] = x /\ \A m \in Refunds \ {n} : refund'[m] = refund[m]
  BY DEF TablesTyped
<1>2. x.order \in Orders /\ x.quantity \in [LineIds -> Nat] /\ x # None
  BY DEF RefundRows, Counts
<1>3. /\ \A m \in Refunds \ {n} : RefundTotal(m)' = RefundTotal(m)
      /\ RefundTotal(n)' = Amount(x.order, x.quantity)
  BY <1>1, LinesStand DEF RefundTotal, Amount
<1>4. Amount(x.order, x.quantity) \in Nat
  BY <1>2, OrderCosts
<1>5. ASSUME NEW o, NEW l \in LineIds
      PROVE  /\ Refunded(o)' = Refunded(o) + (IF o = x.order THEN Amount(o, x.quantity) ELSE 0)
             /\ AlreadyRefunded(o, l)' = AlreadyRefunded(o, l) + (IF o = x.order THEN x.quantity[l] ELSE 0)
  <2> DEFINE f == [m \in Refunds |-> RefundTotal(m)]
             g == [m \in Refunds |-> refund[m].quantity[l]]
             ff == [m \in Refunds |-> RefundTotal(m)']
             gg == [m \in Refunds |-> refund'[m].quantity[l]]
             S == CompletedRefunds(o)
             R == CompletedRefunds(o)'
  <2>1. /\ IsFiniteSet(S) /\ S \in SUBSET Refunds
        /\ Refunded(o) = SumFunctionOnSet(f, S)
        /\ AlreadyRefunded(o, l) = SumFunctionOnSet(g, S)
    BY RefundedIsSum
  <2>2. /\ Refunded(o)' = SumFunctionOnSet(ff, R)
        /\ AlreadyRefunded(o, l)' = SumFunctionOnSet(gg, R)
    BY RefundedIsSum
  <2>3. n \notin S
    BY DEF CompletedRefunds, Counts
  <2>4. R = IF o = x.order THEN S \cup {n} ELSE S
    BY <1>1 DEF CompletedRefunds, Counts
  <2>5. \A m \in S : f[m] = ff[m] /\ g[m] = gg[m] /\ f[m] \in Nat /\ g[m] \in Nat
    <3> SUFFICES ASSUME NEW m \in S PROVE f[m] = ff[m] /\ g[m] = gg[m] /\ f[m] \in Nat /\ g[m] \in Nat
      OBVIOUS
    <3>1. m \in Refunds \ {n} /\ refund[m] # None
      BY <2>3 DEF CompletedRefunds
    <3>2. refund[m].quantity[l] \in Nat
      BY <3>1 DEF TablesTyped, RefundRows
    <3> QED BY <1>1, <1>3, <3>1, <3>2, RefundCosts
  <2>6. ff[n] = Amount(x.order, x.quantity) /\ gg[n] = x.quantity[l] /\ gg[n] \in Nat /\ ff[n] \in Nat
    BY <1>1, <1>2, <1>3, <1>4
  <2> HIDE DEF f, g, ff, gg, S, R
  <2>7. /\ SumFunctionOnSet(ff, S) = SumFunctionOnSet(f, S) /\ SumFunctionOnSet(ff, S) \in Nat
        /\ SumFunctionOnSet(gg, S) = SumFunctionOnSet(g, S) /\ SumFunctionOnSet(gg, S) \in Nat
    BY <2>1, <2>5, SumOfEqual, SumIsNat
  <2>8. \A m \in S \cup {n} : ff[m] \in Int /\ gg[m] \in Int
    BY <2>5, <2>6
  <2>9. /\ SumFunctionOnSet(ff, S \cup {n}) = ff[n] + SumFunctionOnSet(ff, S)
        /\ SumFunctionOnSet(gg, S \cup {n}) = gg[n] + SumFunctionOnSet(gg, S)
    BY <2>1, <2>3, <2>8, SumWith
  <2>10. Refunded(o)' = Refunded(o) + (IF o = x.order THEN Amount(o, x.quantity) ELSE 0)
    BY <2>1, <2>2, <2>4, <2>6, <2>7, <2>9
  <2>11. AlreadyRefunded(o, l)' = AlreadyRefunded(o, l) + (IF o = x.order THEN x.quantity[l] ELSE 0)
    BY <1>2, <2>1, <2>2, <2>4, <2>6, <2>7, <2>9
  <2> QED BY <2>10, <2>11
<1>6. ASSUME NEW o
      PROVE  Refunded(o)' = Refunded(o) + (IF o = x.order THEN Amount(o, x.quantity) ELSE 0)
  <2>1. \E l : l \in LineIds
    BY PaymentConstants DEF PaymentConstants
  <2> QED BY <1>5, <2>1
<1> QED BY <1>5, <1>6

-----------------------------------------------------------------------------
(***************************************************************************)
(* Folios: MAX(serial) + 1 is a number.                                    *)
(***************************************************************************)
LEMMA FoliosAreNat ==
    ASSUME TablesTyped, NEW f
    PROVE  NextPaymentFolio(f) \in Nat /\ NextRefundFolio(f) \in Nat
<1>1. ASSUME NEW D, NEW g, IsFiniteSet(D), g \in [D -> Nat]
      PROVE  Max({g[x] : x \in D} \cup {0}) + 1 \in Nat
  <2> DEFINE S == {g[x] : x \in D}
  <2>1. g \in Surjection(D, S)
    BY <1>1 DEF Surjection
  <2>2. S \cup {0} \in SUBSET Nat
    BY <1>1
  <2> HIDE DEF S
  <2>3. IsFiniteSet(S \cup {0})
    BY <1>1, <2>1, FS_Surjection, FS_AddElement
  <2>4. Max(S \cup {0}) \in S \cup {0}
    BY <2>2, <2>3, MaxIsGreatest
  <2> QED BY <2>2, <2>4 DEF S
<1>2. NextPaymentFolio(f) \in Nat
  <2> DEFINE D == {q \in Payments : payment[q] # None /\ payment[q].facility = f}
             g == [p \in D |-> payment[p].serial]
  <2>1. IsFiniteSet(D) /\ g \in [D -> Nat]
    BY IdsFinite, FS_Subset DEF TablesTyped, PaymentRows
  <2>2. PaymentSerials(f) = {g[x] : x \in D}
    BY DEF PaymentSerials
  <2> HIDE DEF D, g
  <2> QED BY <1>1, <2>1, <2>2 DEF NextPaymentFolio
<1>3. NextRefundFolio(f) \in Nat
  <2> DEFINE D == {m \in Refunds : refund[m] # None /\ refund[m].facility = f}
             g == [n \in D |-> refund[n].serial]
  <2>1. IsFiniteSet(D) /\ g \in [D -> Nat]
    BY IdsFinite, FS_Subset DEF TablesTyped, RefundRows
  <2>2. RefundSerials(f) = {g[x] : x \in D}
    BY DEF RefundSerials
  <2> HIDE DEF D, g
  <2> QED BY <1>1, <2>1, <2>2 DEF NextRefundFolio
<1> QED BY <1>2, <1>3

\* What a confirmation fits a draft to: units of its order's lines, no more
\* than what is left of each to give back.
LEMMA FittedType ==
    ASSUME TablesTyped, NEW n \in Refunds, refund[n] # None
    PROVE  /\ refund[n].order \in Orders
           /\ Reconciled(n) \in [LineIds -> Nat]
           /\ \A l \in LineIds : Reconciled(n)[l] <= Refundable(refund[n].order, l)
<1>1. PICK o : o = refund[n].order
  OBVIOUS
<1>2. o \in Orders /\ refund[n].quantity \in [LineIds -> Nat]
  BY <1>1 DEF TablesTyped, RefundRows
<1>3. ASSUME NEW l \in LineIds
      PROVE  /\ Reconciled(n)[l] \in Nat
             /\ Reconciled(n)[l] <= Refundable(o, l)
  <2>1. PICK x : x = refund[n].quantity[l]
    OBVIOUS
  <2>2. PICK y : y = Refundable(o, l)
    OBVIOUS
  <2>3. x \in Nat
    BY <1>2, <2>1
  <2>4. y \in Nat
    <3>1. l \in Filled(o) => line[o][l].quantity \in Nat
      BY <1>2 DEF Filled, TablesTyped, Lines
    <3>2. AlreadyRefunded(o, l) \in Nat
      BY <1>2, FiguresAreNat
    <3>3. PICK z : z = AlreadyRefunded(o, l)
      OBVIOUS
    <3> QED BY <2>2, <3>1, <3>2, <3>3 DEF Refundable, Remaining
  <2>5. {x, y} \in SUBSET Nat /\ IsFiniteSet({x, y}) /\ {x, y} # {}
    <3>1. IsFiniteSet({x}) /\ {x, y} = {x} \cup {y}
      BY FS_Singleton
    <3> QED BY <2>3, <2>4, <3>1, FS_AddElement
  <2>6. Min({x, y}) \in {x, y} /\ \A z \in {x, y} : Min({x, y}) <= z
    BY <2>5, MinIsLeast
  <2>7. Reconciled(n)[l] = Min({x, y})
    BY <1>1, <2>1, <2>2 DEF Reconciled
  <2> QED BY <2>2, <2>3, <2>4, <2>6, <2>7
<1>4. Reconciled(n) = [l \in LineIds |-> Reconciled(n)[l]]
  BY DEF Reconciled
<1> QED BY <1>1, <1>2, <1>3, <1>4

-----------------------------------------------------------------------------
(***************************************************************************)
(* Applications never take more than there is: one lemma per kind of step. *)
(***************************************************************************)
\* A request begins, goes on or ends with something sound in hand.
LEMMA RequestSteps ==
    ASSUME FundsInv, NEW r \in Requests, NEW t, Sound(t), txn' = [txn EXCEPT ![r] = t],
           t = Idle \/ (t.op \in Operations /\ Free(r, t.rows))
    PROVE  /\ TxnShape' /\ LocksExclusive'
           /\ txn'[r] = t /\ \A q \in Requests \ {r} : txn'[q] = txn[q]
           /\ \A q \in Requests : Sound(txn'[q])
<1>1. TxnShape /\ LocksExclusive /\ \A q \in Requests : Sound(txn[q])
  BY DEF FundsInv
<1>2. /\ TxnShape' /\ LocksExclusive'
      /\ txn'[r] = t /\ \A q \in Requests \ {r} : txn'[q] = txn[q]
  BY <1>1, TxnStep
<1>3. ASSUME NEW q \in Requests PROVE Sound(txn'[q])
  <2>1. PICK u : u = txn'[q]
    OBVIOUS
  <2>2. Sound(u)
    BY <1>1, <1>2, <2>1
  <2> QED BY <2>1, <2>2
<1> QED BY <1>2, <1>3

\* Where no application is written, and payments and refunds stay what they
\* are worth, nothing is taken.
LEMMA NothingApplied ==
    ASSUME FundsInv, TablesTyped', UNCHANGED <<line, application>>,
           \A p \in Payments : payment[p] # None =>
               payment'[p] # None /\ payment'[p].amount = payment[p].amount,
           \A n \in Refunds : refund[n] # None => refund'[n] # None,
           TxnShape', LocksExclusive', \A q \in Requests : Sound(txn'[q])
    PROVE  FundsInv'
<1>1. /\ \A o : Applied(o)' = Applied(o) /\ Total(o)' = Total(o)
      /\ \A p : Used(p)' = Used(p) /\ LiveOfPayment(p)' = LiveOfPayment(p)
  BY ApplicationsStand, LinesStand
<1>2. ApplicationsPaid'
  BY DEF FundsInv, ApplicationsPaid, TablesTyped, ApplicationRows
<1>3. NothingBelowZero'
  <2>1. \A p \in Payments : LiveOfPayment(p) # {} => payment[p] # None
    BY DEF FundsInv, ApplicationsPaid, LiveOfPayment
  <2>2. NothingBelowZero
    BY DEF FundsInv
  <2> QED BY <1>1, <2>1, <2>2 DEF NothingBelowZero
<1>4. ASSUME NEW t, Sound(t) PROVE Sound(t)'
  <2>1. CashierSound(t)'
    BY <1>4 DEF Sound, CashierSound
  <2>2. ApplierSound(t)'
    BY <1>1, <1>4 DEF Sound, ApplierSound
  <2>3. ClerkSound(t)'
    BY <1>4 DEF Sound, ClerkSound
  <2> QED BY <2>1, <2>2, <2>3 DEF Sound
<1>5. ASSUME NEW q \in Requests PROVE Sound(txn[q])'
  <2>1. PICK t : t = txn'[q]
    OBVIOUS
  <2>2. Sound(t)'
    BY <1>4, <2>1
  <2> QED BY <2>1, <2>2
<1> QED BY <1>2, <1>3, <1>5 DEF FundsInv

\* Whatever reads and writes nothing.
LEMMA OnlyReads ==
    ASSUME FundsInv, UNCHANGED tables, NEW r \in Requests, NEW t, Sound(t),
           txn' = [txn EXCEPT ![r] = t],
           t = Idle \/ (t.op \in Operations /\ Free(r, t.rows))
    PROVE  FundsInv'
<1>1. TablesTyped'
  BY DEF FundsInv, TablesTyped, tables
<1>2. TxnShape' /\ LocksExclusive' /\ \A q \in Requests : Sound(txn'[q])
  BY RequestSteps
<1> QED BY <1>1, <1>2, NothingApplied DEF tables

\* What ends a request.
LEMMA RequestEnds ==
    ASSUME FundsInv, NEW r \in Requests, Ends(r)
    PROVE  /\ TxnShape' /\ LocksExclusive'
           /\ txn'[r] = Idle /\ \A q \in Requests \ {r} : txn'[q] = txn[q]
           /\ \A q \in Requests : Sound(txn'[q])
<1>1. PICK t : t = Idle
  OBVIOUS
<1>2. txn' = [txn EXCEPT ![r] = t] /\ Sound(t)
  BY <1>1, IdleIsSound DEF Ends
<1> QED BY <1>1, <1>2, RequestSteps

\* The reads of a request.
LEMMA ReadsBegin ==
    ASSUME FundsInv, NEW r \in Requests,
           \/ \E c \in Customers, f \in Facilities, k \in Tenders : CreatePaymentRead(r, c, f, k)
           \/ \E p \in Payments, o \in Orders, amount \in Amounts, change \in Changes :
                 ApplyRead(r, p, o, amount, change)
           \/ \E a \in Applications : ReverseRead(r, a)
           \/ \E p \in Payments, v \in Verifiers : VerifyRead(r, p, v)
           \/ \E o \in Orders : CancelRead(r, o)
           \/ SweepRead(r)
           \/ StaleFlagsRead(r)
           \/ \E n \in Refunds, l \in LineIds, q \in Quantities : EditRefundRead(r, n, l, q)
           \/ \E n \in Refunds : CancelRefundRead(r, n)
           \/ \E n \in Refunds, payout \in Payouts : ConfirmRefundRead(r, n, payout)
    PROVE  \E t : /\ Sound(t) /\ t.op \in Operations /\ Free(r, t.rows)
                  /\ txn' = [txn EXCEPT ![r] = t] /\ UNCHANGED tables
<1>0. TablesTyped
  BY DEF FundsInv
<1> USE DEF Sound, CashierSound, ApplierSound, ClerkSound, RefundOperations, Operations
<1>free. Free(r, {})
  BY DEF Free
<1>1. ASSUME NEW c \in Customers, NEW f \in Facilities, NEW k \in Tenders, CreatePaymentRead(r, c, f, k)
      PROVE  \E t : /\ Sound(t) /\ t.op \in Operations /\ Free(r, t.rows)
                    /\ txn' = [txn EXCEPT ![r] = t] /\ UNCHANGED tables
  <2> DEFINE t == [op |-> "create_payment", customer |-> c, facility |-> f, amount |-> k,
                   rows |-> CreatePaymentRows(f), serial |-> NextPaymentFolio(f)]
  <2>1. k \in Nat /\ NextPaymentFolio(f) \in Nat
    BY <1>0, PaymentConstants, FoliosAreNat DEF PaymentConstants
  <2>2. Sound(t) /\ t.op \in Operations /\ t.rows = CreatePaymentRows(f)
    BY <2>1
  <2>3. Free(r, t.rows) /\ txn' = [txn EXCEPT ![r] = t] /\ UNCHANGED tables
    BY <1>1, <2>2 DEF CreatePaymentRead
  <2> QED BY <2>2, <2>3
<1>2. ASSUME NEW p \in Payments, NEW o \in Orders, NEW amount \in Amounts, NEW change \in Changes,
             ApplyRead(r, p, o, amount, change)
      PROVE  \E t : /\ Sound(t) /\ t.op \in Operations /\ Free(r, t.rows)
                    /\ txn' = [txn EXCEPT ![r] = t] /\ UNCHANGED tables
  <2> DEFINE t == [op |-> "apply", payment |-> p, order |-> o, amount |-> amount, change |-> change,
                   rows |-> ApplyRows(p, o), after |-> Balance(o) - amount]
  <2>1. amount \in Nat /\ change \in Nat
    BY PaymentConstants DEF PaymentConstants
  <2>2. /\ payment[p] # None /\ amount + change <= Unapplied(p) /\ amount <= Balance(o)
        /\ Balance(o) > Settled
        /\ Free(r, t.rows) /\ txn' = [txn EXCEPT ![r] = t] /\ UNCHANGED tables
    BY <1>2 DEF ApplyRead, NotSettled, WithinBalance
  <2>3. /\ Used(p) \in Nat /\ Applied(o) \in Nat /\ Refunded(o) \in Nat /\ Total(o) \in Nat
        /\ payment[p].amount \in Int
    BY <1>0, <2>2, FiguresAreNat, UsedIsNat DEF TablesTyped, PaymentRows
  <2>4. Used(p) + amount + change <= payment[p].amount
    BY <2>1, <2>2, <2>3 DEF Unapplied
  <2>5. Applied(o) + amount <= Total(o)
    BY <2>1, <2>2, <2>3 DEF Balance, Remaining, Settled
  <2>6. PaymentRow(p) \in t.rows /\ OrderRow(o) \in t.rows
    BY DEF ApplyRows
  <2>7. Sound(t) /\ t.op \in Operations
    BY <2>1, <2>2, <2>4, <2>5, <2>6
  <2> QED BY <2>2, <2>7
<1>3. ASSUME NEW a \in Applications, ReverseRead(r, a)
      PROVE  \E t : /\ Sound(t) /\ t.op \in Operations /\ Free(r, t.rows)
                    /\ txn' = [txn EXCEPT ![r] = t] /\ UNCHANGED tables
  <2> DEFINE t == [op |-> "reverse", application |-> a,
                   rows |-> {PaymentRow(application[a].payment)},
                   before |-> Balance(application[a].order),
                   after |-> Remaining(Total(application[a].order),
                                Refunded(application[a].order) + Applied(application[a].order)
                                    - application[a].amount)]
  <2>1. /\ application[a] # None /\ Free(r, t.rows) /\ txn' = [txn EXCEPT ![r] = t]
        /\ UNCHANGED tables
    BY <1>3 DEF ReverseRead
  <2>2. Sound(t) /\ t.op \in Operations
    BY <2>1
  <2> QED BY <2>1, <2>2
<1>4. ASSUME NEW p \in Payments, NEW v \in Verifiers, VerifyRead(r, p, v)
      PROVE  \E t : /\ Sound(t) /\ t.op \in Operations /\ Free(r, t.rows)
                    /\ txn' = [txn EXCEPT ![r] = t] /\ UNCHANGED tables
  <2> DEFINE t == [op |-> "verify", payment |-> p, verifier |-> v, rows |-> {}]
  <2>1. payment[p] # None /\ txn' = [txn EXCEPT ![r] = t] /\ UNCHANGED tables
    BY <1>4 DEF VerifyRead, Unverified
  <2>2. Sound(t) /\ t.op \in Operations
    BY <2>1
  <2> QED BY <1>free, <2>1, <2>2
<1>5. ASSUME NEW o \in Orders, CancelRead(r, o)
      PROVE  \E t : /\ Sound(t) /\ t.op \in Operations /\ Free(r, t.rows)
                    /\ txn' = [txn EXCEPT ![r] = t] /\ UNCHANGED tables
  <2> DEFINE t == [op |-> "cancel", order |-> o, rows |-> {}, completed |-> order[o].completed]
  <2>1. txn' = [txn EXCEPT ![r] = t] /\ UNCHANGED tables
    BY <1>5 DEF CancelRead
  <2>2. Sound(t) /\ t.op \in Operations
    OBVIOUS
  <2> QED BY <1>free, <2>1, <2>2
<1>6. ASSUME SweepRead(r)
      PROVE  \E t : /\ Sound(t) /\ t.op \in Operations /\ Free(r, t.rows)
                    /\ txn' = [txn EXCEPT ![r] = t] /\ UNCHANGED tables
  <2> DEFINE found == {o \in Orders : Expired(o)}
             t == [op |-> "sweep", rows |-> {}, queue |-> found,
                   clear |-> {o \in found : LiveApplications(o) = {}}]
  <2>1. txn' = [txn EXCEPT ![r] = t] /\ UNCHANGED tables
    BY <1>6 DEF SweepRead
  <2>2. Sound(t) /\ t.op \in Operations
    OBVIOUS
  <2> QED BY <1>free, <2>1, <2>2
<1>7. ASSUME StaleFlagsRead(r)
      PROVE  \E t : /\ Sound(t) /\ t.op \in Operations /\ Free(r, t.rows)
                    /\ txn' = [txn EXCEPT ![r] = t] /\ UNCHANGED tables
  <2> DEFINE t == [op |-> "stale_flags", rows |-> {},
                   orders |-> {o \in Orders : CreditCandidate(o) /\ Balance(o) <= Settled}]
  <2>1. txn' = [txn EXCEPT ![r] = t] /\ UNCHANGED tables
    BY <1>7 DEF StaleFlagsRead
  <2>2. Sound(t) /\ t.op \in Operations
    OBVIOUS
  <2> QED BY <1>free, <2>1, <2>2
<1>8. ASSUME NEW n \in Refunds, NEW l \in LineIds, NEW q \in Quantities, EditRefundRead(r, n, l, q)
      PROVE  \E t : /\ Sound(t) /\ t.op \in Operations /\ Free(r, t.rows)
                    /\ txn' = [txn EXCEPT ![r] = t] /\ UNCHANGED tables
  <2> DEFINE t == [op |-> "edit_refund", refund |-> n, line |-> l, quantity |-> q, rows |-> {}]
  <2>1. refund[n] # None /\ txn' = [txn EXCEPT ![r] = t] /\ UNCHANGED tables
    BY <1>8 DEF EditRefundRead, EditableRefund
  <2>2. Sound(t) /\ t.op \in Operations
    BY <2>1, RefundConstants DEF RefundConstants
  <2> QED BY <1>free, <2>1, <2>2
<1>9. ASSUME NEW n \in Refunds, CancelRefundRead(r, n)
      PROVE  \E t : /\ Sound(t) /\ t.op \in Operations /\ Free(r, t.rows)
                    /\ txn' = [txn EXCEPT ![r] = t] /\ UNCHANGED tables
  <2> DEFINE t == [op |-> "cancel_refund", refund |-> n, rows |-> {}]
  <2>1. refund[n] # None /\ txn' = [txn EXCEPT ![r] = t] /\ UNCHANGED tables
    BY <1>9 DEF CancelRefundRead, EditableRefund
  <2>2. Sound(t) /\ t.op \in Operations
    BY <2>1
  <2> QED BY <1>free, <2>1, <2>2
<1>10. ASSUME NEW n \in Refunds, NEW payout \in Payouts, ConfirmRefundRead(r, n, payout)
       PROVE  \E t : /\ Sound(t) /\ t.op \in Operations /\ Free(r, t.rows)
                     /\ txn' = [txn EXCEPT ![r] = t] /\ UNCHANGED tables
  <2> DEFINE o == refund[n].order
             f == refund[n].facility
             fitted == Reconciled(n)
             t == [op |-> "confirm_refund", refund |-> n, rows |-> ConfirmRefundRows(n),
                   quantity |-> fitted, payout |-> payout, amount |-> Amount(o, fitted),
                   serial |-> NextRefundFolio(f), payment_serial |-> NextPaymentFolio(f),
                   after |-> Remaining(Total(o), Refunded(o) + Amount(o, fitted) + Applied(o))]
  <2>1. /\ refund[n] # None /\ Free(r, ConfirmRefundRows(n))
        /\ txn' = [txn EXCEPT ![r] = t] /\ UNCHANGED tables
    BY <1>10 DEF ConfirmRefundRead, EditableRefund
  <2>2. o \in Orders /\ fitted \in [LineIds -> Nat]
    BY <1>0, <2>1, FittedType
  <2>3. Amount(o, fitted) \in Nat
    <3> HIDE DEF o, fitted
    <3> QED BY <1>0, <2>2, OrderCosts
  <2>4. NextRefundFolio(f) \in Nat /\ NextPaymentFolio(f) \in Nat
    BY <1>0, FoliosAreNat
  <2> HIDE DEF o, f, fitted
  <2>5. Sound(t) /\ t.op \in Operations
    BY <2>1, <2>2, <2>3, <2>4
  <2> QED BY <2>1, <2>5
<1> QED BY <1>1, <1>2, <1>3, <1>4, <1>5, <1>6, <1>7, <1>8, <1>9, <1>10

\* A payment is recorded.
LEMMA CreatePaymentKeeps ==
    ASSUME FundsInv, NEW r \in Requests, NEW p \in Payments, CreatePaymentCommit(r, p)
    PROVE  FundsInv'
<1>1. TablesTyped /\ Sound(txn[r])
  BY DEF FundsInv
<1> DEFINE x == [customer |-> txn[r].customer, facility |-> txn[r].facility,
                 amount |-> txn[r].amount, serial |-> txn[r].serial, verifier |-> None]
<1>2. /\ payment[p] = None /\ payment' = [payment EXCEPT ![p] = x] /\ Ends(r)
      /\ UNCHANGED <<order, line, application, refund>> /\ txn[r].op = "create_payment"
  BY DEF CreatePaymentCommit
<1>3. x \in PaymentRows
  BY <1>1, <1>2 DEF Sound, CashierSound, PaymentRows
<1> HIDE DEF x
<1>4. TablesTyped'
  BY <1>1, <1>2, <1>3 DEF TablesTyped
<1>5. \A q \in Payments : payment[q] # None =>
          payment'[q] # None /\ payment'[q].amount = payment[q].amount
  BY <1>1, <1>2 DEF TablesTyped
<1>6. TxnShape' /\ LocksExclusive' /\ \A q \in Requests : Sound(txn'[q])
  BY <1>2, RequestEnds
<1> QED BY <1>2, <1>4, <1>5, <1>6, NothingApplied

\* A payment is verified.
LEMMA VerifyKeeps ==
    ASSUME FundsInv, NEW r \in Requests, VerifyCommit(r)
    PROVE  FundsInv'
<1>1. TablesTyped /\ Sound(txn[r])
  BY DEF FundsInv
<1>2. PICK p : p = txn[r].payment
  OBVIOUS
<1>3. PICK v : v = txn[r].verifier
  OBVIOUS
<1>4. /\ payment' = [payment EXCEPT ![p].verifier = v] /\ Ends(r)
      /\ UNCHANGED <<order, line, application, refund>> /\ txn[r].op = "verify"
  BY <1>2, <1>3 DEF VerifyCommit
<1>5. p \in Payments /\ payment[p] # None /\ v \in Verifiers
  BY <1>1, <1>2, <1>3, <1>4 DEF Sound, CashierSound
<1>6. payment[p] \in PaymentRows
  BY <1>1, <1>5 DEF TablesTyped
<1>7. PICK x : x = [payment[p] EXCEPT !.verifier = v]
  OBVIOUS
<1>8. x \in PaymentRows /\ x # None /\ x.amount = payment[p].amount
  BY <1>5, <1>6, <1>7, NoneIsNoPaymentRow DEF NoneIsNoPaymentRow, PaymentRows
<1>9. payment' = [payment EXCEPT ![p] = x]
  BY <1>4, <1>7
<1>10. /\ payment' \in [Payments -> PaymentRows \cup {None}]
       /\ payment'[p] = x /\ \A q \in Payments \ {p} : payment'[q] = payment[q]
  BY <1>1, <1>5, <1>8, <1>9 DEF TablesTyped
<1>11. TablesTyped'
  BY <1>1, <1>4, <1>10 DEF TablesTyped
<1>12. \A q \in Payments : payment[q] # None =>
           payment'[q] # None /\ payment'[q].amount = payment[q].amount
  BY <1>8, <1>10
<1>13. TxnShape' /\ LocksExclusive' /\ \A q \in Requests : Sound(txn'[q])
  BY <1>4, RequestEnds
<1> QED BY <1>4, <1>11, <1>12, <1>13, NothingApplied

\* Only orders are written.
LEMMA OrdersWritten ==
    ASSUME FundsInv, order' \in [Orders -> OrderRows],
           UNCHANGED <<line, payment, application, refund>>,
           TxnShape', LocksExclusive', \A q \in Requests : Sound(txn'[q])
    PROVE  FundsInv'
<1>1. TablesTyped'
  BY DEF FundsInv, TablesTyped
<1> QED BY <1>1, NothingApplied

\* A column of an order is written.
LEMMA ColumnWritten ==
    ASSUME FundsInv, NEW o, NEW b \in BOOLEAN,
           \/ order' = [order EXCEPT ![o].cancelled = b]
           \/ order' = [order EXCEPT ![o].paid = b]
    PROVE  order' \in [Orders -> OrderRows]
<1>1. order \in [Orders -> OrderRows]
  BY DEF FundsInv, TablesTyped
<1>2. CASE o \in Orders
  <2>1. order[o] \in OrderRows
    BY <1>1, <1>2
  <2>2. PICK x : x = [order[o] EXCEPT !.cancelled = b]
    OBVIOUS
  <2>3. PICK y : y = [order[o] EXCEPT !.paid = b]
    OBVIOUS
  <2>4. x \in OrderRows /\ y \in OrderRows
    BY <2>1, <2>2, <2>3 DEF OrderRows
  <2>5. order' = [order EXCEPT ![o] = x] \/ order' = [order EXCEPT ![o] = y]
    BY <2>2, <2>3
  <2> QED BY <1>1, <2>4, <2>5
<1>3. CASE o \notin Orders
  <2>1. order' = order
    BY <1>1, <1>3
  <2> QED BY <1>1, <2>1
<1> QED BY <1>2, <1>3

\* An order is cancelled, by a person or by the sweep.
LEMMA CancelKeepsFunds ==
    ASSUME FundsInv, NEW r \in Requests, CancelCommit(r)
    PROVE  FundsInv'
<1>1. PICK o : o = txn[r].order
  OBVIOUS
<1>2. /\ order' = [order EXCEPT ![o].cancelled = TRUE] /\ Ends(r)
      /\ UNCHANGED <<line, payment, application, refund>>
  BY <1>1 DEF CancelCommit
<1>3. order' \in [Orders -> OrderRows]
  BY <1>2, ColumnWritten
<1>4. TxnShape' /\ LocksExclusive' /\ \A q \in Requests : Sound(txn'[q])
  BY <1>2, RequestEnds
<1> QED BY <1>2, <1>3, <1>4, OrdersWritten

\* What is left of a sweep is a sweep.
LEMMA SweepGoesOn ==
    ASSUME FundsInv, NEW r \in Requests, txn[r].op = "sweep", NEW o, NEW clear \in SUBSET Orders
    PROVE  LET t == SweepRest(r, o, clear)
           IN  Sound(t) /\ (t = Idle \/ (t.op \in Operations /\ Free(r, t.rows)))
<1>1. PICK u : u = txn[r]
  OBVIOUS
<1>2. u \in [op : {"sweep"}, rows : {{}}, queue : SUBSET Orders, clear : SUBSET Orders]
  BY <1>1 DEF FundsInv, Sound, CashierSound
<1>3. PICK t : t = SweepRest(r, o, clear)
  OBVIOUS
<1>4. \/ t = Idle
      \/ t = [u EXCEPT !.queue = @ \ {o}, !.clear = clear]
  BY <1>1, <1>3 DEF SweepRest
<1>5. t = Idle \/ t \in [op : {"sweep"}, rows : {{}}, queue : SUBSET Orders, clear : SUBSET Orders]
  BY <1>2, <1>4
<1>6. Sound(t)
  <2>1. CASE t = Idle
    BY <2>1, IdleIsSound
  <2>2. CASE t \in [op : {"sweep"}, rows : {{}}, queue : SUBSET Orders, clear : SUBSET Orders]
    <3>1. t.op = "sweep"
      BY <2>2
    <3> QED BY <2>2, <3>1 DEF Sound, CashierSound, ApplierSound, ClerkSound, RefundOperations
  <2> QED BY <1>5, <2>1, <2>2
<1>7. t = Idle \/ (t.op \in Operations /\ Free(r, t.rows))
  <2>1. CASE t \in [op : {"sweep"}, rows : {{}}, queue : SUBSET Orders, clear : SUBSET Orders]
    <3>1. t.op = "sweep" /\ t.rows = {}
      BY <2>1
    <3> QED BY <3>1 DEF Operations, Free
  <2> QED BY <1>5, <2>1
<1> QED BY <1>3, <1>6, <1>7

LEMMA SweepKeeps ==
    ASSUME FundsInv, NEW r \in Requests, NEW o \in Orders, SweepCancel(r, o) \/ SweepSkip(r, o)
    PROVE  FundsInv'
<1>1. CASE SweepCancel(r, o)
  <2>1. PICK clear : clear = {p \in txn[r].queue : LiveApplications(p) = {}}
    OBVIOUS
  <2>2. /\ txn[r].op = "sweep" /\ order' = [order EXCEPT ![o].cancelled = TRUE]
        /\ txn' = [txn EXCEPT ![r] = SweepRest(r, o, clear)]
        /\ UNCHANGED <<line, payment, application, refund>>
    BY <1>1, <2>1 DEF SweepCancel
  <2>3. clear \in SUBSET Orders
    BY <2>1, <2>2 DEF FundsInv, Sound, CashierSound
  <2>4. TxnShape' /\ LocksExclusive' /\ \A q \in Requests : Sound(txn'[q])
    <3>1. PICK t : t = SweepRest(r, o, clear)
      OBVIOUS
    <3>2. Sound(t) /\ (t = Idle \/ (t.op \in Operations /\ Free(r, t.rows)))
      BY <2>2, <2>3, <3>1, SweepGoesOn
    <3> QED BY <2>2, <3>1, <3>2, RequestSteps
  <2>5. order' \in [Orders -> OrderRows]
    BY <2>2, ColumnWritten
  <2> QED BY <2>2, <2>4, <2>5, OrdersWritten
<1>2. CASE SweepSkip(r, o)
  <2>1. PICK clear : clear = txn[r].clear
    OBVIOUS
  <2>2. /\ txn[r].op = "sweep" /\ txn' = [txn EXCEPT ![r] = SweepRest(r, o, clear)]
        /\ UNCHANGED tables
    BY <1>2, <2>1 DEF SweepSkip
  <2>3. clear \in SUBSET Orders
    BY <2>1, <2>2 DEF FundsInv, Sound, CashierSound
  <2>4. PICK t : t = SweepRest(r, o, clear)
    OBVIOUS
  <2>5. Sound(t) /\ (t = Idle \/ (t.op \in Operations /\ Free(r, t.rows)))
    BY <2>2, <2>3, <2>4, SweepGoesOn
  <2> QED BY <2>2, <2>4, <2>5, OnlyReads
<1> QED BY <1>1, <1>2

\* The stale flags are raised.
LEMMA StaleFlagsKeeps ==
    ASSUME FundsInv, NEW r \in Requests, StaleFlagsCommit(r)
    PROVE  FundsInv'
<1>1. PICK os : os = txn[r].orders
  OBVIOUS
<1>2. /\ order' = [o \in Orders |-> IF o \in os THEN [order[o] EXCEPT !.paid = TRUE] ELSE order[o]]
      /\ Ends(r) /\ UNCHANGED <<line, payment, application, refund>>
  BY <1>1 DEF StaleFlagsCommit
<1>3. order' \in [Orders -> OrderRows]
  <2>1. \A o \in Orders : order[o] \in OrderRows
    BY DEF FundsInv, TablesTyped
  <2>2. \A o \in Orders : [order[o] EXCEPT !.paid = TRUE] \in OrderRows
    BY <2>1 DEF OrderRows
  <2> QED BY <1>2, <2>1, <2>2
<1>4. TxnShape' /\ LocksExclusive' /\ \A q \in Requests : Sound(txn'[q])
  BY <1>2, RequestEnds
<1> QED BY <1>2, <1>3, <1>4, OrdersWritten

\* A refund is drafted, edited, cancelled.
LEMMA RefundWritten ==
    ASSUME FundsInv, NEW n \in Refunds, NEW x \in RefundRows, refund' = [refund EXCEPT ![n] = x],
           UNCHANGED <<order, line, payment, application>>,
           TxnShape', LocksExclusive', \A q \in Requests : Sound(txn'[q])
    PROVE  FundsInv'
<1>1. TablesTyped'
  BY DEF FundsInv, TablesTyped
<1>2. x # None
  BY NoneIsNoRefundRow DEF NoneIsNoRefundRow
<1>3. \A m \in Refunds : refund[m] # None => refund'[m] # None
  BY <1>2 DEF FundsInv, TablesTyped
<1> QED BY <1>1, <1>3, NothingApplied

LEMMA OpenRefundKeeps ==
    ASSUME FundsInv, NEW n \in Refunds, NEW o \in Orders, NEW f \in Facilities, OpenRefund(n, o, f)
    PROVE  FundsInv'
<1> DEFINE x == [order |-> o, facility |-> f, lines |-> {l \in LineIds : Refundable(o, l) > 0},
                 quantity |-> [l \in LineIds |-> 0], completed |-> FALSE,
                 cancelled |-> FALSE, serial |-> 0, payout |-> None]
<1>1. /\ refund' = [refund EXCEPT ![n] = x]
      /\ UNCHANGED <<order, line, payment, application, txn>>
  BY DEF OpenRefund
<1>2. x \in RefundRows
  BY DEF RefundRows
<1> HIDE DEF x
<1>3. TxnShape' /\ LocksExclusive' /\ \A q \in Requests : Sound(txn'[q])
  BY <1>1 DEF FundsInv, TxnShape, LocksExclusive, Holds
<1> QED BY <1>1, <1>2, <1>3, RefundWritten

\* The row an edit or a cancellation of a draft writes.
LEMMA EditedRow ==
    ASSUME FundsInv, NEW r \in Requests, EditRefundCommit(r) \/ CancelRefundCommit(r)
    PROVE  \E n \in Refunds : \E x \in RefundRows :
               /\ n = txn[r].refund /\ refund[n] \in RefundRows
               /\ refund' = [refund EXCEPT ![n] = x]
               /\ x.completed = refund[n].completed /\ x.order = refund[n].order
               /\ refund[n].cancelled => x.cancelled
               /\ txn[r].op \in RefundOperations /\ Ends(r)
               /\ UNCHANGED <<order, line, payment, application>>
<1>1. TablesTyped /\ Sound(txn[r])
  BY DEF FundsInv
<1>2. PICK n : n = txn[r].refund
  OBVIOUS
<1>3. CASE EditRefundCommit(r)
  <2>1. PICK l : l = txn[r].line
    OBVIOUS
  <2>2. PICK q : q = txn[r].quantity
    OBVIOUS
  <2>3. /\ txn[r].op = "edit_refund" /\ Ends(r)
        /\ refund' = [refund EXCEPT ![n].quantity[l] = q]
        /\ UNCHANGED <<order, line, payment, application>>
    BY <1>2, <1>3, <2>1, <2>2 DEF EditRefundCommit
  <2>4. n \in Refunds /\ refund[n] # None /\ l \in LineIds /\ q \in Nat
    BY <1>1, <1>2, <2>1, <2>2, <2>3 DEF Sound, ClerkSound, RefundOperations
  <2>5. refund[n] \in RefundRows
    BY <1>1, <2>4 DEF TablesTyped
  <2>6. PICK x : x = [refund[n] EXCEPT !.quantity = [refund[n].quantity EXCEPT ![l] = q]]
    OBVIOUS
  <2>7. /\ x \in RefundRows /\ x.completed = refund[n].completed /\ x.order = refund[n].order
        /\ x.cancelled = refund[n].cancelled
    BY <2>4, <2>5, <2>6 DEF RefundRows
  <2>8. refund' = [refund EXCEPT ![n] = x]
    BY <2>3, <2>6
  <2> QED BY <1>2, <2>3, <2>4, <2>5, <2>7, <2>8 DEF RefundOperations
<1>4. CASE CancelRefundCommit(r)
  <2>1. /\ txn[r].op = "cancel_refund" /\ Ends(r)
        /\ refund' = [refund EXCEPT ![n].cancelled = TRUE]
        /\ UNCHANGED <<order, line, payment, application>>
    BY <1>2, <1>4 DEF CancelRefundCommit
  <2>2. n \in Refunds /\ refund[n] # None
    BY <1>1, <1>2, <2>1 DEF Sound, ClerkSound, RefundOperations
  <2>3. refund[n] \in RefundRows
    BY <1>1, <2>2 DEF TablesTyped
  <2>4. PICK x : x = [refund[n] EXCEPT !.cancelled = TRUE]
    OBVIOUS
  <2>5. /\ x \in RefundRows /\ x.completed = refund[n].completed /\ x.order = refund[n].order
        /\ x.cancelled
    BY <2>3, <2>4 DEF RefundRows
  <2>6. refund' = [refund EXCEPT ![n] = x]
    BY <2>1, <2>4
  <2> QED BY <1>2, <2>1, <2>2, <2>3, <2>5, <2>6 DEF RefundOperations
<1> QED BY <1>3, <1>4

LEMMA EditKeepsFunds ==
    ASSUME FundsInv, NEW r \in Requests, EditRefundCommit(r) \/ CancelRefundCommit(r)
    PROVE  FundsInv'
<1>1. PICK n \in Refunds, x \in RefundRows :
          /\ refund' = [refund EXCEPT ![n] = x] /\ Ends(r)
          /\ UNCHANGED <<order, line, payment, application>>
  BY EditedRow
<1>2. TxnShape' /\ LocksExclusive' /\ \A q \in Requests : Sound(txn'[q])
  BY <1>1, RequestEnds
<1> QED BY <1>1, <1>2, RefundWritten

\* The rows a confirmation of a refund writes.
LEMMA ConfirmedRows ==
    ASSUME FundsInv, NEW r \in Requests, NEW p \in Payments, ConfirmRefundCommit(r, p)
    PROVE  \E n \in Refunds : \E x \in RefundRows : \E y \in PaymentRows :
               /\ n = txn[r].refund /\ refund[n] \in RefundRows /\ refund[n].order \in Orders
               /\ refund' = [refund EXCEPT ![n] = x]
               /\ x.completed /\ x.cancelled = refund[n].cancelled /\ x.order = refund[n].order
               /\ x.quantity = txn[r].quantity
               /\ payment[p] = None /\ payment' = [payment EXCEPT ![p] = y]
               /\ order' = [order EXCEPT ![refund[n].order].paid = Settle(@, txn[r].after)]
               /\ txn[r].op = "confirm_refund" /\ Ends(r)
               /\ UNCHANGED <<line, application>>
<1>1. TablesTyped /\ Sound(txn[r])
  BY DEF FundsInv
<1>2. PICK n : n = txn[r].refund
  OBVIOUS
<1>3. PICK fitted : fitted = txn[r].quantity
  OBVIOUS
<1>4. PICK o : o = refund[n].order
  OBVIOUS
<1>5. PICK f : f = refund[n].facility
  OBVIOUS
<1> DEFINE Kept(ls) == {l \in ls : fitted[l] > 0}
<1>6. /\ txn[r].op = "confirm_refund" /\ Ends(r) /\ payment[p] = None
      /\ refund' = [refund EXCEPT ![n].lines = Kept(@), ![n].quantity = fitted,
                       ![n].completed = TRUE, ![n].serial = txn[r].serial, ![n].payout = p]
      /\ payment' = [payment EXCEPT ![p] = Payout(r, order[o].customer, f)]
      /\ order' = [order EXCEPT ![o].paid = Settle(@, txn[r].after)]
      /\ UNCHANGED <<line, application>>
  BY <1>2, <1>3, <1>4, <1>5 DEF ConfirmRefundCommit
<1>7. /\ n \in Refunds /\ refund[n] # None /\ fitted \in [LineIds -> Nat]
      /\ txn[r].amount \in Nat /\ txn[r].serial \in Nat /\ txn[r].payment_serial \in Nat
  BY <1>1, <1>2, <1>3, <1>6 DEF Sound, ClerkSound, RefundOperations
<1>8. refund[n] \in RefundRows
  BY <1>1, <1>7 DEF TablesTyped
<1>9. o \in Orders /\ f \in Facilities
  BY <1>4, <1>5, <1>8 DEF RefundRows
<1>10. \A ls : ls \in SUBSET LineIds => Kept(ls) \in SUBSET LineIds
  OBVIOUS
<1> HIDE DEF Kept
<1> DEFINE x == [refund[n] EXCEPT
                     !.lines = Kept(@), !.quantity = fitted,
                     !.completed = TRUE, !.serial = txn[r].serial, !.payout = p]
<1>11. /\ x \in RefundRows /\ x.completed /\ x.cancelled = refund[n].cancelled
       /\ x.order = refund[n].order /\ x.quantity = fitted
  BY <1>7, <1>8, <1>10 DEF RefundRows
<1>12. refund' = [refund EXCEPT ![n] = x]
  BY <1>6
<1>13. order[o].customer \in Customers
  BY <1>1, <1>9 DEF TablesTyped, OrderRows
<1> HIDE DEF x
<1>14. Payout(r, order[o].customer, f) \in PaymentRows
  BY <1>7, <1>9, <1>13 DEF Payout, PaymentRows
<1> QED BY <1>2, <1>3, <1>4, <1>6, <1>7, <1>8, <1>9, <1>11, <1>12, <1>14

LEMMA ConfirmKeeps ==
    ASSUME FundsInv, NEW r \in Requests, NEW p \in Payments, ConfirmRefundCommit(r, p)
    PROVE  FundsInv'
<1>1. PICK n \in Refunds, x \in RefundRows, y \in PaymentRows :
          /\ refund[n].order \in Orders
          /\ refund' = [refund EXCEPT ![n] = x]
          /\ payment[p] = None /\ payment' = [payment EXCEPT ![p] = y]
          /\ order' = [order EXCEPT ![refund[n].order].paid = Settle(@, txn[r].after)]
          /\ Ends(r) /\ UNCHANGED <<line, application>>
  BY ConfirmedRows
<1>2. x # None
  BY NoneIsNoRefundRow DEF NoneIsNoRefundRow
<1>3. order' \in [Orders -> OrderRows]
  <2>1. PICK b : b = Settle(order[refund[n].order].paid, txn[r].after)
    OBVIOUS
  <2>2. b \in BOOLEAN
    BY <2>1 DEF Settle
  <2>3. order' = [order EXCEPT ![refund[n].order].paid = b]
    BY <1>1, <2>1
  <2> QED BY <2>2, <2>3, ColumnWritten
<1>4. TablesTyped'
  BY <1>1, <1>3 DEF FundsInv, TablesTyped
<1>5. /\ \A q \in Payments : payment[q] # None =>
             payment'[q] # None /\ payment'[q].amount = payment[q].amount
      /\ \A m \in Refunds : refund[m] # None => refund'[m] # None
  BY <1>1, <1>2 DEF FundsInv, TablesTyped
<1>6. TxnShape' /\ LocksExclusive' /\ \A q \in Requests : Sound(txn'[q])
  BY <1>1, RequestEnds
<1> QED BY <1>1, <1>4, <1>5, <1>6, NothingApplied

\* An application is made, and the order settled.
LEMMA ApplyMakes ==
    ASSUME FundsInv, NEW r \in Requests, NEW a \in Applications, ApplyCommit(r, a)
    PROVE  \E x \in ApplicationRows :
               /\ x.payment = txn[r].payment /\ x.order = txn[r].order
               /\ x.amount = txn[r].amount /\ x.change = txn[r].change /\ ~ x.cancelled
               /\ application[a] = None /\ application' = [application EXCEPT ![a] = x]
               /\ order' = [order EXCEPT ![x.order].paid = Settle(@, txn[r].after)]
               /\ txn[r].op = "apply" /\ Ends(r)
               /\ UNCHANGED <<line, payment, refund>>
<1>1. Sound(txn[r])
  BY DEF FundsInv
<1> DEFINE x == [payment |-> txn[r].payment, order |-> txn[r].order, amount |-> txn[r].amount,
                 change |-> txn[r].change, cancelled |-> FALSE]
<1>2. /\ txn[r].op = "apply" /\ Ends(r) /\ application[a] = None
      /\ application' = [application EXCEPT ![a] = x]
      /\ order' = [order EXCEPT ![x.order].paid = Settle(@, txn[r].after)]
      /\ UNCHANGED <<line, payment, refund>>
  BY DEF ApplyCommit
<1>3. x \in ApplicationRows
  BY <1>1, <1>2 DEF Sound, ApplierSound, ApplicationRows
<1> QED BY <1>2, <1>3

LEMMA PaidIsFlag == \A paid, balance : Settle(paid, balance) \in BOOLEAN
BY DEF Settle

\* What another request is about to apply is of another payment and another
\* order: it holds both rows, as this one does.
LEMMA OthersApplyElsewhere ==
    ASSUME LocksExclusive, NEW r \in Requests, NEW q \in Requests, q # r,
           Sound(txn[r]), txn[r].op = "apply", Sound(txn[q]), txn[q].op = "apply"
    PROVE  txn[q].payment # txn[r].payment /\ txn[q].order # txn[r].order
<1>1. /\ PaymentRow(txn[r].payment) \in txn[r].rows /\ OrderRow(txn[r].order) \in txn[r].rows
      /\ PaymentRow(txn[q].payment) \in txn[q].rows /\ OrderRow(txn[q].order) \in txn[q].rows
  BY DEF Sound, ApplierSound
<1> QED BY <1>1, HeldByOne

LEMMA ApplyKeeps ==
    ASSUME FundsInv, NEW r \in Requests, NEW a \in Applications, ApplyCommit(r, a)
    PROVE  FundsInv'
<1>1. PICK x \in ApplicationRows :
               /\ x.payment = txn[r].payment /\ x.order = txn[r].order
               /\ x.amount = txn[r].amount /\ x.change = txn[r].change /\ ~ x.cancelled
               /\ application[a] = None /\ application' = [application EXCEPT ![a] = x]
               /\ order' = [order EXCEPT ![x.order].paid = Settle(@, txn[r].after)]
               /\ txn[r].op = "apply" /\ Ends(r)
               /\ UNCHANGED <<line, payment, refund>>
  BY ApplyMakes
<1>2. /\ TablesTyped /\ LocksExclusive /\ ApplicationsPaid /\ NothingBelowZero
      /\ \A q \in Requests : Sound(txn[q])
  BY DEF FundsInv
<1>3. /\ x.payment \in Payments /\ payment[x.payment] # None /\ x.order \in Orders
      /\ x.amount \in Nat /\ x.change \in Nat
      /\ Used(x.payment) + x.amount + x.change <= payment[x.payment].amount
      /\ Applied(x.order) + x.amount <= Total(x.order)
  BY <1>1, <1>2 DEF Sound, ApplierSound
<1>4. TablesTyped'
  <2>1. PICK b : b = Settle(order[x.order].paid, txn[r].after)
    OBVIOUS
  <2>2. order' \in [Orders -> OrderRows]
    BY <1>1, <2>1, PaidIsFlag, ColumnWritten
  <2> QED BY <1>1, <1>2, <2>2 DEF TablesTyped
<1>5. /\ \A o : Applied(o)' = Applied(o) + (IF o = x.order THEN x.amount ELSE 0)
      /\ \A p : Used(p)' = Used(p) + (IF p = x.payment THEN x.amount + x.change ELSE 0)
      /\ \A p : p # x.payment => LiveOfPayment(p)' = LiveOfPayment(p)
  BY <1>1, <1>2, ApplicationMade
<1>6. \A o : Total(o)' = Total(o)
  BY <1>1, LinesStand
<1>7. /\ \A o \in Orders : Applied(o) \in Nat
      /\ \A p : Used(p) \in Nat
  BY <1>2, FiguresAreNat, UsedIsNat
<1>8. ApplicationsPaid'
  BY <1>1, <1>2, <1>3 DEF ApplicationsPaid, TablesTyped
<1>9. NothingBelowZero'
  <2>1. ASSUME NEW p \in Payments, LiveOfPayment(p)' # {} PROVE Used(p)' <= payment'[p].amount
    <3>1. CASE p = x.payment
      <4>1. Used(p)' = Used(p) + (x.amount + x.change)
        BY <1>5, <3>1
      <4>2. Used(p) \in Nat /\ payment[p].amount \in Int
        BY <1>2, <1>3, <1>7, <3>1 DEF TablesTyped, PaymentRows
      <4> QED BY <1>1, <1>3, <3>1, <4>1, <4>2
    <3>2. CASE p # x.payment
      <4>1. Used(p)' = Used(p) /\ LiveOfPayment(p) # {}
        BY <1>5, <1>7, <2>1, <3>2
      <4> QED BY <1>1, <1>2, <4>1 DEF NothingBelowZero
    <3> QED BY <3>1, <3>2
  <2>2. ASSUME NEW o \in Orders PROVE Applied(o)' <= Total(o)'
    <3>1. CASE o = x.order
      BY <1>3, <1>5, <1>6, <3>1
    <3>2. CASE o # x.order
      <4>1. Applied(o)' = Applied(o)
        BY <1>5, <1>7, <3>2
      <4> QED BY <1>2, <1>6, <4>1 DEF NothingBelowZero
    <3> QED BY <3>1, <3>2
  <2> QED BY <2>1, <2>2 DEF NothingBelowZero
<1>10. /\ TxnShape' /\ LocksExclusive'
       /\ txn'[r] = Idle /\ \A q \in Requests \ {r} : txn'[q] = txn[q]
  BY <1>1, RequestEnds
<1>11. ASSUME NEW q \in Requests PROVE Sound(txn[q])'
  <2>1. CASE q = r
    <3>1. PICK t : t = Idle
      OBVIOUS
    <3>2. Sound(t)'
      BY <3>1 DEF Sound, CashierSound, ApplierSound, ClerkSound, RefundOperations, Idle
    <3> QED BY <1>10, <2>1, <3>1, <3>2
  <2>2. CASE q # r
    <3>1. PICK t : t = txn[q]
      OBVIOUS
    <3>2. Sound(t) /\ txn'[q] = t
      BY <1>2, <1>10, <2>2, <3>1
    <3>3. t.op = "apply" => t.payment # x.payment /\ t.order # x.order
      BY <1>1, <1>2, <2>2, <3>1, OthersApplyElsewhere
    <3>4. ApplierSound(t)'
      <4>1. CASE t.op = "apply"
        <5>1. t.payment \in Payments /\ t.order \in Orders
          BY <3>2, <4>1 DEF Sound, ApplierSound
        <5>2. Used(t.payment)' = Used(t.payment) /\ Applied(t.order)' = Applied(t.order)
          BY <1>5, <1>7, <3>3, <4>1, <5>1
        <5> QED BY <1>1, <1>6, <3>2, <5>2 DEF Sound, ApplierSound
      <4>2. CASE t.op # "apply"
        BY <4>2 DEF ApplierSound
      <4> QED BY <4>1, <4>2
    <3>5. CashierSound(t)'
      <4>1. \A b \in Applications : application[b] # None => application'[b] # None
        BY <1>1, <1>2 DEF TablesTyped
      <4> QED BY <1>1, <3>2, <4>1 DEF Sound, CashierSound
    <3>6. ClerkSound(t)'
      BY <1>1, <3>2 DEF Sound, ClerkSound
    <3>7. Sound(t)'
      BY <3>4, <3>5, <3>6 DEF Sound
    <3> QED BY <3>2, <3>7
  <2> QED BY <2>1, <2>2
<1> QED BY <1>4, <1>8, <1>9, <1>10, <1>11 DEF FundsInv

\* An application is reversed.
LEMMA ReverseKeeps ==
    ASSUME FundsInv, NEW r \in Requests, ReverseCommit(r)
    PROVE  FundsInv'
<1>1. PICK a : a = txn[r].application
  OBVIOUS
<1>2. PICK o : o = application[a].order
  OBVIOUS
<1>3. /\ txn[r].op = "reverse" /\ Ends(r)
      /\ application' = [application EXCEPT ![a].cancelled = TRUE]
      /\ order' = [order EXCEPT ![o].paid = Reopen(@, txn[r].before, txn[r].after)]
      /\ UNCHANGED <<line, payment, refund>>
  BY <1>1, <1>2 DEF ReverseCommit
<1>4. /\ TablesTyped /\ LocksExclusive /\ ApplicationsPaid /\ NothingBelowZero
      /\ \A q \in Requests : Sound(txn[q])
  BY DEF FundsInv
<1>5. a \in Applications /\ application[a] # None
  BY <1>1, <1>3, <1>4 DEF Sound, CashierSound
<1>6. application[a] \in ApplicationRows
  BY <1>4, <1>5 DEF TablesTyped
<1>7. PICK y : y = [application[a] EXCEPT !.cancelled = TRUE]
  OBVIOUS
<1>8. y \in ApplicationRows /\ y # None /\ y.payment = application[a].payment
  BY <1>6, <1>7, NoneIsNoPaymentRow DEF NoneIsNoPaymentRow, ApplicationRows
<1>9. application' = [application EXCEPT ![a] = y]
  BY <1>3, <1>7
<1>10. TablesTyped'
  <2>1. PICK b : b = Reopen(order[o].paid, txn[r].before, txn[r].after)
    OBVIOUS
  <2>2. o \in Orders
    BY <1>2, <1>6 DEF ApplicationRows
  <2>3. b \in BOOLEAN
    BY <1>4, <2>1, <2>2 DEF Reopen, TablesTyped, OrderRows
  <2>4. order' \in [Orders -> OrderRows]
    BY <1>3, <2>1, <2>3, ColumnWritten
  <2> QED BY <1>3, <1>4, <1>8, <1>9, <2>4 DEF TablesTyped
<1>11. /\ \A p \in Orders : Applied(p)' <= Applied(p) /\ Applied(p)' \in Int
       /\ \A p : /\ Used(p)' <= Used(p) /\ Used(p)' \in Nat
                 /\ LiveOfPayment(p)' \subseteq LiveOfPayment(p)
  <2>1. /\ \A p : Applied(p)' = Applied(p) - (IF p = application[a].order /\ ~ application[a].cancelled
                                              THEN application[a].amount ELSE 0)
        /\ \A p : /\ Used(p)' <= Used(p) /\ Used(p)' \in Nat
                  /\ LiveOfPayment(p)' \subseteq LiveOfPayment(p)
    BY <1>3, <1>4, <1>5, ApplicationReversed
  <2>2. ASSUME NEW p \in Orders PROVE Applied(p)' <= Applied(p) /\ Applied(p)' \in Int
    <3>1. Applied(p) \in Nat /\ application[a].amount \in Nat
      BY <1>4, <1>6, FiguresAreNat DEF ApplicationRows
    <3>2. PICK d : d = IF p = application[a].order /\ ~ application[a].cancelled
                       THEN application[a].amount ELSE 0
      OBVIOUS
    <3>3. Applied(p)' = Applied(p) - d /\ d \in Nat
      BY <2>1, <3>1, <3>2
    <3> QED BY <3>1, <3>3
  <2> QED BY <2>1, <2>2
<1>12. \A p : Total(p)' = Total(p)
  BY <1>3, LinesStand
<1>13. /\ \A p \in Orders : Applied(p) \in Nat /\ Total(p) \in Nat
       /\ \A p : Used(p) \in Nat
  BY <1>4, FiguresAreNat, UsedIsNat
<1>14. ApplicationsPaid'
  BY <1>3, <1>4, <1>5, <1>8, <1>9 DEF ApplicationsPaid, TablesTyped
<1>15. NothingBelowZero'
  <2>1. ASSUME NEW p \in Payments, LiveOfPayment(p)' # {} PROVE Used(p)' <= payment'[p].amount
    <3>1. LiveOfPayment(p) # {} /\ Used(p) <= payment[p].amount
      BY <1>4, <1>11, <2>1 DEF NothingBelowZero
    <3>2. payment[p].amount \in Int
      BY <1>4, <3>1 DEF LiveOfPayment, ApplicationsPaid, TablesTyped, PaymentRows
    <3> QED BY <1>3, <1>11, <1>13, <3>1, <3>2
  <2>2. ASSUME NEW p \in Orders PROVE Applied(p)' <= Total(p)'
    <3>1. Applied(p) <= Total(p)
      BY <1>4 DEF NothingBelowZero
    <3> QED BY <1>11, <1>12, <1>13, <3>1
  <2> QED BY <2>1, <2>2 DEF NothingBelowZero
<1>16. /\ TxnShape' /\ LocksExclusive' /\ \A q \in Requests : Sound(txn'[q])
  BY <1>3, RequestEnds
<1>17. ASSUME NEW q \in Requests PROVE Sound(txn[q])'
  <2>1. PICK t : t = txn'[q]
    OBVIOUS
  <2>2. Sound(t)
    BY <1>16, <2>1
  <2>3. ApplierSound(t)'
    <3>1. CASE t.op = "apply"
      <4>1. /\ t.payment \in Payments /\ payment[t.payment] # None /\ t.order \in Orders
            /\ t.amount \in Nat /\ t.change \in Nat
            /\ Used(t.payment) + t.amount + t.change <= payment[t.payment].amount
            /\ Applied(t.order) + t.amount <= Total(t.order)
        BY <2>2, <3>1 DEF Sound, ApplierSound
      <4>2. payment[t.payment].amount \in Int
        BY <1>4, <4>1 DEF TablesTyped, PaymentRows
      <4>3. /\ Used(t.payment)' <= Used(t.payment) /\ Used(t.payment) \in Nat
            /\ Used(t.payment)' \in Nat
        BY <1>11, <1>13
      <4>4. /\ Applied(t.order)' <= Applied(t.order) /\ Applied(t.order) \in Nat
            /\ Applied(t.order)' \in Int /\ Total(t.order) \in Nat /\ Total(t.order)' = Total(t.order)
        BY <1>11, <1>12, <1>13, <4>1
      <4>5. Used(t.payment)' + t.amount + t.change <= payment'[t.payment].amount
        BY <1>3, <4>1, <4>2, <4>3
      <4>6. Applied(t.order)' + t.amount <= Total(t.order)'
        BY <4>1, <4>4
      <4> QED BY <1>3, <2>2, <4>5, <4>6 DEF Sound, ApplierSound
    <3>2. CASE t.op # "apply"
      BY <3>2 DEF ApplierSound
    <3> QED BY <3>1, <3>2
  <2>4. CashierSound(t)'
    <3>1. \A b \in Applications : application[b] # None => application'[b] # None
      BY <1>4, <1>5, <1>8, <1>9 DEF TablesTyped
    <3> QED BY <1>3, <2>2, <3>1 DEF Sound, CashierSound
  <2>5. ClerkSound(t)'
    BY <1>3, <2>2 DEF Sound, ClerkSound
  <2>6. Sound(t)'
    BY <2>3, <2>4, <2>5 DEF Sound
  <2> QED BY <2>1, <2>6
<1> QED BY <1>10, <1>14, <1>15, <1>16, <1>17 DEF FundsInv

-----------------------------------------------------------------------------
(***************************************************************************)
(* The initial states.                                                     *)
(***************************************************************************)
\* Orders can be numbered: what PaymentInit chooses exists.
LEMMA NumberingExists == SomeNumbering \in [Orders -> 1..Cardinality(Orders)]
<1>1. PICK b : b \in Bijection(1..Cardinality(Orders), Orders)
  BY SalesConstants, FS_CardinalityType DEF SalesConstants, ExistsBijection
<1>2. /\ b \in [1..Cardinality(Orders) -> Orders]
      /\ \A o \in Orders : \E i \in 1..Cardinality(Orders) : b[i] = o
  BY <1>1 DEF Bijection, Injection, Surjection, IsInjective
<1> DEFINE n == [o \in Orders |-> CHOOSE i \in 1..Cardinality(Orders) : b[i] = o]
<1>3. ASSUME NEW o \in Orders PROVE n[o] \in 1..Cardinality(Orders) /\ b[n[o]] = o
  BY <1>2
<1>4. n \in [Orders -> 1..Cardinality(Orders)]
  BY <1>3
<1>5. \A o, p \in Orders : o # p => n[o] # n[p]
  BY <1>3
<1> HIDE DEF n
<1> QED BY <1>4, <1>5 DEF SomeNumbering

LEMMA SumOfOne ==
    ASSUME NEW f, NEW x, f[x] \in Int
    PROVE  SumFunctionOnSet(f, {x}) = f[x]
<1>1. SumFunctionOnSet(f, {} \cup {x}) = f[x] + SumFunctionOnSet(f, {})
  BY FS_EmptySet, SumWith
<1>2. {} \cup {x} = {x}
  OBVIOUS
<1> QED BY <1>1, <1>2, SumOfNone

\* At most one payment is a legacy one.
LEMMA OneLegacyPayment == \A p, q \in DOMAIN StalePaid : p = q
<1>1. DOMAIN StalePaid \subseteq Payments /\ Cardinality(DOMAIN StalePaid) <= 1
      /\ IsFiniteSet(Payments)
  BY PaymentConstants DEF PaymentConstants
<1>2. PICK D : D = DOMAIN StalePaid
  OBVIOUS
<1>3. IsFiniteSet(D) /\ Cardinality(D) \in Nat /\ Cardinality(D) <= 1
  BY <1>1, <1>2, FS_Subset, FS_CardinalityType
<1>4. Cardinality(D) = 0 => D = {}
  BY <1>3, FS_EmptySet
<1>5. ASSUME Cardinality(D) = 1 PROVE \E x : D = {x}
  BY <1>3, <1>5, FS_Singleton, Zenon
<1>6. Cardinality(D) = 0 \/ Cardinality(D) = 1
  BY <1>3
<1>7. \A p, q \in D : p = q
  BY <1>4, <1>5, <1>6
<1> QED BY <1>2, <1>7

\* Each order has one line, and a legacy payment is worth its order.
LEMMA LegacyOrders ==
    ASSUME PaymentInit
    PROVE  /\ line \in [Orders -> [LineIds -> Lines \cup {None}]]
           /\ \A o \in Orders : Total(o) = LegacyTotal(o) /\ LegacyTotal(o) \in Nat
<1>1. PICK l0 : l0 = CHOOSE l \in LineIds : TRUE
  OBVIOUS
<1>2. l0 \in LineIds
  BY <1>1, PaymentConstants DEF PaymentConstants
<1>3. line = [o \in Orders |-> [NoLines EXCEPT ![l0] = Confirmed[o]]]
  BY <1>1 DEF PaymentInit
<1>4. \A o \in Orders : Confirmed[o] \in Lines /\ Confirmed[o] # None
  BY PaymentConstants, NoneIsNoPaymentRow DEF PaymentConstants, NoneIsNoPaymentRow
<1>5. \A o \in Orders : [NoLines EXCEPT ![l0] = Confirmed[o]] \in [LineIds -> Lines \cup {None}]
  BY <1>2, <1>4 DEF NoLines
<1>6. line \in [Orders -> [LineIds -> Lines \cup {None}]]
  BY <1>3, <1>5
<1>7. ASSUME NEW o \in Orders PROVE Total(o) = LegacyTotal(o) /\ LegacyTotal(o) \in Nat
  <2>1. PICK rows : rows = line[o]
    OBVIOUS
  <2>2. rows = [NoLines EXCEPT ![l0] = Confirmed[o]]
    BY <1>3, <2>1
  <2>3. rows[l0] = Confirmed[o] /\ \A l \in LineIds \ {l0} : rows[l] = None
    BY <1>2, <2>2 DEF NoLines
  <2>4. Filled(o) = {l0}
    BY <1>2, <1>4, <2>1, <2>3 DEF Filled
  <2>5. PICK m : m = Confirmed[o]
    OBVIOUS
  <2>6. m.quantity \in Nat /\ m.price \in Nat
    BY <1>4, <2>5 DEF Lines
  <2>7. m.quantity * m.price \in Nat
    BY <2>6, NatProduct
  <2> DEFINE f == [l \in {l0} |-> rows[l].quantity * rows[l].price]
  <2>8. DOMAIN f = {l0} /\ f[l0] = m.quantity * m.price
    BY <2>3, <2>5
  <2>9. Total(o) = SumFunction(f)
    BY <2>1, <2>4 DEF Total
  <2> HIDE DEF f
  <2>10. SumFunction(f) = SumFunctionOnSet(f, {l0})
    BY <2>8, FS_Singleton, SumReadFrom
  <2>11. SumFunctionOnSet(f, {l0}) = f[l0]
    BY <2>7, <2>8, SumOfOne
  <2> QED BY <2>5, <2>7, <2>8, <2>9, <2>10, <2>11 DEF LegacyTotal
<1> QED BY <1>6, <1>7

LEMMA FirstRows == SomeCustomer \in Customers /\ FirstFacility \in Facilities
<1>1. \E c \in Customers : c # WalkIn
  BY SalesConstants, PaymentConstants DEF SalesConstants, PaymentConstants
<1> QED BY <1>1, SalesConstants DEF SalesConstants, SomeCustomer, FirstFacility

LEMMA InitTyped ==
    ASSUME PaymentInit
    PROVE  TablesTyped
<1>1. line \in [Orders -> [LineIds -> Lines \cup {None}]]
      /\ \A o \in Orders : LegacyTotal(o) \in Nat
  BY LegacyOrders
<1>2. SomeCustomer \in Customers /\ FirstFacility \in Facilities
  BY FirstRows
<1>3. order \in [Orders -> OrderRows]
  <2>1. PICK num : num = SomeNumbering
    OBVIOUS
  <2>2. BlankOrder \in OrderRows
    BY SalesConstants DEF SalesConstants, BlankOrder, OrderRows, Terms
  <2>3. \A o \in Orders : num[o] \in Nat
    BY <2>1, NumberingExists
  <2>4. OrderTerms \in Terms
    BY PaymentConstants DEF PaymentConstants
  <2>5. ASSUME NEW o \in Orders
        PROVE  [BlankOrder EXCEPT
                       !.exists = TRUE, !.completed = TRUE, !.facility = FirstFacility,
                       !.customer = SomeCustomer, !.payment_terms = OrderTerms,
                       !.serial = num[o]] \in OrderRows
    BY <1>2, <2>2, <2>3, <2>4 DEF OrderRows
  <2>6. order = [o \in Orders |-> [BlankOrder EXCEPT
                       !.exists = TRUE, !.completed = TRUE, !.facility = FirstFacility,
                       !.customer = SomeCustomer, !.payment_terms = OrderTerms,
                       !.serial = num[o]]]
    BY <2>1 DEF PaymentInit
  <2> QED BY <2>5, <2>6
<1>4. \A p \in DOMAIN StalePaid : /\ p \in Payments
                                  /\ StalePaid[p].order \in Orders
                                  /\ StalePaid[p].by \in Applications
  BY PaymentConstants DEF PaymentConstants
<1>5. payment \in [Payments -> PaymentRows \cup {None}]
  <2>1. \A p \in DOMAIN StalePaid :
            [customer |-> SomeCustomer, facility |-> FirstFacility, verifier |-> None,
             serial |-> 1, amount |-> LegacyTotal(StalePaid[p].order)] \in PaymentRows
    BY <1>1, <1>2, <1>4 DEF PaymentRows
  <2> QED BY <2>1 DEF PaymentInit
<1>6. application \in [Applications -> ApplicationRows \cup {None}]
  <2>1. ASSUME NEW a \in Applications, \E p \in DOMAIN StalePaid : StalePaid[p].by = a
        PROVE  LET p == CHOOSE q \in DOMAIN StalePaid : StalePaid[q].by = a
               IN  [payment |-> p, order |-> StalePaid[p].order, change |-> 0,
                    cancelled |-> FALSE, amount |-> LegacyTotal(StalePaid[p].order)]
                   \in ApplicationRows
    BY <1>1, <1>4, <2>1 DEF ApplicationRows
  <2> QED BY <2>1 DEF PaymentInit
<1>7. refund \in [Refunds -> RefundRows \cup {None}]
  BY DEF PaymentInit
<1> QED BY <1>1, <1>3, <1>5, <1>6, <1>7 DEF TablesTyped

LEMMA InitFunds ==
    ASSUME PaymentInit
    PROVE  FundsInv
<1>1. TablesTyped /\ \A o \in Orders : Total(o) = LegacyTotal(o) /\ LegacyTotal(o) \in Nat
  BY InitTyped, LegacyOrders
<1>2. /\ TxnShape /\ LocksExclusive /\ \A r \in Requests : Sound(txn[r])
  <2>1. txn = [r \in Requests |-> Idle]
    BY DEF PaymentInit
  <2>2. \A r \in Requests : txn[r] = Idle
    BY <2>1
  <2> QED BY <2>1, <2>2, IdleIsSound, IdleIsNoOperation DEF TxnShape, LocksExclusive, Holds
\* The one application there may be is all of its payment, and of its order.
<1>3. ASSUME NEW a \in Applications, application[a] # None
      PROVE  /\ application[a].order \in Orders
             /\ application[a].payment \in DOMAIN StalePaid
             /\ StalePaid[application[a].payment].by = a
             /\ application[a].amount = LegacyTotal(application[a].order)
             /\ application[a].change = 0
             /\ payment[application[a].payment] # None
             /\ payment[application[a].payment].amount = application[a].amount
  <2>1. \E p \in DOMAIN StalePaid : StalePaid[p].by = a
    BY <1>3 DEF PaymentInit
  <2>2. PICK p : p = CHOOSE q \in DOMAIN StalePaid : StalePaid[q].by = a
    OBVIOUS
  <2>3. p \in DOMAIN StalePaid /\ StalePaid[p].by = a
    BY <2>1, <2>2
  <2>4. p \in Payments /\ StalePaid[p].order \in Orders
    BY <2>3, PaymentConstants DEF PaymentConstants
  <2>5. application[a] = [payment |-> p, order |-> StalePaid[p].order, change |-> 0,
                          cancelled |-> FALSE, amount |-> LegacyTotal(StalePaid[p].order)]
    BY <2>1, <2>2 DEF PaymentInit
  <2>6. payment[p] = [customer |-> SomeCustomer, facility |-> FirstFacility, verifier |-> None,
                      serial |-> 1, amount |-> LegacyTotal(StalePaid[p].order)]
    BY <2>3, <2>4 DEF PaymentInit
  <2>7. payment[p] # None
    <3>1. payment[p] \in PaymentRows
      BY <1>1, <2>4, <2>6, FirstRows DEF PaymentRows
    <3> QED BY <3>1, NoneIsNoPaymentRow DEF NoneIsNoPaymentRow
  <2> QED BY <2>3, <2>4, <2>5, <2>6, <2>7
<1>4. \A a, b \in Applications : application[a] # None /\ application[b] # None => a = b
  BY <1>3, OneLegacyPayment
<1>5. ApplicationsPaid
  BY <1>3 DEF ApplicationsPaid
<1>6. ASSUME NEW p \in Payments, LiveOfPayment(p) # {} PROVE Used(p) <= payment[p].amount
  <2>1. PICK a \in Applications : a \in LiveOfPayment(p)
    BY <1>6 DEF LiveOfPayment
  <2>2. application[a] # None /\ application[a].payment = p
    BY <2>1 DEF LiveOfPayment
  <2>3. LiveOfPayment(p) = {a}
    BY <1>4, <2>1, <2>2 DEF LiveOfPayment
  <2> DEFINE f == [b \in Applications |-> application[b].amount + application[b].change]
  <2>4. f[a] = application[a].amount /\ f[a] \in Nat /\ application[a].amount = payment[p].amount
    BY <1>1, <1>3, <2>2
  <2> HIDE DEF f
  <2>5. SumFunctionOnSet(f, {a}) = f[a]
    BY <2>4, SumOfOne
  <2>6. Used(p) = SumFunctionOnSet(f, {a})
    BY <2>3, UsedIsSum DEF f
  <2> QED BY <2>4, <2>5, <2>6
<1>7. ASSUME NEW o \in Orders PROVE Applied(o) <= Total(o)
  <2> DEFINE f == [b \in Applications |-> application[b].amount]
  <2>1. Applied(o) = SumFunctionOnSet(f, LiveApplications(o))
    BY AppliedIsSum
  <2>2. CASE LiveApplications(o) = {}
    BY <1>1, <2>1, <2>2, SumOfNone
  <2>3. CASE LiveApplications(o) # {}
    <3>1. PICK a \in Applications : a \in LiveApplications(o)
      BY <2>3 DEF LiveApplications
    <3>2. application[a] # None /\ application[a].order = o
      BY <3>1 DEF LiveApplications
    <3>3. LiveApplications(o) = {a}
      BY <1>4, <3>1, <3>2 DEF LiveApplications
    <3>4. f[a] = Total(o) /\ f[a] \in Nat
      BY <1>1, <1>3, <3>2
    <3> HIDE DEF f
    <3>5. SumFunctionOnSet(f, {a}) = f[a]
      BY <3>4, SumOfOne
    <3> QED BY <2>1, <3>3, <3>4, <3>5
  <2> QED BY <2>2, <2>3
<1> QED BY <1>1, <1>2, <1>5, <1>6, <1>7 DEF FundsInv, NothingBelowZero

-----------------------------------------------------------------------------
(***************************************************************************)
(* The theorems: payments and orders.                                      *)
(***************************************************************************)
\* A request that aborts ends with nothing written.
LEMMA AbortKeeps ==
    ASSUME FundsInv, NEW r \in Requests, Abort(r)
    PROVE  FundsInv'
<1>1. PICK t : t = Idle
  OBVIOUS
<1>2. txn' = [txn EXCEPT ![r] = t] /\ Sound(t) /\ UNCHANGED tables
  BY <1>1, IdleIsSound DEF Abort, Ends
<1> QED BY <1>1, <1>2, OnlyReads

LEMMA NextFunds ==
    ASSUME FundsInv, [RefundNext]_vars
    PROVE  FundsInv'
<1>1. ASSUME NEW r \in Requests,
             \/ \E c \in Customers, f \in Facilities, k \in Tenders : CreatePaymentRead(r, c, f, k)
             \/ \E p \in Payments, o \in Orders, amount \in Amounts, change \in Changes :
                   ApplyRead(r, p, o, amount, change)
             \/ \E a \in Applications : ReverseRead(r, a)
             \/ \E p \in Payments, v \in Verifiers : VerifyRead(r, p, v)
             \/ \E o \in Orders : CancelRead(r, o)
             \/ SweepRead(r)
             \/ StaleFlagsRead(r)
             \/ \E n \in Refunds, l \in LineIds, q \in Quantities : EditRefundRead(r, n, l, q)
             \/ \E n \in Refunds : CancelRefundRead(r, n)
             \/ \E n \in Refunds, payout \in Payouts : ConfirmRefundRead(r, n, payout)
      PROVE  FundsInv'
  BY <1>1, ReadsBegin, OnlyReads
<1>2. Desk \in [Requests -> SUBSET Refunds]
  BY RefundConstants DEF RefundConstants
<1>3. CASE DraftRefund
  BY <1>1, <1>2, <1>3, OpenRefundKeeps, EditKeepsFunds DEF DraftRefund
<1>4. CASE ConfirmRefund
  BY <1>1, <1>2, <1>4, ConfirmKeeps DEF ConfirmRefund
<1>5. CASE CreatePayment
  BY <1>1, <1>5, CreatePaymentKeeps DEF CreatePayment
<1>6. CASE Apply
  BY <1>1, <1>6, ApplyKeeps DEF Apply
<1>7. CASE Reverse
  BY <1>1, <1>7, ReverseKeeps DEF Reverse
<1>8. CASE Verify
  BY <1>1, <1>8, VerifyKeeps DEF Verify
<1>9. CASE Cancel
  BY <1>1, <1>9, CancelKeepsFunds DEF Cancel
<1>10. CASE Sweep
  BY <1>1, <1>10, SweepKeeps DEF Sweep
<1>11. CASE StaleFlags
  BY <1>1, <1>11, StaleFlagsKeeps DEF StaleFlags
<1>12. CASE \E r \in Requests : Abort(r)
  BY <1>12, AbortKeeps
<1>13. CASE UNCHANGED vars
  <2>1. TablesTyped'
    BY <1>13 DEF FundsInv, TablesTyped, vars, tables
  <2>2. TxnShape' /\ LocksExclusive' /\ \A q \in Requests : Sound(txn'[q])
    BY <1>13 DEF FundsInv, TxnShape, LocksExclusive, Holds, vars
  <2> QED BY <1>13, <2>1, <2>2, NothingApplied DEF vars, tables
<1> QED BY <1>3, <1>4, <1>5, <1>6, <1>7, <1>8, <1>9, <1>10, <1>11, <1>12, <1>13
        DEF RefundNext, PaymentNext

THEOREM FundsAreKept == RefundSpec => []FundsInv
<1>1. PaymentInit => FundsInv
  BY InitFunds
<1>2. FundsInv /\ [RefundNext]_vars => FundsInv'
  BY NextFunds
<1> QED BY <1>1, <1>2, PTL DEF RefundSpec

\* However applications, reversals, refunds, cancellations and payments
\* interleave, no payment is spent below zero and no order is paid more than
\* it is worth: each application holds both rows from its reads to its commit.
THEOREM FundsNeverBelowZero == RefundSpec => []NothingBelowZero
<1>1. FundsInv => NothingBelowZero
  BY DEF FundsInv
<1> QED BY <1>1, FundsAreKept, PTL

-----------------------------------------------------------------------------
(***************************************************************************)
(* Refunds never give back more than was sold.                             *)
(***************************************************************************)
\* What an order owes and has given back is the same.
SameFigures(o) ==
    /\ Applied(o)' = Applied(o) /\ Refunded(o)' = Refunded(o)
    /\ \A l \in LineIds : AlreadyRefunded(o, l)' = AlreadyRefunded(o, l)

\* What a request has in hand stays current while the orders a step moves are
\* not held by it and its drafts are not written.
LEMMA StillCurrent ==
    ASSUME TablesTyped, NEW q \in Requests, NEW t, Current(q, t), Sound(t), UNCHANGED line, NEW moved,
           \A o \in Orders \ moved : SameFigures(o),
           \A o \in moved : OrderRow(o) \notin t.rows,
           \A n \in Desk[q] : refund[n] # None => refund'[n] = refund[n]
    PROVE  Current(q, t)'
<1>1. /\ \A o : Total(o)' = Total(o) /\ Filled(o)' = Filled(o)
      /\ \A o, quantity : Amount(o, quantity)' = Amount(o, quantity)
  BY LinesStand
<1>2. DraftInHand(q, t)'
  BY DEF Current, DraftInHand, EditableRefund
<1>3. OwedAsRead(t)'
  <2>1. CASE t.op = "apply"
    <3>1. t.order \in Orders \ moved
      BY <2>1 DEF Sound, ApplierSound
    <3>2. Balance(t.order)' = Balance(t.order)
      BY <1>1, <3>1 DEF SameFigures, Balance
    <3> QED BY <3>2 DEF Current, OwedAsRead
  <2>2. CASE t.op # "apply"
    BY <2>2 DEF OwedAsRead
  <2> QED BY <2>1, <2>2
<1>4. FitsTheOrder(t)'
  <2>1. CASE t.op = "confirm_refund"
    <3>1. PICK n : n = t.refund
      OBVIOUS
    <3>2. PICK o : o = refund[n].order
      OBVIOUS
    <3>3. n \in Desk[q] /\ refund[n] # None
      BY <2>1, <3>1 DEF Current, DraftInHand, RefundOperations, EditableRefund
    <3>4. refund'[n].order = o
      BY <3>2, <3>3
    <3>5. /\ OrderRow(o) \in t.rows
          /\ t.amount = Amount(o, t.quantity)
          /\ t.after = Remaining(Total(o), Refunded(o) + t.amount + Applied(o))
          /\ \A l \in Filled(o) :
                AlreadyRefunded(o, l) + t.quantity[l] <= line[o][l].quantity
      BY <2>1, <3>1, <3>2 DEF Current, FitsTheOrder
    <3>6. SameFigures(o)
      <4>1. Desk[q] \in SUBSET Refunds
        BY RefundConstants DEF RefundConstants
      <4>2. o \in Orders
        BY <3>2, <3>3, <4>1 DEF TablesTyped, RefundRows
      <4> QED BY <3>5, <4>2
    <3>7. t.amount = Amount(o, t.quantity)'
      <4>1. PICK quantity : quantity = t.quantity
        OBVIOUS
      <4>2. Amount(o, quantity)' = Amount(o, quantity)
        BY <1>1
      <4> QED BY <3>5, <4>1, <4>2
    <3>8. t.after = Remaining(Total(o)', Refunded(o)' + t.amount + Applied(o)')
      BY <1>1, <3>5, <3>6 DEF SameFigures
    <3>9. Filled(o) \in SUBSET LineIds
      BY DEF Filled
    <3>10. \A l \in Filled(o)' : AlreadyRefunded(o, l)' + t.quantity[l] <= line'[o][l].quantity
      BY <1>1, <3>5, <3>6, <3>9 DEF SameFigures
    <3> QED BY <3>1, <3>4, <3>5, <3>7, <3>8, <3>10 DEF FitsTheOrder, Remaining
  <2>2. CASE t.op # "confirm_refund"
    BY <2>2 DEF FitsTheOrder
  <2> QED BY <2>1, <2>2
<1> QED BY <1>2, <1>3, <1>4 DEF Current

\* No refund is completed, taken back or trimmed.
LEMMA StillNotOver ==
    ASSUME NotOverRefunded, UNCHANGED line, \A o \in Orders : SameFigures(o)
    PROVE  NotOverRefunded'
<1>1. \A o : Filled(o)' = Filled(o) /\ Filled(o) \in SUBSET LineIds
  BY LinesStand DEF Filled
<1> QED BY <1>1 DEF NotOverRefunded, SameFigures

\* What is over, or neither refunds nor applies, is current.
LEMMA OthersAreCurrent ==
    ASSUME NEW q, NEW t, t = Idle \/ t.op \notin RefundOperations \cup {"apply"}
    PROVE  Current(q, t) /\ Current(q, t)'
<1>1. t.op \notin RefundOperations \cup {"apply"}
  BY DEF Idle, RefundOperations
<1> QED BY <1>1 DEF Current, DraftInHand, OwedAsRead, FitsTheOrder, RefundOperations

\* A step that moves nothing of what orders owe and have given back.
LEMMA NothingMoved ==
    ASSUME FundsInv, ClerksInv, UNCHANGED <<line, application, refund>>, NEW r \in Requests,
           NEW t, txn'[r] = t, Sound(t), Current(r, t),
           \A q \in Requests \ {r} : txn'[q] = txn[q]
    PROVE  ClerksInv'
<1>1. \A o : SameFigures(o)
  BY ApplicationsStand, RefundsStand DEF SameFigures
<1>2. NotOverRefunded'
  BY <1>1, StillNotOver DEF ClerksInv
<1>3. ASSUME NEW q \in Requests PROVE Current(q, txn[q])'
  <2>1. PICK u : u = txn'[q]
    OBVIOUS
  <2>2. Current(q, u) /\ Sound(u)
    BY <2>1 DEF ClerksInv, FundsInv
  <2>3. Current(q, u)'
    <3>1. PICK moved : moved = {}
      OBVIOUS
    <3> QED BY <1>1, <2>2, <3>1, StillCurrent DEF FundsInv
  <2> QED BY <2>1, <2>3
<1> QED BY <1>2, <1>3 DEF ClerksInv

\* A step of r's that moves the figures of the orders in `moved`, held by no
\* other, and writes no draft but r's own.
LEMMA OthersStand ==
    ASSUME FundsInv, ClerksInv, OwnDrafts, NEW r \in Requests, UNCHANGED line,
           NEW moved, \A o \in Orders \ moved : SameFigures(o),
           \A o \in moved : Free(r, {OrderRow(o)}),
           \A n \in Refunds \ Desk[r] : refund[n] # None => refund'[n] = refund[n],
           txn'[r] = Idle, \A q \in Requests \ {r} : txn'[q] = txn[q]
    PROVE  \A q \in Requests : Current(q, txn[q])'
<1>1. Desk \in [Requests -> SUBSET Refunds]
  BY RefundConstants DEF RefundConstants
<1>2. ASSUME NEW q \in Requests PROVE Current(q, txn[q])'
  <2>1. PICK t : t = txn'[q]
    OBVIOUS
  <2>2. CASE t = Idle
    <3>1. Current(q, t)'
      BY <2>2, OthersAreCurrent
    <3> QED BY <2>1, <3>1
  <2>3. CASE t # Idle
    <3>1. q # r /\ t = txn[q]
      BY <2>1, <2>3
    <3>2. Current(q, t) /\ Sound(t) /\ t.op \in Operations
      BY <2>3, <3>1 DEF ClerksInv, FundsInv, TxnShape
    <3>3. Holds(q) = t.rows
      BY <3>1, <3>2, IdleIsNoOperation DEF Holds
    <3>4. \A o \in moved : OrderRow(o) \notin t.rows
      BY <3>1, <3>3 DEF Free
    <3>5. \A n \in Desk[q] : n \in Refunds \ Desk[r]
      BY <1>1, <3>1 DEF OwnDrafts
    <3>6. \A n \in Desk[q] : refund[n] # None => refund'[n] = refund[n]
      BY <3>5
    <3>7. Current(q, t)'
      BY <3>2, <3>4, <3>6, StillCurrent DEF FundsInv
    <3> QED BY <2>1, <3>7
  <2> QED BY <2>2, <2>3
<1> QED BY <1>2

\* What the reads find is current.
LEMMA ReadsAreCurrent ==
    ASSUME FundsInv, NotOverRefunded, NEW r \in Requests, NEW t,
           \/ \E p \in Payments, o \in Orders, amount \in Amounts, change \in Changes :
                 ApplyRead(r, p, o, amount, change)
           \/ \E n \in Desk[r], l \in LineIds, q \in Quantities : EditRefundRead(r, n, l, q)
           \/ \E n \in Desk[r] : CancelRefundRead(r, n)
           \/ \E n \in Desk[r], payout \in Payouts : ConfirmRefundRead(r, n, payout),
           txn' = [txn EXCEPT ![r] = t]
    PROVE  Current(r, t)
<1>0. TablesTyped /\ txn'[r] = t /\ Desk[r] \in SUBSET Refunds
  BY RefundConstants DEF FundsInv, TxnShape, RefundConstants
<1>1. ASSUME NEW p \in Payments, NEW o \in Orders, NEW amount \in Amounts, NEW change \in Changes,
             ApplyRead(r, p, o, amount, change)
      PROVE  Current(r, t)
  <2> DEFINE u == [op |-> "apply", payment |-> p, order |-> o, amount |-> amount, change |-> change,
                   rows |-> ApplyRows(p, o), after |-> Balance(o) - amount]
  <2>1. txn' = [txn EXCEPT ![r] = u] /\ amount <= Balance(o)
    BY <1>1 DEF ApplyRead, WithinBalance
  <2>2. t = u
    BY <1>0, <2>1 DEF FundsInv, TxnShape
  <2> QED BY <2>1, <2>2 DEF Current, DraftInHand, OwedAsRead, FitsTheOrder, RefundOperations
<1>2. ASSUME NEW n \in Desk[r], NEW l \in LineIds, NEW q \in Quantities, EditRefundRead(r, n, l, q)
      PROVE  Current(r, t)
  <2> DEFINE u == [op |-> "edit_refund", refund |-> n, line |-> l, quantity |-> q, rows |-> {}]
  <2>1. txn' = [txn EXCEPT ![r] = u] /\ EditableRefund(n)
    BY <1>2 DEF EditRefundRead
  <2>2. t = u
    BY <1>0, <2>1 DEF FundsInv, TxnShape
  <2> QED BY <2>1, <2>2 DEF Current, DraftInHand, OwedAsRead, FitsTheOrder
<1>3. ASSUME NEW n \in Desk[r], CancelRefundRead(r, n)
      PROVE  Current(r, t)
  <2> DEFINE u == [op |-> "cancel_refund", refund |-> n, rows |-> {}]
  <2>1. txn' = [txn EXCEPT ![r] = u] /\ EditableRefund(n)
    BY <1>3 DEF CancelRefundRead
  <2>2. t = u
    BY <1>0, <2>1 DEF FundsInv, TxnShape
  <2> QED BY <2>1, <2>2 DEF Current, DraftInHand, OwedAsRead, FitsTheOrder
<1>4. ASSUME NEW n \in Desk[r], NEW payout \in Payouts, ConfirmRefundRead(r, n, payout)
      PROVE  Current(r, t)
  <2> DEFINE o == refund[n].order
             f == refund[n].facility
             fitted == Reconciled(n)
             u == [op |-> "confirm_refund", refund |-> n, rows |-> ConfirmRefundRows(n),
                   quantity |-> fitted, payout |-> payout, amount |-> Amount(o, fitted),
                   serial |-> NextRefundFolio(f), payment_serial |-> NextPaymentFolio(f),
                   after |-> Remaining(Total(o), Refunded(o) + Amount(o, fitted) + Applied(o))]
  <2>1. txn' = [txn EXCEPT ![r] = u] /\ EditableRefund(n)
    BY <1>4 DEF ConfirmRefundRead
  <2>2. t = u
    BY <1>0, <2>1 DEF FundsInv, TxnShape
  <2>3. OrderRow(o) \in ConfirmRefundRows(n)
    BY DEF ConfirmRefundRows
  <2>4. ASSUME NEW l \in Filled(o)
        PROVE  AlreadyRefunded(o, l) + fitted[l] <= line[o][l].quantity
    <3>1. n \in Refunds /\ refund[n] # None
      BY <1>0, <2>1 DEF EditableRefund
    <3>2. /\ o \in Orders /\ fitted \in [LineIds -> Nat]
          /\ \A k \in LineIds : fitted[k] <= Refundable(o, k)
      BY <1>0, <3>1, FittedType
    <3>3. l \in LineIds /\ line[o][l] # None
      BY DEF Filled
    <3> HIDE DEF o, fitted
    <3>4. line[o][l].quantity \in Nat /\ AlreadyRefunded(o, l) \in Nat
      BY <1>0, <3>2, <3>3, FiguresAreNat DEF TablesTyped, Lines
    <3>5. fitted[l] \in Nat /\ fitted[l] <= Remaining(line[o][l].quantity, AlreadyRefunded(o, l))
      BY <3>2, <3>3 DEF Refundable
    <3>6. AlreadyRefunded(o, l) <= line[o][l].quantity
      BY <3>2, <3>3 DEF NotOverRefunded, Filled
    <3> QED BY <3>4, <3>5, <3>6 DEF Remaining
  <2> HIDE DEF o, fitted
  <2>5. u.op = "confirm_refund" /\ u.refund = n
    OBVIOUS
  <2>6. FitsTheOrder(u)
    BY <2>3, <2>4 DEF FitsTheOrder, o
  <2>7. DraftInHand(r, u) /\ OwedAsRead(u)
    BY <2>1 DEF DraftInHand, OwedAsRead
  <2> QED BY <2>2, <2>6, <2>7 DEF Current
<1> QED BY <1>1, <1>2, <1>3, <1>4

\* A confirmation of a refund: its lines were fitted to what was left.
LEMMA ConfirmRefunds ==
    ASSUME FundsInv, ClerksInv, OwnDrafts, NEW r \in Requests, NEW p \in Payments,
           ConfirmRefundCommit(r, p)
    PROVE  ClerksInv'
<1>1. PICK n \in Refunds, x \in RefundRows, y \in PaymentRows :
               /\ n = txn[r].refund /\ refund[n] \in RefundRows /\ refund[n].order \in Orders
               /\ refund' = [refund EXCEPT ![n] = x]
               /\ x.completed /\ x.cancelled = refund[n].cancelled /\ x.order = refund[n].order
               /\ x.quantity = txn[r].quantity
               /\ payment[p] = None /\ payment' = [payment EXCEPT ![p] = y]
               /\ order' = [order EXCEPT ![refund[n].order].paid = Settle(@, txn[r].after)]
               /\ txn[r].op = "confirm_refund" /\ Ends(r)
               /\ UNCHANGED <<line, application>>
  BY ConfirmedRows
<1>2. TablesTyped /\ LocksExclusive /\ Current(r, txn[r])
  BY DEF FundsInv, ClerksInv
<1>3. PICK o : o = x.order
  OBVIOUS
<1>4. /\ n \in Desk[r] /\ ~ refund[n].completed /\ ~ refund[n].cancelled
      /\ o = refund[n].order /\ o \in Orders /\ OrderRow(o) \in txn[r].rows
      /\ \A l \in Filled(o) : AlreadyRefunded(o, l) + x.quantity[l] <= line[o][l].quantity
  BY <1>1, <1>2, <1>3
     DEF Current, DraftInHand, FitsTheOrder, RefundOperations, EditableRefund
<1>5. ~ Counts(refund[n]) /\ Counts(x)
  BY <1>1, <1>4, NoneIsNoRefundRow DEF Counts, NoneIsNoRefundRow
<1>6. /\ \A k : Refunded(k)' = Refunded(k) + (IF k = o THEN Amount(k, x.quantity) ELSE 0)
      /\ \A k : \A l \in LineIds : AlreadyRefunded(k, l)' = AlreadyRefunded(k, l)
                   + (IF k = o THEN x.quantity[l] ELSE 0)
  <2>1. /\ \A k : Refunded(k)' = Refunded(k) + (IF k = x.order THEN Amount(k, x.quantity) ELSE 0)
        /\ \A k : \A l \in LineIds : AlreadyRefunded(k, l)' = AlreadyRefunded(k, l)
                     + (IF k = x.order THEN x.quantity[l] ELSE 0)
    BY <1>1, <1>2, <1>5, RefundCompleted
  <2> QED BY <1>3, <2>1
<1>7. \A k : Applied(k)' = Applied(k)
  BY <1>1, ApplicationsStand
<1>8. \A k : Filled(k)' = Filled(k) /\ Filled(k) \in SUBSET LineIds
  BY <1>1, LinesStand DEF Filled
<1>9. \A k \in Orders : Refunded(k) \in Nat /\ \A l \in LineIds : AlreadyRefunded(k, l) \in Nat
  BY <1>2, FiguresAreNat
<1>10. NotOverRefunded'
  <2>1. ASSUME NEW k \in Orders, NEW l \in Filled(k)
        PROVE  AlreadyRefunded(k, l)' <= line[k][l].quantity
    <3>1. l \in LineIds /\ AlreadyRefunded(k, l) \in Nat
      BY <1>8, <1>9
    <3>2. CASE k = o
      BY <1>4, <1>6, <3>1, <3>2
    <3>3. CASE k # o
      <4>1. AlreadyRefunded(k, l)' = AlreadyRefunded(k, l)
        BY <1>6, <3>1, <3>3
      <4> QED BY <4>1 DEF ClerksInv, NotOverRefunded
    <3> QED BY <3>2, <3>3
  <2> QED BY <1>1, <1>8, <2>1 DEF NotOverRefunded
<1>11. ASSUME NEW k \in Orders, k # o PROVE SameFigures(k)
  BY <1>6, <1>7, <1>9, <1>11 DEF SameFigures
<1>12. \A q \in Requests : Current(q, txn[q])'
  <2>1. txn'[r] = Idle /\ \A q \in Requests \ {r} : txn'[q] = txn[q]
    BY <1>1, RequestEnds
  <2>2. Free(r, {OrderRow(o)})
    BY <1>1, <1>4 DEF ConfirmRefundCommit, Free
  <2>3. \A m \in Refunds \ Desk[r] : refund[m] # None => refund'[m] = refund[m]
    BY <1>1, <1>2, <1>4 DEF TablesTyped
  <2>4. PICK moved : moved = {o}
    OBVIOUS
  <2>5. (\A k \in Orders \ moved : SameFigures(k)) /\ \A k \in moved : Free(r, {OrderRow(k)})
    BY <1>11, <2>2, <2>4
  <2> QED BY <1>1, <2>1, <2>3, <2>5, OthersStand
<1> QED BY <1>10, <1>12 DEF ClerksInv

\* A refund is drafted, edited or cancelled: what is written was no completed
\* refund, and is none.
LEMMA DraftsMoveNothing ==
    ASSUME FundsInv, ClerksInv, OwnDrafts, NEW n \in Refunds, NEW x, ~ Counts(refund[n]), ~ Counts(x),
           refund' = [refund EXCEPT ![n] = x], UNCHANGED <<line, application>>
    PROVE  (\A o : SameFigures(o)) /\ NotOverRefunded'
<1>1. \A o : SameFigures(o)
  BY DraftWritten, ApplicationsStand DEF SameFigures, FundsInv
<1> QED BY <1>1, StillNotOver DEF ClerksInv

LEMMA EditRefunds ==
    ASSUME FundsInv, ClerksInv, OwnDrafts, NEW r \in Requests,
           EditRefundCommit(r) \/ CancelRefundCommit(r)
    PROVE  ClerksInv'
<1>1. PICK n \in Refunds, x \in RefundRows :
          /\ n = txn[r].refund
          /\ refund' = [refund EXCEPT ![n] = x]
          /\ x.completed = refund[n].completed
          /\ txn[r].op \in RefundOperations /\ Ends(r)
          /\ UNCHANGED <<line, application>>
  BY EditedRow
<1>2. n \in Desk[r] /\ ~ refund[n].completed
  BY <1>1 DEF ClerksInv, Current, DraftInHand, EditableRefund
<1>3. (\A o : SameFigures(o)) /\ NotOverRefunded'
  <2>1. ~ Counts(refund[n]) /\ ~ Counts(x)
    BY <1>1, <1>2 DEF Counts
  <2> QED BY <1>1, <2>1, DraftsMoveNothing
<1>4. \A m \in Refunds \ Desk[r] : refund[m] # None => refund'[m] = refund[m]
  BY <1>1, <1>2 DEF FundsInv, TablesTyped
<1>5. txn'[r] = Idle /\ \A q \in Requests \ {r} : txn'[q] = txn[q]
  BY <1>1, RequestEnds
<1>6. \A q \in Requests : Current(q, txn[q])'
  <2>1. PICK moved : moved = {}
    OBVIOUS
  <2>2. (\A k \in Orders \ moved : SameFigures(k)) /\ \A k \in moved : Free(r, {OrderRow(k)})
    BY <1>3, <2>1
  <2> QED BY <1>1, <1>4, <1>5, <2>2, OthersStand
<1> QED BY <1>3, <1>6 DEF ClerksInv

LEMMA OpenRefunds ==
    ASSUME FundsInv, ClerksInv, OwnDrafts, NEW n \in Refunds, NEW o \in Orders, NEW f \in Facilities,
           OpenRefund(n, o, f)
    PROVE  ClerksInv'
<1> DEFINE x == [order |-> o, facility |-> f, lines |-> {l \in LineIds : Refundable(o, l) > 0},
                 quantity |-> [l \in LineIds |-> 0], completed |-> FALSE,
                 cancelled |-> FALSE, serial |-> 0, payout |-> None]
<1>1. /\ refund[n] = None /\ refund' = [refund EXCEPT ![n] = x]
      /\ UNCHANGED <<line, application, txn>>
  BY DEF OpenRefund
<1>2. ~ Counts(refund[n]) /\ ~ Counts(x)
  BY <1>1 DEF Counts
<1> HIDE DEF x
<1>3. (\A k : SameFigures(k)) /\ NotOverRefunded'
  BY <1>1, <1>2, DraftsMoveNothing
<1>4. \A m \in Refunds : refund[m] # None => refund'[m] = refund[m]
  BY <1>1 DEF FundsInv, TablesTyped
<1>5. ASSUME NEW q \in Requests PROVE Current(q, txn[q])'
  <2>1. PICK t : t = txn'[q]
    OBVIOUS
  <2>2. Current(q, t) /\ Sound(t)
    BY <1>1, <2>1 DEF ClerksInv, FundsInv
  <2>3. \A m \in Desk[q] : m \in Refunds
    BY RefundConstants DEF RefundConstants
  <2>4. PICK moved : moved = {}
    OBVIOUS
  <2>5. Current(q, t)'
    BY <1>1, <1>3, <1>4, <2>2, <2>3, <2>4, StillCurrent DEF FundsInv
  <2> QED BY <2>1, <2>5
<1> QED BY <1>3, <1>5 DEF ClerksInv

\* Applications move what an order owes under its row's lock.
LEMMA ApplyRefunds ==
    ASSUME FundsInv, ClerksInv, OwnDrafts, NEW r \in Requests, NEW a \in Applications,
           ApplyCommit(r, a)
    PROVE  ClerksInv'
<1>1. PICK x \in ApplicationRows :
          /\ x.order = txn[r].order /\ ~ x.cancelled
          /\ application[a] = None /\ application' = [application EXCEPT ![a] = x]
          /\ Ends(r) /\ UNCHANGED <<line, refund>>
  BY ApplyMakes
<1>2. PICK o : o = x.order
  OBVIOUS
<1>3. Free(r, {OrderRow(o)})
  BY <1>1, <1>2 DEF ApplyCommit
<1>4. TablesTyped
  BY DEF FundsInv
<1>5. \A k \in Orders : Applied(k) \in Nat
  BY <1>4, FiguresAreNat
<1>6. \A k \in Orders : k # o => Applied(k)' = Applied(k)
  <2>1. \A k : Applied(k)' = Applied(k) + (IF k = x.order THEN x.amount ELSE 0)
    BY <1>1, <1>4, ApplicationMade
  <2> QED BY <1>2, <1>5, <2>1
<1>7. \A k : Refunded(k)' = Refunded(k) /\ \A l : AlreadyRefunded(k, l)' = AlreadyRefunded(k, l)
  BY <1>1, RefundsStand
<1>8. NotOverRefunded'
  <2>1. \A k : Filled(k)' = Filled(k)
    BY <1>1, LinesStand
  <2> QED BY <1>1, <1>7, <2>1 DEF ClerksInv, NotOverRefunded
<1>9. txn'[r] = Idle /\ \A q \in Requests \ {r} : txn'[q] = txn[q]
  BY <1>1, RequestEnds
<1>10. \A q \in Requests : Current(q, txn[q])'
  <2>1. PICK moved : moved = {o}
    OBVIOUS
  <2>2. (\A k \in Orders \ moved : SameFigures(k)) /\ \A k \in moved : Free(r, {OrderRow(k)})
    BY <1>3, <1>6, <1>7, <2>1 DEF SameFigures
  <2> QED BY <1>1, <1>9, <2>2, OthersStand
<1> QED BY <1>8, <1>10 DEF ClerksInv

LEMMA ReverseRefunds ==
    ASSUME FundsInv, ClerksInv, OwnDrafts, NEW r \in Requests, ReverseCommit(r)
    PROVE  ClerksInv'
<1>1. PICK a : a = txn[r].application
  OBVIOUS
<1>2. PICK o : o = application[a].order
  OBVIOUS
<1>3. /\ txn[r].op = "reverse" /\ Ends(r) /\ Free(r, {OrderRow(o)})
      /\ application' = [application EXCEPT ![a].cancelled = TRUE]
      /\ UNCHANGED <<line, refund>>
  BY <1>1, <1>2 DEF ReverseCommit
<1>4. TablesTyped
  BY DEF FundsInv
<1>5. a \in Applications /\ application[a] # None
  BY <1>1, <1>3 DEF FundsInv, Sound, CashierSound
<1>6. \A k \in Orders : k # o => Applied(k)' = Applied(k)
  <2>1. \A k : Applied(k)' = Applied(k) - (IF k = application[a].order /\ ~ application[a].cancelled
                                          THEN application[a].amount ELSE 0)
    BY <1>3, <1>4, <1>5, ApplicationReversed
  <2>2. \A k \in Orders : Applied(k) \in Nat
    BY <1>4, FiguresAreNat
  <2> QED BY <1>2, <2>1, <2>2
<1>7. \A k : Refunded(k)' = Refunded(k) /\ \A l : AlreadyRefunded(k, l)' = AlreadyRefunded(k, l)
  BY <1>3, RefundsStand
<1>8. NotOverRefunded'
  <2>1. \A k : Filled(k)' = Filled(k)
    BY <1>3, LinesStand
  <2> QED BY <1>3, <1>7, <2>1 DEF ClerksInv, NotOverRefunded
<1>9. txn'[r] = Idle /\ \A q \in Requests \ {r} : txn'[q] = txn[q]
  BY <1>3, RequestEnds
<1>10. \A q \in Requests : Current(q, txn[q])'
  <2>1. PICK moved : moved = {o}
    OBVIOUS
  <2>2. (\A k \in Orders \ moved : SameFigures(k)) /\ \A k \in moved : Free(r, {OrderRow(k)})
    BY <1>3, <1>6, <1>7, <2>1 DEF SameFigures
  <2> QED BY <1>3, <1>9, <2>2, OthersStand
<1> QED BY <1>8, <1>10 DEF ClerksInv

\* Every other write leaves what orders owe and have given back alone.
LEMMA WritesMoveNothing ==
    ASSUME FundsInv, ClerksInv, NEW r \in Requests,
           \/ \E p \in Payments : CreatePaymentCommit(r, p)
           \/ VerifyCommit(r)
           \/ CancelCommit(r)
           \/ \E o \in Orders : SweepCancel(r, o) \/ SweepSkip(r, o)
           \/ StaleFlagsCommit(r)
           \/ Abort(r)
    PROVE  ClerksInv'
<1>1. CASE /\ Ends(r) /\ UNCHANGED <<line, application, refund>>
  <2>1. txn'[r] = Idle /\ \A q \in Requests \ {r} : txn'[q] = txn[q]
    BY <1>1, RequestEnds
  <2>2. PICK t : t = Idle
    OBVIOUS
  <2>3. Sound(t) /\ Current(r, t)
    BY <2>2, IdleIsSound, OthersAreCurrent
  <2> QED BY <1>1, <2>1, <2>2, <2>3, NothingMoved
<1>2. CASE \E o \in Orders : SweepCancel(r, o) \/ SweepSkip(r, o)
  <2>1. PICK o \in Orders : SweepCancel(r, o) \/ SweepSkip(r, o)
    BY <1>2
  <2>2. /\ txn[r].op = "sweep" /\ UNCHANGED <<line, application, refund>>
        /\ \/ txn' = [txn EXCEPT ![r] = SweepRest(r, o, {p \in txn[r].queue : LiveApplications(p) = {}})]
           \/ txn' = [txn EXCEPT ![r] = SweepRest(r, o, txn[r].clear)]
    BY <2>1 DEF SweepCancel, SweepSkip, tables
  <2>3. txn[r].queue \in SUBSET Orders /\ txn[r].clear \in SUBSET Orders
    BY <2>2 DEF FundsInv, Sound, CashierSound
  <2>4. PICK clear \in SUBSET Orders : txn' = [txn EXCEPT ![r] = SweepRest(r, o, clear)]
    BY <2>2, <2>3
  <2>5. PICK t : t = SweepRest(r, o, clear)
    OBVIOUS
  <2>6. Sound(t) /\ (t = Idle \/ (t.op \in Operations /\ Free(r, t.rows)))
    BY <2>2, <2>5, SweepGoesOn
  <2>7. txn'[r] = t /\ \A q \in Requests \ {r} : txn'[q] = txn[q]
    BY <2>4, <2>5, <2>6, RequestSteps
  <2>8. t = Idle \/ t.op = "sweep"
    <3>1. PICK u : u = txn[r]
      OBVIOUS
    <3>2. u \in [op : {"sweep"}, rows : {{}}, queue : SUBSET Orders, clear : SUBSET Orders]
      BY <2>2, <3>1 DEF FundsInv, Sound, CashierSound
    <3>3. t = Idle \/ t = [u EXCEPT !.queue = @ \ {o}, !.clear = clear]
      BY <2>5, <3>1 DEF SweepRest
    <3> QED BY <3>2, <3>3
  <2>9. Current(r, t)
    BY <2>8, OthersAreCurrent DEF RefundOperations
  <2> QED BY <2>2, <2>6, <2>7, <2>9, NothingMoved
<1> QED BY <1>1, <1>2 DEF CreatePaymentCommit, VerifyCommit, CancelCommit, StaleFlagsCommit, Abort,
                          tables

LEMMA NextClerks ==
    ASSUME FundsInv, ClerksInv, OwnDrafts, [RefundNext]_vars
    PROVE  ClerksInv'
<1>0. Desk \in [Requests -> SUBSET Refunds] /\ NotOverRefunded
  BY RefundConstants DEF RefundConstants, ClerksInv
\* Reads.
<1>1. ASSUME NEW r \in Requests,
             \/ \E c \in Customers, f \in Facilities, k \in Tenders : CreatePaymentRead(r, c, f, k)
             \/ \E p \in Payments, o \in Orders, amount \in Amounts, change \in Changes :
                   ApplyRead(r, p, o, amount, change)
             \/ \E a \in Applications : ReverseRead(r, a)
             \/ \E p \in Payments, v \in Verifiers : VerifyRead(r, p, v)
             \/ \E o \in Orders : CancelRead(r, o)
             \/ SweepRead(r)
             \/ StaleFlagsRead(r)
             \/ \E n \in Desk[r], l \in LineIds, q \in Quantities : EditRefundRead(r, n, l, q)
             \/ \E n \in Desk[r] : CancelRefundRead(r, n)
             \/ \E n \in Desk[r], payout \in Payouts : ConfirmRefundRead(r, n, payout)
      PROVE  ClerksInv'
  <2>1. PICK t : /\ Sound(t) /\ t.op \in Operations /\ Free(r, t.rows)
                 /\ txn' = [txn EXCEPT ![r] = t] /\ UNCHANGED tables
    BY <1>0, <1>1, ReadsBegin
  <2>2. txn'[r] = t /\ \A q \in Requests \ {r} : txn'[q] = txn[q]
    BY <2>1, RequestSteps
  <2>3. \/ t.op \notin RefundOperations \cup {"apply"}
        \/ \E p \in Payments, o \in Orders, amount \in Amounts, change \in Changes :
              ApplyRead(r, p, o, amount, change)
        \/ \E n \in Desk[r], l \in LineIds, q \in Quantities : EditRefundRead(r, n, l, q)
        \/ \E n \in Desk[r] : CancelRefundRead(r, n)
        \/ \E n \in Desk[r], payout \in Payouts : ConfirmRefundRead(r, n, payout)
    <3>1. txn = [q \in Requests |-> txn[q]] /\ t = txn'[r]
      BY <2>2 DEF FundsInv, TxnShape
    <3>2. ASSUME NEW c, NEW f, NEW k, CreatePaymentRead(r, c, f, k) PROVE t.op = "create_payment"
      BY <3>1, <3>2 DEF CreatePaymentRead
    <3>3. ASSUME NEW a, ReverseRead(r, a) PROVE t.op = "reverse"
      BY <3>1, <3>3 DEF ReverseRead
    <3>4. ASSUME NEW p, NEW v, VerifyRead(r, p, v) PROVE t.op = "verify"
      BY <3>1, <3>4 DEF VerifyRead
    <3>5. ASSUME NEW o, CancelRead(r, o) PROVE t.op = "cancel"
      BY <3>1, <3>5 DEF CancelRead
    <3>6. SweepRead(r) => t.op = "sweep"
      BY <3>1 DEF SweepRead
    <3>7. StaleFlagsRead(r) => t.op = "stale_flags"
      BY <3>1 DEF StaleFlagsRead
    <3> QED BY <1>1, <3>2, <3>3, <3>4, <3>5, <3>6, <3>7 DEF RefundOperations
  <2>4. Current(r, t)
    BY <1>0, <2>1, <2>3, OthersAreCurrent, ReadsAreCurrent
  <2> QED BY <2>1, <2>2, <2>4, NothingMoved DEF tables
<1>2. CASE DraftRefund
  BY <1>1, <1>2, OpenRefunds, EditRefunds DEF DraftRefund
<1>3. CASE ConfirmRefund
  BY <1>1, <1>3, ConfirmRefunds DEF ConfirmRefund
<1>4. CASE CreatePayment
  BY <1>1, <1>4, WritesMoveNothing DEF CreatePayment
<1>5. CASE Apply
  BY <1>1, <1>5, ApplyRefunds DEF Apply
<1>6. CASE Reverse
  BY <1>1, <1>6, ReverseRefunds DEF Reverse
<1>7. CASE Verify
  BY <1>1, <1>7, WritesMoveNothing DEF Verify
<1>8. CASE Cancel
  BY <1>1, <1>8, WritesMoveNothing DEF Cancel
<1>9. CASE Sweep
  BY <1>1, <1>9, WritesMoveNothing DEF Sweep
<1>10. CASE StaleFlags
  BY <1>1, <1>10, WritesMoveNothing DEF StaleFlags
<1>11. CASE \E r \in Requests : Abort(r)
  BY <1>11, WritesMoveNothing
<1>12. CASE UNCHANGED vars
  <2>1. \A o : SameFigures(o)
    BY <1>12, ApplicationsStand, RefundsStand DEF SameFigures, vars, tables
  <2>2. NotOverRefunded'
    BY <1>0, <1>12, <2>1, StillNotOver DEF vars, tables
  <2>3. ASSUME NEW q \in Requests PROVE Current(q, txn[q])'
    <3>1. PICK t : t = txn'[q]
      OBVIOUS
    <3>2. Current(q, t) /\ Sound(t)
      BY <1>12, <3>1 DEF ClerksInv, FundsInv, vars
    <3>3. PICK moved : moved = {}
      OBVIOUS
    <3>4. Current(q, t)'
      BY <1>12, <2>1, <3>2, <3>3, StillCurrent DEF FundsInv, vars, tables
    <3> QED BY <3>1, <3>4
  <2> QED BY <2>2, <2>3 DEF ClerksInv
<1> QED BY <1>2, <1>3, <1>4, <1>5, <1>6, <1>7, <1>8, <1>9, <1>10, <1>11, <1>12
        DEF RefundNext, PaymentNext

LEMMA InitClerks ==
    ASSUME PaymentInit
    PROVE  ClerksInv
<1>1. TablesTyped /\ txn = [r \in Requests |-> Idle] /\ refund = [n \in Refunds |-> None]
  BY InitTyped DEF PaymentInit
<1>2. ASSUME NEW o \in Orders, NEW l \in Filled(o)
      PROVE  AlreadyRefunded(o, l) <= line[o][l].quantity
  <2>1. CompletedRefunds(o) = {}
    BY <1>1 DEF CompletedRefunds
  <2>2. AlreadyRefunded(o, l) = 0
    BY <2>1, RefundedIsSum, SumOfNone
  <2>3. line[o][l].quantity \in Nat
    BY <1>1 DEF Filled, TablesTyped, Lines
  <2> QED BY <2>2, <2>3
<1>3. \A r \in Requests : txn[r] = Idle
  BY <1>1
<1>4. ASSUME NEW r \in Requests PROVE Current(r, txn[r])
  <2>1. PICK t : t = txn[r]
    OBVIOUS
  <2> QED BY <1>3, <2>1, OthersAreCurrent
<1> QED BY <1>2, <1>4 DEF ClerksInv, NotOverRefunded

THEOREM ClerksStayCurrent ==
    ASSUME OwnDrafts
    PROVE  RefundSpec => []ClerksInv
<1>1. PaymentInit => ClerksInv
  BY InitClerks
<1>2. FundsInv /\ ClerksInv /\ [RefundNext]_vars => ClerksInv'
  BY NextClerks
<1> QED BY <1>1, <1>2, FundsAreKept, PTL DEF RefundSpec

\* Clerks at different drafts, confirming refunds of the same orders while
\* others edit, cancel, apply and reverse, never return more of a line than it
\* sold.
THEOREM RefundsWithinSale ==
    ASSUME OwnDrafts
    PROVE  RefundSpec => []NotOverRefunded
<1>1. ClerksInv => NotOverRefunded
  BY DEF ClerksInv
<1> QED BY <1>1, ClerksStayCurrent, PTL

-----------------------------------------------------------------------------
(***************************************************************************)
(* The paid flag follows the balance.                                      *)
(***************************************************************************)
\* What an order owes depends on three figures.
LEMMA BalanceStands ==
    ASSUME UNCHANGED line, NEW o, Applied(o)' = Applied(o), Refunded(o)' = Refunded(o)
    PROVE  Balance(o)' = Balance(o)
BY LinesStand DEF Balance

LEMMA InStepStands ==
    ASSUME NEW o, order'[o].paid = order[o].paid, Balance(o)' = Balance(o)
    PROVE  InStep(o) => InStep(o)'
BY DEF InStep

\* Settling an order to what it owes, when that only falls.
LEMMA SettledInStep ==
    ASSUME NEW o, NEW after, order'[o].paid = Settle(order[o].paid, after),
           Balance(o) \in Nat, Balance(o)' = after, after \in Nat, after <= Balance(o)
    PROVE  InStep(o) => InStep(o)'
<1>1. order'[o].paid <=> order[o].paid \/ after <= 1
  BY DEF Settle, Settled
<1>2. InStep(o) <=> (order[o].paid <=> Balance(o) <= 1)
  BY DEF InStep, Settled
<1>3. InStep(o)' <=> (order'[o].paid <=> after <= 1)
  BY DEF InStep, Settled
<1> QED BY <1>1, <1>2, <1>3

\* Reopening it from what it owed to what it owes, when that only rises.
LEMMA ReopenedInStep ==
    ASSUME NEW o, NEW before, NEW after, order'[o].paid = Reopen(order[o].paid, before, after),
           order[o].paid \in BOOLEAN,
           before = Balance(o), after = Balance(o)', before \in Nat, after \in Nat, before <= after
    PROVE  InStep(o) => InStep(o)'
<1>1. order'[o].paid <=> order[o].paid /\ ~ (before <= 1 /\ 1 < after)
  BY DEF Reopen, Settled
<1>2. InStep(o) <=> (order[o].paid <=> before <= 1)
  BY DEF InStep, Settled
<1>3. InStep(o)' <=> (order'[o].paid <=> after <= 1)
  BY DEF InStep, Settled
<1> QED BY <1>1, <1>2, <1>3

\* Deducting more leaves less.
LEMMA Deducting ==
    ASSUME NEW total \in Nat, NEW deducted \in Nat, NEW more \in Nat
    PROVE  /\ Remaining(total, deducted + more) \in Nat
           /\ Remaining(total, deducted + more) <= Remaining(total, deducted)
           /\ more <= Remaining(total, deducted) =>
                  Remaining(total, deducted + more) = Remaining(total, deducted) - more
BY DEF Remaining

\* One column of one order is written.
LEMMA OtherFlags ==
    ASSUME TablesTyped, NEW o \in Orders, NEW k \in Orders, NEW b,
           \/ order' = [order EXCEPT ![k].paid = b]
           \/ order' = [order EXCEPT ![k].cancelled = b]
    PROVE  /\ o # k \/ order' = [order EXCEPT ![k].cancelled = b] => order'[o].paid = order[o].paid
           /\ order' = [order EXCEPT ![k].paid = b] => order'[k].paid = b
<1>1. order[k] \in OrderRows /\ k \in DOMAIN order /\ o \in DOMAIN order
  BY DEF TablesTyped
<1>2. order' = [order EXCEPT ![k].paid = b] => order'[k].paid = b /\ (o # k => order'[o] = order[o])
  <2>1. PICK x : x = [order[k] EXCEPT !.paid = b]
    OBVIOUS
  <2>2. x.paid = b
    BY <1>1, <2>1 DEF OrderRows
  <2> QED BY <1>1, <2>1, <2>2
<1>3. order' = [order EXCEPT ![k].cancelled = b] => order'[o].paid = order[o].paid
  <2>1. PICK x : x = [order[k] EXCEPT !.cancelled = b]
    OBVIOUS
  <2>2. x.paid = order[k].paid
    BY <1>1, <2>1 DEF OrderRows
  <2> QED BY <1>1, <2>1, <2>2
<1> QED BY <1>2, <1>3

LEMMA ApplyFollows ==
    ASSUME FundsInv, ClerksInv, NEW r \in Requests, NEW a \in Applications, ApplyCommit(r, a),
           NEW o \in Orders
    PROVE  InStep(o) => InStep(o)'
<1>1. PICK x \in ApplicationRows :
          /\ x.payment = txn[r].payment /\ x.order = txn[r].order
          /\ x.amount = txn[r].amount /\ x.change = txn[r].change /\ ~ x.cancelled
          /\ application[a] = None /\ application' = [application EXCEPT ![a] = x]
          /\ order' = [order EXCEPT ![x.order].paid = Settle(@, txn[r].after)]
          /\ txn[r].op = "apply" /\ Ends(r)
          /\ UNCHANGED <<line, payment, refund>>
  BY ApplyMakes
<1>2. TablesTyped /\ Current(r, txn[r])
  BY DEF FundsInv, ClerksInv
<1>3. PICK after : after = txn[r].after
  OBVIOUS
<1>4. x.order \in Orders /\ x.amount \in Nat
  BY DEF ApplicationRows
<1>5. x.amount <= Balance(x.order) /\ after = Balance(x.order) - x.amount
  BY <1>1, <1>2, <1>3 DEF Current, OwedAsRead
<1>6. \A k : Applied(k)' = Applied(k) + (IF k = x.order THEN x.amount ELSE 0)
  BY <1>1, <1>2, ApplicationMade
<1>7. /\ Applied(o) \in Nat /\ Refunded(o) \in Nat /\ Total(o) \in Nat /\ Balance(o) \in Nat
      /\ Refunded(o)' = Refunded(o) /\ Total(o)' = Total(o)
  BY <1>1, <1>2, FiguresAreNat, RefundsStand, LinesStand
<1>8. PICK b : b = Settle(order[x.order].paid, after)
  OBVIOUS
<1>9. order' = [order EXCEPT ![x.order].paid = b]
  BY <1>1, <1>3, <1>8
<1>10. CASE o = x.order
  <2>1. order'[o].paid = Settle(order[o].paid, after)
    <3>1. order'[x.order].paid = b
      BY <1>2, <1>4, <1>9, OtherFlags
    <3> QED BY <1>8, <1>10, <3>1
  <2> DEFINE d == Refunded(o) + Applied(o)
             t == Total(o)
             m == x.amount
  <2>2. Balance(o) = Remaining(t, d) /\ d \in Nat /\ t \in Nat /\ m \in Nat
    BY <1>4, <1>7 DEF Balance
  <2>3. Balance(o)' = Remaining(t, Refunded(o) + (Applied(o) + m))
    BY <1>6, <1>7, <1>10 DEF Balance
  <2>4. Refunded(o) + (Applied(o) + m) = d + m
    BY <1>4, <1>7
  <2>5. m <= Balance(o) /\ after = Balance(o) - m
    BY <1>5, <1>10
  <2> HIDE DEF d, t, m
  <2>6. Balance(o)' = Balance(o) - m /\ Balance(o)' \in Nat /\ Balance(o)' <= Balance(o)
    <3>1. Remaining(t, d + m) = Remaining(t, d) - m /\ Remaining(t, d + m) \in Nat
          /\ Remaining(t, d + m) <= Remaining(t, d)
      BY <2>2, <2>5, Deducting
    <3> QED BY <2>2, <2>3, <2>4, <3>1
  <2>7. Balance(o)' = after
    BY <2>5, <2>6
  <2> QED BY <1>7, <2>1, <2>6, <2>7, SettledInStep
<1>11. CASE o # x.order
  <2>1. order'[o].paid = order[o].paid
    BY <1>2, <1>4, <1>9, <1>11, OtherFlags
  <2>2. Balance(o)' = Balance(o)
    BY <1>1, <1>6, <1>7, <1>11, BalanceStands
  <2> QED BY <2>1, <2>2, InStepStands
<1> QED BY <1>10, <1>11

LEMMA ReverseFollows ==
    ASSUME FundsInv, NEW r \in Requests, ReverseCommit(r), NEW o \in Orders, ~ Overtaken(r, o)
    PROVE  InStep(o) => InStep(o)'
<1>1. PICK a : a = txn[r].application
  OBVIOUS
<1>2. PICK k : k = application[a].order
  OBVIOUS
<1>3. PICK before : before = txn[r].before
  OBVIOUS
<1>4. PICK after : after = txn[r].after
  OBVIOUS
<1>5. /\ txn[r].op = "reverse"
      /\ application' = [application EXCEPT ![a].cancelled = TRUE]
      /\ order' = [order EXCEPT ![k].paid = Reopen(@, before, after)]
      /\ UNCHANGED <<line, payment, refund>>
  BY <1>1, <1>2, <1>3, <1>4 DEF ReverseCommit
<1>6. TablesTyped /\ a \in Applications /\ application[a] # None
  BY <1>1, <1>5 DEF FundsInv, Sound, CashierSound
<1>7. application[a] \in ApplicationRows
  BY <1>6 DEF TablesTyped
<1>8. k \in Orders /\ application[a].amount \in Nat
  BY <1>2, <1>7 DEF ApplicationRows
<1>9. PICK m : m = IF o = k /\ ~ application[a].cancelled THEN application[a].amount ELSE 0
  OBVIOUS
<1>10. Applied(o)' = Applied(o) - m /\ m \in Nat
  <2>1. \A p : Applied(p)' = Applied(p) - (IF p = application[a].order /\ ~ application[a].cancelled
                                          THEN application[a].amount ELSE 0)
    BY <1>5, <1>6, ApplicationReversed
  <2> QED BY <1>2, <1>8, <1>9, <2>1
<1>11. /\ Applied(o) \in Nat /\ Refunded(o) \in Nat /\ Total(o) \in Nat /\ Balance(o) \in Nat
       /\ Refunded(o)' = Refunded(o) /\ Total(o)' = Total(o)
  BY <1>5, <1>6, FiguresAreNat, RefundsStand, LinesStand
<1>12. PICK b : b = Reopen(order[k].paid, before, after)
  OBVIOUS
<1>13. order' = [order EXCEPT ![k].paid = b]
  BY <1>5, <1>12
<1>14. CASE o = k
  <2>1. order'[o].paid = Reopen(order[o].paid, before, after)
    BY <1>6, <1>8, <1>12, <1>13, <1>14, OtherFlags
  <2>2. before = Balance(o) /\ after = Balance(o)'
    BY <1>1, <1>2, <1>3, <1>4, <1>5, <1>14 DEF Overtaken
  <2>3. Balance(o)' \in Nat /\ Balance(o) <= Balance(o)'
    BY <1>10, <1>11 DEF Balance, Remaining
  <2>4. order[o].paid \in BOOLEAN
    BY <1>6 DEF TablesTyped, OrderRows
  <2> QED BY <1>11, <2>1, <2>2, <2>3, <2>4, ReopenedInStep
<1>15. CASE o # k
  <2>1. order'[o].paid = order[o].paid
    BY <1>6, <1>8, <1>13, <1>15, OtherFlags
  <2>2. Applied(o)' = Applied(o)
    BY <1>9, <1>10, <1>11, <1>15
  <2>3. Balance(o)' = Balance(o)
    BY <1>5, <1>11, <2>2, BalanceStands
  <2> QED BY <2>1, <2>3, InStepStands
<1> QED BY <1>14, <1>15

LEMMA StaleFlagsFollow ==
    ASSUME FundsInv, NEW r \in Requests, StaleFlagsCommit(r), NEW o \in Orders, ~ Overtaken(r, o)
    PROVE  InStep(o) => InStep(o)'
<1>1. PICK os : os = txn[r].orders
  OBVIOUS
<1>2. /\ order' = [k \in Orders |-> IF k \in os THEN [order[k] EXCEPT !.paid = TRUE] ELSE order[k]]
      /\ txn[r].op = "stale_flags" /\ UNCHANGED <<line, application, refund>>
  BY <1>1 DEF StaleFlagsCommit
<1>3. Balance(o)' = Balance(o) /\ Balance(o) \in Nat
  <2>1. Applied(o)' = Applied(o) /\ Refunded(o)' = Refunded(o)
    BY <1>2, ApplicationsStand, RefundsStand
  <2> QED BY <1>2, <2>1, BalanceStands, FiguresAreNat DEF FundsInv
<1>4. ~ (Balance(o) > Settled)
  BY <1>2 DEF Overtaken
<1>5. CASE o \in os
  <2>1. order[o] \in OrderRows
    BY DEF FundsInv, TablesTyped
  <2>2. PICK x : x = [order[o] EXCEPT !.paid = TRUE]
    OBVIOUS
  <2>3. order'[o] = x /\ x.paid
    BY <1>2, <1>5, <2>1, <2>2 DEF OrderRows
  <2> QED BY <1>3, <1>4, <2>3 DEF InStep, Settled
<1>6. CASE o \notin os
  <2>1. order'[o] = order[o]
    BY <1>2, <1>6
  <2> QED BY <1>3, <2>1, InStepStands
<1> QED BY <1>5, <1>6

LEMMA ConfirmFollows ==
    ASSUME FundsInv, ClerksInv, NEW r \in Requests, NEW p \in Payments, ConfirmRefundCommit(r, p),
           NEW o \in Orders
    PROVE  InStep(o) => InStep(o)'
<1>1. PICK n \in Refunds, x \in RefundRows, y \in PaymentRows :
               /\ n = txn[r].refund /\ refund[n] \in RefundRows /\ refund[n].order \in Orders
               /\ refund' = [refund EXCEPT ![n] = x]
               /\ x.completed /\ x.cancelled = refund[n].cancelled /\ x.order = refund[n].order
               /\ x.quantity = txn[r].quantity
               /\ payment[p] = None /\ payment' = [payment EXCEPT ![p] = y]
               /\ order' = [order EXCEPT ![refund[n].order].paid = Settle(@, txn[r].after)]
               /\ txn[r].op = "confirm_refund" /\ Ends(r)
               /\ UNCHANGED <<line, application>>
  BY ConfirmedRows
<1>2. TablesTyped /\ Current(r, txn[r]) /\ Sound(txn[r])
  BY DEF FundsInv, ClerksInv
<1>3. PICK k : k = x.order
  OBVIOUS
<1>4. PICK m : m = txn[r].amount
  OBVIOUS
<1>5. PICK after : after = txn[r].after
  OBVIOUS
<1>6. /\ ~ refund[n].completed /\ ~ refund[n].cancelled
      /\ k = refund[n].order /\ k \in Orders /\ m \in Nat
      /\ m = Amount(k, x.quantity)
      /\ after = Remaining(Total(k), Refunded(k) + m + Applied(k))
  BY <1>1, <1>2, <1>3, <1>4, <1>5
     DEF Current, DraftInHand, FitsTheOrder, RefundOperations, EditableRefund, Sound, ClerkSound
<1>7. ~ Counts(refund[n]) /\ Counts(x)
  BY <1>1, <1>6, NoneIsNoRefundRow DEF Counts, NoneIsNoRefundRow
<1>8. Refunded(o)' = Refunded(o) + (IF o = k THEN m ELSE 0)
  <2>1. \A j : Refunded(j)' = Refunded(j) + (IF j = x.order THEN Amount(j, x.quantity) ELSE 0)
    BY <1>1, <1>2, <1>7, RefundCompleted
  <2> QED BY <1>3, <1>6, <2>1
<1>9. /\ Applied(o) \in Nat /\ Refunded(o) \in Nat /\ Total(o) \in Nat /\ Balance(o) \in Nat
      /\ Applied(o)' = Applied(o) /\ Total(o)' = Total(o)
  BY <1>1, <1>2, FiguresAreNat, ApplicationsStand, LinesStand
<1>10. PICK b : b = Settle(order[k].paid, after)
  OBVIOUS
<1>11. order' = [order EXCEPT ![k].paid = b]
  BY <1>1, <1>5, <1>6, <1>10
<1>12. CASE o = k
  <2>1. order'[o].paid = Settle(order[o].paid, after)
    <3>1. TablesTyped /\ k \in Orders /\ order' = [order EXCEPT ![k].paid = b]
      BY <1>2, <1>6, <1>11
    <3>2. order'[k].paid = b
      BY <3>1, OtherFlags
    <3> QED BY <1>10, <1>12, <3>2
  <2> DEFINE d == Refunded(o) + Applied(o)
             t == Total(o)
  <2>2. Balance(o) = Remaining(t, d) /\ d \in Nat /\ t \in Nat
    BY <1>9 DEF Balance
  <2>3. Balance(o)' = Remaining(t, (Refunded(o) + m) + Applied(o)) /\ Balance(o)' = after
    BY <1>6, <1>8, <1>9, <1>12 DEF Balance
  <2>4. (Refunded(o) + m) + Applied(o) = d + m
    BY <1>6, <1>9
  <2> HIDE DEF d, t
  <2>5. after \in Nat /\ after <= Balance(o)
    BY <1>6, <2>2, <2>3, <2>4, Deducting
  <2> QED BY <1>9, <2>1, <2>3, <2>5, SettledInStep
<1>13. CASE o # k
  <2>1. order'[o].paid = order[o].paid
    BY <1>2, <1>6, <1>11, <1>13, OtherFlags
  <2>2. Balance(o)' = Balance(o)
    BY <1>1, <1>8, <1>9, <1>13, BalanceStands
  <2> QED BY <2>1, <2>2, InStepStands
<1> QED BY <1>12, <1>13

\* No other step writes the flag, or moves what the order owes.
LEMMA DraftsFollow ==
    ASSUME FundsInv, ClerksInv, NEW o \in Orders,
           \/ \E n \in Refunds, k \in Orders, f \in Facilities : OpenRefund(n, k, f)
           \/ \E r \in Requests : EditRefundCommit(r) \/ CancelRefundCommit(r)
    PROVE  InStep(o) => InStep(o)'
<1>1. TablesTyped
  BY DEF FundsInv
<1>2. ASSUME NEW n \in Refunds, NEW x, ~ Counts(refund[n]), ~ Counts(x),
             refund' = [refund EXCEPT ![n] = x], UNCHANGED <<order, line, application>>
      PROVE  InStep(o) => InStep(o)'
  <2>1. Applied(o)' = Applied(o) /\ Refunded(o)' = Refunded(o)
    BY <1>1, <1>2, DraftWritten, ApplicationsStand
  <2>2. Balance(o)' = Balance(o)
    BY <1>2, <2>1, BalanceStands
  <2> QED BY <1>2, <2>2, InStepStands
<1>3. ASSUME NEW n \in Refunds, NEW k \in Orders, NEW f \in Facilities, OpenRefund(n, k, f)
      PROVE  InStep(o) => InStep(o)'
  <2> DEFINE x == [order |-> k, facility |-> f, lines |-> {l \in LineIds : Refundable(k, l) > 0},
                   quantity |-> [l \in LineIds |-> 0], completed |-> FALSE,
                   cancelled |-> FALSE, serial |-> 0, payout |-> None]
  <2>1. /\ refund[n] = None /\ refund' = [refund EXCEPT ![n] = x]
        /\ UNCHANGED <<order, line, application, txn>>
    BY <1>3 DEF OpenRefund
  <2>2. ~ Counts(refund[n]) /\ ~ Counts(x)
    BY <2>1 DEF Counts
  <2> HIDE DEF x
  <2> QED BY <1>2, <2>1, <2>2
<1>4. ASSUME NEW r \in Requests, EditRefundCommit(r) \/ CancelRefundCommit(r)
      PROVE  InStep(o) => InStep(o)'
  <2>1. PICK n \in Refunds, x \in RefundRows :
            /\ n = txn[r].refund
            /\ refund' = [refund EXCEPT ![n] = x]
            /\ x.completed = refund[n].completed
            /\ txn[r].op \in RefundOperations
            /\ UNCHANGED <<order, line, application>>
    BY <1>4, EditedRow
  <2>2. ~ refund[n].completed
    BY <2>1 DEF ClerksInv, Current, DraftInHand, EditableRefund
  <2>3. ~ Counts(refund[n]) /\ ~ Counts(x)
    BY <2>1, <2>2 DEF Counts
  <2> QED BY <1>2, <2>1, <2>3
<1> QED BY <1>3, <1>4

LEMMA CancelsFollow ==
    ASSUME FundsInv, NEW o \in Orders,
           \/ \E r \in Requests : CancelCommit(r)
           \/ \E r \in Requests, k \in Orders : SweepCancel(r, k)
    PROVE  InStep(o) => InStep(o)'
<1>1. TablesTyped
  BY DEF FundsInv
<1>2. PICK k : order' = [order EXCEPT ![k].cancelled = TRUE] /\ UNCHANGED <<line, application, refund>>
  BY DEF CancelCommit, SweepCancel
<1>3. order'[o].paid = order[o].paid
  <2>1. CASE k \in Orders
    BY <1>1, <1>2, <2>1, OtherFlags
  <2>2. CASE k \notin Orders
    BY <1>1, <1>2, <2>2 DEF TablesTyped
  <2> QED BY <2>1, <2>2
<1>4. Applied(o)' = Applied(o) /\ Refunded(o)' = Refunded(o)
  BY <1>2, ApplicationsStand, RefundsStand
<1>5. Balance(o)' = Balance(o)
  BY <1>2, <1>4, BalanceStands
<1> QED BY <1>3, <1>5, InStepStands

LEMMA OthersFollow ==
    ASSUME UNCHANGED <<order, line, application, refund>>, NEW o
    PROVE  InStep(o) => InStep(o)'
<1>1. Applied(o)' = Applied(o) /\ Refunded(o)' = Refunded(o)
  BY ApplicationsStand, RefundsStand
<1>2. Balance(o)' = Balance(o)
  BY <1>1, BalanceStands
<1> QED BY <1>2, InStepStands

LEMMA StepFollows ==
    ASSUME FundsInv, ClerksInv, RefundNext, NEW o \in Orders,
           \A r \in Requests : (txn[r] # Idle /\ txn'[r] = Idle) => ~ Overtaken(r, o)
    PROVE  InStep(o) => InStep(o)'
<1> USE DEF tables
<1>1. CASE DraftRefund
  BY <1>1, DraftsFollow, OthersFollow DEF DraftRefund, EditRefundRead, CancelRefundRead
<1>2. CASE ConfirmRefund
  BY <1>2, ConfirmFollows, OthersFollow DEF ConfirmRefund, ConfirmRefundRead
<1>3. CASE CreatePayment
  BY <1>3, OthersFollow DEF CreatePayment, CreatePaymentRead, CreatePaymentCommit
<1>4. CASE Apply
  BY <1>4, ApplyFollows, OthersFollow DEF Apply, ApplyRead
<1>5. ASSUME NEW r \in Requests, Ends(r), txn[r].op # "idle" PROVE ~ Overtaken(r, o)
  BY <1>5, RequestEnds, IdleIsNoOperation
<1>6. CASE Reverse
  <2>1. ASSUME NEW r \in Requests, ReverseCommit(r) PROVE InStep(o) => InStep(o)'
    <3>1. Ends(r) /\ txn[r].op # "idle"
      BY <2>1 DEF ReverseCommit
    <3> QED BY <1>5, <2>1, <3>1, ReverseFollows
  <2> QED BY <1>6, <2>1, OthersFollow DEF Reverse, ReverseRead
<1>7. CASE Verify
  BY <1>7, OthersFollow DEF Verify, VerifyRead, VerifyCommit
<1>8. CASE Cancel
  BY <1>8, CancelsFollow, OthersFollow DEF Cancel, CancelRead
<1>9. CASE Sweep
  BY <1>9, CancelsFollow, OthersFollow DEF Sweep, SweepRead, SweepSkip
<1>10. CASE StaleFlags
  <2>1. ASSUME NEW r \in Requests, StaleFlagsCommit(r) PROVE InStep(o) => InStep(o)'
    <3>1. Ends(r) /\ txn[r].op # "idle"
      BY <2>1 DEF StaleFlagsCommit
    <3> QED BY <1>5, <2>1, <3>1, StaleFlagsFollow
  <2> QED BY <1>10, <2>1, OthersFollow DEF StaleFlags, StaleFlagsRead
<1>11. CASE \E r \in Requests : Abort(r)
  BY <1>11, OthersFollow DEF Abort
<1> QED BY <1>1, <1>2, <1>3, <1>4, <1>6, <1>7, <1>8, <1>9, <1>10, <1>11
        DEF RefundNext, PaymentNext

\* No step takes an order's flag out of step with what it owes, whatever runs
\* beside it, but a write made on overtaken reads.
THEOREM FlagsFollow ==
    ASSUME OwnDrafts
    PROVE  RefundSpec => FlagFollowsBalance
<1>1. FundsInv /\ ClerksInv /\ [RefundNext]_vars =>
          [\A o \in Orders :
              (/\ InStep(o)
               /\ \A r \in Requests : (txn[r] # Idle /\ txn'[r] = Idle) => ~ Overtaken(r, o))
              => InStep(o)']_vars
  BY StepFollows
<1> QED BY <1>1, FundsAreKept, ClerksStayCurrent, PTL DEF RefundSpec, FlagFollowsBalance
=============================================================================
