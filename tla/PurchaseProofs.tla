---------------------------- MODULE PurchaseProofs ----------------------------
(***************************************************************************)
(* What PurchaseReceipt guarantees for every number of requests, orders,   *)
(* lines, warehouses, receipts and buyers, whichever operations overlap:   *)
(* a line is ordered once, and never received beyond what was ordered.     *)
(***************************************************************************)
EXTENDS PurchaseReceipt, NumberSets

-----------------------------------------------------------------------------
(***************************************************************************)
(* The inductive invariant.                                                *)
(***************************************************************************)
Operations == {"submit", "mark", "cancel_form", "take", "group", "confirm_order",
               "confirm", "cancel", "complement"}

\* The columns of an order line that the proofs use; its price is any value.
IsOrderLine(x) ==
    x \in [order : Orders, fline : FormLines \cup {None}, product : Products,
           warehouse : Nat, quantity : Nat, price : {x.price}]

IsPlan(plan) ==
    /\ DOMAIN plan \in SUBSET Nat
    /\ IsFiniteSet(DOMAIN plan)
    /\ \A w \in DOMAIN plan : plan[w] \in [OrderLines -> Nat]

\* The tables keep their shape.
PurchaseTypes ==
    /\ order \in [Orders -> DocStatuses \cup {None}]
    /\ DOMAIN oline = OrderLines
    /\ oline = [k \in OrderLines |-> oline[k]]
    /\ \A k \in OrderLines : oline[k] # None => IsOrderLine(oline[k])
    /\ receipt \in [Receipts -> ReceiptRows \cup {None}]
    /\ rline \in [Receipts -> [OrderLines -> Nat]]
    /\ txn = [r \in Requests |-> txn[r]]
    /\ \A r \in Requests : txn[r] = Idle \/ txn[r].op \in Operations

Orderers == {"confirm_order", "complement"}

\* A request in flight: what it names is there, and stays as it was read while
\* the rows it took are its own.
BuyerSound(t) ==
    t.op \in {"take", "group"} =>
        /\ t.arg.lines \in SUBSET FormLines
        /\ \A l \in t.arg.lines : LineRow(l) \in t.rows /\ LiveLines(l) = {}
        /\ t.op = "take" =>
              /\ t.arg.order \in Orders
              /\ order[t.arg.order] = "DRAFT"
              /\ OrderRow(t.arg.order) \in t.rows

\* What a plan is about to write on receipts is room the order still has.
PlanFits(o, plan) ==
    \A w \in DOMAIN plan : \A k \in OrderLines : plan[w][k] # 0 =>
        /\ oline[k] # None
        /\ oline[k].order = o
        /\ oline[k].warehouse = w
        /\ HeldLive(k) + plan[w][k] <= oline[k].quantity

OrdererSound(t) ==
    t.op \in Orderers =>
        /\ t.arg.order \in Orders
        /\ OrderRow(t.arg.order) \in t.rows
        /\ order[t.arg.order] = IF t.op = "confirm_order" THEN "DRAFT" ELSE "COMPLETED"
        /\ IsPlan(t.arg.plan)
        /\ PlanFits(t.arg.order, t.arg.plan)

StorekeeperSound(t) ==
    t.op \in {"confirm", "cancel"} =>
        /\ t.arg.receipt \in Receipts
        /\ ReceiptRow(t.arg.receipt) \in t.rows
        /\ receipt[t.arg.receipt] # None
        /\ t.op = "confirm" => receipt[t.arg.receipt].status = "DRAFT"

Sound(t) == BuyerSound(t) /\ OrdererSound(t) /\ StorekeeperSound(t)

\* No two requests hold a row.
RowsExclusive ==
    \A r, q \in Requests : r # q => Holds(r) \cap Holds(q) = {}

\* An order line's order exists.
LinesAreOrdered ==
    \A k \in OrderLines : oline[k] # None => order[oline[k].order] # None

\* A receipt is of a confirmed order, and holds that order's lines for its
\* own warehouse.
ReceiptsAreOrdered ==
    \A n \in Receipts :
        /\ receipt[n] # None => order[receipt[n].order] = "COMPLETED"
        /\ \A k \in OrderLines : rline[n][k] # 0 =>
              /\ receipt[n] # None
              /\ oline[k] # None
              /\ receipt[n].order = oline[k].order
              /\ receipt[n].warehouse = oline[k].warehouse

\* A request line is on one live order line at most.
OneLiveLine ==
    \A l \in FormLines : \A j, k \in LiveLines(l) : j = k

PurchaseInv ==
    /\ PurchaseTypes
    /\ RowsExclusive
    /\ LinesAreOrdered
    /\ ReceiptsAreOrdered
    /\ OneLiveLine
    /\ NeverOverReceived
    /\ \A r \in Requests : Sound(txn[r])

-----------------------------------------------------------------------------
(***************************************************************************)
(* Rows, plans and what receipts hold.                                     *)
(***************************************************************************)
LEMMA RowsDiffer ==
    /\ \A l, m : LineRow(l) = LineRow(m) => l = m
    /\ \A o, p : OrderRow(o) = OrderRow(p) => o = p
    /\ \A n, m : ReceiptRow(n) = ReceiptRow(m) => n = m
BY DEF LineRow, OrderRow, ReceiptRow

\* What a request holds, another does not.
LEMMA HeldByOne ==
    ASSUME RowsExclusive, NEW r \in Requests, NEW q \in Requests, NEW row,
           txn[r].op # "idle", txn[q].op # "idle", row \in txn[r].rows, row \in txn[q].rows
    PROVE  r = q
BY DEF RowsExclusive, Holds

\* What live receipts hold of a line is a number of units.
LEMMA HeldLiveIsNat ==
    ASSUME PurchaseTypes, NEW k \in OrderLines
    PROVE  HeldLive(k) \in Nat /\ Received(k) \in Nat
<1> DEFINE f == [n \in Receipts |-> rline[n][k]]
           S == {n \in Receipts : receipt[n] # None /\ receipt[n].status # "CANCELLED"}
           R == {n \in Receipts : receipt[n] # None /\ receipt[n].status = "COMPLETED"}
<1>1. \A n \in Receipts : f[n] \in Nat
  BY DEF PurchaseTypes
<1>2. S \in SUBSET Receipts /\ R \in SUBSET Receipts
  OBVIOUS
<1>3. IsFiniteSet(S) /\ IsFiniteSet(R)
  BY <1>2, FS_Subset, PurchaseConstants DEF PurchaseConstants
<1>4. HeldLive(k) = SumFunctionOnSet(f, S) /\ Received(k) = SumFunctionOnSet(f, R)
  BY DEF HeldLive, Received, HeldBy
<1> HIDE DEF f, S, R
<1>5. (\A n \in S : f[n] \in Nat) /\ (\A n \in R : f[n] \in Nat)
  BY <1>1, <1>2
<1>6. SumFunctionOnSet(f, S) \in Nat /\ SumFunctionOnSet(f, R) \in Nat
  BY <1>3, <1>5, SumIsNat
<1> QED BY <1>4, <1>6

\* A line no receipt holds is not held.
LEMMA HeldNowhere ==
    ASSUME NEW k \in OrderLines, \A n \in Receipts : rline[n][k] = 0
    PROVE  HeldLive(k) = 0
<1> DEFINE f == [n \in Receipts |-> rline[n][k]]
           S == {n \in Receipts : receipt[n] # None /\ receipt[n].status # "CANCELLED"}
<1>1. IsFiniteSet(S)
  BY FS_Subset, PurchaseConstants DEF PurchaseConstants
<1>2. \A n \in S : f[n] = 0
  OBVIOUS
<1>3. HeldLive(k) = SumFunctionOnSet(f, S)
  BY DEF HeldLive, HeldBy
<1> HIDE DEF f, S
<1> QED BY <1>1, <1>2, <1>3, SumOfZeros

\* Where no draft of its order and warehouse is open, what live receipts hold
\* of a line is what has been received.
LEMMA NothingDrafted ==
    ASSUME PurchaseTypes, ReceiptsAreOrdered, NEW k \in OrderLines, NEW o, NEW w,
           oline[k] # None, oline[k].order = o, oline[k].warehouse = w, OpenDrafts(o, w) = {}
    PROVE  HeldLive(k) = Received(k)
<1> DEFINE f == [n \in Receipts |-> rline[n][k]]
           S == {n \in Receipts : receipt[n] # None /\ receipt[n].status # "CANCELLED"}
           R == {n \in Receipts : receipt[n] # None /\ receipt[n].status = "COMPLETED"}
<1>1. IsFiniteSet(S) /\ R \in SUBSET S
  BY FS_Subset, PurchaseConstants DEF PurchaseConstants
<1>2. \A n \in S : f[n] \in Int
  BY DEF PurchaseTypes
<1>3. ASSUME NEW n \in S \ R PROVE f[n] = 0
  <2>1. n \in Receipts /\ receipt[n] # None /\ receipt[n].status = "DRAFT"
    BY DEF PurchaseTypes, ReceiptRows, DocStatuses
  <2>2. ~ (receipt[n].order = o /\ receipt[n].warehouse = w)
    BY <2>1 DEF OpenDrafts, IsReceipt
  <2> QED BY <2>1, <2>2 DEF ReceiptsAreOrdered
<1>4. HeldLive(k) = SumFunctionOnSet(f, S) /\ Received(k) = SumFunctionOnSet(f, R)
  BY DEF HeldLive, Received, HeldBy
<1> HIDE DEF f, S, R
<1>5. SumFunctionOnSet(f, S) = SumFunctionOnSet(f, R)
  BY <1>1, <1>2, <1>3, SumOfPart
<1> QED BY <1>4, <1>5

\* The plan of a confirmation is the room its lines have.
LEMMA PlanIsRoom ==
    ASSUME PurchaseTypes, NeverOverReceived, NEW o \in Orders
    PROVE  IsPlan(Plan(o)) /\ PlanFits(o, Plan(o))
<1> DEFINE owed(k) == oline[k].quantity - HeldLive(k)
           lines == {k \in LinesOn(o) : oline[k].product \in Stockable /\ owed(k) > 0}
           ws == {oline[k].warehouse : k \in lines}
           plan == [w \in ws |-> [k \in OrderLines |->
                       IF k \in lines /\ oline[k].warehouse = w THEN owed(k) ELSE 0]]
<1>1. Plan(o) = plan
  BY DEF Plan
<1>2. \A k \in lines : k \in OrderLines /\ oline[k] # None /\ oline[k].order = o
  BY DEF LinesOn
<1>3. \A k \in OrderLines : oline[k] # None => oline[k].warehouse \in Nat /\ oline[k].quantity \in Nat
  BY DEF PurchaseTypes, IsOrderLine
<1>4. \A k \in lines : owed(k) \in Nat /\ HeldLive(k) + owed(k) <= oline[k].quantity
  BY <1>2, <1>3, HeldLiveIsNat
<1>5. ws \in SUBSET Nat
  BY <1>2, <1>3
<1>6. IsFiniteSet(ws)
  <2>1. IsFiniteSet(lines)
    BY FS_Subset, <1>2, PurchaseConstants DEF PurchaseConstants
  <2> DEFINE g == [k \in lines |-> oline[k].warehouse]
  <2> HIDE DEF lines
  <2>2. g \in Surjection(lines, ws)
    BY DEF Surjection
  <2> QED BY <2>1, <2>2, FS_Surjection
<1> HIDE DEF lines, owed
<1>7. DOMAIN plan = ws
  OBVIOUS
<1>8. \A w \in ws : plan[w] \in [OrderLines -> Nat]
  BY <1>4
<1>9. IsPlan(plan)
  BY <1>5, <1>6, <1>7, <1>8 DEF IsPlan
<1>10. ASSUME NEW w \in ws, NEW k \in OrderLines, plan[w][k] # 0
       PROVE  k \in lines /\ oline[k].warehouse = w /\ plan[w][k] = owed(k)
  BY <1>10
<1> HIDE DEF plan
<1>11. PlanFits(o, plan)
  BY <1>2, <1>4, <1>7, <1>10 DEF PlanFits
<1> QED BY <1>1, <1>9, <1>11

\* A complementary receipt's plan is the room its order still has in the
\* warehouse.
LEMMA RemainderIsRoom ==
    ASSUME PurchaseTypes, ReceiptsAreOrdered, NEW o \in Orders, NEW w \in Nat, OpenDrafts(o, w) = {}
    PROVE  IsPlan([v \in {w} |-> Remaining(o, v)]) /\ PlanFits(o, [v \in {w} |-> Remaining(o, v)])
<1> DEFINE plan == [v \in {w} |-> Remaining(o, v)]
<1>1. DOMAIN plan = {w} /\ plan[w] = Remaining(o, w)
  OBVIOUS
<1>2. \A k \in OrderLines : oline[k] # None => oline[k].quantity \in Nat
  BY DEF PurchaseTypes, IsOrderLine
<1>3. Remaining(o, w) \in [OrderLines -> Nat]
  BY <1>2, HeldLiveIsNat DEF Remaining, LinesOn
<1>4. IsPlan(plan)
  BY <1>1, <1>3, FS_Singleton DEF IsPlan
<1>5. ASSUME NEW k \in OrderLines, Remaining(o, w)[k] # 0
      PROVE  /\ oline[k] # None
             /\ oline[k].order = o
             /\ oline[k].warehouse = w
             /\ HeldLive(k) + Remaining(o, w)[k] <= oline[k].quantity
  <2>1. /\ oline[k] # None /\ oline[k].order = o /\ oline[k].warehouse = w
        /\ Remaining(o, w)[k] = oline[k].quantity - Received(k)
    BY <1>5 DEF Remaining, LinesOn
  <2>2. HeldLive(k) = Received(k)
    BY <2>1, NothingDrafted
  <2> QED BY <1>2, <2>1, <2>2, HeldLiveIsNat
<1> HIDE DEF plan
<1>6. PlanFits(o, plan)
  BY <1>1, <1>5 DEF PlanFits
<1> QED BY <1>4, <1>6 DEF plan

-----------------------------------------------------------------------------
(***************************************************************************)
(* Transactions.                                                           *)
(***************************************************************************)
TxnShape ==
    /\ txn = [r \in Requests |-> txn[r]]
    /\ \A r \in Requests : txn[r] = Idle \/ txn[r].op \in Operations

LEMMA IdleIsNoOperation == Idle.op = "idle" /\ "idle" \notin Operations
BY DEF Idle, Operations

LEMMA IdleIsSound == ASSUME NEW t, t = Idle PROVE Sound(t)
BY DEF Sound, BuyerSound, OrdererSound, StorekeeperSound, Orderers, Idle

\* Where requests stay as they are or end, they hold what they held.
LEMMA TxnKept ==
    ASSUME TxnShape, RowsExclusive,
           UNCHANGED txn \/ \E r \in Requests : Ends(r)
    PROVE  /\ TxnShape'
           /\ RowsExclusive'
           /\ \A q \in Requests : txn'[q] = txn[q] \/ txn'[q] = Idle
           /\ \A r \in Requests : Ends(r) => txn'[r] = Idle
<1>1. txn' = [r \in Requests |-> txn'[r]]
  BY DEF TxnShape, Ends
<1>2. \A q \in Requests : txn'[q] = txn[q] \/ txn'[q] = Idle
  BY DEF TxnShape, Ends
<1>3. \A r \in Requests : Ends(r) => txn'[r] = Idle
  BY DEF TxnShape, Ends
<1>4. TxnShape'
  BY <1>1, <1>2 DEF TxnShape
<1>5. \A q \in Requests : Holds(q)' \in SUBSET Holds(q)
  BY <1>2, IdleIsNoOperation DEF Holds
<1>6. RowsExclusive'
  BY <1>5 DEF RowsExclusive
<1> QED BY <1>2, <1>3, <1>4, <1>6

\* A request begins on rows nobody holds.
LEMMA TxnBegun ==
    ASSUME TxnShape, RowsExclusive, NEW r \in Requests, NEW op \in Operations, NEW arg, NEW rows,
           Begins(r, op, arg, rows)
    PROVE  /\ TxnShape'
           /\ RowsExclusive'
           /\ txn'[r] = [op |-> op, arg |-> arg, rows |-> rows]
           /\ \A q \in Requests \ {r} : txn'[q] = txn[q]
           /\ UNCHANGED tables
<1>1. txn' = [txn EXCEPT ![r] = [op |-> op, arg |-> arg, rows |-> rows]]
  BY DEF Begins
<1>2. txn'[r] = [op |-> op, arg |-> arg, rows |-> rows]
  BY <1>1 DEF TxnShape
<1>3. \A q \in Requests \ {r} : txn'[q] = txn[q]
  BY <1>1 DEF TxnShape
<1>4. TxnShape'
  <2>1. txn' = [q \in Requests |-> txn'[q]]
    BY <1>1 DEF TxnShape
  <2> QED BY <1>2, <1>3, <2>1 DEF TxnShape
<1>5. \A q \in Requests \ {r} : Holds(q)' = Holds(q)
  BY <1>3 DEF Holds
<1>6. Holds(r)' = rows
  BY <1>2, IdleIsNoOperation DEF Holds
<1>7. \A q \in Requests \ {r} : Holds(q) \cap rows = {}
  BY DEF Begins, Free
<1>8. RowsExclusive'
  BY <1>5, <1>6, <1>7 DEF RowsExclusive
<1> QED BY <1>2, <1>3, <1>4, <1>8 DEF Begins

\* The invariant of the tables, and the part of the invariant that is left.
TablesInv ==
    /\ order \in [Orders -> DocStatuses \cup {None}]
    /\ DOMAIN oline = OrderLines
    /\ oline = [k \in OrderLines |-> oline[k]]
    /\ \A k \in OrderLines : oline[k] # None => IsOrderLine(oline[k])
    /\ receipt \in [Receipts -> ReceiptRows \cup {None}]
    /\ rline \in [Receipts -> [OrderLines -> Nat]]
    /\ LinesAreOrdered
    /\ ReceiptsAreOrdered
    /\ OneLiveLine
    /\ NeverOverReceived

LEMMA InvInParts ==
    /\ PurchaseInv <=> /\ TablesInv /\ TxnShape /\ RowsExclusive
                       /\ \A r \in Requests : Sound(txn[r])
    /\ PurchaseInv' <=> /\ TablesInv' /\ TxnShape' /\ RowsExclusive'
                        /\ \A r \in Requests : Sound(txn[r])'
BY DEF PurchaseInv, TablesInv, TxnShape, PurchaseTypes

\* What a request is about to do stays sound where the rows of the tables do.
LEMMA RowsStand ==
    ASSUME UNCHANGED <<order, oline, receipt, rline>>
    PROVE  /\ TablesInv <=> TablesInv'
           /\ \A t : Sound(t) => Sound(t)'
<1>1. \A l : LiveLines(l)' = LiveLines(l)
  BY DEF LiveLines, LiveOrder
<1>2. \A k : HeldLive(k)' = HeldLive(k)
  BY DEF HeldLive, HeldBy
<1>3. TablesInv <=> TablesInv'
  <2>1. OneLiveLine <=> OneLiveLine'
    BY <1>1 DEF OneLiveLine
  <2>2. NeverOverReceived <=> NeverOverReceived'
    BY <1>2 DEF NeverOverReceived
  <2>3. ReceiptsAreOrdered <=> ReceiptsAreOrdered'
    BY DEF ReceiptsAreOrdered
  <2>4. LinesAreOrdered <=> LinesAreOrdered'
    BY DEF LinesAreOrdered
  <2> QED BY <2>1, <2>2, <2>3, <2>4 DEF TablesInv
<1>4. ASSUME NEW t, Sound(t) PROVE Sound(t)'
  <2>1. BuyerSound(t)'
    BY <1>1, <1>4 DEF Sound, BuyerSound
  <2>2. StorekeeperSound(t)'
    BY <1>4 DEF Sound, StorekeeperSound
  <2>3. \A o, plan : PlanFits(o, plan) => PlanFits(o, plan)'
    BY <1>2 DEF PlanFits
  <2>4. OrdererSound(t)'
    BY <1>4, <2>3 DEF Sound, OrdererSound
  <2> QED BY <2>1, <2>2, <2>4 DEF Sound
<1> QED BY <1>3, <1>4

\* Whatever leaves the rows of the tables alone keeps the invariant.
LEMMA NothingWritten ==
    ASSUME PurchaseInv, UNCHANGED <<order, oline, receipt, rline>>,
           UNCHANGED txn \/ \E r \in Requests : Ends(r)
    PROVE  PurchaseInv'
<1>1. TablesInv /\ TxnShape /\ RowsExclusive /\ \A r \in Requests : Sound(txn[r])
  BY InvInParts
<1>2. TablesInv' /\ \A t : Sound(t) => Sound(t)'
  BY <1>1, RowsStand
<1>3. /\ TxnShape' /\ RowsExclusive'
      /\ \A q \in Requests : txn'[q] = txn[q] \/ txn'[q] = Idle
  BY <1>1, TxnKept
<1>4. ASSUME NEW q \in Requests PROVE Sound(txn[q])'
  <2>1. PICK t : t = txn'[q]
    OBVIOUS
  <2>2. Sound(t)
    BY <1>1, <1>3, <2>1, IdleIsSound
  <2>3. Sound(t)'
    BY <1>2, <2>2
  <2> QED BY <2>1, <2>3
<1>5. \A q \in Requests : Sound(txn[q])'
  BY <1>4
<1> QED BY <1>2, <1>3, <1>5, InvInParts

-----------------------------------------------------------------------------
(***************************************************************************)
(* What a change of the tables does to the invariant.                      *)
(***************************************************************************)
\* A line of a draft that no request holds is written, edited or removed.
LEMMA LineEdited ==
    ASSUME PurchaseInv, NEW o \in Orders, Draft(o), \A r \in Requests : OrderRow(o) \notin Holds(r),
           NEW k \in OrderLines, NEW x, oline' = [oline EXCEPT ![k] = x],
           UNCHANGED <<order, receipt, rline, txn>>,
           oline[k] # None => oline[k].order = o,
           x # None => /\ IsOrderLine(x)
                       /\ x.order = o
                       /\ x.fline # None => oline[k] # None /\ x.fline = oline[k].fline
    PROVE  PurchaseInv'
<1>1. TablesInv /\ TxnShape /\ RowsExclusive /\ \A r \in Requests : Sound(txn[r])
  BY InvInParts
<1>2. oline'[k] = x /\ \A j \in OrderLines \ {k} : oline'[j] = oline[j]
  BY <1>1 DEF TablesInv
<1>3. \A n \in Receipts : rline[n][k] = 0
  <2>1. ASSUME NEW n \in Receipts, rline[n][k] # 0 PROVE FALSE
    <3>1. receipt[n] # None /\ receipt[n].order = o
      BY <1>1, <2>1 DEF TablesInv, ReceiptsAreOrdered
    <3>2. order[o] = "COMPLETED"
      BY <1>1, <3>1 DEF TablesInv, ReceiptsAreOrdered
    <3> QED BY <3>2 DEF Draft
  <2> QED BY <2>1
<1>4. \A j : HeldLive(j)' = HeldLive(j)
  BY DEF HeldLive, HeldBy
<1>5. HeldLive(k) = 0
  BY <1>3, HeldNowhere
<1>6. \A l \in FormLines : LiveLines(l)' \in SUBSET LiveLines(l)
  <2>1. ASSUME NEW l \in FormLines, NEW j \in LiveLines(l)' PROVE j \in LiveLines(l)
    <3>1. j \in OrderLines /\ oline'[j] # None /\ oline'[j].fline = l /\ LiveOrder(oline'[j].order)
      BY DEF LiveLines, LiveOrder
    <3>2. CASE j # k
      BY <1>2, <3>1, <3>2 DEF LiveLines
    <3>3. CASE j = k
      <4>1. l # None
        BY PurchaseConstants DEF PurchaseConstants
      <4>2. oline[k] # None /\ oline[k].fline = l /\ oline[k].order = o /\ x.order = o
        BY <1>2, <3>1, <3>3, <4>1
      <4> QED BY <1>2, <3>1, <3>3, <4>2 DEF LiveLines
    <3> QED BY <3>2, <3>3
  <2> QED BY <2>1
<1>7. TablesInv'
  <2>1. /\ DOMAIN oline' = OrderLines
        /\ oline' = [j \in OrderLines |-> oline'[j]]
    BY <1>1 DEF TablesInv
  <2>2. \A j \in OrderLines : oline'[j] # None => IsOrderLine(oline'[j])
    <3> SUFFICES ASSUME NEW j \in OrderLines, oline'[j] # None PROVE IsOrderLine(oline'[j])
      OBVIOUS
    <3>1. CASE j = k
      BY <1>2, <3>1
    <3>2. CASE j # k
      BY <1>1, <1>2, <3>2 DEF TablesInv
    <3> QED BY <3>1, <3>2
  <2>3. LinesAreOrdered'
    <3>1. order[o] # None
      BY NoneIsNoPurchaseRow DEF Draft, DocStatuses
    <3> QED BY <1>1, <1>2, <3>1 DEF TablesInv, LinesAreOrdered
  <2>4. ReceiptsAreOrdered'
    BY <1>1, <1>2, <1>3 DEF TablesInv, ReceiptsAreOrdered
  <2>5. OneLiveLine'
    BY <1>1, <1>6 DEF TablesInv, OneLiveLine
  <2>6. NeverOverReceived'
    <3> SUFFICES ASSUME NEW j \in OrderLines, oline'[j] # None PROVE HeldLive(j) <= oline'[j].quantity
      BY <1>4 DEF NeverOverReceived
    <3>1. CASE j = k
      BY <1>2, <1>5, <3>1 DEF IsOrderLine
    <3>2. CASE j # k
      BY <1>1, <1>2, <3>2 DEF TablesInv, NeverOverReceived
    <3> QED BY <3>1, <3>2
  <2>7. UNCHANGED <<order, receipt, rline>>
    OBVIOUS
  <2> QED BY <1>1, <2>1, <2>2, <2>3, <2>4, <2>5, <2>6, <2>7 DEF TablesInv
<1>8. ASSUME NEW q \in Requests PROVE Sound(txn[q])'
  <2>1. PICK t : t = txn[q]
    OBVIOUS
  <2>2. Sound(t)
    BY <1>1, <2>1
  <2>3. BuyerSound(t)'
    <3>1. BuyerSound(t)
      BY <2>2 DEF Sound
    <3>2. \A l \in FormLines : LiveLines(l) = {} => LiveLines(l)' = {}
      BY <1>6
    <3> QED BY <3>1, <3>2 DEF BuyerSound
  <2>4. OrdererSound(t)'
    <3>1. OrdererSound(t)
      BY <2>2 DEF Sound
    <3>2. SUFFICES ASSUME t.op \in Orderers PROVE PlanFits(t.arg.order, t.arg.plan)'
      BY <3>1 DEF OrdererSound
    <3>3. t.arg.order # o
      <4>1. OrderRow(t.arg.order) \in t.rows
        BY <3>1, <3>2 DEF OrdererSound
      <4>2. OrderRow(o) \notin t.rows
        BY <2>1, <3>2 DEF Holds, Orderers
      <4> QED BY <4>1, <4>2
    <3>4. PlanFits(t.arg.order, t.arg.plan)
      BY <3>1, <3>2 DEF OrdererSound
    <3>5. \A j \in OrderLines : oline[j] # None /\ oline[j].order = t.arg.order => j # k
      BY <3>3
    <3> QED BY <1>2, <1>4, <3>4, <3>5 DEF PlanFits
  <2>5. StorekeeperSound(t)'
    BY <2>2 DEF Sound, StorekeeperSound
  <2>6. Sound(t)'
    BY <2>3, <2>4, <2>5 DEF Sound
  <2> QED BY <2>1, <2>6
<1>9. TxnShape' /\ RowsExclusive'
  BY <1>1 DEF TxnShape, RowsExclusive, Holds
<1>10. \A q \in Requests : Sound(txn[q])'
  BY <1>8
<1> QED BY <1>7, <1>9, <1>10, InvInParts

\* An order is created.
LEMMA OrderCreated ==
    ASSUME PurchaseInv, NEW o \in Orders, order[o] = None,
           order' = [order EXCEPT ![o] = "DRAFT"], UNCHANGED <<oline, receipt, rline, txn>>
    PROVE  PurchaseInv'
<1>1. TablesInv /\ TxnShape /\ RowsExclusive /\ \A r \in Requests : Sound(txn[r])
  BY InvInParts
<1>2. order'[o] = "DRAFT" /\ \A p \in Orders \ {o} : order'[p] = order[p]
  BY <1>1 DEF TablesInv
<1>3. "DRAFT" # None /\ "COMPLETED" # None /\ "DRAFT" \in DocStatuses
  BY NoneIsNoPurchaseRow DEF DocStatuses
<1>4. \A k \in OrderLines : oline[k] # None => oline[k].order \in Orders \ {o}
  BY <1>1 DEF TablesInv, LinesAreOrdered, IsOrderLine
<1>5. \A n \in Receipts : receipt[n] # None => receipt[n].order \in Orders \ {o}
  BY <1>1, <1>3 DEF TablesInv, ReceiptsAreOrdered, ReceiptRows
<1>6. \A l : LiveLines(l)' = LiveLines(l)
  BY <1>2, <1>4 DEF LiveLines, LiveOrder
<1>7. \A k : HeldLive(k)' = HeldLive(k)
  BY DEF HeldLive, HeldBy
<1>8. TablesInv'
  <2>1. order' \in [Orders -> DocStatuses \cup {None}]
    BY <1>1, <1>3 DEF TablesInv
  <2>2. LinesAreOrdered'
    BY <1>1, <1>2, <1>4 DEF TablesInv, LinesAreOrdered
  <2>3. ReceiptsAreOrdered'
    BY <1>1, <1>2, <1>5 DEF TablesInv, ReceiptsAreOrdered
  <2>4. OneLiveLine'
    BY <1>1, <1>6 DEF TablesInv, OneLiveLine
  <2>5. NeverOverReceived'
    BY <1>1, <1>7 DEF TablesInv, NeverOverReceived
  <2> QED BY <1>1, <2>1, <2>2, <2>3, <2>4, <2>5 DEF TablesInv
<1>9. ASSUME NEW q \in Requests PROVE Sound(txn[q])'
  <2>1. PICK t : t = txn[q]
    OBVIOUS
  <2>2. Sound(t)
    BY <1>1, <2>1
  <2>3. BuyerSound(t)'
    BY <1>2, <1>3, <1>6, <2>2 DEF Sound, BuyerSound
  <2>4. OrdererSound(t)'
    <3>1. \A p, plan : PlanFits(p, plan) => PlanFits(p, plan)'
      BY <1>7 DEF PlanFits
    <3>2. t.op \in Orderers => t.arg.order # o
      BY <1>3, <2>2 DEF Sound, OrdererSound
    <3> QED BY <1>2, <2>2, <3>1, <3>2 DEF Sound, OrdererSound
  <2>5. StorekeeperSound(t)'
    BY <2>2 DEF Sound, StorekeeperSound
  <2>6. Sound(t)'
    BY <2>3, <2>4, <2>5 DEF Sound
  <2> QED BY <2>1, <2>6
<1>10. TxnShape' /\ RowsExclusive'
  BY <1>1 DEF TxnShape, RowsExclusive, Holds
<1>11. \A q \in Requests : Sound(txn[q])'
  BY <1>9
<1> QED BY <1>8, <1>10, <1>11, InvInParts

\* A draft that no request holds is cancelled.
LEMMA OrderCancelled ==
    ASSUME PurchaseInv, NEW o \in Orders, Draft(o), \A r \in Requests : OrderRow(o) \notin Holds(r),
           order' = [order EXCEPT ![o] = "CANCELLED"], UNCHANGED <<oline, receipt, rline, txn>>
    PROVE  PurchaseInv'
<1>1. TablesInv /\ TxnShape /\ RowsExclusive /\ \A r \in Requests : Sound(txn[r])
  BY InvInParts
<1>2. order'[o] = "CANCELLED" /\ \A p \in Orders \ {o} : order'[p] = order[p]
  BY <1>1 DEF TablesInv
<1>3. "CANCELLED" # None /\ "DRAFT" # None /\ "CANCELLED" \in DocStatuses /\ order[o] = "DRAFT"
  BY NoneIsNoPurchaseRow DEF DocStatuses, Draft
<1>4. \A n \in Receipts : receipt[n] # None => receipt[n].order \in Orders \ {o}
  BY <1>1, <1>3 DEF TablesInv, ReceiptsAreOrdered, ReceiptRows
<1>5. \A l : LiveLines(l)' \in SUBSET LiveLines(l)
  <2>1. \A p : LiveOrder(p)' /\ p \in Orders => LiveOrder(p)
    BY <1>2 DEF LiveOrder
  <2>2. \A k \in OrderLines : oline[k] # None => oline[k].order \in Orders
    BY <1>1 DEF TablesInv, IsOrderLine
  <2> QED BY <2>1, <2>2 DEF LiveLines
<1>6. \A k : HeldLive(k)' = HeldLive(k)
  BY DEF HeldLive, HeldBy
<1>7. TablesInv'
  <2>1. order' \in [Orders -> DocStatuses \cup {None}]
    BY <1>1, <1>3 DEF TablesInv
  <2>2. LinesAreOrdered'
    <3>1. \A p \in Orders : order[p] # None => order'[p] # None
      BY <1>2, <1>3
    <3>2. \A k \in OrderLines : oline[k] # None => oline[k].order \in Orders
      BY <1>1 DEF TablesInv, IsOrderLine
    <3> QED BY <1>1, <3>1, <3>2 DEF TablesInv, LinesAreOrdered
  <2>3. ReceiptsAreOrdered'
    BY <1>1, <1>2, <1>4 DEF TablesInv, ReceiptsAreOrdered
  <2>4. OneLiveLine'
    BY <1>1, <1>5 DEF TablesInv, OneLiveLine
  <2>5. NeverOverReceived'
    BY <1>1, <1>6 DEF TablesInv, NeverOverReceived
  <2> QED BY <1>1, <2>1, <2>2, <2>3, <2>4, <2>5 DEF TablesInv
<1>8. ASSUME NEW q \in Requests PROVE Sound(txn[q])'
  <2>1. PICK t : t = txn[q]
    OBVIOUS
  <2>2. Sound(t)
    BY <1>1, <2>1
  <2>3. BuyerSound(t)'
    <3>1. t.op = "take" => t.arg.order # o
      <4>1. t.op = "take" => OrderRow(t.arg.order) \in t.rows
        BY <2>2 DEF Sound, BuyerSound
      <4>2. t.op = "take" => OrderRow(o) \notin t.rows
        BY <2>1 DEF Holds
      <4> QED BY <4>1, <4>2
    <3>2. \A l \in FormLines : LiveLines(l) = {} => LiveLines(l)' = {}
      BY <1>5
    <3> QED BY <1>2, <2>2, <3>1, <3>2 DEF Sound, BuyerSound
  <2>4. OrdererSound(t)'
    <3>1. \A p, plan : PlanFits(p, plan) => PlanFits(p, plan)'
      BY <1>6 DEF PlanFits
    <3>2. t.op \in Orderers => t.arg.order # o
      <4>1. t.op \in Orderers => OrderRow(t.arg.order) \in t.rows
        BY <2>2 DEF Sound, OrdererSound
      <4>2. t.op \in Orderers => OrderRow(o) \notin t.rows
        BY <2>1 DEF Holds, Orderers
      <4> QED BY <4>1, <4>2
    <3> QED BY <1>2, <2>2, <3>1, <3>2 DEF Sound, OrdererSound
  <2>5. StorekeeperSound(t)'
    BY <2>2 DEF Sound, StorekeeperSound
  <2>6. Sound(t)'
    BY <2>3, <2>4, <2>5 DEF Sound
  <2> QED BY <2>1, <2>6
<1>9. TxnShape' /\ RowsExclusive'
  BY <1>1 DEF TxnShape, RowsExclusive, Holds
<1>10. \A q \in Requests : Sound(txn[q])'
  BY <1>8
<1> QED BY <1>7, <1>9, <1>10, InvInParts

\* Lines are written for the request lines a buyer holds: one each, where there
\* was no line, on a draft.
LEMMA LinesWritten ==
    ASSUME PurchaseInv, NEW r \in Requests, txn[r].op \in {"take", "group"}, Ends(r),
           NEW lines, lines = txn[r].arg.lines,
           NEW o \in Orders, order[o] \in {"DRAFT", None}, order'[o] = "DRAFT",
           order' \in [Orders -> DocStatuses \cup {None}],
           \A p \in Orders \ {o} : order'[p] = order[p],
           Written(o, lines), UNCHANGED <<receipt, rline>>
    PROVE  PurchaseInv'
<1> DEFINE ids == FirstFree(Cardinality(lines))
           pick(k) == CHOOSE l \in lines : Cardinality({m \in lines : m < l})
                                              = Cardinality({j \in ids : j < k})
<1>1. TablesInv /\ TxnShape /\ RowsExclusive /\ \A q \in Requests : Sound(txn[q])
  BY InvInParts
<1>2. /\ lines \in SUBSET FormLines
      /\ \A l \in lines : LineRow(l) \in txn[r].rows /\ LiveLines(l) = {}
  BY <1>1 DEF Sound, BuyerSound
<1>3. /\ ids \in SUBSET OrderLines
      /\ \A k \in ids : oline[k] = None
  BY DEF FirstFree
<1>4. IsFiniteSet(lines) /\ IsFiniteSet(ids) /\ lines \in SUBSET Nat /\ ids \in SUBSET Nat
  BY <1>2, <1>3, FS_Subset, PurchaseConstants DEF PurchaseConstants
<1>5. /\ Cardinality(ids) = Cardinality(lines)
      /\ oline' = [k \in OrderLines |->
               IF k \in ids
               THEN OrderLine(o, CHOOSE l \in lines : Cardinality({m \in lines : m < l})
                                                        = Cardinality({j \in ids : j < k}))
               ELSE oline[k]]
  BY DEF Written
<1> HIDE DEF ids
<1>6. oline' = [k \in OrderLines |-> IF k \in ids THEN OrderLine(o, pick(k)) ELSE oline[k]]
  BY <1>3, <1>5
<1>7. /\ \A k \in ids : pick(k) \in lines
      /\ \A j, k \in ids : pick(j) = pick(k) => j = k
  BY <1>4, <1>5, RankedPick
<1> HIDE DEF pick
<1>8. /\ \A k \in ids : oline'[k] = OrderLine(o, pick(k))
      /\ \A k \in OrderLines \ ids : oline'[k] = oline[k]
      /\ \A k \in ids : oline'[k].order = o /\ oline'[k].fline = pick(k)
  BY <1>3, <1>6 DEF OrderLine
<1>9. /\ "DRAFT" # None /\ "COMPLETED" # None /\ order[o] # "COMPLETED"
      /\ (order[o] # None => order[o] = "DRAFT")
  BY NoneIsNoPurchaseRow DEF DocStatuses
<1>10. \A k \in OrderLines : oline[k] # None => oline[k].order \in Orders /\ order[oline[k].order] # None
  BY <1>1 DEF TablesInv, LinesAreOrdered, IsOrderLine
<1>11. \A n \in Receipts : \A k \in OrderLines : rline[n][k] # 0 => k \notin ids
  BY <1>1, <1>3 DEF TablesInv, ReceiptsAreOrdered
<1>12. \A n \in Receipts : receipt[n] # None => receipt[n].order \in Orders \ {o}
  BY <1>1, <1>9 DEF TablesInv, ReceiptsAreOrdered, ReceiptRows
<1>13. \A k : HeldLive(k)' = HeldLive(k)
  BY DEF HeldLive, HeldBy
<1>14. \A p \in Orders : order[p] # None => order'[p] = order[p]
  BY <1>9
<1>15. \A l \in FormLines : LiveLines(l)' \in SUBSET (LiveLines(l) \cup {k \in ids : pick(k) = l})
  <2>1. ASSUME NEW l \in FormLines, NEW k \in LiveLines(l)', k \notin ids PROVE k \in LiveLines(l)
    <3>1. /\ k \in OrderLines /\ oline'[k] # None /\ oline'[k].fline = l
          /\ order'[oline'[k].order] # None /\ order'[oline'[k].order] # "CANCELLED"
      BY DEF LiveLines, LiveOrder
    <3>2. oline'[k] = oline[k]
      BY <1>8, <2>1, <3>1
    <3> QED BY <1>10, <1>14, <2>1, <3>1, <3>2 DEF LiveLines, LiveOrder
  <2>2. ASSUME NEW l \in FormLines, NEW k \in LiveLines(l)', k \in ids PROVE pick(k) = l
    BY <1>8, <2>2 DEF LiveLines
  <2> QED BY <2>1, <2>2
<1>16. TablesInv'
  <2>1. DOMAIN oline' = OrderLines /\ oline' = [k \in OrderLines |-> oline'[k]]
    BY <1>6
  <2>2. \A k \in OrderLines : oline'[k] # None => IsOrderLine(oline'[k])
    <3> SUFFICES ASSUME NEW k \in OrderLines, oline'[k] # None PROVE IsOrderLine(oline'[k])
      OBVIOUS
    <3>1. CASE k \in ids
      <4>1. pick(k) \in FormLines
        BY <1>2, <1>7, <3>1
      <4>2. PICK l \in FormLines : l = pick(k)
        BY <4>1
      <4>3. ProductOf[l] \in Products /\ WarehouseOf[l] \in Nat /\ Asked[l] \in Nat
        BY <4>1, PurchaseConstants DEF PurchaseConstants, Products
      <4>4. IsOrderLine(OrderLine(o, l))
        BY <4>3 DEF IsOrderLine, OrderLine
      <4> QED BY <1>8, <3>1, <4>2, <4>4
    <3>2. CASE k \notin ids
      BY <1>1, <1>8, <3>2 DEF TablesInv
    <3> QED BY <3>1, <3>2
  <2>3. LinesAreOrdered'
    <3> SUFFICES ASSUME NEW k \in OrderLines, oline'[k] # None PROVE order'[oline'[k].order] # None
      BY DEF LinesAreOrdered
    <3>1. CASE k \in ids
      BY <1>8, <1>9, <3>1
    <3>2. CASE k \notin ids
      BY <1>8, <1>9, <1>10, <3>2
    <3> QED BY <3>1, <3>2
  <2>4. ReceiptsAreOrdered'
    <3>1. ASSUME NEW n \in Receipts, receipt[n] # None PROVE order'[receipt[n].order] = "COMPLETED"
      BY <1>1, <1>12, <3>1 DEF TablesInv, ReceiptsAreOrdered
    <3>2. ASSUME NEW n \in Receipts, NEW k \in OrderLines, rline[n][k] # 0
          PROVE  /\ receipt[n] # None
                 /\ oline'[k] # None
                 /\ receipt[n].order = oline'[k].order
                 /\ receipt[n].warehouse = oline'[k].warehouse
      BY <1>1, <1>8, <1>11, <3>2 DEF TablesInv, ReceiptsAreOrdered
    <3> QED BY <3>1, <3>2 DEF ReceiptsAreOrdered
  <2>5. OneLiveLine'
    <3> SUFFICES ASSUME NEW l \in FormLines, NEW j \in LiveLines(l)', NEW k \in LiveLines(l)'
                 PROVE  j = k
      BY DEF OneLiveLine
    <3>1. CASE l \in lines
      BY <1>2, <1>7, <1>15, <3>1
    <3>2. CASE l \notin lines
      <4>1. j \in LiveLines(l) /\ k \in LiveLines(l)
        BY <1>7, <1>15, <3>2
      <4> QED BY <1>1, <4>1 DEF TablesInv, OneLiveLine
    <3> QED BY <3>1, <3>2
  <2>6. NeverOverReceived'
    <3> SUFFICES ASSUME NEW k \in OrderLines, oline'[k] # None PROVE HeldLive(k) <= oline'[k].quantity
      BY <1>13 DEF NeverOverReceived
    <3>1. CASE k \in ids
      <4>1. HeldLive(k) = 0
        BY <1>11, <3>1, HeldNowhere
      <4>2. oline'[k].quantity \in Nat
        BY <2>2 DEF IsOrderLine
      <4> QED BY <4>1, <4>2
    <3>2. CASE k \notin ids
      BY <1>1, <1>8, <3>2 DEF TablesInv, NeverOverReceived
    <3> QED BY <3>1, <3>2
  <2> QED BY <1>1, <2>1, <2>2, <2>3, <2>4, <2>5, <2>6 DEF TablesInv
<1>17. /\ TxnShape' /\ RowsExclusive' /\ txn'[r] = Idle
       /\ \A q \in Requests : txn'[q] = txn[q] \/ txn'[q] = Idle
  BY <1>1, TxnKept
<1>18. ASSUME NEW q \in Requests PROVE Sound(txn[q])'
  <2>1. PICK t : t = txn'[q]
    OBVIOUS
  <2>2. CASE t = Idle
    <3>1. Sound(t)'
      BY <2>2 DEF Sound, BuyerSound, OrdererSound, StorekeeperSound, Orderers, Idle
    <3> QED BY <2>1, <3>1
  <2>3. CASE t # Idle
    <3>1. t = txn[q] /\ q # r /\ Sound(t)
      BY <1>1, <1>17, <2>1, <2>3
    <3>2. BuyerSound(t)'
      <4> SUFFICES ASSUME t.op \in {"take", "group"}
                   PROVE  /\ \A l \in t.arg.lines : LiveLines(l)' = {}
                          /\ t.op = "take" => order'[t.arg.order] = "DRAFT"
        BY <3>1 DEF Sound, BuyerSound
      <4>1. t.arg.lines \in SUBSET FormLines
        BY <3>1 DEF Sound, BuyerSound
      <4>2. ASSUME NEW l \in t.arg.lines PROVE LiveLines(l)' = {}
        <5>1. LineRow(l) \in t.rows /\ LiveLines(l) = {}
          BY <3>1 DEF Sound, BuyerSound
        <5>2. l \notin lines
          <6>1. SUFFICES ASSUME l \in lines PROVE FALSE
            OBVIOUS
          <6>2. LineRow(l) \in txn[r].rows
            BY <1>2, <6>1
          <6> QED BY <1>1, <3>1, <5>1, <6>2, HeldByOne
        <5> QED BY <1>7, <1>15, <4>1, <5>1, <5>2
      <4>3. t.op = "take" => order'[t.arg.order] = "DRAFT"
        BY <3>1 DEF Sound, BuyerSound
      <4> QED BY <4>2, <4>3
    <3>3. OrdererSound(t)'
      <4>1. ASSUME t.op \in Orderers PROVE PlanFits(t.arg.order, t.arg.plan)'
        <5>1. PlanFits(t.arg.order, t.arg.plan)
          BY <3>1, <4>1 DEF Sound, OrdererSound
        <5> QED BY <1>3, <1>8, <1>13, <5>1 DEF PlanFits
      <4>2. ASSUME t.op \in Orderers
            PROVE  order'[t.arg.order] = IF t.op = "confirm_order" THEN "DRAFT" ELSE "COMPLETED"
        BY <1>9, <3>1, <4>2 DEF Sound, OrdererSound
      <4> QED BY <3>1, <4>1, <4>2 DEF Sound, OrdererSound
    <3>4. StorekeeperSound(t)'
      BY <3>1 DEF Sound, StorekeeperSound
    <3>5. Sound(t)'
      BY <3>2, <3>3, <3>4 DEF Sound
    <3> QED BY <2>1, <3>5
  <2> QED BY <2>2, <2>3
<1>19. \A q \in Requests : Sound(txn[q])'
  BY <1>18
<1> QED BY <1>16, <1>17, <1>19, InvInParts

\* What the receipts of a plan add to what live receipts hold of a line: the
\* plan's units for the line's one warehouse.
LEMMA PlannedUnits ==
    ASSUME TablesInv, NEW o, NEW plan, IsPlan(plan), Generates(o, plan),
           NEW k \in OrderLines, NEW w, \A v \in DOMAIN plan : plan[v][k] # 0 => v = w
    PROVE  /\ HeldLive(k)' \in Nat
           /\ (\A v \in DOMAIN plan : plan[v][k] = 0) => HeldLive(k)' = HeldLive(k)
           /\ w \in DOMAIN plan => HeldLive(k)' <= HeldLive(k) + plan[w][k]
<1> DEFINE unused == {n \in Receipts : receipt[n] = None}
           ids == {n \in unused : Cardinality({m \in unused : m < n}) < Cardinality(DOMAIN plan)}
           of(n) == CHOOSE v \in DOMAIN plan : Cardinality({u \in DOMAIN plan : u < v})
                                                 = Cardinality({m \in ids : m < n})
           live == {n \in Receipts : receipt[n] # None /\ receipt[n].status # "CANCELLED"}
           live2 == {n \in Receipts : receipt'[n] # None /\ receipt'[n].status # "CANCELLED"}
           f == [n \in Receipts |-> rline[n][k]]
           g == [n \in Receipts |-> rline'[n][k]]
<1>1. /\ Cardinality(ids) = Cardinality(DOMAIN plan)
      /\ receipt' = [n \in Receipts |->
               IF n \in ids THEN [order |-> o, warehouse |-> of(n), status |-> "DRAFT"]
               ELSE receipt[n]]
      /\ rline' = [n \in Receipts |-> IF n \in ids THEN plan[of(n)] ELSE rline[n]]
  BY DEF Generates
<1>2. HeldLive(k) = SumFunctionOnSet(f, live) /\ HeldLive(k)' = SumFunctionOnSet(g, live2)
  BY DEF HeldLive, HeldBy
<1>3. ids \in SUBSET Receipts /\ \A n \in ids : receipt[n] = None
  OBVIOUS
<1> HIDE DEF ids
<1>4. IsFiniteSet(ids) /\ ids \in SUBSET Nat /\ IsFiniteSet(live) /\ IsFiniteSet(live2)
  BY <1>3, FS_Subset, PurchaseConstants DEF PurchaseConstants
<1>5. /\ \A n \in ids : of(n) \in DOMAIN plan
      /\ \A n, m \in ids : of(n) = of(m) => n = m
  BY <1>1, <1>4, RankedPick DEF IsPlan
<1> HIDE DEF of
<1>6. live \cap ids = {}
  BY <1>3
<1>7. live2 \in SUBSET (live \cup ids) /\ live \in SUBSET live2
  BY <1>1, <1>3
<1>8. /\ \A n \in live : g[n] = f[n] /\ f[n] \in Nat
      /\ \A n \in ids : g[n] = plan[of(n)][k] /\ g[n] \in Nat
      /\ \A n \in ids : of(n) # w => g[n] = 0
  <2>1. \A n \in Receipts : f[n] \in Nat
    BY DEF TablesInv
  <2>2. \A n \in live : g[n] = f[n]
    BY <1>1, <1>3
  <2>3. \A n \in ids : g[n] = plan[of(n)][k]
    BY <1>1, <1>3
  <2>4. \A n \in ids : plan[of(n)][k] \in Nat
    BY <1>5 DEF IsPlan
  <2>5. \A n \in ids : of(n) # w => plan[of(n)][k] = 0
    BY <1>5
  <2> HIDE DEF f, g
  <2> QED BY <2>1, <2>2, <2>3, <2>4, <2>5
<1> DEFINE extra == live2 \cap ids
<1>9. live2 = live \cup extra /\ live \cap extra = {} /\ extra \in SUBSET ids /\ IsFiniteSet(extra)
  <2>1. live2 = live \cup extra /\ live \cap extra = {} /\ extra \in SUBSET ids
    BY <1>6, <1>7
  <2> HIDE DEF live, live2, extra
  <2> QED BY <2>1, <1>4, FS_Subset
<1> HIDE DEF f, g, live, live2, extra
<1>10. SumFunctionOnSet(f, live) = SumFunctionOnSet(g, live)
  BY <1>4, <1>8, SumOfEqual
<1>11. SumFunctionOnSet(g, live2) = SumFunctionOnSet(g, live) + SumFunctionOnSet(g, extra)
  <2>1. \A n \in live \cup extra : g[n] \in Int
    BY <1>8, <1>9
  <2> QED BY <1>4, <1>9, <2>1, SumOfUnion
<1>12. SumFunctionOnSet(g, extra) \in Nat /\ SumFunctionOnSet(g, live) \in Nat
  <2>1. (\A n \in extra : g[n] \in Nat) /\ (\A n \in live : g[n] \in Nat)
    BY <1>8, <1>9
  <2> QED BY <1>4, <1>9, <2>1, SumIsNat
<1>13. (\A n \in extra : g[n] = 0) => SumFunctionOnSet(g, extra) = 0
  BY <1>9, SumOfZeros
<1>14. ASSUME w \in DOMAIN plan PROVE SumFunctionOnSet(g, extra) <= plan[w][k]
  <2>1. plan[w][k] \in Nat
    BY <1>14 DEF IsPlan
  <2>2. CASE \A n \in extra : g[n] = 0
    BY <1>13, <2>1, <2>2
  <2>3. CASE \E n \in extra : g[n] # 0
    <3>1. PICK n \in extra : g[n] # 0
      BY <2>3
    <3>2. n \in ids /\ of(n) = w /\ g[n] = plan[w][k]
      BY <1>8, <1>9, <3>1
    <3>3. \A m \in extra \ {n} : g[m] = 0
      BY <1>5, <1>8, <1>9, <3>2
    <3>4. \A m \in extra : g[m] \in Int
      BY <1>8, <1>9
    <3>5. SumFunctionOnSet(g, extra) = g[n] + SumFunctionOnSet(g, extra \ {n})
      BY <1>9, <3>4, SumWithout
    <3>6. SumFunctionOnSet(g, extra \ {n}) = 0
      <4>1. IsFiniteSet(extra \ {n})
        BY <1>9, FS_Subset
      <4> QED BY <3>3, <4>1, SumOfZeros
    <3> QED BY <2>1, <3>2, <3>5, <3>6
  <2> QED BY <2>2, <2>3
<1>15. (\A v \in DOMAIN plan : plan[v][k] = 0) => \A n \in extra : g[n] = 0
  BY <1>5, <1>8, <1>9
<1> DEFINE a == SumFunctionOnSet(g, live)
           b == SumFunctionOnSet(g, extra)
<1>16. /\ HeldLive(k) = a /\ HeldLive(k)' = a + b /\ a \in Nat /\ b \in Nat
       /\ (\A v \in DOMAIN plan : plan[v][k] = 0) => b = 0
       /\ w \in DOMAIN plan => b <= plan[w][k]
       /\ w \in DOMAIN plan => plan[w][k] \in Nat
  BY <1>2, <1>10, <1>11, <1>12, <1>13, <1>14, <1>15 DEF IsPlan
<1> HIDE DEF a, b
<1> QED BY <1>16

\* An order's draft receipts are written: it is confirmed, and nobody else
\* plans receipts of it.
LEMMA ReceiptsGenerated ==
    ASSUME PurchaseInv, NEW r \in Requests, txn[r].op \in Orderers, Ends(r),
           NEW o, o = txn[r].arg.order, NEW plan, plan = txn[r].arg.plan,
           Generates(o, plan), order' = [order EXCEPT ![o] = "COMPLETED"], UNCHANGED oline
    PROVE  PurchaseInv'
<1>1. TablesInv /\ TxnShape /\ RowsExclusive /\ \A q \in Requests : Sound(txn[q])
  BY InvInParts
<1>2. /\ o \in Orders /\ OrderRow(o) \in txn[r].rows /\ order[o] \in {"DRAFT", "COMPLETED"}
      /\ IsPlan(plan) /\ PlanFits(o, plan)
  BY <1>1 DEF Sound, OrdererSound
<1>3. order'[o] = "COMPLETED" /\ \A p \in Orders \ {o} : order'[p] = order[p]
  BY <1>1, <1>2 DEF TablesInv
<1>4. {"DRAFT", "COMPLETED", "CANCELLED"} = DocStatuses /\ None \notin DocStatuses
  BY NoneIsNoPurchaseRow DEF DocStatuses
<1>5. ASSUME NEW k \in OrderLines, ~ (oline[k] # None /\ oline[k].order = o)
      PROVE  HeldLive(k)' = HeldLive(k)
  <2>1. \A v \in DOMAIN plan : plan[v][k] = 0
    BY <1>2, <1>5 DEF PlanFits
  <2> QED BY <1>1, <1>2, <2>1, PlannedUnits
<1>6. ASSUME NEW k \in OrderLines, oline[k] # None PROVE HeldLive(k)' <= oline[k].quantity
  <2>1. HeldLive(k) <= oline[k].quantity
    BY <1>1, <1>6 DEF TablesInv, NeverOverReceived
  <2>2. CASE \A v \in DOMAIN plan : plan[v][k] = 0
    BY <1>1, <1>2, <2>1, <2>2, PlannedUnits
  <2>3. CASE \E v \in DOMAIN plan : plan[v][k] # 0
    <3>1. PICK w \in DOMAIN plan : plan[w][k] # 0
      BY <2>3
    <3>2. \A v \in DOMAIN plan : plan[v][k] # 0 => v = w
      BY <1>2, <3>1 DEF PlanFits
    <3>3. HeldLive(k) + plan[w][k] <= oline[k].quantity
      BY <1>2, <3>1 DEF PlanFits
    <3>4. HeldLive(k)' <= HeldLive(k) + plan[w][k] /\ HeldLive(k)' \in Nat
      BY <1>1, <1>2, <3>2, PlannedUnits
    <3>5. HeldLive(k) \in Nat
      <4>1. PurchaseTypes
        BY DEF PurchaseInv
      <4> QED BY <4>1, HeldLiveIsNat
    <3>6. plan[w][k] \in Nat /\ oline[k].quantity \in Nat
      BY <1>1, <1>2, <1>6 DEF IsPlan, TablesInv, IsOrderLine
    <3> QED BY <3>3, <3>4, <3>5, <3>6
  <2> QED BY <2>2, <2>3
<1>7. \A l : LiveLines(l)' = LiveLines(l)
  <2>1. \A p \in Orders : LiveOrder(p)' <=> LiveOrder(p)
    BY <1>2, <1>3, <1>4 DEF LiveOrder
  <2>2. \A k \in OrderLines : oline[k] # None => oline[k].order \in Orders
    BY <1>1 DEF TablesInv, IsOrderLine
  <2> QED BY <2>1, <2>2 DEF LiveLines
<1> DEFINE unused == {n \in Receipts : receipt[n] = None}
           ids == {n \in unused : Cardinality({m \in unused : m < n}) < Cardinality(DOMAIN plan)}
           of(n) == CHOOSE v \in DOMAIN plan : Cardinality({u \in DOMAIN plan : u < v})
                                                 = Cardinality({m \in ids : m < n})
<1>8. /\ Cardinality(ids) = Cardinality(DOMAIN plan)
      /\ receipt' = [n \in Receipts |->
               IF n \in ids THEN [order |-> o, warehouse |-> of(n), status |-> "DRAFT"]
               ELSE receipt[n]]
      /\ rline' = [n \in Receipts |-> IF n \in ids THEN plan[of(n)] ELSE rline[n]]
  BY DEF Generates
<1>9. ids \in SUBSET Receipts /\ \A n \in ids : receipt[n] = None
  OBVIOUS
<1> HIDE DEF ids
<1>10. IsFiniteSet(ids) /\ ids \in SUBSET Nat
  BY <1>9, FS_Subset, PurchaseConstants DEF PurchaseConstants
<1>11. \A n \in ids : of(n) \in DOMAIN plan
  BY <1>2, <1>8, <1>10, RankedPick DEF IsPlan
<1> HIDE DEF of
<1>12. TablesInv'
  <2>1. order' \in [Orders -> DocStatuses \cup {None}]
    BY <1>1, <1>4 DEF TablesInv
  <2>2. receipt' \in [Receipts -> ReceiptRows \cup {None}]
    <3>1. \A n \in ids : [order |-> o, warehouse |-> of(n), status |-> "DRAFT"] \in ReceiptRows
      BY <1>2, <1>4, <1>11 DEF ReceiptRows, IsPlan
    <3> QED BY <1>1, <1>8, <3>1 DEF TablesInv
  <2>3. rline' \in [Receipts -> [OrderLines -> Nat]]
    BY <1>1, <1>2, <1>8, <1>11 DEF TablesInv, IsPlan
  <2>4. LinesAreOrdered'
    <3>1. \A p \in Orders : order[p] # None => order'[p] # None
      BY <1>3, <1>4
    <3>2. \A k \in OrderLines : oline[k] # None => oline[k].order \in Orders
      BY <1>1 DEF TablesInv, IsOrderLine
    <3> QED BY <1>1, <3>1, <3>2 DEF TablesInv, LinesAreOrdered
  <2>5. ReceiptsAreOrdered'
    <3> SUFFICES ASSUME NEW n \in Receipts
                 PROVE  /\ receipt'[n] # None => order'[receipt'[n].order] = "COMPLETED"
                        /\ \A k \in OrderLines : rline'[n][k] # 0 =>
                              /\ receipt'[n] # None
                              /\ oline[k] # None
                              /\ receipt'[n].order = oline[k].order
                              /\ receipt'[n].warehouse = oline[k].warehouse
      BY DEF ReceiptsAreOrdered
    <3>1. CASE n \in ids
      <4>1. receipt'[n] = [order |-> o, warehouse |-> of(n), status |-> "DRAFT"] /\ rline'[n] = plan[of(n)]
        BY <1>8, <3>1
      <4>2. receipt'[n] # None
        <5>1. [order |-> o, warehouse |-> of(n), status |-> "DRAFT"] \in ReceiptRows
          BY <1>2, <1>4, <1>11, <3>1 DEF ReceiptRows, IsPlan
        <5> QED BY <4>1, <5>1, NoneIsNoPurchaseRow
      <4>3. \A k \in OrderLines : plan[of(n)][k] # 0 =>
               oline[k] # None /\ oline[k].order = o /\ oline[k].warehouse = of(n)
        BY <1>2, <1>11, <3>1 DEF PlanFits
      <4> QED BY <1>3, <4>1, <4>2, <4>3
    <3>2. CASE n \notin ids
      <4>1. receipt'[n] = receipt[n] /\ rline'[n] = rline[n]
        BY <1>8, <3>2
      <4>2. receipt[n] # None => order'[receipt[n].order] = "COMPLETED"
        <5>1. receipt[n] # None => receipt[n].order \in Orders /\ order[receipt[n].order] = "COMPLETED"
          BY <1>1 DEF TablesInv, ReceiptsAreOrdered, ReceiptRows
        <5> QED BY <1>3, <5>1
      <4>3. \A k \in OrderLines : rline[n][k] # 0 =>
                              /\ receipt[n] # None
                              /\ oline[k] # None
                              /\ receipt[n].order = oline[k].order
                              /\ receipt[n].warehouse = oline[k].warehouse
        BY <1>1 DEF TablesInv, ReceiptsAreOrdered
      <4> QED BY <4>1, <4>2, <4>3
    <3> QED BY <3>1, <3>2
  <2>6. OneLiveLine'
    BY <1>1, <1>7 DEF TablesInv, OneLiveLine
  <2>7. NeverOverReceived'
    BY <1>6 DEF NeverOverReceived
  <2> QED BY <1>1, <2>1, <2>2, <2>3, <2>4, <2>5, <2>6, <2>7 DEF TablesInv
<1>13. /\ TxnShape' /\ RowsExclusive' /\ txn'[r] = Idle
       /\ \A q \in Requests : txn'[q] = txn[q] \/ txn'[q] = Idle
  BY <1>1, TxnKept
<1>14. ASSUME NEW q \in Requests PROVE Sound(txn[q])'
  <2>1. PICK t : t = txn'[q]
    OBVIOUS
  <2>2. CASE t = Idle
    <3>1. Sound(t)'
      BY <2>2 DEF Sound, BuyerSound, OrdererSound, StorekeeperSound, Orderers, Idle
    <3> QED BY <2>1, <3>1
  <2>3. CASE t # Idle
    <3>1. t = txn[q] /\ q # r /\ Sound(t)
      BY <1>1, <1>13, <2>1, <2>3
    <3>2. \A row \in t.rows : t.op # "idle" => row # OrderRow(o)
      <4>1. txn[r].op # "idle"
        BY DEF Orderers
      <4> QED BY <1>1, <1>2, <3>1, <4>1, HeldByOne
    <3>3. BuyerSound(t)'
      <4>1. t.op = "take" => t.arg.order # o
        BY <3>1, <3>2 DEF Sound, BuyerSound
      <4> QED BY <1>3, <1>7, <3>1, <4>1 DEF Sound, BuyerSound
    <3>4. OrdererSound(t)'
      <4>1. t.op \in Orderers => t.arg.order # o
        BY <3>1, <3>2 DEF Sound, OrdererSound, Orderers
      <4>2. ASSUME t.op \in Orderers PROVE PlanFits(t.arg.order, t.arg.plan)'
        <5>1. PlanFits(t.arg.order, t.arg.plan)
          BY <3>1, <4>2 DEF Sound, OrdererSound
        <5> QED BY <1>5, <4>1, <4>2, <5>1 DEF PlanFits
      <4> QED BY <1>3, <3>1, <4>1, <4>2 DEF Sound, OrdererSound
    <3>5. StorekeeperSound(t)'
      <4>1. \A n \in Receipts : receipt[n] # None => receipt'[n] = receipt[n]
        BY <1>8, <1>9
      <4> QED BY <3>1, <4>1 DEF Sound, StorekeeperSound
    <3>6. Sound(t)'
      BY <3>3, <3>4, <3>5 DEF Sound
    <3> QED BY <2>1, <3>6
  <2> QED BY <2>2, <2>3
<1>15. \A q \in Requests : Sound(txn[q])'
  BY <1>14
<1> QED BY <1>12, <1>13, <1>15, InvInParts

\* A receipt is confirmed or cancelled by the request that holds it.
LEMMA ReceiptMoved ==
    ASSUME PurchaseInv, NEW r \in Requests, txn[r].op \in {"confirm", "cancel"}, Ends(r),
           NEW n, n = txn[r].arg.receipt, NEW s,
           s = IF txn[r].op = "confirm" THEN "COMPLETED" ELSE "CANCELLED",
           receipt' = [receipt EXCEPT ![n].status = s], UNCHANGED <<order, oline, rline>>
    PROVE  PurchaseInv'
<1> DEFINE live == {m \in Receipts : receipt[m] # None /\ receipt[m].status # "CANCELLED"}
           live2 == {m \in Receipts : receipt'[m] # None /\ receipt'[m].status # "CANCELLED"}
<1>1. TablesInv /\ TxnShape /\ RowsExclusive /\ \A q \in Requests : Sound(txn[q])
  BY InvInParts
<1>2. /\ n \in Receipts /\ ReceiptRow(n) \in txn[r].rows /\ receipt[n] # None
      /\ txn[r].op = "confirm" => receipt[n].status = "DRAFT"
  BY <1>1 DEF Sound, StorekeeperSound
<1>3. receipt[n] \in ReceiptRows /\ s \in DocStatuses
  BY <1>1, <1>2 DEF TablesInv, DocStatuses
<1>4. /\ receipt'[n] \in ReceiptRows
      /\ receipt'[n].order = receipt[n].order
      /\ receipt'[n].warehouse = receipt[n].warehouse
      /\ receipt'[n].status = s
      /\ \A m \in Receipts \ {n} : receipt'[m] = receipt[m]
  BY <1>1, <1>2, <1>3 DEF TablesInv, ReceiptRows
<1>5. receipt'[n] # None
  BY <1>4, NoneIsNoPurchaseRow
<1>6. live2 \in SUBSET live /\ IsFiniteSet(live)
  <2>1. live2 \in SUBSET live
    BY <1>2, <1>4
  <2>2. live \in SUBSET Receipts
    OBVIOUS
  <2> HIDE DEF live, live2
  <2> QED BY <2>1, <2>2, FS_Subset, PurchaseConstants DEF PurchaseConstants
<1>7. ASSUME NEW k \in OrderLines
      PROVE  HeldLive(k)' \in Int /\ HeldLive(k) \in Int /\ HeldLive(k)' <= HeldLive(k)
  <2> DEFINE f == [m \in Receipts |-> rline[m][k]]
  <2>1. HeldLive(k) = SumFunctionOnSet(f, live) /\ HeldLive(k)' = SumFunctionOnSet(f, live2)
    BY DEF HeldLive, HeldBy
  <2>2. \A m \in live : f[m] \in Nat
    BY <1>1 DEF TablesInv
  <2> HIDE DEF f, live, live2
  <2>3. SumFunctionOnSet(f, live2) <= SumFunctionOnSet(f, live)
    BY <1>6, <2>2, SumOfSome
  <2>4. SumFunctionOnSet(f, live) \in Nat
    BY <1>6, <2>2, SumIsNat
  <2>5. IsFiniteSet(live2) /\ \A m \in live2 : f[m] \in Nat
    BY <1>6, <2>2, FS_Subset
  <2>6. SumFunctionOnSet(f, live2) \in Nat
    BY <2>5, SumIsNat
  <2> QED BY <2>1, <2>3, <2>4, <2>6
<1>8. \A l : LiveLines(l)' = LiveLines(l)
  BY DEF LiveLines, LiveOrder
<1>9. TablesInv'
  <2>1. receipt' \in [Receipts -> ReceiptRows \cup {None}]
    BY <1>1, <1>3, <1>4 DEF TablesInv
  <2>2. ReceiptsAreOrdered'
    <3> SUFFICES ASSUME NEW m \in Receipts
                 PROVE  /\ receipt'[m] # None => order[receipt'[m].order] = "COMPLETED"
                        /\ \A k \in OrderLines : rline[m][k] # 0 =>
                              /\ receipt'[m] # None
                              /\ oline[k] # None
                              /\ receipt'[m].order = oline[k].order
                              /\ receipt'[m].warehouse = oline[k].warehouse
      BY DEF ReceiptsAreOrdered
    <3>1. CASE m = n
      BY <1>1, <1>2, <1>4, <1>5, <3>1 DEF TablesInv, ReceiptsAreOrdered
    <3>2. CASE m # n
      BY <1>1, <1>4, <3>2 DEF TablesInv, ReceiptsAreOrdered
    <3> QED BY <3>1, <3>2
  <2>3. OneLiveLine'
    BY <1>1, <1>8 DEF TablesInv, OneLiveLine
  <2>4. NeverOverReceived'
    <3> SUFFICES ASSUME NEW k \in OrderLines, oline[k] # None PROVE HeldLive(k)' <= oline[k].quantity
      BY DEF NeverOverReceived
    <3>1. HeldLive(k) <= oline[k].quantity /\ oline[k].quantity \in Nat
      BY <1>1 DEF TablesInv, NeverOverReceived, IsOrderLine
    <3> QED BY <1>7, <3>1
  <2>5. LinesAreOrdered'
    BY <1>1 DEF TablesInv, LinesAreOrdered
  <2> QED BY <1>1, <2>1, <2>2, <2>3, <2>4, <2>5 DEF TablesInv
<1>10. /\ TxnShape' /\ RowsExclusive' /\ txn'[r] = Idle
       /\ \A q \in Requests : txn'[q] = txn[q] \/ txn'[q] = Idle
  BY <1>1, TxnKept
<1>11. ASSUME NEW q \in Requests PROVE Sound(txn[q])'
  <2>1. PICK t : t = txn'[q]
    OBVIOUS
  <2>2. CASE t = Idle
    <3>1. Sound(t)'
      BY <2>2 DEF Sound, BuyerSound, OrdererSound, StorekeeperSound, Orderers, Idle
    <3> QED BY <2>1, <3>1
  <2>3. CASE t # Idle
    <3>1. t = txn[q] /\ q # r /\ Sound(t)
      BY <1>1, <1>10, <2>1, <2>3
    <3>2. BuyerSound(t)'
      BY <1>8, <3>1 DEF Sound, BuyerSound
    <3>3. OrdererSound(t)'
      <4>1. ASSUME t.op \in Orderers PROVE PlanFits(t.arg.order, t.arg.plan)'
        <5>1. PlanFits(t.arg.order, t.arg.plan) /\ IsPlan(t.arg.plan)
          BY <3>1, <4>1 DEF Sound, OrdererSound
        <5>2. ASSUME NEW w \in DOMAIN t.arg.plan, NEW k \in OrderLines, t.arg.plan[w][k] # 0
              PROVE  HeldLive(k)' + t.arg.plan[w][k] <= oline[k].quantity
          <6>1. HeldLive(k) + t.arg.plan[w][k] <= oline[k].quantity /\ oline[k] # None
            BY <5>1, <5>2 DEF PlanFits
          <6>2. t.arg.plan[w][k] \in Nat /\ oline[k].quantity \in Nat
            BY <1>1, <5>1, <6>1 DEF IsPlan, TablesInv, IsOrderLine
          <6> QED BY <1>7, <6>1, <6>2
        <5> QED BY <5>1, <5>2 DEF PlanFits
      <4> QED BY <3>1, <4>1 DEF Sound, OrdererSound
    <3>4. StorekeeperSound(t)'
      <4>1. t.op \in {"confirm", "cancel"} => t.arg.receipt # n
        BY <1>1, <1>2, <3>1, HeldByOne DEF Sound, StorekeeperSound
      <4> QED BY <1>4, <3>1, <4>1 DEF Sound, StorekeeperSound
    <3>5. Sound(t)'
      BY <3>2, <3>3, <3>4 DEF Sound
    <3> QED BY <2>1, <3>5
  <2> QED BY <2>2, <2>3
<1>12. \A q \in Requests : Sound(txn[q])'
  BY <1>11
<1> QED BY <1>9, <1>10, <1>12, InvInParts

\* Less is written on a draft receipt than was expected.
LEMMA ReceivedShort ==
    ASSUME PurchaseInv, NEW n \in Receipts, NEW k \in OrderLines, NEW q \in 0 .. rline[n][k],
           ReceiveShort(n, k, q)
    PROVE  PurchaseInv'
<1> DEFINE live == {m \in Receipts : receipt[m] # None /\ receipt[m].status # "CANCELLED"}
<1>1. TablesInv /\ TxnShape /\ RowsExclusive /\ \A r \in Requests : Sound(txn[r])
  BY InvInParts
<1>2. /\ rline' = [rline EXCEPT ![n][k] = q]
      /\ UNCHANGED <<order, oline, receipt, txn>>
  BY DEF ReceiveShort, AtOnce
<1>3. rline[n][k] \in Nat /\ q \in Nat /\ q <= rline[n][k]
  BY <1>1 DEF TablesInv
<1>4. /\ rline' \in [Receipts -> [OrderLines -> Nat]]
      /\ \A m \in Receipts, j \in OrderLines :
            rline'[m][j] = IF m = n /\ j = k THEN q ELSE rline[m][j]
  BY <1>1, <1>2, <1>3 DEF TablesInv
<1>5. \A m \in Receipts, j \in OrderLines :
         rline'[m][j] \in Nat /\ rline[m][j] \in Nat /\ rline'[m][j] <= rline[m][j]
  BY <1>1, <1>3, <1>4 DEF TablesInv
<1>6. ASSUME NEW j \in OrderLines
      PROVE  HeldLive(j)' \in Int /\ HeldLive(j) \in Int /\ HeldLive(j)' <= HeldLive(j)
  <2> DEFINE f == [m \in Receipts |-> rline[m][j]]
             g == [m \in Receipts |-> rline'[m][j]]
  <2>1. HeldLive(j) = SumFunctionOnSet(f, live) /\ HeldLive(j)' = SumFunctionOnSet(g, live)
    BY <1>2 DEF HeldLive, HeldBy
  <2>2. \A m \in live : f[m] \in Nat /\ g[m] \in Nat /\ g[m] <= f[m]
    BY <1>5
  <2>3. IsFiniteSet(live)
    BY FS_Subset, PurchaseConstants DEF PurchaseConstants
  <2> HIDE DEF f, g, live
  <2>4. SumFunctionOnSet(f, live) \in Nat /\ SumFunctionOnSet(g, live) \in Nat
    BY <2>2, <2>3, SumIsNat
  <2>5. SumFunctionOnSet(g, live) <= SumFunctionOnSet(f, live)
    <3>1. \A m \in live : f[m] \in Int /\ g[m] \in Int /\ g[m] <= f[m]
      BY <2>2
    <3> QED BY <2>3, <3>1, SumAtMost
  <2> QED BY <2>1, <2>4, <2>5
<1>7. \A l : LiveLines(l)' = LiveLines(l)
  BY <1>2 DEF LiveLines, LiveOrder
<1>8. TablesInv'
  <2>1. ReceiptsAreOrdered'
    <3>1. \A m \in Receipts, j \in OrderLines : rline'[m][j] # 0 => rline[m][j] # 0
      BY <1>5
    <3> QED BY <1>1, <1>2, <3>1 DEF TablesInv, ReceiptsAreOrdered
  <2>2. OneLiveLine'
    BY <1>1, <1>7 DEF TablesInv, OneLiveLine
  <2>3. NeverOverReceived'
    <3> SUFFICES ASSUME NEW j \in OrderLines, oline[j] # None PROVE HeldLive(j)' <= oline[j].quantity
      BY <1>2 DEF NeverOverReceived
    <3>1. HeldLive(j) <= oline[j].quantity /\ oline[j].quantity \in Nat
      BY <1>1 DEF TablesInv, NeverOverReceived, IsOrderLine
    <3> QED BY <1>6, <3>1
  <2>4. LinesAreOrdered'
    BY <1>1, <1>2 DEF TablesInv, LinesAreOrdered
  <2> QED BY <1>1, <1>2, <1>4, <2>1, <2>2, <2>3, <2>4 DEF TablesInv
<1>9. ASSUME NEW r \in Requests PROVE Sound(txn[r])'
  <2>1. PICK t : t = txn[r]
    OBVIOUS
  <2>2. Sound(t)
    BY <1>1, <2>1
  <2>3. BuyerSound(t)'
    BY <1>2, <1>7, <2>2 DEF Sound, BuyerSound
  <2>4. OrdererSound(t)'
    <3>1. ASSUME t.op \in Orderers PROVE PlanFits(t.arg.order, t.arg.plan)'
      <4>1. PlanFits(t.arg.order, t.arg.plan) /\ IsPlan(t.arg.plan)
        BY <2>2, <3>1 DEF Sound, OrdererSound
      <4>2. ASSUME NEW w \in DOMAIN t.arg.plan, NEW j \in OrderLines, t.arg.plan[w][j] # 0
            PROVE  HeldLive(j)' + t.arg.plan[w][j] <= oline[j].quantity
        <5>1. HeldLive(j) + t.arg.plan[w][j] <= oline[j].quantity /\ oline[j] # None
          BY <4>1, <4>2 DEF PlanFits
        <5>2. t.arg.plan[w][j] \in Nat /\ oline[j].quantity \in Nat
          BY <1>1, <4>1, <5>1 DEF IsPlan, TablesInv, IsOrderLine
        <5> QED BY <1>6, <5>1, <5>2
      <4> QED BY <1>2, <4>1, <4>2 DEF PlanFits
    <3> QED BY <1>2, <2>2, <3>1 DEF Sound, OrdererSound
  <2>5. StorekeeperSound(t)'
    BY <1>2, <2>2 DEF Sound, StorekeeperSound
  <2>6. Sound(t)'
    BY <2>3, <2>4, <2>5 DEF Sound
  <2> QED BY <1>2, <2>1, <2>6
<1>10. TxnShape' /\ RowsExclusive'
  BY <1>1, <1>2 DEF TxnShape, RowsExclusive, Holds
<1>11. \A r \in Requests : Sound(txn[r])'
  BY <1>9
<1> QED BY <1>8, <1>10, <1>11, InvInParts

\* A request begins with what it has just read.
LEMMA RequestBegun ==
    ASSUME PurchaseInv, NEW r \in Requests, NEW op \in Operations, NEW arg, NEW rows,
           Begins(r, op, arg, rows), Sound([op |-> op, arg |-> arg, rows |-> rows])
    PROVE  PurchaseInv'
<1>1. TablesInv /\ TxnShape /\ RowsExclusive /\ \A q \in Requests : Sound(txn[q])
  BY InvInParts
<1>2. /\ TxnShape' /\ RowsExclusive' /\ UNCHANGED tables
      /\ txn'[r] = [op |-> op, arg |-> arg, rows |-> rows]
      /\ \A q \in Requests \ {r} : txn'[q] = txn[q]
  BY <1>1, TxnBegun
<1>3. TablesInv' /\ \A t : Sound(t) => Sound(t)'
  BY <1>1, <1>2, RowsStand DEF tables
<1>4. ASSUME NEW q \in Requests PROVE Sound(txn[q])'
  <2>1. PICK t : t = txn'[q]
    OBVIOUS
  <2>2. Sound(t)
    BY <1>1, <1>2, <2>1
  <2>3. Sound(t)'
    BY <1>3, <2>2
  <2> QED BY <2>1, <2>3
<1>5. \A q \in Requests : Sound(txn[q])'
  BY <1>4
<1> QED BY <1>2, <1>3, <1>5, InvInParts

-----------------------------------------------------------------------------
(***************************************************************************)
(* Every step keeps the invariant.                                         *)
(***************************************************************************)
LEMMA FormKeepsInv == ASSUME PurchaseInv, FormNext PROVE PurchaseInv'
<1>1. ASSUME NEW q \in Forms, CreateForm(q) PROVE PurchaseInv'
  BY <1>1, NothingWritten DEF CreateForm, AtOnce
<1>2. ASSUME NEW l \in FormLines, AddFormLine(l) \/ RemoveFormLine(l) PROVE PurchaseInv'
  BY <1>2, NothingWritten DEF AddFormLine, RemoveFormLine, AtOnce
<1>3. ASSUME NEW r \in Requests, NEW q \in Forms, SubmitBegin(r, q) PROVE PurchaseInv'
  <2>1. \A arg, rows : Sound([op |-> "submit", arg |-> arg, rows |-> rows])
    BY DEF Sound, BuyerSound, OrdererSound, StorekeeperSound, Orderers
  <2>2. "submit" \in Operations
    BY DEF Operations
  <2> QED BY <1>3, <2>1, <2>2, RequestBegun DEF SubmitBegin
<1>4. ASSUME NEW r \in Requests, SubmitCommit(r) \/ MarkCommit(r) \/ CancelCommit(r) PROVE PurchaseInv'
  BY <1>4, NothingWritten DEF SubmitCommit, MarkCommit, CancelCommit
<1>5. ASSUME NEW q \in Forms, NEW status, Decide(q, status) PROVE PurchaseInv'
  BY <1>5, NothingWritten DEF Decide, AtOnce
<1>6. ASSUME NEW r \in Requests, NEW l \in FormLines, NEW marked, MarkBegin(r, l, marked) PROVE PurchaseInv'
  <2>1. \A arg, rows : Sound([op |-> "mark", arg |-> arg, rows |-> rows])
    BY DEF Sound, BuyerSound, OrdererSound, StorekeeperSound, Orderers
  <2>2. "mark" \in Operations
    BY DEF Operations
  <2> QED BY <1>6, <2>1, <2>2, RequestBegun DEF MarkBegin
<1>7. ASSUME NEW r \in Requests, NEW q \in Forms, NEW ids, CancelBegin(r, q, ids) PROVE PurchaseInv'
  <2>1. \A arg, rows : Sound([op |-> "cancel_form", arg |-> arg, rows |-> rows])
    BY DEF Sound, BuyerSound, OrdererSound, StorekeeperSound, Orderers
  <2>2. "cancel_form" \in Operations
    BY DEF Operations
  <2> QED BY <1>7, <2>1, <2>2, RequestBegun DEF CancelBegin
<1> QED BY <1>1, <1>2, <1>3, <1>4, <1>5, <1>6, <1>7 DEF FormNext

\* The lines still pending of those a request has locked are written on no live
\* order.
LEMMA PendingLines ==
    ASSUME NEW ids
    PROVE  \A l \in StillPending(ids) : l \in ids /\ LiveLines(l) = {}
BY DEF StillPending, IsPending

\* The lines a group's read may show, and those of a request.
LEMMA ReadLines ==
    /\ \A q : \A ids \in PreReads(q) : ids \in SUBSET FormLines
    /\ \A s, f : \A ids \in GroupReads(s, f) : ids \in SUBSET FormLines
<1>1. ASSUME NEW q, NEW ids \in PreReads(q) PROVE ids \in SUBSET FormLines
  <2>1. LinesOf(q) \in SUBSET FormLines
    BY DEF LinesOf
  <2>2. ids \in SUBSET LinesOf(q)
    BY DEF PreReads
  <2> QED BY <2>1, <2>2
<1>2. ASSUME NEW s, NEW f, NEW ids \in GroupReads(s, f) PROVE ids \in SUBSET FormLines
  BY DEF GroupReads
<1> QED BY <1>1, <1>2

LEMMA OrderKeepsInv == ASSUME PurchaseInv, OrderNext PROVE PurchaseInv'
<1>1. TablesInv /\ TxnShape /\ RowsExclusive /\ \A r \in Requests : Sound(txn[r])
  BY InvInParts
<1>2. ASSUME NEW o \in Orders, CreateOrder(o) PROVE PurchaseInv'
  <2>1. order[o] = None
    BY <1>2 DEF CreateOrder, Fresh
  <2> QED BY <1>2, <2>1, OrderCreated DEF CreateOrder, AtOnce
<1>3. ASSUME NEW o \in Orders, NEW l \in FormLines, AddOrderLine(o, l) PROVE PurchaseInv'
  <2> DEFINE k == Min(FirstFree(1))
             x == [OrderLine(o, l) EXCEPT !.fline = None]
  <2>1. FirstFree(1) \in SUBSET OrderLines /\ \A j \in FirstFree(1) : oline[j] = None
    BY DEF FirstFree
  <2>2. k \in FirstFree(1)
    <3>1. FirstFree(1) # {}
      BY <1>3 DEF AddOrderLine
    <3>2. FirstFree(1) \in SUBSET Nat /\ IsFiniteSet(FirstFree(1))
      BY <2>1, FS_Subset, PurchaseConstants DEF PurchaseConstants
    <3> QED BY <3>1, <3>2, MinIsLeast
  <2>3. oline' = [oline EXCEPT ![k] = x] /\ UNCHANGED <<order, receipt, rline, txn>>
    BY <1>3 DEF AddOrderLine, AtOnce
  <2>4. Draft(o) /\ \A r \in Requests : OrderRow(o) \notin Holds(r)
    BY <1>3 DEF AddOrderLine, AtOnce
  <2>5. IsOrderLine(x) /\ x.order = o /\ x.fline = None
    <3>1. ProductOf[l] \in Products /\ WarehouseOf[l] \in Nat /\ Asked[l] \in Nat
      BY PurchaseConstants DEF PurchaseConstants, Products
    <3> QED BY <3>1 DEF IsOrderLine, OrderLine
  <2>6. k \in OrderLines /\ oline[k] = None
    BY <2>1, <2>2
  <2> HIDE DEF k, x
  <2> QED BY <2>3, <2>4, <2>5, <2>6, LineEdited
<1>4. ASSUME NEW k \in OrderLines, NEW price, UpdateOrderLine(k, price) PROVE PurchaseInv'
  <2> DEFINE x == [oline[k] EXCEPT !.price = price]
             o == oline[k].order
  <2>1. oline[k] # None /\ IsOrderLine(oline[k])
    BY <1>1, <1>4 DEF TablesInv, UpdateOrderLine
  <2>2. oline' = [oline EXCEPT ![k] = x] /\ UNCHANGED <<order, receipt, rline, txn>>
    BY <1>1, <1>4 DEF TablesInv, UpdateOrderLine, AtOnce
  <2>3. Draft(o) /\ \A r \in Requests : OrderRow(o) \notin Holds(r)
    BY <1>4 DEF UpdateOrderLine, AtOnce
  <2>4. o \in Orders /\ IsOrderLine(x) /\ x.order = o /\ x.fline = oline[k].fline
    BY <2>1 DEF IsOrderLine
  <2> HIDE DEF x
  <2> QED BY <2>1, <2>2, <2>3, <2>4, LineEdited
<1>5. ASSUME NEW k \in OrderLines, RemoveOrderLine(k) PROVE PurchaseInv'
  <2> DEFINE o == oline[k].order
  <2>1. oline[k] # None /\ IsOrderLine(oline[k])
    BY <1>1, <1>5 DEF TablesInv, RemoveOrderLine
  <2>2. oline' = [oline EXCEPT ![k] = None] /\ UNCHANGED <<order, receipt, rline, txn>>
    BY <1>5 DEF RemoveOrderLine, AtOnce
  <2>3. Draft(o) /\ \A r \in Requests : OrderRow(o) \notin Holds(r)
    BY <1>5 DEF RemoveOrderLine, AtOnce
  <2>4. o \in Orders
    BY <2>1 DEF IsOrderLine
  <2> QED BY <2>1, <2>2, <2>3, <2>4, LineEdited
<1>6. ASSUME NEW o \in Orders, CancelOrder(o) PROVE PurchaseInv'
  BY <1>6, OrderCancelled DEF CancelOrder, AtOnce
<1>7. ASSUME NEW r \in Requests, NEW o \in Orders, NEW q \in Forms, NEW ids \in PreReads(q),
             TakeBegin(r, o, q, ids)
      PROVE  PurchaseInv'
  <2> DEFINE arg == [order |-> o, lines |-> StillPending(ids)]
             rows == {OrderRow(o)} \cup {LineRow(l) : l \in ids}
             t == [op |-> "take", arg |-> arg, rows |-> rows]
  <2>1. /\ StillPending(ids) \in SUBSET FormLines
        /\ \A l \in StillPending(ids) : LineRow(l) \in rows /\ LiveLines(l) = {}
    BY PendingLines, ReadLines
  <2>2. order[o] = "DRAFT" /\ Begins(r, "take", arg, rows)
    BY <1>7 DEF TakeBegin, Draft
  <2>3. BuyerSound(t)
    BY <2>1, <2>2 DEF BuyerSound
  <2>4. Sound(t)
    <3>1. t.op = "take"
      OBVIOUS
    <3> HIDE DEF t
    <3> QED BY <2>3, <3>1 DEF Sound, OrdererSound, StorekeeperSound, Orderers
  <2>5. "take" \in Operations
    BY DEF Operations
  <2> HIDE DEF arg, rows
  <2> QED BY <2>2, <2>4, <2>5, RequestBegun
<1>8. ASSUME NEW r \in Requests, TakeCommit(r) PROVE PurchaseInv'
  <2>1. PICK lines, o : lines = txn[r].arg.lines /\ o = txn[r].arg.order
    OBVIOUS
  <2>2. txn[r].op = "take" /\ Ends(r) /\ Written(o, lines) /\ UNCHANGED <<order, receipt, rline>>
    BY <1>8, <2>1 DEF TakeCommit, Runs
  <2>3. o \in Orders /\ order[o] = "DRAFT"
    BY <1>1, <2>1, <2>2 DEF Sound, BuyerSound
  <2> QED BY <1>1, <2>1, <2>2, <2>3, LinesWritten DEF TablesInv
<1>9. ASSUME NEW r \in Requests, NEW s, NEW f, NEW ids \in GroupReads(s, f), GroupBegin(r, ids)
      PROVE  PurchaseInv'
  <2> DEFINE arg == [lines |-> StillPending(ids)]
             rows == {LineRow(l) : l \in ids}
             t == [op |-> "group", arg |-> arg, rows |-> rows]
  <2>1. /\ StillPending(ids) \in SUBSET FormLines
        /\ \A l \in StillPending(ids) : LineRow(l) \in rows /\ LiveLines(l) = {}
    BY PendingLines, ReadLines
  <2>2. Begins(r, "group", arg, rows)
    BY <1>9 DEF GroupBegin
  <2>3. BuyerSound(t)
    BY <2>1 DEF BuyerSound
  <2>4. Sound(t)
    <3>1. t.op = "group"
      OBVIOUS
    <3> HIDE DEF t
    <3> QED BY <2>3, <3>1 DEF Sound, OrdererSound, StorekeeperSound, Orderers
  <2>5. "group" \in Operations
    BY DEF Operations
  <2> HIDE DEF arg, rows
  <2> QED BY <2>2, <2>4, <2>5, RequestBegun
<1>10. ASSUME NEW r \in Requests, NEW o \in Orders, GroupCommit(r, o) PROVE PurchaseInv'
  <2>1. PICK lines : lines = txn[r].arg.lines
    OBVIOUS
  <2>2. /\ txn[r].op = "group" /\ Ends(r) /\ Written(o, lines) /\ UNCHANGED <<receipt, rline>>
        /\ order' = [order EXCEPT ![o] = "DRAFT"] /\ order[o] = None
    BY <1>10, <2>1 DEF GroupCommit, Runs, Fresh
  <2>3. /\ order' \in [Orders -> DocStatuses \cup {None}] /\ order'[o] = "DRAFT"
        /\ \A p \in Orders \ {o} : order'[p] = order[p]
    BY <1>1, <2>2 DEF TablesInv, DocStatuses
  <2> QED BY <2>1, <2>2, <2>3, LinesWritten
<1>11. ASSUME NEW r \in Requests, NEW o \in Orders, ConfirmOrderBegin(r, o) PROVE PurchaseInv'
  <2> DEFINE arg == [order |-> o, plan |-> Plan(o)]
             t == [op |-> "confirm_order", arg |-> arg, rows |-> {OrderRow(o)}]
  <2>1. IsPlan(Plan(o)) /\ PlanFits(o, Plan(o))
    BY PlanIsRoom DEF PurchaseInv
  <2>2. order[o] = "DRAFT" /\ Begins(r, "confirm_order", arg, {OrderRow(o)})
    BY <1>11 DEF ConfirmOrderBegin, Draft
  <2>3. OrdererSound(t)
    BY <2>1, <2>2 DEF OrdererSound
  <2>4. Sound(t)
    <3>1. t.op = "confirm_order"
      OBVIOUS
    <3> HIDE DEF t
    <3> QED BY <2>3, <3>1 DEF Sound, BuyerSound, StorekeeperSound
  <2>5. "confirm_order" \in Operations
    BY DEF Operations
  <2> HIDE DEF arg
  <2> QED BY <2>2, <2>4, <2>5, RequestBegun
<1>12. ASSUME NEW r \in Requests, ConfirmOrderCommit(r) PROVE PurchaseInv'
  <2>1. PICK o, plan : o = txn[r].arg.order /\ plan = txn[r].arg.plan
    OBVIOUS
  <2>2. /\ txn[r].op \in Orderers /\ Ends(r) /\ Generates(o, plan) /\ UNCHANGED oline
        /\ order' = [order EXCEPT ![o] = "COMPLETED"]
    BY <1>12, <2>1 DEF ConfirmOrderCommit, Runs, Orderers
  <2> QED BY <2>1, <2>2, ReceiptsGenerated
<1> QED BY <1>2, <1>3, <1>4, <1>5, <1>6, <1>7, <1>8, <1>9, <1>10, <1>11, <1>12 DEF OrderNext

LEMMA ReceiptKeepsInv == ASSUME PurchaseInv, ReceiptNext PROVE PurchaseInv'
<1>1. TablesInv /\ TxnShape /\ RowsExclusive /\ \A r \in Requests : Sound(txn[r])
  BY InvInParts
<1>2. ASSUME NEW r \in Requests, NEW n \in Receipts, ConfirmBegin(r, n) PROVE PurchaseInv'
  <2> DEFINE arg == [receipt |-> n, result |-> Applied(n), unpriced |-> Unpriced]
             rows == {ReceiptRow(n)} \cup WarehouseRows(n) \cup CostRows(n)
             t == [op |-> "confirm", arg |-> arg, rows |-> rows]
  <2>1. Begins(r, "confirm", arg, rows) /\ receipt[n] # None /\ receipt[n].status = "DRAFT"
    BY <1>2 DEF ConfirmBegin, IsReceipt
  <2>2. t.op = "confirm" /\ t.arg.receipt = n /\ ReceiptRow(n) \in t.rows
    OBVIOUS
  <2>3. Sound(t)
    <3> HIDE DEF t
    <3> QED BY <2>1, <2>2 DEF Sound, BuyerSound, OrdererSound, StorekeeperSound, Orderers
  <2>4. "confirm" \in Operations
    BY DEF Operations
  <2> HIDE DEF arg, rows
  <2> QED BY <2>1, <2>3, <2>4, RequestBegun
<1>3. ASSUME NEW r \in Requests, ConfirmCommit(r) PROVE PurchaseInv'
  <2>1. PICK n : n = txn[r].arg.receipt
    OBVIOUS
  <2>2. /\ txn[r].op = "confirm" /\ Ends(r) /\ UNCHANGED <<order, oline, rline>>
        /\ receipt' = [receipt EXCEPT ![n].status = "COMPLETED"]
    BY <1>3, <2>1 DEF ConfirmCommit, Runs
  <2> QED BY <2>1, <2>2, ReceiptMoved
<1>4. ASSUME NEW r \in Requests, NEW n \in Receipts, CancelReceiptBegin(r, n) PROVE PurchaseInv'
  <2>1. PICK arg, rows :
           /\ arg = [receipt |-> n,
                     log |-> IF IsReceipt(n, "COMPLETED") THEN Restores(n) ELSE << >>]
           /\ rows = {ReceiptRow(n)} \cup WarehouseRows(n)
                        \cup IF IsReceipt(n, "COMPLETED") THEN CostRows(n) ELSE {}
    OBVIOUS
  <2> DEFINE t == [op |-> "cancel", arg |-> arg, rows |-> rows]
  <2>2. Begins(r, "cancel", arg, rows) /\ receipt[n] # None
    BY <1>4, <2>1 DEF CancelReceiptBegin
  <2>3. t.op = "cancel" /\ t.arg.receipt = n /\ ReceiptRow(n) \in t.rows
    BY <2>1
  <2>4. Sound(t)
    <3> HIDE DEF t
    <3> QED BY <2>2, <2>3 DEF Sound, BuyerSound, OrdererSound, StorekeeperSound, Orderers
  <2>5. "cancel" \in Operations
    BY DEF Operations
  <2> QED BY <2>2, <2>4, <2>5, RequestBegun
<1>5. ASSUME NEW r \in Requests, CancelReceiptCommit(r) PROVE PurchaseInv'
  <2>1. PICK n : n = txn[r].arg.receipt
    OBVIOUS
  <2>2. /\ txn[r].op = "cancel" /\ Ends(r) /\ UNCHANGED <<order, oline, rline>>
        /\ receipt' = [receipt EXCEPT ![n].status = "CANCELLED"]
    BY <1>5, <2>1 DEF CancelReceiptCommit, Runs
  <2> QED BY <2>1, <2>2, ReceiptMoved
<1>6. ASSUME NEW n \in Receipts, NEW k \in OrderLines, NEW q \in 0 .. rline[n][k], ReceiveShort(n, k, q)
      PROVE  PurchaseInv'
  BY <1>6, ReceivedShort
<1>7. ASSUME NEW r \in Requests, NEW n \in Receipts, ComplementBegin(r, n) PROVE PurchaseInv'
  <2>1. receipt[n] # None /\ receipt[n] \in ReceiptRows
    BY <1>1, <1>7 DEF TablesInv, ComplementBegin, Complementable
  <2>2. PICK o \in Orders, w \in Nat : o = receipt[n].order /\ w = receipt[n].warehouse
    BY <2>1 DEF ReceiptRows
  <2> DEFINE plan == [v \in {w} |-> Remaining(o, v)]
             arg == [order |-> o, plan |-> plan]
             t == [op |-> "complement", arg |-> arg, rows |-> {OrderRow(o)}]
  <2>3. /\ Begins(r, "complement", arg, {OrderRow(o)})
        /\ order[o] = "COMPLETED" /\ OpenDrafts(o, w) = {}
    BY <1>7, <2>2 DEF ComplementBegin, Complementable
  <2>4. IsPlan(plan) /\ PlanFits(o, plan)
    BY <1>1, <2>3, RemainderIsRoom DEF PurchaseInv
  <2> HIDE DEF plan
  <2>5. OrdererSound(t)
    BY <2>3, <2>4 DEF OrdererSound
  <2>6. Sound(t)
    <3>1. t.op = "complement"
      OBVIOUS
    <3> HIDE DEF t
    <3> QED BY <2>5, <3>1 DEF Sound, BuyerSound, StorekeeperSound
  <2>7. "complement" \in Operations
    BY DEF Operations
  <2> HIDE DEF arg
  <2> QED BY <2>3, <2>6, <2>7, RequestBegun
<1>8. ASSUME NEW r \in Requests, ComplementCommit(r) PROVE PurchaseInv'
  <2>1. PICK o, plan : o = txn[r].arg.order /\ plan = txn[r].arg.plan
    OBVIOUS
  <2>2. /\ txn[r].op = "complement" /\ Ends(r) /\ Generates(o, plan) /\ UNCHANGED <<order, oline>>
    BY <1>8, <2>1 DEF ComplementCommit, Runs
  <2>3. o \in Orders /\ order[o] = "COMPLETED"
    BY <1>1, <2>1, <2>2 DEF Sound, OrdererSound, Orderers
  <2>4. order' = [order EXCEPT ![o] = "COMPLETED"]
    BY <1>1, <2>2, <2>3 DEF TablesInv
  <2> QED BY <2>1, <2>2, <2>4, ReceiptsGenerated DEF Orderers
<1> QED BY <1>2, <1>3, <1>4, <1>5, <1>6, <1>7, <1>8 DEF ReceiptNext

LEMMA InitIsSound == ASSUME Init PROVE PurchaseInv
<1>1. TablesInv
  <2>1. \A k \in OrderLines : HeldLive(k) = 0
    BY HeldNowhere DEF Init
  <2>2. /\ \A k \in OrderLines : oline[k] = None
        /\ \A n \in Receipts : receipt[n] = None /\ \A k \in OrderLines : rline[n][k] = 0
    BY DEF Init
  <2>3. OneLiveLine
    BY <2>2 DEF OneLiveLine, LiveLines
  <2>4. LinesAreOrdered /\ ReceiptsAreOrdered /\ NeverOverReceived
    BY <2>2 DEF LinesAreOrdered, ReceiptsAreOrdered, NeverOverReceived
  <2>5. /\ order \in [Orders -> DocStatuses \cup {None}]
        /\ DOMAIN oline = OrderLines
        /\ oline = [k \in OrderLines |-> oline[k]]
        /\ receipt \in [Receipts -> ReceiptRows \cup {None}]
        /\ rline \in [Receipts -> [OrderLines -> Nat]]
    BY DEF Init
  <2> QED BY <2>2, <2>3, <2>4, <2>5 DEF TablesInv
<1>2. TxnShape /\ RowsExclusive
  BY DEF Init, TxnShape, RowsExclusive, Holds, Idle
<1>3. \A r \in Requests : Sound(txn[r])
  BY IdleIsSound DEF Init
<1> QED BY <1>1, <1>2, <1>3, InvInParts

\* What purchasing keeps true: the invariant every property below follows from.
THEOREM PurchaseInvariance == Spec => []PurchaseInv
<1>1. Init => PurchaseInv
  BY InitIsSound
<1>2. PurchaseInv /\ [Next]_vars => PurchaseInv'
  <2> SUFFICES ASSUME PurchaseInv, [Next]_vars PROVE PurchaseInv'
    OBVIOUS
  <2>1. CASE FormNext
    BY <2>1, FormKeepsInv
  <2>2. CASE OrderNext
    BY <2>2, OrderKeepsInv
  <2>3. CASE ReceiptNext
    BY <2>3, ReceiptKeepsInv
  <2>4. CASE \E r \in Requests : Abort(r)
    BY <2>4, NothingWritten DEF Abort, tables
  <2>5. CASE UNCHANGED vars
    BY <2>5, NothingWritten DEF vars, tables
  <2> QED BY <2>1, <2>2, <2>3, <2>4, <2>5 DEF Next
<1> QED BY <1>1, <1>2, PTL DEF Spec

\* add_request_lines and create_from_group lock the lines of a request before
\* they look whether they are still pending: however many buyers draw on a
\* request at once, over any number of requests, lines and orders, and even
\* where lines are added between a pre-read and its locks, no line is ordered
\* twice.
THEOREM LinesOrderedOnce == Spec => []OrderedOnce
<1>1. PurchaseInv => OrderedOnce
  <2> SUFFICES ASSUME PurchaseInv, NEW l \in FormLines PROVE Cardinality(LiveLines(l)) <= 1
    BY DEF OrderedOnce
  <2>1. \A j, k \in LiveLines(l) : j = k
    BY DEF PurchaseInv, OneLiveLine
  <2>2. CASE LiveLines(l) = {}
    BY <2>2, FS_EmptySet
  <2>3. CASE LiveLines(l) # {}
    <3>1. PICK k \in LiveLines(l) : TRUE
      BY <2>3
    <3>2. LiveLines(l) = {k}
      BY <2>1, <3>1
    <3>3. Cardinality({k}) = 1
      BY FS_Singleton
    <3> QED BY <3>2, <3>3
  <2> QED BY <2>2, <2>3
<1> QED BY <1>1, PurchaseInvariance, PTL

\* confirm and complementary_receipt plan what no live receipt holds under the
\* order's lock: over any number of orders, warehouses, partial receipts and
\* cancellations, a line is never received beyond what was ordered.
THEOREM ReceivedWithinOrdered == Spec => []NeverOverReceived
<1>1. PurchaseInv => NeverOverReceived
  BY DEF PurchaseInv
<1> QED BY <1>1, PurchaseInvariance, PTL

=============================================================================
