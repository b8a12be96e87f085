----------------------------- MODULE MCSalesCycle ----------------------------
(* Instances of SalesOrder, and of Receivables over CustomerRefund, for TLC. *)
EXTENDS Receivables, TLC

CONSTANTS o1, o2, l1, l2, ana, walkin, f1, f2, w1, p1, p2, pay1, pay2, pay3, a1, a2, a3, r1, r2, e1,
    n1, n2

\* One line of two units, two cents each: half of the order is more than the
\* cent that counts as settled.
TwoUnits == [o \in Orders |-> [product |-> p1, warehouse |-> w1, quantity |-> 2, price |-> 2]]

\* One line worth 3 cents: 2 leave a settled cent, 1 does not.
OneLineOf3 == [o \in Orders |-> [product |-> p1, warehouse |-> w1, quantity |-> 1, price |-> 3]]

\* Lines of a stocked product draw on one warehouse, those of the other on none;
\* two lines cost more than a limit of 3.
StockMenu ==
    {[product |-> p1, warehouse |-> w1, quantity |-> 1, price |-> 2],
     [product |-> p1, warehouse |-> w1, quantity |-> 2, price |-> 1],
     [product |-> p2, warehouse |-> None, quantity |-> 1, price |-> 2]}

StockSymmetry ==
    UNION {Permutations(S) : S \in {Orders, LineIds, Facilities, Requests}}

LimitOf3 == [c \in Customers |-> IF c = WalkIn THEN 0 ELSE 3]
NoLimit == [c \in Customers |-> 0]
ListsDiffer == [c \in Customers |-> c]
ListPrices == [c \in Customers |-> [p \in Products |-> 0]]
ToW1 == [f \in Facilities |-> w1]

\* The order was paid for by one legacy payment, applied in full.
PaidFor == [p \in {pay1} |-> [order |-> o1, by |-> a1]]

NoLegacy == [p \in {} |-> None]

\* Each clerk works on a draft of their own.
OwnDesk == [r \in Requests |-> IF r = r1 THEN {n1} ELSE {n2}]
NoDesk == [r \in Requests |-> {}]

\* The clerks change places together with their drafts; so do the payments
\* made later, and the applications made later, among themselves.
SameClerks == [x \in {r1, r2, n1, n2} |-> x]
OtherClerks == [x \in {r1, r2, n1, n2} |->
                   CASE x = r1 -> r2 [] x = r2 -> r1 [] x = n1 -> n2 [] x = n2 -> n1]
Clerks ==
    {payments @@ applications @@ clerks :
        payments \in Permutations({pay2, pay3}),
        applications \in Permutations({a2, a3}), clerks \in {SameClerks, OtherClerks}}

\* Without a refund, three applications of verified payments; with one, two
\* applications, and nobody verifies.
Scenarios ==
    \/ \A n \in Refunds : refund[n] = None
    \/ /\ \E a \in Applications : application[a] = None
       /\ \A p \in Payments : payment[p] # None => payment[p].verifier = None
       /\ \A r \in Requests : txn[r] # Idle => txn[r].op # "verify"
=============================================================================
