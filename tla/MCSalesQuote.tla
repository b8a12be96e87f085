----------------------------- MODULE MCSalesQuote ------------------------------
(* An instance of SalesQuote for TLC: orders come only from quotes. *)
EXTENDS SalesQuote, TLC

CONSTANTS o1, o2, q1, q2, l1, ana, f1, w1, p1, r1, r2

\* A unit on the list or at 2, with a cent off; as an order's line, from w1.
Offers == {[product |-> p1, quantity |-> 1, price |-> 0, adjustment |-> 0],
           [product |-> p1, quantity |-> 1, price |-> 3, adjustment |-> -1]}
FromW1 == {[product |-> p1, warehouse |-> w1, quantity |-> 1, price |-> 2]}

NoLimit == [c \in Customers |-> 0]
OneList == [c \in Customers |-> 1]
ListPrices == [c \in Customers |-> [p \in Products |-> 2]]

\* The quotes' own requests run before there is an order; only the first quote
\* is edited, or emailed before there is another, or runs out once confirmed.
\* Once there is an order, its quote is as it was converted and the other was
\* never raised; dates pass for confirmed orders.
QuoteOps == {"edit quote", "confirm quote", "cancel quote", "email quote"}
Scenarios ==
    \/ /\ \A o \in Orders : ~ order[o].exists
       /\ quote[q1] # None => (quote[q1].lapsed => quote[q1].completed)
       /\ quote[q2] # None => ~ quote[q2].lapsed /\ sent[q1] + sent[q2] = 0
       /\ \A r \in Requests : txn[r].op = "edit quote" => txn[r].quote = q1
    \/ /\ quote[q2] = None /\ sent[q1] = 0 /\ quote[q1].serial = 1
       /\ ~ quote[q1].cancelled /\ ~ quote[q1].lapsed /\ quote[q1].payment_terms = "IMMEDIATE"
       /\ qline[q1][l1] # None /\ qline[q1][l1].adjustment < 0
       /\ \A r \in Requests : txn[r].op \notin QuoteOps
       /\ \A o \in Orders :
             /\ order[o].details => line[o][l1] # None /\ line[o][l1].warehouse # None
             /\ elapsed[o] # {} => order[o].completed
=============================================================================
