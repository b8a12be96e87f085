----------------------------- MODULE Receivables ------------------------------
(***************************************************************************)
(* accounts_service, the customers' side: what a customer owes on open     *)
(* credit orders, what they have in payments left to apply, and the        *)
(* difference, read beside the refunds and payments that move them.        *)
(* The four late buckets are one; names, pages and sorting are left out.   *)
(***************************************************************************)
EXTENDS CustomerRefund

\* payments_with_credit
PaymentsWithCredit(c) ==
    {p \in Payments : payment[p] # None /\ payment[p].customer = c /\ Unapplied(p) > Settled}

\* _customer_credit
CustomerCredit(c) == MapThenSumSet(Unapplied, PaymentsWithCredit(c))

\* days_past_due and bucket, as far as late or not.
Bucket(o) == IF "due" \in elapsed[o] THEN "overdue" ELSE "current"

\* A customer's open documents (_customer_documents) in one bucket.
InBucket(c, bucket) ==
    MapThenSumSet(Balance, {o \in OpenCreditOrders(c) : Bucket(o) = bucket})

\* summarize, for a user who sees every facility.
Summary(c) ==
    LET owed == InBucket(c, "current") + InBucket(c, "overdue")
        limited == CreditLimit[c] > 0
    IN  [owed |-> owed, overdue |-> owed - InBucket(c, "current"),
         credit |-> CustomerCredit(c), net |-> owed - CustomerCredit(c),
         available_credit |-> IF limited THEN CreditLimit[c] - owed ELSE None]

-----------------------------------------------------------------------------
Standing(c) ==
    {o \in Orders : order[o].customer = c /\ order[o].completed /\ ~ order[o].cancelled}

\* Money that came in, less money handed back; store credit is neither.
Received(c) ==
    LET credits == {refund[n].payout : n \in {m \in Refunds : refund[m] # None /\ refund[m].completed}}
    IN  MapThenSumSet(LAMBDA p : payment[p].amount,
            {p \in Payments : /\ payment[p] # None /\ payment[p].customer = c
                              /\ p \in credits => payment[p].amount < 0})

\* The money follows the order: none is held by a cancelled one, a refunded
\* one keeps what paid for it, and no race has left a wrong flag.
MoneyFollows(o) ==
    /\ order[o].cancelled => Applied(o) = 0
    /\ Refunded(o) > 0 => Applied(o) = Total(o)
    /\ order[o].paid => Balance(o) <= Settled

(***************************************************************************)
(* Over applications, reversals, refunds in cash and in store credit, the  *)
(* net the receivables screen shows is what the customer bought and kept   *)
(* less what they paid and did not get back: no cent is counted on both    *)
(* sides of it or on neither (FR-005, FR-014).  Excepted are customers     *)
(* with an order on which the code itself lets go of the money.            *)
(***************************************************************************)
ReceivablesReconcile ==
    \A c \in Customers :
        (\A o \in Orders : order[o].customer = c => MoneyFollows(o)) =>
            Summary(c).net =
                MapThenSumSet(LAMBDA o : Total(o) - Refunded(o), Standing(c)) - Received(c)
=============================================================================
