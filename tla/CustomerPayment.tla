--------------------------- MODULE CustomerPayment ---------------------------
(***************************************************************************)
(* customer_payment_service: payments, their application to orders, the    *)
(* reversal of an application, and the paid flag both keep in step with    *)
(* the order's balance.                                                    *)
(*                                                                         *)
(* Orders start confirmed: drafting and confirming them is SalesOrder's    *)
(* part.  Cancelling them, by a person or by the sweep, runs beside the    *)
(* payments here.                                                          *)
(***************************************************************************)
EXTENDS SalesOrder

CONSTANTS
    Confirmed,      \* orders that start confirmed, with the line each has
    OrderTerms,     \* the terms they carry
    StalePaid,      \* a payment that covers an order never flagged (legacy row)
    Tenders,        \* amounts payments are created with
    Amounts,        \* amounts applications ask for
    Changes,        \* change handed back
    Verifiers       \* employees who verify payments

ASSUME PaymentConstants ==
    /\ Confirmed \in [Orders -> Lines]
    /\ OrderTerms \in Terms
    /\ DOMAIN StalePaid \subseteq Payments /\ Cardinality(DOMAIN StalePaid) <= 1
    /\ StalePaid \in [DOMAIN StalePaid -> [order : Orders, by : Applications]]
    /\ LineIds # {} /\ Customers # {WalkIn}
    /\ IsFiniteSet(Payments)
    /\ Tenders \subseteq Nat \ {0}
    /\ Amounts \subseteq Nat \ {0}
    /\ Changes \subseteq Nat

PaymentRows ==
    [customer : Customers, facility : Facilities, verifier : Verifiers \cup {None},
     serial : Nat, amount : Int]

ApplicationRows ==
    [payment : Payments, order : Orders, amount : Nat, change : Nat, cancelled : BOOLEAN]

ASSUME NoneIsNoPaymentRow == None \notin PaymentRows \cup ApplicationRows \cup Lines

-----------------------------------------------------------------------------
(***************************************************************************)
(* The rules.                                                              *)
(***************************************************************************)
LiveOfPayment(p) ==
    {a \in Applications : /\ application[a] # None
                          /\ application[a].payment = p
                          /\ ~ application[a].cancelled}

\* What live applications took of a payment, their change included.
Used(p) ==
    SumFunction([a \in LiveOfPayment(p) |-> application[a].amount + application[a].change])

\* unapplied_amount
Unapplied(p) == payment[p].amount - Used(p)

\* assert_order_payable
Payable(o) == order[o].completed /\ ~ order[o].cancelled

\* assert_not_settled
NotSettled(o) == ~ order[o].paid /\ Balance(o) > Settled

PaymentSerials(f) ==
    {payment[p].serial : p \in {q \in Payments : payment[q] # None /\ payment[q].facility = f}}

NextPaymentFolio(f) == Max(PaymentSerials(f) \cup {0}) + 1

\* assert_within_balance
WithinBalance(o, amount) == amount <= Balance(o)

\* verify_payment's refusal: "Payment is already verified".
Unverified(p) == payment[p] # None /\ payment[p].verifier = None

\* Settling: settle() after a step that leaves `balance` owed.
Settle(paid, balance) == paid \/ balance <= Settled

Reopen_Never(paid, before, after) == paid

\* reopen(): cleared when a step takes the balance from settled to owed.
Reopen(paid, before, after) == paid /\ ~ (before <= Settled /\ Settled < after)

-----------------------------------------------------------------------------
(***************************************************************************)
(* Recording a payment.                                                    *)
(***************************************************************************)
\* lock_facility before assign_folio.
CreatePaymentRows(f) == {FacilityRow(f)}

\* create_payment up to assign_folio.  The cashier's session, which it locks
\* before the facility, is CashSession's part.
CreatePaymentRead(r, c, f, amount) ==
    /\ txn[r] = Idle
    /\ Free(r, CreatePaymentRows(f))
    /\ txn' = [txn EXCEPT ![r] = [op |-> "create_payment", customer |-> c, facility |-> f,
                                  amount |-> amount, rows |-> CreatePaymentRows(f),
                                  serial |-> NextPaymentFolio(f)]]
    /\ UNCHANGED <<tables, elapsed>>

CreatePaymentCommit(r, p) ==
    /\ txn[r].op = "create_payment"
    /\ payment[p] = None
    /\ payment' = [payment EXCEPT ![p] =
                      [customer |-> txn[r].customer, facility |-> txn[r].facility,
                       amount |-> txn[r].amount, serial |-> txn[r].serial,
                       verifier |-> None]]
    /\ Ends(r)
    /\ UNCHANGED <<order, line, reservation, onHand, application, refund, elapsed>>

-----------------------------------------------------------------------------
(***************************************************************************)
(* Applying and reversing.                                                 *)
(***************************************************************************)
ApplyRows_PaymentOnly(p, o) == {PaymentRow(p)}
\* The payment, then the order, are locked before anything is read.
ApplyRows(p, o) == {PaymentRow(p), OrderRow(o)}

\* apply_payment up to its checks.
ApplyRead(r, p, o, amount, change) ==
    /\ txn[r] = Idle
    /\ payment[p] # None
    /\ Free(r, ApplyRows(p, o))
    /\ Payable(o)
    /\ payment[p].customer = order[o].customer
    /\ NotSettled(o)
    /\ amount + change <= Unapplied(p)
    /\ WithinBalance(o, amount)
    /\ txn' = [txn EXCEPT ![r] = [op |-> "apply", payment |-> p, order |-> o, amount |-> amount,
                                  change |-> change, rows |-> ApplyRows(p, o),
                                  after |-> Balance(o) - amount]]
    /\ UNCHANGED <<tables, elapsed>>

\* The application is inserted and the order settled, in one commit.
ApplyCommit(r, a) ==
    LET o == txn[r].order
    IN  /\ txn[r].op = "apply"
        /\ Free(r, {OrderRow(o)})
        /\ application[a] = None
        /\ application' = [application EXCEPT ![a] =
                              [payment |-> txn[r].payment, order |-> o, amount |-> txn[r].amount,
                               change |-> txn[r].change, cancelled |-> FALSE]]
        /\ order' = [order EXCEPT ![o].paid = Settle(@, txn[r].after)]
        /\ Ends(r)
        /\ UNCHANGED <<line, reservation, onHand, payment, refund, elapsed>>

\* reverse_application locks the payment and refreshes the application.  The
\* refresh is a plain read, so the snapshot both balances are computed from
\* opens here, before the order is locked.
ReverseRead(r, a) ==
    LET o == application[a].order
        p == application[a].payment
    IN  /\ txn[r] = Idle
        /\ application[a] # None
        /\ ~ application[a].cancelled
        /\ Free(r, {PaymentRow(p)})
        /\ txn' = [txn EXCEPT ![r] =
                      [op |-> "reverse", application |-> a, rows |-> {PaymentRow(p)},
                       before |-> Balance(o),
                       after |-> Remaining(Total(o), Refunded(o) + Applied(o)
                                                       - application[a].amount)]]
        /\ UNCHANGED <<tables, elapsed>>

\* The order is locked and re-read, the application cancelled, the flag reopened.
ReverseCommit(r) ==
    LET a == txn[r].application
        o == application[a].order
    IN  /\ txn[r].op = "reverse"
        /\ Free(r, {OrderRow(o)})
        /\ application' = [application EXCEPT ![a].cancelled = TRUE]
        /\ order' = [order EXCEPT ![o].paid = Reopen(@, txn[r].before, txn[r].after)]
        /\ Ends(r)
        /\ UNCHANGED <<line, reservation, onHand, payment, refund, elapsed>>

-----------------------------------------------------------------------------
(***************************************************************************)
(* Verifying, and the one-time correction of stale flags.                  *)
(***************************************************************************)
\* verify_payment decides on the route's copy and locks nothing.
VerifyRead(r, p, v) ==
    /\ txn[r] = Idle
    /\ Unverified(p)
    /\ txn' = [txn EXCEPT ![r] = [op |-> "verify", payment |-> p, verifier |-> v, rows |-> {}]]
    /\ UNCHANGED <<tables, elapsed>>

VerifyCommit(r) ==
    LET p == txn[r].payment
    IN  /\ txn[r].op = "verify"
        /\ Free(r, {PaymentRow(p)})
        /\ payment' = [payment EXCEPT ![p].verifier = txn[r].verifier]
        /\ Ends(r)
        /\ UNCHANGED <<order, line, reservation, onHand, application, refund, elapsed>>

\* settle_stale_flags: credit orders that owe nothing are flagged, unlocked.
StaleFlagsRead(r) ==
    LET stale == {o \in Orders : CreditCandidate(o) /\ Balance(o) <= Settled}
    IN  /\ txn[r] = Idle
        /\ stale # {}
        /\ txn' = [txn EXCEPT ![r] = [op |-> "stale_flags", rows |-> {}, orders |-> stale]]
        /\ UNCHANGED <<tables, elapsed>>

StaleFlagsCommit(r) ==
    /\ txn[r].op = "stale_flags"
    /\ Free(r, {OrderRow(o) : o \in txn[r].orders})
    /\ order' = [o \in Orders |-> IF o \in txn[r].orders
                                  THEN [order[o] EXCEPT !.paid = TRUE] ELSE order[o]]
    /\ Ends(r)
    /\ UNCHANGED <<line, reservation, onHand, payment, application, refund, elapsed>>

-----------------------------------------------------------------------------
(***************************************************************************)
(* Confirmed orders, numbered in their facility, holding their claims.     *)
(* A legacy order is covered by one application and was never flagged.     *)
(***************************************************************************)
FirstFacility == CHOOSE f \in Facilities : TRUE
SomeNumbering == CHOOSE n \in [Orders -> 1..Cardinality(Orders)] :
                     \A o, p \in Orders : o # p => n[o] # n[p]
SomeCustomer == CHOOSE c \in Customers : c # WalkIn

\* A legacy order's payment covers it exactly, by one application.
LegacyTotal(o) == Confirmed[o].quantity * Confirmed[o].price

PaymentInit ==
    LET someLine == CHOOSE l \in LineIds : TRUE
    IN  /\ order = [o \in Orders |-> [BlankOrder EXCEPT
                       !.exists = TRUE, !.completed = TRUE, !.facility = FirstFacility,
                       !.customer = SomeCustomer, !.payment_terms = OrderTerms,
                       !.serial = SomeNumbering[o]]]
        /\ line = [o \in Orders |-> [NoLines EXCEPT ![someLine] = Confirmed[o]]]
        /\ reservation = [o \in Orders |-> Claims(o)]
        /\ onHand = [k \in StockKeys |-> MaxOnHand]
        /\ payment = [p \in Payments |->
               IF p \in DOMAIN StalePaid
               THEN [customer |-> SomeCustomer, facility |-> FirstFacility, verifier |-> None,
                     serial |-> 1, amount |-> LegacyTotal(StalePaid[p].order)]
               ELSE None]
        /\ application = [a \in Applications |->
               IF \E p \in DOMAIN StalePaid : StalePaid[p].by = a
               THEN LET p == CHOOSE q \in DOMAIN StalePaid : StalePaid[q].by = a
                    IN  [payment |-> p, order |-> StalePaid[p].order, change |-> 0,
                         cancelled |-> FALSE, amount |-> LegacyTotal(StalePaid[p].order)]
               ELSE None]
        /\ refund = [n \in Refunds |-> None]
        /\ elapsed = [o \in Orders |-> Clock]
        /\ txn = [r \in Requests |-> Idle]

CreatePayment ==
    \/ \E r \in Requests, c \in Customers, f \in Facilities, t \in Tenders :
          CreatePaymentRead(r, c, f, t)
    \/ \E r \in Requests, p \in Payments : CreatePaymentCommit(r, p)

Apply ==
    \/ \E r \in Requests, p \in Payments, o \in Orders, amount \in Amounts, change \in Changes :
          ApplyRead(r, p, o, amount, change)
    \/ \E r \in Requests, a \in Applications : ApplyCommit(r, a)

Reverse ==
    \/ \E r \in Requests, a \in Applications : ReverseRead(r, a)
    \/ \E r \in Requests : ReverseCommit(r)

Verify ==
    \/ \E r \in Requests, p \in Payments, v \in Verifiers : VerifyRead(r, p, v)
    \/ \E r \in Requests : VerifyCommit(r)

StaleFlags ==
    \/ \E r \in Requests : StaleFlagsRead(r)
    \/ \E r \in Requests : StaleFlagsCommit(r)

PaymentNext ==
    \/ CreatePayment
    \/ Apply
    \/ Reverse
    \/ Verify
    \/ Cancel
    \/ Sweep
    \/ StaleFlags
    \/ \E r \in Requests : Abort(r)

PaymentSpec == PaymentInit /\ [][PaymentNext]_vars

-----------------------------------------------------------------------------
(***************************************************************************)
(* Properties.                                                             *)
(***************************************************************************)
\* Applications together never take more of a payment than its amount, nor
\* more of an order than it is worth: each is read under its lock
\* (apply_payment: "two applications can't together take either below zero").
NothingBelowZero ==
    /\ \A p \in Payments : LiveOfPayment(p) # {} => Used(p) <= payment[p].amount
    /\ \A o \in Orders : Applied(o) <= Total(o)

\* An order's flag says whether at most a cent is owed.
InStep(o) == order[o].paid <=> Balance(o) <= Settled

\* A write whose reads another commit has overtaken: both balances of a
\* reversal, and the balance of an order the stale-flag job picked, come from
\* a snapshot older than the order's lock.
Overtaken(r, o) ==
    \/ /\ txn[r].op = "reverse"
       /\ application[txn[r].application].order = o
       /\ txn[r].before # Balance(o) \/ txn[r].after # Balance(o)'
    \/ txn[r].op = "stale_flags" /\ Balance(o) > Settled

\* No step takes an order's flag out of step with its balance, in either
\* direction, whichever applications, refunds, cancellations and reversals run
\* beside it; only a write made on overtaken reads may (FR-044).
FlagFollowsBalance ==
    [][\A o \in Orders :
          (/\ InStep(o)
           /\ \A r \in Requests : (txn[r] # Idle /\ txn'[r] = Idle) => ~ Overtaken(r, o))
          => InStep(o)']_vars

\* The paid flag is cleared once live applications no longer cover the order.
PaidMeansSettled == \A o \in Orders : order[o].paid => Balance(o) <= Settled
=============================================================================
