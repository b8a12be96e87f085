------------------------------ MODULE Commission ------------------------------
(***************************************************************************)
(* commission_service: months that close, reopen and are paid, over orders *)
(* that are paid, reversed and refunded, and settings that change.         *)
(*                                                                         *)
(* Every order here is one line of one customer.  A close reads its facts  *)
(* and the ledger in the snapshot its request opened; only the periods are *)
(* read by locking reads.                                                  *)
(***************************************************************************)
EXTENDS CommissionRules

CONSTANTS
    Clerks,         \* the requests that may be closing a month
    Orders,
    Agents,         \* employees that may be agents
    Salespeople,    \* what a customer's salesperson may be: agents or None
    Schemes,        \* what each agent's scheme may be, None when not an agent
    LabelRates,     \* what a product's label may be worth
    OrderAgent,     \* the salesperson of an order
    Amount,         \* the amount of its line
    Returned,       \* what of it a refund returns
    Payments,       \* the amounts applications are made of
    LastMonth,      \* a bound
    ChangeMonths,   \* a bound: the months settings change in
    Interleaved     \* whether a close may meet another, or a fact that changes

Months == 1 .. LastMonth

ASSUME CommissionConstants ==
    /\ LastMonth \in Nat /\ ChangeMonths \subseteq Nat
    /\ Salespeople \subseteq Agents \cup {None}
    /\ Schemes \in [Agents -> SUBSET {FullyPaid, PartialPayments, None}]
    /\ OrderAgent \in [Orders -> Agents]
    /\ Amount \in [Orders -> Nat \ {0}] /\ Returned \in [Orders -> Nat]
    /\ \A o \in Orders : Returned[o] <= Amount[o]
    /\ LabelRates \subseteq Nat /\ Payments \subseteq Nat \ {0}
    /\ Interleaved \in BOOLEAN
    /\ None \notin Nat \cup Agents

VARIABLES
    now,        \* the month today is in
    applied,    \* what of each month's applications to an order is live
    refund,     \* the month of an order's refund
    paid,       \* sales_order.paid
    zeroed,     \* sales_order.balance_zeroed_time
    csp,        \* customer.salesperson
    scheme,     \* commission_agent
    labelRate,  \* commission_product and commission.commission_rate
    period,     \* commission_period
    ledger,     \* commission_period_line, by order
    closing     \* what each clerk is about to store, or None

facts == <<now, applied, refund, paid, zeroed>>
settings == <<csp, scheme, labelRate>>
vars == <<facts, settings, period, ledger, closing>>

-----------------------------------------------------------------------------
AppliedBy(o, m) == MapThenSumSet(LAMBDA k : applied[o][k], 1 .. m)
RefundedBy(o, m) == IF refund[o] # 0 /\ refund[o] <= m THEN Returned[o] ELSE 0
\* The order's balance; a refund of a paid order takes it below zero.
Balance(o) == Amount[o] - RefundedBy(o, LastMonth) - AppliedBy(o, LastMonth)

Closed == {m \in Months : period[m] \in {"CLOSED", "PAID"}}
Latest == Max(Closed \cup {0})
ChainStart == IF Closed = {} THEN 0 ELSE Min(Closed)

\* _order_money and the candidate's columns, as of the end of month `m`.
Facts(o, m) ==
    [osp |-> OrderAgent[o], csp |-> csp[o], amount |-> Amount[o], total |-> Amount[o],
     paid |-> paid[o], zeroed |-> zeroed[o], applied |-> AppliedBy(o, m),
     refunded |-> RefundedBy(o, m), refund |-> refund[o], returned |-> Returned[o]]

\* _stored: the rows of closed and paid months.
StoredRows(o) == {r \in ledger[o] : r.month \in Closed}

\* _candidates: the orders a month could owe something on.
Candidate(o, m) ==
    LET rows == StoredRows(o)
    IN  /\ rows # {} \/ \E a \in {OrderAgent[o], csp[o]} \ {None} : scheme[a] # None
        /\ \/ paid[o] /\ zeroed[o] = m
           \/ /\ paid[o] /\ zeroed[o] # 0 /\ zeroed[o] < m
              /\ ChainStart # 0 /\ ChainStart <= zeroed[o]
              /\ Sales(rows) = {}
           \/ applied[o][m] > 0
           \/ refund[o] = m
           \/ \E r \in Sales(rows) : r.scheme = PartialPayments

\* compute
Computed(m) ==
    [o \in Orders |-> IF Candidate(o, m)
                      THEN MonthLines(Facts(o, m), m, ChainStart, StoredRows(o), scheme, labelRate)
                      ELSE {}]

-----------------------------------------------------------------------------
\* What happens while no close is in flight, unless they may be interleaved.
Quiet == Interleaved \/ \A c \in Clerks : closing[c] = None

\* settle: an unpaid order that reaches zero is paid, and dated the first time.
Settle(o, balance) ==
    IF paid[o] \/ balance > 0 THEN UNCHANGED <<paid, zeroed>>
    ELSE /\ paid' = [paid EXCEPT ![o] = TRUE]
         /\ zeroed' = [zeroed EXCEPT ![o] = IF @ = 0 THEN now ELSE @]

\* customer_payment_service.reopen: unpaid once above zero; the date stays.
ReopenOrder(o, before, after) ==
    /\ paid' = IF before <= 0 /\ after > 0 THEN [paid EXCEPT ![o] = FALSE] ELSE paid
    /\ UNCHANGED zeroed

\* A month passes.
Tick ==
    /\ now <= LastMonth
    /\ now' = now + 1
    /\ Quiet
    /\ UNCHANGED <<applied, refund, paid, zeroed, settings, period, ledger, closing>>

\* customer_payment_service: an application, and its reversal.
Apply(o, a) ==
    /\ now \in Months
    /\ ~paid[o] /\ Balance(o) > 0
    /\ a <= Balance(o)
    /\ applied' = [applied EXCEPT ![o][now] = @ + a]
    /\ Settle(o, Balance(o) - a)
    /\ Quiet
    /\ UNCHANGED <<now, refund, settings, period, ledger, closing>>

Reverse(o, m) ==
    /\ now \in Months
    /\ applied[o][m] > 0
    /\ applied' = [applied EXCEPT ![o][m] = 0]
    /\ ReopenOrder(o, Balance(o), Balance(o) + applied[o][m])
    /\ Quiet
    /\ UNCHANGED <<now, refund, settings, period, ledger, closing>>

\* customer_refund_service: the refund of a paid order.
Refund(o) ==
    /\ now \in Months
    /\ paid[o] /\ refund[o] = 0 /\ Returned[o] > 0
    /\ refund' = [refund EXCEPT ![o] = now]
    /\ Settle(o, Balance(o) - Returned[o])
    /\ Quiet
    /\ UNCHANGED <<now, applied, settings, period, ledger, closing>>

\* create_agent, update_agent, delete_agent; update_label, set_product_label,
\* delete_product_label; and a customer's reassignment.
SetScheme(a, s) ==
    /\ s # scheme[a] /\ now \in ChangeMonths
    /\ scheme' = [scheme EXCEPT ![a] = s]
    /\ Quiet
    /\ UNCHANGED <<facts, csp, labelRate, period, ledger, closing>>

SetLabel(r) ==
    /\ r # labelRate /\ now \in ChangeMonths
    /\ labelRate' = r
    /\ Quiet
    /\ UNCHANGED <<facts, csp, scheme, period, ledger, closing>>

Reassign(o, s) ==
    /\ s # csp[o] /\ now \in ChangeMonths
    /\ csp' = [csp EXCEPT ![o] = s]
    /\ Quiet
    /\ UNCHANGED <<facts, scheme, labelRate, period, ledger, closing>>

-----------------------------------------------------------------------------
\* close: the request opens its snapshot, in which it will compute.
CloseBegin(c, m) ==
    /\ closing[c] = None
    /\ m < now
    /\ Quiet
    /\ closing' = [closing EXCEPT ![c] = [month |-> m, lines |-> Computed(m)]]
    /\ UNCHANGED <<facts, settings, period, ledger>>

\* Months close in sequence, from the first that closed.
CanClose(m) == period[m] = "OPEN" /\ Latest \in {0, m - 1}

CloseCommit(c) ==
    LET m == closing[c].month
    IN  /\ closing[c] # None
        /\ CanClose(m)
        /\ period' = [period EXCEPT ![m] = "CLOSED"]
        /\ ledger' = [o \in Orders |-> ledger[o] \cup closing[c].lines[o]]
        /\ closing' = [closing EXCEPT ![c] = None]
        /\ UNCHANGED <<facts, settings>>

\* A close that is refused.
CloseRefused(c) ==
    /\ closing[c] # None
    /\ ~CanClose(closing[c].month)
    /\ closing' = [closing EXCEPT ![c] = None]
    /\ UNCHANGED <<facts, settings, period, ledger>>

\* reopen: the latest closed month, unpaid; its lines go.
Reopen(m) ==
    /\ period[m] = "CLOSED" /\ Latest = m
    /\ period' = [period EXCEPT ![m] = "OPEN"]
    /\ ledger' = [o \in Orders |-> {r \in ledger[o] : r.month # m}]
    /\ Quiet
    /\ UNCHANGED <<facts, settings, closing>>

\* pay: closed months, in any order.
Pay(m) ==
    /\ period[m] = "CLOSED"
    /\ period' = [period EXCEPT ![m] = "PAID"]
    /\ Quiet
    /\ UNCHANGED <<facts, settings, ledger, closing>>

CommissionInit ==
    /\ now = 1
    /\ applied = [o \in Orders |-> [m \in Months |-> 0]]
    /\ refund = [o \in Orders |-> 0]
    /\ paid = [o \in Orders |-> FALSE]
    /\ zeroed = [o \in Orders |-> 0]
    /\ csp \in [Orders -> Salespeople]
    /\ scheme \in {f \in [Agents -> {FullyPaid, PartialPayments}] : \A a \in Agents : f[a] \in Schemes[a]}
    /\ labelRate \in LabelRates
    /\ period = [m \in Months |-> "OPEN"]
    /\ ledger = [o \in Orders |-> {}]
    /\ closing = [c \in Clerks |-> None]

CommissionNext ==
    \/ Tick
    \/ \E o \in Orders :
        \/ \E a \in Payments : Apply(o, a)
        \/ \E m \in Months : Reverse(o, m)
        \/ Refund(o)
        \/ \E s \in Salespeople : Reassign(o, s)
    \/ \E a \in Agents : \E s \in Schemes[a] : SetScheme(a, s)
    \/ \E r \in LabelRates : SetLabel(r)
    \/ \E c \in Clerks :
        \/ \E m \in Months : CloseBegin(c, m)
        \/ CloseCommit(c) \/ CloseRefused(c)
    \/ \E m \in Months : Reopen(m) \/ Pay(m)

CommissionSpec == CommissionInit /\ [][CommissionNext]_vars

-----------------------------------------------------------------------------
KeysOf(o) == {<<r.agent, r.participation>> : r \in ledger[o]}
SoldTo(o, k) == {r \in Sales(ledger[o]) : <<r.agent, r.participation>> = k}
ChargedTo(o, k) == {r \in ledger[o] \ Sales(ledger[o]) : <<r.agent, r.participation>> = k}

\* FR-017, SC-003: across every month, scheme and reversal, the sale
\* commission stored for an agent on a line stays between nothing and the full
\* commission of the rate it was first stored at.
CapHolds ==
    \A o \in Orders : \A k \in KeysOf(o) :
        LET sold == SoldTo(o, k)
        IN  sold # {} =>
                /\ Stored(sold) >= 0
                /\ \A r \in sold : Stored(sold) <= Amount[o] * r.rate

\* FR-017: a refund is charged to an agent once, and never left uncharged on a
\* line he was paid for.
RefundChargedOnce ==
    \A o \in Orders : \A k \in KeysOf(o) :
        /\ Cardinality(ChargedTo(o, k)) <= 1
        /\ \A r \in SoldTo(o, k) :
               refund[o] # 0 /\ refund[o] <= Latest /\ r.rate > 0 =>
                   ChargedTo(o, k) # {}

\* What agent and participation `k` stored of the order's sale is all it is worth.
FullyEarned(o, k) == Stored(SoldTo(o, <<k.agent, k.participation>>)) = Amount[o] * k.rate

\* The orders that stand paid when month `m` closes, since the first that closed.
PaidInChain(o, m) == paid[o] /\ zeroed[o] # 0 /\ zeroed[o] <= m /\ ChainStart' <= zeroed[o]

\* FR-004: when a month closes, every order that stands paid and has nothing
\* stored has earned its agents under scheme 1 their full commission: one whose
\* payment was reversed over an earlier close is not lost.
NothingLeftBehind ==
    [][\A m \in Months : period[m] = "OPEN" /\ period'[m] = "CLOSED" =>
        \A o \in Orders : PaidInChain(o, m) /\ StoredRows(o) = {} =>
            \A k \in DerivedKeys(OrderAgent[o], csp[o], scheme, labelRate) :
                k.rate > 0 /\ scheme[k.agent] = FullyPaid => FullyEarned(o, k)']_vars

=============================================================================
