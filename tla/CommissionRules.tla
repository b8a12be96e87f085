--------------------------- MODULE CommissionRules ---------------------------
(***************************************************************************)
(* commission_rules: what a month owes, from the facts of an order line,   *)
(* what closed months stored of it, and today's settings.  Months are      *)
(* numbered from 1; 0 is a date that is not set.                           *)
(***************************************************************************)
EXTENDS Integers, FiniteSets, FiniteSetsExt

CONSTANT None

Lifetime == "CLIENTE VITALICIO"
Channelling == "CANALIZACION"
FieldService == "ATENCION EN CAMPO"
FullyPaid == 1
PartialPayments == 2

\* _round of a / b, half away from zero, for what is not negative.
Rounded(a, b) == (2 * a + b) \div (2 * b)

Key(agent, participation, rate) ==
    [agent |-> agent, participation |-> participation, rate |-> rate]

\* _derived_keys: the agents who earn on a line, with today's settings.  An
\* agent's share of each participation is data.
DerivedKeys(osp, csp, scheme, rate) ==
    LET branches == IF csp = None THEN {}
                    ELSE IF csp = osp THEN {<<csp, Lifetime>>}
                    ELSE {<<osp, Channelling>>, <<csp, FieldService>>}
    IN  {Key(b[1], b[2], rate) : b \in {x \in branches : scheme[x[1]] # None}}

\* _frozen_keys: those of the first rows stored.
FrozenKeys(rows) ==
    {Key(r.agent, r.participation, r.rate) :
        r \in {q \in rows : \A p \in rows :
                    p.agent = q.agent /\ p.participation = q.participation => p.month >= q.month}}

\* Of one line's stored rows, those of a key.
RowsOf(rows, key) ==
    {r \in rows : r.agent = key.agent /\ r.participation = key.participation}
Sales(rows) == {r \in rows : r.movement = "SALE"}
Stored(rows) == MapThenSumSet(LAMBDA r : r.commission, rows)

\* The scheme a key follows: its agent's, or the one it was last stored under.
SchemeFor(key, keyRows, scheme) ==
    IF scheme[key.agent] # None THEN scheme[key.agent]
    ELSE IF keyRows = {} THEN FullyPaid
    ELSE (CHOOSE r \in keyRows : \A q \in keyRows : q.month <= r.month).scheme

\* Scheme 1: whether the sale counts in month `m`: in the month it was paid,
\* or later when that month closed while its payment was reversed.
SaleCounts_ThisMonthOnly(line, m, chain, keyRows) ==
    line.paid /\ line.zeroed = m
SaleCounts(line, m, chain, keyRows) ==
    /\ line.paid
    /\ \/ line.zeroed = m
       \/ line.zeroed # 0 /\ chain # 0 /\ chain <= line.zeroed /\ line.zeroed < m
          /\ Sales(keyRows) = {}

\* Scheme 2: what is due by the month's end, of the order net of refunds.
Share(full, line) ==
    LET owed == line.total - line.refunded
    IN  IF owed <= 0 THEN full ELSE Rounded(full * Min({line.applied, owed}), owed)

Row(m, key, s, movement, commission) ==
    [month |-> m, agent |-> key.agent, participation |-> key.participation, rate |-> key.rate,
     scheme |-> s, movement |-> movement, commission |-> commission]

\* What a sale has earned by the end of month `m`, or None when it does not
\* count in it.
Due(line, key, s, m, chain, keyRows) ==
    LET full == line.amount * key.rate
    IN  IF s = PartialPayments THEN Share(full, line)
        ELSE IF SaleCounts(line, m, chain, keyRows) THEN full ELSE None

SaleRow_InFull(line, key, s, m, chain, keyRows) ==
    LET due == Due(line, key, s, m, chain, keyRows)
    IN  IF due \in {None, 0} THEN {} ELSE {Row(m, key, s, "SALE", due)}

\* A sale is listed for what it is due less what was stored, or once at zero
\* when nobody set its rate.
SaleRow(line, key, s, m, chain, keyRows) ==
    LET due == Due(line, key, s, m, chain, keyRows)
        amount == due - Stored(Sales(keyRows))
        unrated == line.amount * key.rate = 0 /\ Sales(keyRows) = {}
    IN  IF due = None THEN {}
        ELSE IF amount # 0 \/ unrated THEN {Row(m, key, s, "SALE", amount)}
        ELSE {}

RefundRow_EveryMonth(line, key, s, m, chain, keyRows) ==
    IF /\ line.refund # 0 /\ line.refund <= m
       /\ s = FullyPaid => SaleCounts(line, m, chain, keyRows) \/ Sales(keyRows) # {}
       /\ line.returned * key.rate # 0
    THEN {Row(m, key, s, "REFUND", -(line.returned * key.rate))}
    ELSE {}

\* A refund is charged where it is not stored yet; under scheme 1 only against
\* a sale that counts or was stored.
RefundRow(line, key, s, m, chain, keyRows) ==
    IF /\ line.refund # 0 /\ line.refund <= m
       /\ keyRows = Sales(keyRows)
       /\ s = FullyPaid => SaleCounts(line, m, chain, keyRows) \/ Sales(keyRows) # {}
       /\ line.returned * key.rate # 0
    THEN {Row(m, key, s, "REFUND", -(line.returned * key.rate))}
    ELSE {}

\* A line that has stored rows keeps the keys and rates of those.
Keys(line, rows, scheme, rate) ==
    IF rows # {} THEN FrozenKeys(rows) ELSE DerivedKeys(line.osp, line.csp, scheme, rate)

\* month_lines, of one line.
MonthLines(line, m, chain, rows, scheme, rate) ==
    UNION {LET keyRows == RowsOf(rows, key)
               s == SchemeFor(key, keyRows, scheme)
           IN  SaleRow(line, key, s, m, chain, keyRows) \cup RefundRow(line, key, s, m, chain, keyRows)
           : key \in Keys(line, rows, scheme, rate)}
=============================================================================
