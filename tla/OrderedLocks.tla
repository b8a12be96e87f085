----------------------------- MODULE OrderedLocks ------------------------------
(***************************************************************************)
(* Transactions that take their row locks one at a time, in an order that  *)
(* matters: what a request does (op), what it knows (arg), the rows it     *)
(* holds, and the rows it will lock, the next one first.                   *)
(***************************************************************************)
EXTENDS Integers, Sequences, FiniteSets, RowLocks

Request(op, arg, rows, want) == [op |-> op, arg |-> arg, rows |-> rows, want |-> want]

\* A transaction that knows its rows waits for them in this order.
Begins(r, op, arg, want) ==
    /\ txn[r] = Idle
    /\ txn' = [txn EXCEPT ![r] = Request(op, arg, {}, want)]

\* The next row is free: it is selected FOR UPDATE.
LocksNext(r) ==
    /\ txn[r].op # "idle"
    /\ txn[r].want # << >>
    /\ Free(r, {Head(txn[r].want)})
    /\ txn' = [txn EXCEPT ![r] =
                   Request(@.op, @.arg, @.rows \cup {Head(@.want)}, Tail(@.want))]

\* The k-th of a set of ids, ascending.
Nth(ids, k) == CHOOSE o \in ids : Cardinality({p \in ids : p < o}) = k - 1

WaitsFor(r) == IF txn[r] = Idle \/ txn[r].want = << >> THEN {} ELSE {Head(txn[r].want)}

\* Two requests that each wait for a row the other holds.
Crossed(r, q) == WaitsFor(r) \cap Holds(q) # {} /\ WaitsFor(q) \cap Holds(r) # {}
=============================================================================
