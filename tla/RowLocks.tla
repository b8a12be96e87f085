------------------------------- MODULE RowLocks -------------------------------
(***************************************************************************)
(* What the services use of MariaDB: a request runs one transaction at a   *)
(* time, and the rows it has selected FOR UPDATE are its own until it      *)
(* commits or rolls back.  The rows are part of the transaction's record.  *)
(***************************************************************************)

CONSTANT Requests   \* requests that can be in flight together
VARIABLE txn        \* the transaction each request is running

Idle == [op |-> "idle"]

Holds(r) == IF txn[r].op = "idle" THEN {} ELSE txn[r].rows

\* No other transaction holds any of `rows`.
Free(r, rows) == \A q \in Requests \ {r} : Holds(q) \cap rows = {}

Ends(r) == txn' = [txn EXCEPT ![r] = Idle]
=============================================================================
