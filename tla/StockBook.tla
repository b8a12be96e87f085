------------------------------- MODULE StockBook -------------------------------
(***************************************************************************)
(* What stock_ledger promises to the services over it.  A key is a product *)
(* in a warehouse; it has goods on hand, and some of them are claimed by   *)
(* confirmed sales orders.  Nobody takes out, or claims, what is not       *)
(* available.  Only a physical count may leave less than is claimed:       *)
(* reality wins.                                                           *)
(***************************************************************************)
EXTENDS Naturals

CONSTANTS
    Keys,       \* product and warehouse pairs
    Opening     \* what was on hand at the start

VARIABLES
    onHand,     \* the sum of the ledger's entries
    claimed,    \* the sum of the standing claims
    counts      \* physical counts confirmed so far

bookVars == <<onHand, claimed, counts>>

BookInit ==
    /\ onHand = Opening
    /\ claimed = [k \in Keys |-> 0]
    /\ counts = 0

\* A movement, of any number of entries at once.
Post ==
    /\ UNCHANGED <<claimed, counts>>
    /\ \A k \in Keys : onHand'[k] < onHand[k] => claimed[k] <= onHand'[k]

Count ==
    /\ counts' = counts + 1
    /\ UNCHANGED claimed
    /\ \A k \in Keys : onHand'[k] \in Nat

\* Claims are made within what is on hand, and given back freely.
Promise ==
    /\ \A k \in Keys : claimed'[k] \in Nat
    /\ \A k \in Keys : claimed'[k] > claimed[k] => claimed'[k] <= onHand[k]
    /\ UNCHANGED <<onHand, counts>>

BookSpec == BookInit /\ [][Post \/ Count \/ Promise]_bookVars
=============================================================================
