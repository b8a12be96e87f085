---------------------------- MODULE DeliveryEvents ----------------------------
(***************************************************************************)
(* delivery_events: the statuses of a delivery order and the moves between *)
(* them, keyed on the fulfilment type as well as on the two statuses.      *)
(***************************************************************************)

Statuses == {"DRAFT", "PENDING_APPROVAL", "APPROVED", "READY_FOR_PICKUP", "PICKED_UP",
             "IN_PREPARATION", "IN_TRANSIT", "DELIVERED", "PARTIALLY_DELIVERED", "FAILED",
             "CANCELLED"}

Fulfillments == {"DELIVERY", "PICKUP"}

TERMINAL == {"PICKED_UP", "DELIVERED", "PARTIALLY_DELIVERED", "CANCELLED"}

LEGAL == [from \in Statuses |->
    CASE from = "DRAFT" -> {"PENDING_APPROVAL", "APPROVED", "IN_PREPARATION", "CANCELLED"}
      [] from = "PENDING_APPROVAL" -> {"APPROVED", "IN_PREPARATION", "DRAFT", "CANCELLED"}
      [] from = "APPROVED" -> {"READY_FOR_PICKUP", "CANCELLED"}
      [] from = "READY_FOR_PICKUP" -> {"PICKED_UP", "CANCELLED"}
      [] from = "IN_PREPARATION" -> {"IN_TRANSIT", "CANCELLED"}
      [] from = "IN_TRANSIT" -> {"DELIVERED", "PARTIALLY_DELIVERED", "FAILED"}
      [] from = "FAILED" -> {"IN_PREPARATION", "CANCELLED"}
      [] OTHER -> {}]

\* The moves only one fulfilment type may take, and which.
TYPE_RESTRICTED ==
    {<<"DRAFT", "IN_PREPARATION", "DELIVERY">>, <<"DRAFT", "APPROVED", "PICKUP">>,
     <<"PENDING_APPROVAL", "IN_PREPARATION", "DELIVERY">>,
     <<"PENDING_APPROVAL", "APPROVED", "PICKUP">>,
     <<"APPROVED", "READY_FOR_PICKUP", "PICKUP">>}

\* assert_legal
AssertLegal(from, to, type) ==
    /\ from \notin TERMINAL
    /\ to \in LEGAL[from]
    /\ \A m \in TYPE_RESTRICTED : m[1] = from /\ m[2] = to => m[3] = type
=============================================================================
