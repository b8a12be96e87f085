----------------------------- MODULE DeliveryFlow -----------------------------
(***************************************************************************)
(* What delivery_events promises, and no more: a delivery order is raised  *)
(* as a draft, keeps its fulfilment type, and from then on its status      *)
(* moves only as the state machine permits.  The children of the orders    *)
(* that settle at one stop are born, and leave DRAFT, in the step that     *)
(* settles their parents, so a step moves any set of orders.               *)
(***************************************************************************)
EXTENDS DeliveryEvents

CONSTANTS Deliveries, None
VARIABLE flow       \* the status and fulfilment type of each delivery order

FlowTypeOK ==
    flow \in [Deliveries -> [status : Statuses, type : Fulfillments] \cup {None}]

\* record_creation, and the transition out of DRAFT a child makes with it.
Raised(d) ==
    /\ flow[d] = None
    /\ flow'[d] # None
    /\ \/ flow'[d].status = "DRAFT"
       \/ AssertLegal("DRAFT", flow'[d].status, flow'[d].type)

\* transition
Moved(d) ==
    /\ flow[d] # None /\ flow'[d] # None
    /\ AssertLegal(flow[d].status, flow'[d].status, flow[d].type)
    /\ flow'[d].type = flow[d].type

FlowInit == flow = [d \in Deliveries |-> None]

FlowNext ==
    /\ FlowTypeOK'
    /\ \A d \in Deliveries : flow'[d] = flow[d] \/ Raised(d) \/ Moved(d)

FlowSpec == FlowInit /\ [][FlowNext]_flow
=============================================================================
