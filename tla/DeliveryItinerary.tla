--------------------------- MODULE DeliveryItinerary ---------------------------
(***************************************************************************)
(* delivery_itinerary_service: planning a trip, loading it, its departure  *)
(* and the settlement of its stops.                                        *)
(*                                                                         *)
(* A dispatcher loads lines out of pending_deliveries and, while the trip  *)
(* is open, adjusts and releases the trip's own lines: the handlers take   *)
(* any id, the screens offer these.                                        *)
(***************************************************************************)
EXTENDS DeliveryOrder

IsOpen(t) == trip[t] # None /\ trip[t].status = "OPEN"

-----------------------------------------------------------------------------
(***************************************************************************)
(* Planning.                                                               *)
(***************************************************************************)
\* create_itinerary: the check under the vehicle's lock reads the snapshot
\* the request's authentication opened before it.  (A bound of the model: a
\* trip is planned when a line waits to be loaded.)
TripBegin(r, v) ==
    /\ Pending # {}
    /\ \A t \in Trips : IsOpen(t) => trip[t].vehicle # v
    /\ Begins(r, "plan", [vehicle |-> v], {})

TripCommit(r, t) ==
    /\ Runs(r, "plan")
    /\ t \in Fresh(Trips, trip)
    /\ trip' = [trip EXCEPT ![t] = [status |-> "OPEN", vehicle |-> txn[r].arg.vehicle]]
    /\ Ends(r)
    /\ UNCHANGED <<sale, claim, delivery, dline, stop, entry, onHand>>

\* update_itinerary: another vehicle; nothing asks whether it has a trip.
UpdateTrip(t, v) ==
    /\ IsOpen(t)
    /\ \A r \in Requests : TripRow(t) \notin Holds(r)
    /\ trip' = [trip EXCEPT ![t].vehicle = v]
    /\ UNCHANGED <<sale, claim, delivery, dline, stop, entry, onHand, txn>>

\* add_stop: the order is checked, and not recorded.
StopBegin(r, t, d) ==
    /\ IsOpen(t)
    /\ delivery[d] # None
    /\ delivery[d].type # "PICKUP"
    /\ delivery[d].status = "IN_PREPARATION"
    /\ Begins(r, "stop", [trip |-> t], {})

StopCommit(r, s) ==
    /\ Runs(r, "stop")
    /\ s \in Fresh(Stops, stop)
    /\ Free(r, {TripRow(txn[r].arg.trip)})
    /\ stop' = [stop EXCEPT ![s] = [trip |-> txn[r].arg.trip, outcome |-> "PENDING"]]
    /\ Ends(r)
    /\ UNCHANGED <<sale, claim, delivery, dline, trip, entry, onHand>>

-----------------------------------------------------------------------------
(***************************************************************************)
(* Loading.  An entry claims a quantity of one line for one stop.          *)
(***************************************************************************)
NewEntry(s, k, q) ==
    [stop |-> s, key |-> k, committed |-> q, sent |-> 0, delivered |-> 0, returned |-> 0]

\* The line's committed quantity, set to a value computed from a copy.
Commits(k, copy, value) ==
    dline' = [dline EXCEPT ![k[1]][k[2]].committed =
                  Flushed(dline[k[1]][k[2]].committed, copy, value)]

\* commit_line: the trip as the route loaded it.
LoadBegin(r, s, k, q) ==
    /\ stop[s] # None
    /\ IsOpen(stop[s].trip)
    /\ k \in Pending
    /\ Begins(r, "load", [stop |-> s, key |-> k, quantity |-> q], {})

\* The line's row is locked and, not loaded before, read as it is.
LoadCommit(r, e) ==
    LET arg == txn[r].arg
        m == dline[arg.key[1]][arg.key[2]]
    IN  /\ Runs(r, "load")
        /\ e \in Fresh(Entries, entry)
        /\ stop[arg.stop] # None
        /\ Places(arg.key[1], arg.stop)
        /\ Free(r, {StopRow(arg.stop)})
        /\ arg.quantity <= OpenQuantity(m)
        /\ entry' = [entry EXCEPT ![e] = NewEntry(arg.stop, arg.key, arg.quantity)]
        /\ Commits(arg.key, m.committed, m.committed + arg.quantity)
        /\ Ends(r)
        /\ UNCHANGED <<sale, claim, delivery, trip, stop, onHand>>

\* commit_whole_order: every open line of the order, as one read found them.
WholeBegin(r, s, d) ==
    LET open == {k \in {d} \X LinesOf(d) : OpenQuantity(dline[d][k[2]]) > 0}
    IN  /\ stop[s] # None
        /\ IsOpen(stop[s].trip)
        /\ open # {} /\ open \subseteq Pending
        /\ Begins(r, "whole", [stop |-> s, queue |-> open], {})

\* One commit_line of it.  The SELECT FOR UPDATE waits for the row, and the
\* session keeps the copy it had; each line is a transaction.
WholeCommit(r, e, k) ==
    LET arg == txn[r].arg
        copy == txn[r].seen.dline[k[1]][k[2]]
    IN  /\ Runs(r, "whole")
        /\ k \in arg.queue
        /\ e \in Fresh(Entries, entry)
        /\ stop[arg.stop] # None
        /\ Places(k[1], arg.stop)
        /\ Free(r, {StopRow(arg.stop)})
        /\ entry' = [entry EXCEPT ![e] = NewEntry(arg.stop, k, OpenQuantity(copy))]
        /\ Commits(k, copy.committed, copy.committed + OpenQuantity(copy))
        /\ txn' = [txn EXCEPT ![r] = IF arg.queue = {k} THEN Idle
                                     ELSE [txn[r] EXCEPT !.arg.queue = arg.queue \ {k}]]
        /\ UNCHANGED <<sale, claim, delivery, trip, stop, onHand>>

\* adjust_commitment: the entry is read before the line's lock.
AdjustBegin(r, e, q) ==
    /\ entry[e] # None
    /\ IsOpen(stop[entry[e].stop].trip)
    /\ Begins(r, "adjust", [entry |-> e, quantity |-> q], {})

Adjusted_SetsLine(m, copy, q) == q

\* The line's committed quantity once its entry claims q.
Adjusted(m, copy, q) == m.committed + q - copy.committed

AdjustCommit(r) ==
    LET arg == txn[r].arg
        copy == txn[r].seen.entry[arg.entry]
        m == dline[copy.key[1]][copy.key[2]]
    IN  /\ Runs(r, "adjust")
        /\ entry[arg.entry] # None
        /\ arg.quantity <= OpenQuantity(m) + copy.committed
        /\ entry' = [entry EXCEPT ![arg.entry].committed = Flushed(@, copy.committed, arg.quantity)]
        /\ Commits(copy.key, m.committed, Adjusted(m, copy, arg.quantity))
        /\ Ends(r)
        /\ UNCHANGED <<sale, claim, delivery, trip, stop, onHand>>

\* release_commitment, remove_stop and cancel_itinerary read entries and
\* lines without a lock and delete what they read.
ReleaseBegin(r, e) ==
    /\ entry[e] # None
    /\ IsOpen(stop[entry[e].stop].trip)
    /\ Begins(r, "release", [entries |-> {e}, stops |-> {}, trips |-> {}], {})

RemoveBegin(r, s) ==
    /\ stop[s] # None
    /\ IsOpen(stop[s].trip)
    /\ Begins(r, "release", [entries |-> EntriesAt(s), stops |-> {s}, trips |-> {}], {})

CancelTripBegin(r, t) ==
    /\ IsOpen(t)
    /\ Begins(r, "release", [entries |-> EntriesOf(t), stops |-> StopsOf(t), trips |-> {t}], {})

\* What the given entries, as they were read, claimed of a line.
ClaimedBy(entries, copies, k) ==
    SumFunctionOnSet([e \in entries |-> copies[e].committed], {e \in entries : copies[e].key = k})

\* A stop that still has entries cannot be deleted; the trip is cancelled.
ReleaseCommit(r) ==
    LET arg == txn[r].arg
        seen == txn[r].seen
        given(d, l) == ClaimedBy(arg.entries, seen.entry, <<d, l>>)
    IN  /\ Runs(r, "release")
        /\ \A e \in Entries : entry[e] # None /\ entry[e].stop \in arg.stops => e \in arg.entries
        /\ Free(r, {TripRow(t) : t \in arg.trips})
        /\ entry' = [e \in Entries |-> IF e \in arg.entries THEN None ELSE entry[e]]
        /\ stop' = [s \in Stops |-> IF s \in arg.stops THEN None ELSE stop[s]]
        /\ trip' = [t \in Trips |-> IF t \in arg.trips
                                    THEN [trip[t] EXCEPT !.status = "CANCELLED"] ELSE trip[t]]
        /\ dline' = [d \in Deliveries |-> [l \in SaleLines |->
               IF dline[d][l] = None THEN None
               ELSE [dline[d][l] EXCEPT !.committed =
                        IF given(d, l) = 0 THEN @ ELSE seen.dline[d][l].committed - given(d, l)]]]
        /\ Ends(r)
        /\ UNCHANGED <<sale, claim, delivery, onHand>>

-----------------------------------------------------------------------------
(***************************************************************************)
(* Departure.                                                              *)
(***************************************************************************)
OrdersOf(entries) == {entry[e].key[1] : e \in entries}

\* A line claimed beyond what is left of it.
Overcommitted(k) ==
    dline[k[1]][k[2]].committed > dline[k[1]][k[2]].quantity - dline[k[1]][k[2]].delivered

\* depart, up to its first write.
DepartBegin(r, t) ==
    LET aboard == EntriesOf(t)
    IN  /\ IsOpen(t)
        /\ \E e \in aboard : entry[e].committed > 0
        /\ \A e \in aboard : ~ Overcommitted(entry[e].key)
        /\ \A d \in OrdersOf(aboard) : Allows(d, "IN_TRANSIT")
        /\ Begins(r, "depart", [trip |-> t, aboard |-> aboard, orders |-> OrdersOf(aboard)], {})

\* The goods of some lines that entries carry, by one of their quantities.
GoodsOf(quantity, entries, copies, lines) ==
    SumFunctionOnSet(quantity, {e \in entries : copies[e].key[2] \in Stocked \cap lines})

Aboard(r, quantity, lines) == GoodsOf(quantity, txn[r].arg.aboard, txn[r].seen.entry, lines)

\* The lines dispatched from a warehouse, and those that pass through one.
From(w) == {l \in SaleLines : WarehouseOf[l] = w}
Through(w) == {l \in SaleLines : TransitOf[WarehouseOf[l]] = w}

\* depart: what is sent is fixed, the goods move to the in-transit location of
\* the facility they leave, and as much of the sales' claims is consumed.  The
\* lines' committed quantities stay.
DepartCommit(r) ==
    LET arg == txn[r].arg
        seen == txn[r].seen
        sent == [e \in arg.aboard |-> seen.entry[e].committed]
    IN  /\ Runs(r, "depart")
        /\ \A e \in arg.aboard : entry[e] # None
        /\ Free(r, {DeliveryRow(d) : d \in arg.orders})
        /\ entry' = [e \in Entries |-> IF e \in arg.aboard
                                       THEN [entry[e] EXCEPT !.sent = sent[e]] ELSE entry[e]]
        /\ onHand' = [w \in Warehouses |-> onHand[w] - Aboard(r, sent, From(w))
                                                    + Aboard(r, sent, Through(w))]
        /\ claim' = [l \in SaleLines |-> LET q == Aboard(r, sent, {l})
                                         IN IF q = 0 THEN claim[l] ELSE Released(seen.claim[l], q)]
        /\ delivery' = [d \in Deliveries |-> IF d \in arg.orders
                            THEN [delivery[d] EXCEPT !.status = "IN_TRANSIT"] ELSE delivery[d]]
        /\ trip' = [trip EXCEPT ![arg.trip].status = "DEPARTED"]
        /\ Ends(r)
        /\ UNCHANGED <<sale, dline, stop>>

-----------------------------------------------------------------------------
(***************************************************************************)
(* Closing a stop.                                                         *)
(***************************************************************************)
\* The facilities and warehouses of _stop_lock_sets, with the trip and stop.
CloseRows(s) ==
    LET lines == {entry[e].key[2] : e \in EntriesAt(s)}
    IN  {TripRow(stop[s].trip), StopRow(s)}
            \cup {FacilityRow(delivery[d].facility) : d \in OrdersOf(EntriesAt(s))}
            \cup {WarehouseRow(WarehouseOf[l]) : l \in lines}
            \cup {WarehouseRow(TransitOf[WarehouseOf[l]]) : l \in lines}

CloseBegin_RouteCopy(r, s) ==
    /\ stop[s] # None
    /\ trip[stop[s].trip].status = "DEPARTED"
    /\ stop[s].outcome = "PENDING"
    /\ Begins(r, "close", [stop |-> s, aboard |-> EntriesAt(s)], {})

\* close_stop: locks, then reads.
CloseBegin(r, s) ==
    /\ stop[s] # None
    /\ trip[stop[s].trip].status = "DEPARTED"
    /\ stop[s].outcome = "PENDING"
    /\ Begins(r, "close", [stop |-> s, aboard |-> EntriesAt(s)], CloseRows(s))

\* Where an order settles, given what was sent and what was accepted of it.
Settles(sent, taken) ==
    CASE taken = sent -> "DELIVERED"
      [] taken # sent /\ taken = 0 -> "FAILED"
      [] OTHER -> "PARTIALLY_DELIVERED"

\* The outcome of a stop whose orders settled so.
StopOutcome(settled) ==
    CASE settled \subseteq {"DELIVERED"} -> "DELIVERED"
      [] settled = {"FAILED"} -> "FAILED"
      [] OTHER -> "PARTIALLY_DELIVERED"

\* The first n ids no delivery order has.
FirstFree(n) ==
    LET unused == {d \in Deliveries : delivery[d] = None}
    IN  {d \in unused : Cardinality({c \in unused : c < d}) < n}

\* _split_child_order: the child of parent p, and its lines.
Child(r, p, rank) ==
    [status |-> "IN_PREPARATION", type |-> txn[r].seen.delivery[p].type,
     facility |-> txn[r].seen.delivery[p].facility,
     serial |-> NextFolio(txn[r].seen.delivery[p].facility) + rank, parent |-> p]

Remainder(rest) == [l \in SaleLines |-> IF rest[l] > 0 THEN NewLine(rest[l]) ELSE None]

\* What a customer may accept of what was sent.
Accepts(sent, taken) == taken <= sent

\* What the entries of one line, or of one order, add up to.
OfLine(quantity, entries, copies, k) ==
    SumFunctionOnSet(quantity, {e \in entries : copies[e].key = k})
OfOrder(quantity, entries, copies, d) ==
    SumFunctionOnSet(quantity, {e \in entries : copies[e].key[1] = d})

\* Where each order of a stop settles.
Settled(entries, copies, accepted) ==
    [d \in {copies[e].key[1] : e \in entries} |->
        Settles(OfOrder([e \in entries |-> copies[e].sent], entries, copies, d),
                OfOrder(accepted, entries, copies, d))]

\* _close_locked, with the quantity the customer accepted of each entry, and
\* the child order of each order that was partly accepted.
CloseCommit(r, accepted) ==
    LET s == txn[r].arg.stop
        aboard == txn[r].arg.aboard
        seen == txn[r].seen
        of(k, f) == OfLine(f, aboard, seen.entry, k)
        sent == [e \in aboard |-> seen.entry[e].sent]
        back == [e \in aboard |-> sent[e] - accepted[e]]
        settled == Settled(aboard, seen.entry, accepted)
        orders == DOMAIN settled
        split == {d \in orders : settled[d] = "PARTIALLY_DELIVERED"}
        siblings == {q \in Stops \ {s} : /\ seen.stop[q] # None
                                         /\ seen.stop[q].trip = seen.stop[s].trip
                                         /\ seen.stop[q].outcome = "PENDING"}
        born == FirstFree(Cardinality(split))
    IN  /\ Runs(r, "close")
        /\ \A e \in aboard : Accepts(sent[e], accepted[e])
        /\ \A d \in orders : AssertLegal(seen.delivery[d].status, settled[d],
                                         seen.delivery[d].type)
        /\ Cardinality(born) = Cardinality(split)
        /\ entry' = [e \in Entries |-> IF e \in aboard
               THEN [entry[e] EXCEPT !.delivered = accepted[e], !.returned = back[e]] ELSE entry[e]]
        /\ \E parent \in Bijection(born, split) :
              /\ delivery' = [d \in Deliveries |->
                     IF d \in orders THEN [delivery[d] EXCEPT !.status = settled[d]]
                     ELSE IF d \in born
                     THEN Child(r, parent[d], Cardinality({c \in born : c < d}))
                     ELSE delivery[d]]
              /\ dline' = [d \in Deliveries |->
                     IF d \in born THEN Remainder([l \in SaleLines |-> of(<<parent[d], l>>, back)])
                     ELSE [l \in SaleLines |->
                         IF \E e \in aboard : seen.entry[e].key = <<d, l>>
                         THEN [dline[d][l] EXCEPT
                                  !.delivered = seen.dline[d][l].delivered + of(<<d, l>>, accepted),
                                  !.returned = seen.dline[d][l].returned + of(<<d, l>>, back),
                                  !.committed = seen.dline[d][l].committed
                                                  - ClaimedBy(aboard, seen.entry, <<d, l>>)]
                         ELSE dline[d][l]]]
        /\ onHand' = [w \in Warehouses |->
               onHand[w] - Aboard(r, sent, Through(w)) + Aboard(r, back, From(w))]
        /\ claim' = [l \in SaleLines |-> claim[l] + Aboard(r, back, {l})]
        /\ stop' = [stop EXCEPT ![s].outcome = StopOutcome({settled[d] : d \in orders})]
        /\ trip' = IF siblings = {} THEN [trip EXCEPT ![seen.stop[s].trip].status = "CLOSED"]
                   ELSE trip
        /\ Refreshes(r, SalesOf({seen.entry[e].key[2] : e \in aboard}))
        /\ UNCHANGED sale

-----------------------------------------------------------------------------
Init ==
    /\ sale = [s \in Sales |-> FALSE]
    /\ claim = [l \in SaleLines |-> IF l \in Stocked THEN Sold[l] ELSE 0]
    /\ delivery = [d \in Deliveries |-> None]
    /\ dline = [d \in Deliveries |-> [l \in SaleLines |-> None]]
    /\ trip = [t \in Trips |-> None]
    /\ stop = [s \in Stops |-> None]
    /\ entry = [e \in Entries |-> None]
    /\ onHand = Opening
    /\ txn = [r \in Requests |-> Idle]

Quantities == 1 .. Max({Sold[l] : l \in SaleLines})

Plan ==
    \/ \E r \in Requests, v \in Vehicles : TripBegin(r, v)
    \/ \E r \in Requests, t \in Trips : TripCommit(r, t)
    \/ \E t \in Trips, v \in Vehicles : UpdateTrip(t, v)
    \/ \E r \in Requests, t \in Trips, d \in Deliveries : StopBegin(r, t, d)
    \/ \E r \in Requests, s \in Stops : StopCommit(r, s)

Load ==
    \/ \E r \in Requests, s \in Stops, k \in Keys, q \in Quantities : LoadBegin(r, s, k, q)
    \/ \E r \in Requests, e \in Entries : LoadCommit(r, e)
    \/ \E r \in Requests, s \in Stops, d \in Deliveries : WholeBegin(r, s, d)
    \/ \E r \in Requests, e \in Entries, k \in Keys : WholeCommit(r, e, k)
    \/ \E r \in Requests, e \in Entries, q \in Quantities : AdjustBegin(r, e, q)
    \/ \E r \in Requests : AdjustCommit(r)

Unload ==
    \/ \E r \in Requests, e \in Entries : ReleaseBegin(r, e)
    \/ \E r \in Requests, s \in Stops : RemoveBegin(r, s)
    \/ \E r \in Requests, t \in Trips : CancelTripBegin(r, t)
    \/ \E r \in Requests : ReleaseCommit(r)

Travel ==
    \/ \E r \in Requests, t \in Trips : DepartBegin(r, t)
    \/ \E r \in Requests : DepartCommit(r)
    \/ \E r \in Requests, s \in Stops : CloseBegin(r, s)
    \/ \E r \in Requests :
          /\ Runs(r, "close")
          /\ \E accepted \in [txn[r].arg.aboard -> 0 .. Max(Quantities)] :
                CloseCommit(r, accepted)

Next ==
    \/ OrderNext
    \/ Plan
    \/ Load
    \/ Unload
    \/ Travel
    \/ \E r \in Requests : Abort(r)

Spec == Init /\ [][Next]_vars

-----------------------------------------------------------------------------
(***************************************************************************)
(* Properties.                                                             *)
(***************************************************************************)
\* A stop not yet resolved, of a trip on the road.
OnTheRoad(s) ==
    /\ stop[s] # None /\ stop[s].outcome = "PENDING"
    /\ trip[stop[s].trip].status = "DEPARTED"

Aloft == UNION {EntriesAt(s) : s \in {q \in Stops : OnTheRoad(q)}}

(***************************************************************************)
(* The two books of a claim agree: what a line says it has committed is    *)
(* what the unresolved itinerary lines say they hold of it.  The line's    *)
(* figure is what the double-assignment guard reads.  (Cancelling an order *)
(* zeroes its lines and leaves the itinerary's.)                           *)
(***************************************************************************)
ClaimsAgree ==
    \A k \in Keys :
        Live(k[1]) /\ dline[k[1]][k[2]] # None =>
            dline[k[1]][k[2]].committed = ClaimedBy(Held, entry, k)

\* What has left a warehouse and has not come to a customer or back.
Sent(lines) == GoodsOf([e \in Aloft |-> entry[e].sent], Aloft, entry, lines)

(***************************************************************************)
(* Departure, refusal and acceptance move goods and never make or lose     *)
(* them: an in-transit location holds exactly what its trucks carry, and a *)
(* shelf what it opened with less what is on the road and what customers   *)
(* have.                                                                   *)
(***************************************************************************)
GoodsOnTheRoad ==
    \A w \in DOMAIN TransitOf :
        /\ onHand[TransitOf[w]] = Opening[TransitOf[w]] + Sent(Through(TransitOf[w]))
        /\ onHand[w] = Opening[w] - Sent(From(w)) - SumFunctionOnSet(
               [l \in From(w) |-> Delivered(l)], From(w) \cap Stocked)

\* What a partly delivered order sent and the customer did not accept is in
\* exactly one child, which is on its way again; no other order has a child.
SplitOnce(p) ==
    LET kids == {c \in Deliveries : delivery[c] # None /\ delivery[c].parent = p}
    IN  IF delivery[p] # None /\ delivery[p].status = "PARTIALLY_DELIVERED"
        THEN \E c \in Deliveries :
                /\ kids = {c}
                /\ delivery[c].status # "DRAFT"
                /\ \A l \in LinesOf(p) :
                      dline[p][l].returned = IF dline[c][l] = None THEN 0
                                             ELSE dline[c][l].quantity
        ELSE kids = {}

(***************************************************************************)
(* A unit of a sale is reserved, on the road, or with the customer, and    *)
(* never two of these: otherwise it can be sold again, or never shipped.   *)
(* What a customer sends back of a delivery is delivered by one more order *)
(* and not by two.                                                         *)
(***************************************************************************)
EveryUnitOnce ==
    /\ \A l \in Stocked : claim[l] + Sent({l}) + Delivered(l) = Sold[l]
    /\ \A p \in Deliveries : SplitOnce(p)

\* NULL is no status.
ASSUME NoneIsNoFlow == None \notin [status : Statuses, type : Fulfillments]

(***************************************************************************)
(* The status of a delivery order follows delivery_events, whatever the    *)
(* handlers around it do.                                                  *)
(***************************************************************************)
Flow == INSTANCE DeliveryFlow WITH flow <-
    [d \in Deliveries |-> IF delivery[d] = None THEN None
                          ELSE [status |-> delivery[d].status, type |-> delivery[d].type]]

FollowsTheFlow == Flow!FlowSpec

(***************************************************************************)
(* What the handlers claim and do not keep.                                *)
(***************************************************************************)
\* The same open quantity is never committed to two itineraries.
NeverCommittedTwice ==
    \A k \in Keys :
        dline[k[1]][k[2]] # None => ClaimedBy(Held, entry, k) <= dline[k[1]][k[2]].quantity
=============================================================================
