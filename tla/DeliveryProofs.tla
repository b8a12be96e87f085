---------------------------- MODULE DeliveryProofs -----------------------------
(***************************************************************************)
(* What DeliveryOrder and DeliveryItinerary are proved to do, for any      *)
(* number of sales, orders, trips, stops and requests: the status of an    *)
(* order follows delivery_events, the two books of a claim agree, goods on *)
(* the road are neither made nor lost, and a unit of a sale is in one      *)
(* place.                                                                  *)
(***************************************************************************)
EXTENDS DeliveryItinerary, NumberSets

-----------------------------------------------------------------------------
(***************************************************************************)
(* The inductive invariant.                                                *)
(***************************************************************************)
\* Only closures of stops overlap, and loadings of single lines.
OneAtATime == Overlaps \subseteq {{"close"}, {"load"}}

\* The operations that then run with no other in flight.
Solo == Steps \cup {"create", "edit", "confirm", "pickup", "plan", "stop", "whole", "adjust",
                    "release", "depart"}

Typed ==
    /\ sale \in [Sales -> BOOLEAN] /\ claim \in [SaleLines -> Int]
    /\ delivery \in [Deliveries -> DeliveryRows \cup {None}]
    /\ dline \in [Deliveries -> [SaleLines -> DeliveryLines \cup {None}]]
    /\ trip \in [Trips -> TripRows \cup {None}] /\ stop \in [Stops -> StopRows \cup {None}]
    /\ entry \in [Entries -> EntryRows \cup {None}] /\ onHand \in [Warehouses -> Int]

\* Which requests are in flight beside which, and what they have locked.
Beside ==
    /\ txn = [q \in Requests |-> txn[q]]
    /\ \A q \in Requests : /\ txn[q].op \in Solo \cup {"idle", "load", "close", "refresh"}
                           /\ txn[q].op = "idle" => txn[q] = Idle
    /\ \A p, q \in Requests : p # q =>
          \/ txn[p].op = "idle" \/ txn[q].op = "idle"
          \/ txn[p].op = "load" /\ txn[q].op = "load"
          \/ txn[p].op \in {"close", "refresh"} /\ txn[q].op \in {"close", "refresh"}
    /\ \A p, q \in Requests : p # q => Holds(p) \cap Holds(q) = {}

\* An order nothing has left for yet.
Early == {"DRAFT", "PENDING_APPROVAL", "APPROVED", "READY_FOR_PICKUP"}

\* What a row refers to exists, and has got as far as that takes.
Rooted ==
    /\ \A d \in Deliveries : delivery[d] = None => \A l \in SaleLines : dline[d][l] = None
    /\ \A d \in Deliveries, l \in SaleLines :
          delivery[d] # None /\ delivery[d].status \in Early /\ dline[d][l] # None =>
              dline[d][l].delivered = 0
    /\ \A s \in Stops : stop[s] # None =>
          /\ trip[stop[s].trip] # None
          /\ IsOpen(stop[s].trip) => stop[s].outcome = "PENDING"
    /\ \A e \in Entries : entry[e] # None =>
          LET k == entry[e].key
          IN  /\ stop[entry[e].stop] # None
              /\ delivery[k[1]] # None /\ dline[k[1]][k[2]] # None
              /\ delivery[k[1]].type = "DELIVERY" /\ delivery[k[1]].status \notin Early

\* A stop that is still being loaded, and a line that may be.
Loading(s) == stop[s] # None /\ IsOpen(stop[s].trip)
Loadable(k) ==
    /\ delivery[k[1]] # None /\ dline[k[1]][k[2]] # None
    /\ delivery[k[1]].type = "DELIVERY" /\ delivery[k[1]].status = "IN_PREPARATION"

\* What a transaction t in flight relies on, by its operation.
SoundOrder(t) ==
    /\ t.op = "create" =>
          /\ t.arg.sale \in Sales /\ t.arg.type \in Fulfillments
          /\ t.arg.chosen \in [SaleLines -> Nat]
          /\ \A l \in SaleLines : t.arg.chosen[l] > 0 => t.arg.chosen[l] <= Uncovered(l)
    /\ t.op = "edit" =>
          LET d == t.arg.d
              l == t.arg.line
              others == IF dline[d][l] = None THEN Covered(l)
                        ELSE Covered(l) - dline[d][l].quantity
          IN  /\ d \in Deliveries /\ l \in SaleLines /\ Editable(d)
              /\ \/ t.arg.row = None
                 \/ /\ t.arg.row \in DeliveryLines
                    /\ dline[d][l] = None => t.arg.row = NewLine(t.arg.row.quantity)
                    /\ FitsSale(l, others, t.arg.row.quantity)
    /\ t.op = "confirm" => t.arg.d \in Deliveries /\ Editable(t.arg.d)
    /\ t.op \in Steps =>
          /\ t.arg.d \in Deliveries /\ AsksFor(t.op, t.arg.d)
          /\ t.arg.to = Target(t.op, t.arg.d)
    /\ t.op = "pickup" => t.arg.d \in Deliveries /\ Allows(t.arg.d, "PICKED_UP")
    /\ t.op = "refresh" => t.arg.sales \subseteq Sales

SoundTrip(t) ==
    /\ t.op = "plan" => t.arg.vehicle \in Vehicles
    /\ t.op = "stop" => t.arg.trip \in Trips /\ IsOpen(t.arg.trip)
    /\ t.op = "load" =>
          /\ t.arg.stop \in Stops /\ Loading(t.arg.stop)
          /\ t.arg.key \in Keys /\ Loadable(t.arg.key)
          /\ t.arg.quantity \in Nat \ {0}
    /\ t.op = "whole" =>
          /\ t = [op |-> "whole", arg |-> [stop |-> t.arg.stop, queue |-> t.arg.queue],
                  rows |-> {}, seen |-> t.seen]
          /\ t.arg.stop \in Stops /\ Loading(t.arg.stop)
          /\ t.arg.queue \subseteq Keys
          /\ \A k \in t.arg.queue :
                /\ Loadable(k) /\ t.seen.dline[k[1]][k[2]] = dline[k[1]][k[2]]
                /\ OpenQuantity(dline[k[1]][k[2]]) > 0
    /\ t.op = "adjust" =>
          /\ t.arg.entry \in Entries /\ entry[t.arg.entry] # None
          /\ Loading(entry[t.arg.entry].stop) /\ t.arg.quantity \in Nat \ {0}
    /\ t.op = "release" =>
          /\ t.arg.entries \subseteq Entries /\ t.arg.stops \subseteq Stops
          /\ t.arg.trips \subseteq Trips
          /\ \A e \in t.arg.entries : entry[e] # None /\ Loading(entry[e].stop)
          /\ \A s \in t.arg.stops : Loading(s)
          /\ \A p \in t.arg.trips : IsOpen(p)
    /\ t.op = "depart" =>
          /\ t.arg.trip \in Trips /\ IsOpen(t.arg.trip)
          /\ t.arg.aboard = EntriesOf(t.arg.trip)
          /\ t.arg.orders = OrdersOf(t.arg.aboard)
          /\ \A d \in t.arg.orders : Allows(d, "IN_TRANSIT")
    /\ t.op \in Solo \ {"whole"} =>
          /\ t.seen.claim = claim /\ t.seen.delivery = delivery /\ t.seen.dline = dline
          /\ t.seen.stop = stop /\ t.seen.entry = entry

\* A closure has locked its trip, and the facilities of the orders it settles:
\* its copies of them are of rows no other closure touches.
SoundClose(t) ==
    LET s == t.arg.stop
        mine(q) == q # None /\ q.trip = stop[s].trip
    IN  t.op = "close" =>
            /\ s \in Stops /\ OnTheRoad(s) /\ t.arg.aboard = EntriesAt(s)
            /\ TripRow(stop[s].trip) \in t.rows
            /\ \A e \in t.arg.aboard :
                  LET d == entry[e].key[1]
                  IN  /\ t.seen.entry[e] = entry[e] /\ t.seen.delivery[d] = delivery[d]
                      /\ t.seen.dline[d] = dline[d]
                      /\ FacilityRow(delivery[d].facility) \in t.rows
            /\ \A q \in Stops : mine(stop[q]) \/ mine(t.seen.stop[q]) => t.seen.stop[q] = stop[q]

Sound(t) == SoundOrder(t) /\ SoundTrip(t) /\ SoundClose(t)

DeliveryInv == Typed /\ Beside /\ Rooted /\ \A q \in Requests : Sound(txn[q])

-----------------------------------------------------------------------------
(***************************************************************************)
(* The requests.                                                           *)
(***************************************************************************)
LEMMA FiguresKept ==
    ASSUME UNCHANGED <<delivery, dline, stop, entry>>, NEW l
    PROVE  Uncovered(l)' = Uncovered(l) /\ Covered(l)' = Covered(l)
<1>1. Covered(l)' = Covered(l)
  BY DEF Covered, Live
<1> QED
  BY <1>1 DEF Uncovered

\* A transaction relies on nothing that another vehicle for a trip changes.
LEMMA SoundKept ==
    ASSUME NEW t, Sound(t), Typed, UNCHANGED <<claim, delivery, dline, stop, entry>>,
           \A p \in Trips : /\ trip'[p] = None <=> trip[p] = None
                            /\ trip'[p].status = trip[p].status
    PROVE  Sound(t)'
<1>1. \A p \in Trips : IsOpen(p)' <=> IsOpen(p)
  BY DEF IsOpen
<1>2. \A s \in Stops : stop[s] # None => stop[s].trip \in Trips
  BY DEF Typed, StopRows
<1>3. \A s \in Stops : (Loading(s)' <=> Loading(s)) /\ (OnTheRoad(s)' <=> OnTheRoad(s))
  BY <1>1, <1>2 DEF Loading, OnTheRoad
<1>4. SoundOrder(t)'
  <2>1. SoundOrder(t)
    BY DEF Sound
  <2> QED
    BY <2>1, FiguresKept DEF SoundOrder, Editable, FitsSale, AsksFor, Allows, Target
<1>5. SoundTrip(t)'
  <2>1. SoundTrip(t)
    BY DEF Sound
  <2>2. \A s : EntriesAt(s)' = EntriesAt(s) /\ StopsOf(s)' = StopsOf(s)
    BY DEF EntriesAt, StopsOf
  <2>3. \A p : EntriesOf(p)' = EntriesOf(p)
    BY <2>2 DEF EntriesOf
  <2>4. \A k : Loadable(k)' <=> Loadable(k)
    BY DEF Loadable
  <2>5. \A S : OrdersOf(S)' = OrdersOf(S)
    BY DEF OrdersOf
  <2>6. \A d : Allows(d, "IN_TRANSIT")' <=> Allows(d, "IN_TRANSIT")
    BY DEF Allows
  <2>7. \A e \in Entries : entry[e] # None => entry[e].stop \in Stops
    BY DEF Typed, EntryRows
  <2> QED
    BY <1>1, <1>3, <2>1, <2>3, <2>4, <2>5, <2>6, <2>7 DEF SoundTrip
<1>6. SoundClose(t)'
  <2>1. SoundClose(t)
    BY DEF Sound
  <2>2. \A s : EntriesAt(s)' = EntriesAt(s)
    BY DEF EntriesAt
  <2> QED
    BY <1>3, <2>1, <2>2 DEF SoundClose
<1> QED
  BY <1>4, <1>5, <1>6 DEF Sound

\* delivery_events, by the status an order is in.
LEMMA LegalMoves ==
    /\ LEGAL["DRAFT"] = {"PENDING_APPROVAL", "APPROVED", "IN_PREPARATION", "CANCELLED"}
    /\ LEGAL["PENDING_APPROVAL"] = {"APPROVED", "IN_PREPARATION", "DRAFT", "CANCELLED"}
    /\ LEGAL["APPROVED"] = {"READY_FOR_PICKUP", "CANCELLED"}
    /\ LEGAL["READY_FOR_PICKUP"] = {"PICKED_UP", "CANCELLED"}
    /\ LEGAL["IN_PREPARATION"] = {"IN_TRANSIT", "CANCELLED"}
    /\ LEGAL["IN_TRANSIT"] = {"DELIVERED", "PARTIALLY_DELIVERED", "FAILED"}
    /\ LEGAL["FAILED"] = {"IN_PREPARATION", "CANCELLED"}
<1>1. LEGAL["DRAFT"] = {"PENDING_APPROVAL", "APPROVED", "IN_PREPARATION", "CANCELLED"}
  BY DEF LEGAL, Statuses
<1>2. LEGAL["PENDING_APPROVAL"] = {"APPROVED", "IN_PREPARATION", "DRAFT", "CANCELLED"}
  BY DEF LEGAL, Statuses
<1>3. LEGAL["APPROVED"] = {"READY_FOR_PICKUP", "CANCELLED"}
  BY DEF LEGAL, Statuses
<1>4. LEGAL["READY_FOR_PICKUP"] = {"PICKED_UP", "CANCELLED"}
  BY DEF LEGAL, Statuses
<1>5. LEGAL["IN_PREPARATION"] = {"IN_TRANSIT", "CANCELLED"}
  BY DEF LEGAL, Statuses
<1>6. LEGAL["IN_TRANSIT"] = {"DELIVERED", "PARTIALLY_DELIVERED", "FAILED"}
  BY DEF LEGAL, Statuses
<1>7. LEGAL["FAILED"] = {"IN_PREPARATION", "CANCELLED"}
  BY DEF LEGAL, Statuses
<1> QED
  BY <1>1, <1>2, <1>3, <1>4, <1>5, <1>6, <1>7

\* Once an order is on its way it does not go back to where nothing had left.
LEMMA LegalOnwards ==
    ASSUME NEW from \in Statuses, NEW to, NEW type, AssertLegal(from, to, type)
    PROVE  /\ from \notin TERMINAL /\ to \in Statuses
           /\ from \notin Early => to \notin Early
<1>1. from \notin TERMINAL /\ to \in LEGAL[from]
  BY DEF AssertLegal
<1>2. from \in {"DRAFT", "PENDING_APPROVAL", "APPROVED", "READY_FOR_PICKUP", "IN_PREPARATION",
                "IN_TRANSIT", "FAILED"}
  BY <1>1 DEF Statuses, TERMINAL
<1> QED
  BY <1>1, <1>2, LegalMoves DEF Statuses, Early

\* A step that leaves all but the requests alone keeps what tables promise.
LEMMA TablesKept ==
    ASSUME UNCHANGED tables, Typed, Rooted
    PROVE  Typed' /\ Rooted'
<1>1. \A p : IsOpen(p)' <=> IsOpen(p)
  BY DEF IsOpen, tables
<1>2. Typed'
  BY Zenon DEF Typed, tables
<1>3. Rooted'
  BY <1>1 DEF Rooted, tables
<1> QED
  BY <1>2, <1>3

LEMMA StaysSound ==
    ASSUME NEW t, Sound(t), Typed, UNCHANGED tables
    PROVE  Sound(t)'
BY SoundKept DEF tables

\* What a request relies on is what its transaction does.
LEMMA SoundIs ==
    ASSUME NEW q, NEW t, t = txn'[q], Sound(t)'
    PROVE  Sound(txn[q])'
<1>1. SoundOrder(txn[q])'
  <2>1. SoundOrder(t)'
    BY DEF Sound
  <2> QED
    BY <2>1 DEF SoundOrder
<1>2. SoundTrip(txn[q])'
  <2>1. SoundTrip(t)'
    BY Zenon DEF Sound
  <2> QED
    BY <2>1 DEF SoundTrip
<1>3. SoundClose(txn[q])'
  <2>1. SoundClose(t)'
    BY DEF Sound
  <2> QED
    BY <2>1 DEF SoundClose
<1> QED
  BY <1>1, <1>2, <1>3 DEF Sound

\* A request that begins with what it relies on.
LEMMA BeginsKeeps ==
    ASSUME OneAtATime, DeliveryInv, NEW r \in Requests, NEW op, NEW arg, NEW rows,
           op \in Solo \cup {"load", "close"},
           Begins(r, op, arg, rows),
           Sound([op |-> op, arg |-> arg, rows |-> rows, seen |-> Snapshot])
    PROVE  DeliveryInv'
<1> DEFINE x == [op |-> op, arg |-> arg, rows |-> rows, seen |-> Snapshot]
<1>1. PICK t : t = x
  OBVIOUS
<1>2. /\ t.op = op /\ t.rows = rows /\ Sound(t)
  BY <1>1
<1>3. /\ txn[r] = Idle /\ UNCHANGED tables /\ Free(r, rows)
      /\ \A q \in Requests \ {r} : txn[q] # Idle => {op, txn[q].op} \in Overlaps
      /\ txn' = [txn EXCEPT ![r] = t]
  BY <1>1 DEF Begins
<1> HIDE DEF x
<1>4. Typed /\ Rooted /\ Beside /\ \A q \in Requests : Sound(txn[q])
  BY DEF DeliveryInv
<1>5. Typed' /\ Rooted'
  BY <1>3, <1>4, TablesKept
<1>6. /\ txn'[r] = t /\ \A q \in Requests : q # r => txn'[q] = txn[q]
      /\ txn' = [q \in Requests |-> txn'[q]]
  BY <1>3, <1>4 DEF Beside
<1>7. \A q \in Requests : Sound(txn[q])'
  <2>1. SUFFICES ASSUME NEW q \in Requests PROVE Sound(txn[q])'
    OBVIOUS
  <2>2. PICK y : y = txn'[q]
    OBVIOUS
  <2>3. Sound(y)
    BY <1>2, <1>4, <1>6, <2>2
  <2>4. Sound(y)'
    BY <1>3, <1>4, <2>3, StaysSound
  <2> QED
    BY <2>2, <2>4, SoundIs
<1>8. op # "idle" /\ op \in Solo \cup {"idle", "load", "close", "refresh"}
  BY DEF Solo, Steps
<1>9. \A q \in Requests : q # r =>
          \/ txn[q].op = "idle"
          \/ op = "load" /\ txn[q].op = "load"
          \/ op = "close" /\ txn[q].op = "close"
  <2>1. SUFFICES ASSUME NEW q \in Requests, q # r, txn[q].op # "idle"
                 PROVE  (op = "load" /\ txn[q].op = "load") \/ (op = "close" /\ txn[q].op = "close")
    OBVIOUS
  <2>2. txn[q] # Idle
    BY <2>1 DEF Idle
  <2>3. {op, txn[q].op} \in {{"close"}, {"load"}}
    BY <1>3, <2>1, <2>2 DEF OneAtATime
  <2>4. op \in {op, txn[q].op} /\ txn[q].op \in {op, txn[q].op}
    OBVIOUS
  <2>5. \/ {op, txn[q].op} = {"close"}
        \/ {op, txn[q].op} = {"load"}
    BY <2>3
  <2>6. CASE {op, txn[q].op} = {"close"}
    BY <2>4, <2>6
  <2>7. CASE {op, txn[q].op} = {"load"}
    BY <2>4, <2>7
  <2> QED
    BY <2>5, <2>6, <2>7
<1>10. Beside'
  <2>1. \A q \in Requests : /\ txn'[q].op \in Solo \cup {"idle", "load", "close", "refresh"}
                            /\ txn'[q].op = "idle" => txn'[q] = Idle
    BY <1>2, <1>4, <1>6, <1>8 DEF Beside
  <2>2. \A p, q \in Requests : p # q =>
          \/ txn'[p].op = "idle" \/ txn'[q].op = "idle"
          \/ txn'[p].op = "load" /\ txn'[q].op = "load"
          \/ txn'[p].op \in {"close", "refresh"} /\ txn'[q].op \in {"close", "refresh"}
    BY <1>2, <1>4, <1>6, <1>9 DEF Beside
  <2>3. \A q \in Requests : Holds(q)' = IF q = r THEN rows ELSE Holds(q)
    BY <1>2, <1>6, <1>8 DEF Holds
  <2>4. \A p, q \in Requests : p # q => Holds(p)' \cap Holds(q)' = {}
    BY <1>3, <1>4, <2>3 DEF Beside, Free
  <2> QED
    BY <1>6, <2>1, <2>2, <2>4 DEF Beside
<1> QED
  BY <1>5, <1>7, <1>10 DEF DeliveryInv

\* A request that runs alone.
LEMMA Alone ==
    ASSUME Beside, NEW r \in Requests, txn[r].op \in Solo
    PROVE  \A q \in Requests : q # r => txn[q] = Idle
BY DEF Beside, Solo, Steps

\* Idle requests rely on nothing.
LEMMA IdleIsSound == Sound(Idle)
BY DEF Sound, SoundOrder, SoundTrip, SoundClose, Idle, Solo, Steps

\* The only request in flight ends.
LEMMA LastEnds ==
    ASSUME Beside, NEW r \in Requests, txn[r].op \in Solo, Ends(r), Typed', Rooted'
    PROVE  DeliveryInv'
<1>1. /\ \A q \in Requests : txn'[q] = Idle
      /\ txn' = [q \in Requests |-> txn'[q]]
  BY Alone DEF Ends, Beside
<1>2. Beside'
  BY <1>1, SMTT(60) DEF Beside, Holds, Idle
<1>3. \A q \in Requests : Sound(txn[q])'
  <2>1. SUFFICES ASSUME NEW q \in Requests PROVE Sound(txn[q])'
    OBVIOUS
  <2> QED
    BY <1>1 DEF Sound, SoundOrder, SoundTrip, SoundClose, Idle, Solo, Steps
<1> QED
  BY <1>2, <1>3 DEF DeliveryInv

\* A request goes on to something no more exclusive, or ends.
LEMMA GoesOn ==
    ASSUME Beside, NEW r \in Requests, NEW t, txn' = [txn EXCEPT ![r] = t],
           \/ t = Idle
           \/ t.op = txn[r].op /\ t.op # "idle" /\ t.rows = {}
           \/ /\ t.op = "refresh" /\ t.rows = {}
              /\ txn[r].op \in Solo \cup {"close", "refresh"}
    PROVE  /\ Beside' /\ txn'[r] = t
           /\ \A q \in Requests : q # r => txn'[q] = txn[q]
<1>1. /\ txn'[r] = t /\ \A q \in Requests : q # r => txn'[q] = txn[q]
      /\ txn' = [q \in Requests |-> txn'[q]]
  BY DEF Beside
<1>2. \/ t.op = "idle"
      \/ t.op # "idle" /\ t.rows = {}
  BY DEF Idle
<1>3. \A q \in Requests : Holds(q)' \subseteq Holds(q)
  BY <1>1, <1>2 DEF Holds
<1>4. \A p, q \in Requests : p # q => Holds(p)' \cap Holds(q)' = {}
  BY <1>3 DEF Beside
<1>5. \A q \in Requests : /\ txn'[q].op \in Solo \cup {"idle", "load", "close", "refresh"}
                          /\ txn'[q].op = "idle" => txn'[q] = Idle
  BY <1>1 DEF Beside, Idle
<1>6. t.op = "idle" \/ t.op = txn[r].op \/ (t.op = "refresh" /\ txn[r].op \in Solo \cup {"close"})
  BY DEF Idle
<1>7. \A p, q \in Requests : p # q =>
          \/ txn'[p].op = "idle" \/ txn'[q].op = "idle"
          \/ txn'[p].op = "load" /\ txn'[q].op = "load"
          \/ txn'[p].op \in {"close", "refresh"} /\ txn'[q].op \in {"close", "refresh"}
  <2>1. \A q \in Requests : q # r =>
          \/ txn'[r].op = "idle" \/ txn'[q].op = "idle"
          \/ txn'[r].op = "load" /\ txn'[q].op = "load"
          \/ txn'[r].op \in {"close", "refresh"} /\ txn'[q].op \in {"close", "refresh"}
    BY <1>1, <1>6 DEF Beside, Solo, Steps
  <2> QED
    BY <1>1, <2>1 DEF Beside
<1> QED
  BY <1>1, <1>4, <1>5, <1>7 DEF Beside

\* What is left to show once a request has gone on.
LEMMA AllSound ==
    ASSUME Typed', Rooted', NEW r \in Requests, NEW t, t = Idle \/ Sound(t)', Beside',
           txn'[r] = t, \A q \in Requests : q # r => txn'[q] = txn[q],
           \A q \in Requests : q # r => Sound(txn[q])'
    PROVE  DeliveryInv'
<1>1. Sound(txn[r])'
  <2>1. CASE t = Idle
    BY <2>1 DEF Sound, SoundOrder, SoundTrip, SoundClose, Idle, Solo, Steps
  <2>2. CASE Sound(t)'
    BY <2>2, SoundIs
  <2> QED
    BY <2>1, <2>2, Zenon
<1> QED
  BY <1>1 DEF DeliveryInv

\* What others rely on is still so.
LEMMA OthersKept ==
    ASSUME DeliveryInv, NEW r \in Requests, \A q \in Requests : q # r => txn'[q] = txn[q],
           UNCHANGED <<claim, delivery, dline, stop, entry>>,
           \A p \in Trips : /\ trip'[p] = None <=> trip[p] = None
                            /\ trip'[p].status = trip[p].status
    PROVE  \A q \in Requests : q # r => Sound(txn[q])'
<1>1. SUFFICES ASSUME NEW q \in Requests, q # r PROVE Sound(txn[q])'
  OBVIOUS
<1>2. PICK y : y = txn'[q]
  OBVIOUS
<1>3. Sound(y)
  BY <1>1, <1>2 DEF DeliveryInv
<1>4. Typed
  BY DEF DeliveryInv
<1>5. Sound(y)'
  BY <1>3, <1>4, SoundKept
<1> QED
  BY <1>2, <1>5, SoundIs

\* A request that refreshes sales next relies on nothing.
LEMMA RefreshesNext ==
    ASSUME NEW r \in Requests, NEW sales \in SUBSET Sales, Refreshes(r, sales)
    PROVE  \E t : /\ txn' = [txn EXCEPT ![r] = t]
                  /\ t = Idle \/ (t.op = "refresh" /\ t.rows = {} /\ Sound(t)')
<1>1. PICK t : t = IF sales = {} THEN Idle
                   ELSE [op |-> "refresh", arg |-> [sales |-> sales], rows |-> {},
                         seen |-> Snapshot]
  OBVIOUS
<1>2. txn' = [txn EXCEPT ![r] = t]
  BY <1>1 DEF Refreshes
<1>3. CASE t # Idle
  <2>1. t.op = "refresh" /\ t.rows = {} /\ t.arg.sales = sales
    BY <1>1, <1>3
  <2>2. Sound(t)'
    BY <2>1 DEF Sound, SoundOrder, SoundTrip, SoundClose, Solo, Steps
  <2> QED
    BY <1>2, <2>1, <2>2
<1> QED
  BY <1>2, <1>3

\* Refreshing a sale, and a transaction that does not commit.
LEMMA RefreshSafe ==
    ASSUME DeliveryInv, NEW r \in Requests, NEW s \in Sales, Refresh(r, s)
    PROVE  DeliveryInv'
<1>1. PICK t : t = txn[r]
  OBVIOUS
<1>2. /\ t.op = "refresh" /\ UNCHANGED <<claim, delivery, dline, trip, stop, entry, onHand>>
      /\ sale' = IF AllDelivered(s) THEN [sale EXCEPT ![s] = TRUE] ELSE sale
      /\ Refreshes(r, t.arg.sales \ {s})
  BY <1>1 DEF Refresh, Runs
<1>3. t.arg.sales \ {s} \in SUBSET Sales
  BY <1>1, <1>2 DEF DeliveryInv, Sound, SoundOrder
<1>4. PICK u : /\ txn' = [txn EXCEPT ![r] = u]
               /\ u = Idle \/ (u.op = "refresh" /\ u.rows = {} /\ Sound(u)')
  BY <1>2, <1>3, RefreshesNext
<1>5. Typed /\ Rooted /\ Beside
  BY DEF DeliveryInv
<1>6. Typed'
  BY <1>2, <1>5 DEF Typed
<1>7. Rooted'
  <2>1. \A p : IsOpen(p)' <=> IsOpen(p)
    BY <1>2 DEF IsOpen
  <2> QED
    BY <1>2, <1>5, <2>1 DEF Rooted
<1>8. Beside' /\ txn'[r] = u /\ \A q \in Requests : q # r => txn'[q] = txn[q]
  BY <1>1, <1>2, <1>4, <1>5, GoesOn
<1>9. \A q \in Requests : q # r => Sound(txn[q])'
  BY <1>2, <1>8, OthersKept
<1> QED
  BY <1>4, <1>6, <1>7, <1>8, <1>9, AllSound

LEMMA AbortSafe ==
    ASSUME DeliveryInv, NEW r \in Requests, Abort(r)
    PROVE  DeliveryInv'
<1>1. txn' = [txn EXCEPT ![r] = Idle] /\ UNCHANGED tables
  BY DEF Abort, Ends
<1>2. Typed /\ Rooted /\ Beside
  BY DEF DeliveryInv
<1>3. Typed' /\ Rooted'
  BY <1>1, <1>2, TablesKept
<1>4. Beside' /\ txn'[r] = Idle /\ \A q \in Requests : q # r => txn'[q] = txn[q]
  BY <1>1, <1>2, GoesOn
<1>5. \A q \in Requests : q # r => Sound(txn[q])'
  BY <1>1, <1>4, OthersKept DEF tables
<1> QED
  BY <1>3, <1>4, <1>5, AllSound

\* A request that ran alone refreshes sales next.
LEMMA LastRefreshes ==
    ASSUME Beside, NEW r \in Requests, txn[r].op \in Solo, NEW sales \in SUBSET Sales,
           Refreshes(r, sales), Typed', Rooted'
    PROVE  DeliveryInv'
<1>1. PICK t : /\ txn' = [txn EXCEPT ![r] = t]
               /\ t = Idle \/ (t.op = "refresh" /\ t.rows = {} /\ Sound(t)')
  BY RefreshesNext
<1>2. Beside' /\ txn'[r] = t /\ \A q \in Requests : q # r => txn'[q] = txn[q]
  BY <1>1, GoesOn
<1>3. \A q \in Requests : q # r => Sound(txn[q])'
  <2>1. SUFFICES ASSUME NEW q \in Requests, q # r PROVE Sound(txn[q])'
    OBVIOUS
  <2>2. txn'[q] = Idle
    BY <1>2, <2>1, Alone
  <2> QED
    BY <2>2 DEF Sound, SoundOrder, SoundTrip, SoundClose, Idle, Solo, Steps
<1> QED
  BY <1>1, <1>2, <1>3, AllSound

-----------------------------------------------------------------------------
(***************************************************************************)
(* Requests that begin.                                                    *)
(***************************************************************************)
LEMMA CreateBeginSafe ==
    ASSUME OneAtATime, DeliveryInv, NEW r \in Requests, NEW s \in Sales, NEW type \in
           Fulfillments, NEW chosen \in [SaleLines -> Nat], CreateBegin(r, s, type, chosen)
    PROVE  DeliveryInv'
<1> DEFINE arg == [sale |-> s, type |-> type, chosen |-> chosen]
           rows == {}
<1>1. PICK x : x = [op |-> "create", arg |-> arg, rows |-> rows, seen |-> Snapshot]
  OBVIOUS
<1>2. x.op = "create" /\ x.arg.sale = s /\ x.arg.type = type /\ x.arg.chosen = chosen
  BY <1>1
<1>3. /\ x.seen.claim = claim /\ x.seen.delivery = delivery /\ x.seen.dline = dline
      /\ x.seen.stop = stop /\ x.seen.entry = entry /\ x.rows = rows
  BY <1>1 DEF Snapshot
<1>4. Begins(r, "create", arg, rows)
  BY DEF CreateBegin
<1>5. \A l \in SaleLines : chosen[l] > 0 => chosen[l] <= Uncovered(l)
  BY DEF CreateBegin
<1> HIDE DEF arg, rows
<1>9. Sound(x)
  BY <1>2, <1>3, <1>5 DEF Sound, SoundOrder, SoundTrip, SoundClose, Steps, Solo
<1> QED
  BY <1>1, <1>4, <1>9, BeginsKeeps DEF Solo, Steps

LEMMA AddBeginSafe ==
    ASSUME OneAtATime, DeliveryInv, NEW r \in Requests, NEW d \in Deliveries, NEW l \in
           SaleLines, NEW q \in Nat, AddBegin(r, d, l, q)
    PROVE  DeliveryInv'
<1> DEFINE arg == [d |-> d, line |-> l, row |-> NewLine(q)]
           rows == {}
<1>1. PICK x : x = [op |-> "edit", arg |-> arg, rows |-> rows, seen |-> Snapshot]
  OBVIOUS
<1>2. x.op = "edit" /\ x.arg.d = d /\ x.arg.line = l /\ x.arg.row = NewLine(q)
  BY <1>1
<1>3. /\ x.seen.claim = claim /\ x.seen.delivery = delivery /\ x.seen.dline = dline
      /\ x.seen.stop = stop /\ x.seen.entry = entry /\ x.rows = rows
  BY <1>1 DEF Snapshot
<1>4. Begins(r, "edit", arg, rows)
  BY DEF AddBegin
<1>5. /\ Editable(d) /\ dline[d][l] = None /\ FitsSale(l, Covered(l), q)
      /\ NewLine(q) \in DeliveryLines /\ NewLine(q).quantity = q
  BY DEF AddBegin, NewLine, DeliveryLines
<1> HIDE DEF arg, rows
<1>9. Sound(x)
  BY <1>2, <1>3, <1>5 DEF Sound, SoundOrder, SoundTrip, SoundClose, Steps, Solo
<1> QED
  BY <1>1, <1>4, <1>9, BeginsKeeps DEF Solo, Steps

LEMMA UpdateBeginSafe ==
    ASSUME OneAtATime, DeliveryInv, NEW r \in Requests, NEW d \in Deliveries, NEW l \in
           SaleLines, NEW q \in Nat, UpdateBegin(r, d, l, q)
    PROVE  DeliveryInv'
<1> DEFINE arg == [d |-> d, line |-> l, row |-> [dline[d][l] EXCEPT !.quantity = q]]
           rows == {}
<1>1. PICK x : x = [op |-> "edit", arg |-> arg, rows |-> rows, seen |-> Snapshot]
  OBVIOUS
<1>2. x.op = "edit" /\ x.arg.d = d /\ x.arg.line = l /\ x.arg.row = [dline[d][l] EXCEPT !.quantity = q]
  BY <1>1
<1>3. /\ x.seen.claim = claim /\ x.seen.delivery = delivery /\ x.seen.dline = dline
      /\ x.seen.stop = stop /\ x.seen.entry = entry /\ x.rows = rows
  BY <1>1 DEF Snapshot
<1>4. Begins(r, "edit", arg, rows)
  BY DEF UpdateBegin
<1>5. /\ Editable(d) /\ dline[d][l] # None /\ FitsSale(l, Covered(l) - dline[d][l].quantity, q)
  BY DEF UpdateBegin
<1>6. dline[d][l] \in DeliveryLines
  BY <1>5 DEF DeliveryInv, Typed
<1>7. PICK m : m = [dline[d][l] EXCEPT !.quantity = q]
  OBVIOUS
<1>8. m \in DeliveryLines /\ m.quantity = q
  BY <1>6, <1>7 DEF DeliveryLines
<1> HIDE DEF arg, rows
<1>9. Sound(x)
  BY <1>2, <1>3, <1>5, <1>7, <1>8 DEF Sound, SoundOrder, SoundTrip, SoundClose, Steps, Solo
<1> QED
  BY <1>1, <1>4, <1>9, BeginsKeeps DEF Solo, Steps

LEMMA DeleteBeginSafe ==
    ASSUME OneAtATime, DeliveryInv, NEW r \in Requests, NEW d \in Deliveries, NEW l \in
           SaleLines, DeleteBegin(r, d, l)
    PROVE  DeliveryInv'
<1> DEFINE arg == [d |-> d, line |-> l, row |-> None]
           rows == {}
<1>1. PICK x : x = [op |-> "edit", arg |-> arg, rows |-> rows, seen |-> Snapshot]
  OBVIOUS
<1>2. x.op = "edit" /\ x.arg.d = d /\ x.arg.line = l /\ x.arg.row = None
  BY <1>1
<1>3. /\ x.seen.claim = claim /\ x.seen.delivery = delivery /\ x.seen.dline = dline
      /\ x.seen.stop = stop /\ x.seen.entry = entry /\ x.rows = rows
  BY <1>1 DEF Snapshot
<1>4. Begins(r, "edit", arg, rows)
  BY DEF DeleteBegin
<1>5. Editable(d)
  BY DEF DeleteBegin
<1> HIDE DEF arg, rows
<1>9. Sound(x)
  BY <1>2, <1>3, <1>5 DEF Sound, SoundOrder, SoundTrip, SoundClose, Steps, Solo
<1> QED
  BY <1>1, <1>4, <1>9, BeginsKeeps DEF Solo, Steps

LEMMA ConfirmBeginSafe ==
    ASSUME OneAtATime, DeliveryInv, NEW r \in Requests, NEW d \in Deliveries, ConfirmBegin(r,
           d)
    PROVE  DeliveryInv'
<1> DEFINE arg == [d |-> d]
           rows == {DeliveryRow(d), FacilityRow(delivery[d].facility)}
<1>1. PICK x : x = [op |-> "confirm", arg |-> arg, rows |-> rows, seen |-> Snapshot]
  OBVIOUS
<1>2. x.op = "confirm" /\ x.arg.d = d
  BY <1>1
<1>3. /\ x.seen.claim = claim /\ x.seen.delivery = delivery /\ x.seen.dline = dline
      /\ x.seen.stop = stop /\ x.seen.entry = entry /\ x.rows = rows
  BY <1>1 DEF Snapshot
<1>4. Begins(r, "confirm", arg, rows)
  BY DEF ConfirmBegin
<1>5. Editable(d)
  BY DEF ConfirmBegin
<1> HIDE DEF arg, rows
<1>9. Sound(x)
  BY <1>2, <1>3, <1>5 DEF Sound, SoundOrder, SoundTrip, SoundClose, Steps, Solo
<1> QED
  BY <1>1, <1>4, <1>9, BeginsKeeps DEF Solo, Steps

LEMMA StepBeginSafe ==
    ASSUME OneAtATime, DeliveryInv, NEW r \in Requests, NEW step \in Steps, NEW d \in
           Deliveries, StepBegin(r, step, d)
    PROVE  DeliveryInv'
<1> DEFINE arg == [d |-> d, to |-> Target(step, d)]
           rows == {}
<1>1. PICK x : x = [op |-> step, arg |-> arg, rows |-> rows, seen |-> Snapshot]
  OBVIOUS
<1>2. x.op = step /\ x.arg.d = d /\ x.arg.to = Target(step, d)
  BY <1>1
<1>3. /\ x.seen.claim = claim /\ x.seen.delivery = delivery /\ x.seen.dline = dline
      /\ x.seen.stop = stop /\ x.seen.entry = entry /\ x.rows = rows
  BY <1>1 DEF Snapshot
<1>4. Begins(r, step, arg, rows)
  BY DEF StepBegin
<1>5. AsksFor(step, d)
  BY DEF StepBegin
<1> HIDE DEF arg, rows
<1>9. Sound(x)
  BY <1>2, <1>3, <1>5 DEF Sound, SoundOrder, SoundTrip, SoundClose, Steps, Solo
<1> QED
  BY <1>1, <1>4, <1>9, BeginsKeeps DEF Solo, Steps

LEMMA PickupBeginSafe ==
    ASSUME OneAtATime, DeliveryInv, NEW r \in Requests, NEW d \in Deliveries, PickupBegin(r,
           d)
    PROVE  DeliveryInv'
<1> DEFINE arg == [d |-> d]
           rows == {}
<1>1. PICK x : x = [op |-> "pickup", arg |-> arg, rows |-> rows, seen |-> Snapshot]
  OBVIOUS
<1>2. x.op = "pickup" /\ x.arg.d = d
  BY <1>1
<1>3. /\ x.seen.claim = claim /\ x.seen.delivery = delivery /\ x.seen.dline = dline
      /\ x.seen.stop = stop /\ x.seen.entry = entry /\ x.rows = rows
  BY <1>1 DEF Snapshot
<1>4. Begins(r, "pickup", arg, rows)
  BY DEF PickupBegin
<1>5. Allows(d, "PICKED_UP")
  BY DEF PickupBegin
<1> HIDE DEF arg, rows
<1>9. Sound(x)
  BY <1>2, <1>3, <1>5 DEF Sound, SoundOrder, SoundTrip, SoundClose, Steps, Solo
<1> QED
  BY <1>1, <1>4, <1>9, BeginsKeeps DEF Solo, Steps

LEMMA TripBeginSafe ==
    ASSUME OneAtATime, DeliveryInv, NEW r \in Requests, NEW v \in Vehicles, TripBegin(r, v)
    PROVE  DeliveryInv'
<1> DEFINE arg == [vehicle |-> v]
           rows == {}
<1>1. PICK x : x = [op |-> "plan", arg |-> arg, rows |-> rows, seen |-> Snapshot]
  OBVIOUS
<1>2. x.op = "plan" /\ x.arg.vehicle = v
  BY <1>1
<1>3. /\ x.seen.claim = claim /\ x.seen.delivery = delivery /\ x.seen.dline = dline
      /\ x.seen.stop = stop /\ x.seen.entry = entry /\ x.rows = rows
  BY <1>1 DEF Snapshot
<1>4. Begins(r, "plan", arg, rows)
  BY DEF TripBegin
<1> HIDE DEF arg, rows
<1>9. Sound(x)
  BY <1>2, <1>3 DEF Sound, SoundOrder, SoundTrip, SoundClose, Steps, Solo
<1> QED
  BY <1>1, <1>4, <1>9, BeginsKeeps DEF Solo, Steps

LEMMA StopBeginSafe ==
    ASSUME OneAtATime, DeliveryInv, NEW r \in Requests, NEW t \in Trips, NEW d \in
           Deliveries, StopBegin(r, t, d)
    PROVE  DeliveryInv'
<1> DEFINE arg == [trip |-> t]
           rows == {}
<1>1. PICK x : x = [op |-> "stop", arg |-> arg, rows |-> rows, seen |-> Snapshot]
  OBVIOUS
<1>2. x.op = "stop" /\ x.arg.trip = t
  BY <1>1
<1>3. /\ x.seen.claim = claim /\ x.seen.delivery = delivery /\ x.seen.dline = dline
      /\ x.seen.stop = stop /\ x.seen.entry = entry /\ x.rows = rows
  BY <1>1 DEF Snapshot
<1>4. Begins(r, "stop", arg, rows)
  BY DEF StopBegin
<1>5. IsOpen(t)
  BY DEF StopBegin
<1> HIDE DEF arg, rows
<1>9. Sound(x)
  BY <1>2, <1>3, <1>5 DEF Sound, SoundOrder, SoundTrip, SoundClose, Steps, Solo
<1> QED
  BY <1>1, <1>4, <1>9, BeginsKeeps DEF Solo, Steps

LEMMA LoadBeginSafe ==
    ASSUME OneAtATime, DeliveryInv, NEW r \in Requests, NEW s \in Stops, NEW k \in Keys, NEW
           q \in Nat \ {0}, LoadBegin(r, s, k, q)
    PROVE  DeliveryInv'
<1> DEFINE arg == [stop |-> s, key |-> k, quantity |-> q]
           rows == {}
<1>1. PICK x : x = [op |-> "load", arg |-> arg, rows |-> rows, seen |-> Snapshot]
  OBVIOUS
<1>2. x.op = "load" /\ x.arg.stop = s /\ x.arg.key = k /\ x.arg.quantity = q
  BY <1>1
<1>3. /\ x.seen.claim = claim /\ x.seen.delivery = delivery /\ x.seen.dline = dline
      /\ x.seen.stop = stop /\ x.seen.entry = entry /\ x.rows = rows
  BY <1>1 DEF Snapshot
<1>4. Begins(r, "load", arg, rows)
  BY DEF LoadBegin
<1>5. Loading(s) /\ Loadable(k)
  BY DEF LoadBegin, Loading, Loadable, Pending
<1> HIDE DEF arg, rows
<1>9. Sound(x)
  BY <1>2, <1>3, <1>5 DEF Sound, SoundOrder, SoundTrip, SoundClose, Steps, Solo
<1> QED
  BY <1>1, <1>4, <1>9, BeginsKeeps DEF Solo, Steps

LEMMA WholeBeginSafe ==
    ASSUME OneAtATime, DeliveryInv, NEW r \in Requests, NEW s \in Stops, NEW d \in
           Deliveries, WholeBegin(r, s, d)
    PROVE  DeliveryInv'
<1> DEFINE arg == [stop |-> s, queue |-> {k \in {d} \X LinesOf(d) : OpenQuantity(dline[d][k[2]]) > 0}]
           rows == {}
<1>1. PICK x : x = [op |-> "whole", arg |-> arg, rows |-> rows, seen |-> Snapshot]
  OBVIOUS
<1>2. x.op = "whole" /\ x.arg.stop = s /\ x.arg.queue = {k \in {d} \X LinesOf(d) : OpenQuantity(dline[d][k[2]]) > 0}
  BY <1>1
<1>3. /\ x.seen.claim = claim /\ x.seen.delivery = delivery /\ x.seen.dline = dline
      /\ x.seen.stop = stop /\ x.seen.entry = entry /\ x.rows = rows
  BY <1>1 DEF Snapshot
<1>4. Begins(r, "whole", arg, rows)
  BY DEF WholeBegin
<1> DEFINE open == {k \in {d} \X LinesOf(d) : OpenQuantity(dline[d][k[2]]) > 0}
<1>5. Loading(s) /\ open \subseteq Pending /\ x.arg.queue = open
  BY <1>2 DEF WholeBegin, Loading
<1>6. \A k \in open : k \in Keys /\ Loadable(k) /\ OpenQuantity(dline[k[1]][k[2]]) > 0
  BY <1>5 DEF Pending, Loadable
<1> HIDE DEF open
<1>7. open \subseteq Keys
  BY <1>6
<1>8. x = [op |-> "whole", arg |-> [stop |-> x.arg.stop, queue |-> x.arg.queue],
           rows |-> {}, seen |-> x.seen]
  BY <1>1, <1>2, <1>3
<1> HIDE DEF arg, rows
<1>9. Sound(x)
  BY <1>2, <1>3, <1>5, <1>6, <1>7, <1>8 DEF Sound, SoundOrder, SoundTrip, SoundClose, Steps, Solo
<1> QED
  BY <1>1, <1>4, <1>9, BeginsKeeps DEF Solo, Steps

LEMMA AdjustBeginSafe ==
    ASSUME OneAtATime, DeliveryInv, NEW r \in Requests, NEW e \in Entries, NEW q \in Nat \
           {0}, AdjustBegin(r, e, q)
    PROVE  DeliveryInv'
<1> DEFINE arg == [entry |-> e, quantity |-> q]
           rows == {}
<1>1. PICK x : x = [op |-> "adjust", arg |-> arg, rows |-> rows, seen |-> Snapshot]
  OBVIOUS
<1>2. x.op = "adjust" /\ x.arg.entry = e /\ x.arg.quantity = q
  BY <1>1
<1>3. /\ x.seen.claim = claim /\ x.seen.delivery = delivery /\ x.seen.dline = dline
      /\ x.seen.stop = stop /\ x.seen.entry = entry /\ x.rows = rows
  BY <1>1 DEF Snapshot
<1>4. Begins(r, "adjust", arg, rows)
  BY DEF AdjustBegin
<1>5. entry[e] # None /\ Loading(entry[e].stop)
  BY DEF AdjustBegin, Loading, DeliveryInv, Rooted
<1> HIDE DEF arg, rows
<1>9. Sound(x)
  BY <1>2, <1>3, <1>5 DEF Sound, SoundOrder, SoundTrip, SoundClose, Steps, Solo
<1> QED
  BY <1>1, <1>4, <1>9, BeginsKeeps DEF Solo, Steps

LEMMA ReleaseBeginSafe ==
    ASSUME OneAtATime, DeliveryInv, NEW r \in Requests, NEW e \in Entries, ReleaseBegin(r, e)
    PROVE  DeliveryInv'
<1> DEFINE arg == [entries |-> {e}, stops |-> {}, trips |-> {}]
           rows == {}
<1>1. PICK x : x = [op |-> "release", arg |-> arg, rows |-> rows, seen |-> Snapshot]
  OBVIOUS
<1>2. x.op = "release" /\ x.arg.entries = {e} /\ x.arg.stops = {} /\ x.arg.trips = {}
  BY <1>1
<1>3. /\ x.seen.claim = claim /\ x.seen.delivery = delivery /\ x.seen.dline = dline
      /\ x.seen.stop = stop /\ x.seen.entry = entry /\ x.rows = rows
  BY <1>1 DEF Snapshot
<1>4. Begins(r, "release", arg, rows)
  BY DEF ReleaseBegin
<1>5. entry[e] # None /\ Loading(entry[e].stop)
  BY DEF ReleaseBegin, Loading, DeliveryInv, Rooted
<1> HIDE DEF arg, rows
<1>9. Sound(x)
  BY <1>2, <1>3, <1>5 DEF Sound, SoundOrder, SoundTrip, SoundClose, Steps, Solo
<1> QED
  BY <1>1, <1>4, <1>9, BeginsKeeps DEF Solo, Steps

LEMMA RemoveBeginSafe ==
    ASSUME OneAtATime, DeliveryInv, NEW r \in Requests, NEW s \in Stops, RemoveBegin(r, s)
    PROVE  DeliveryInv'
<1> DEFINE arg == [entries |-> EntriesAt(s), stops |-> {s}, trips |-> {}]
           rows == {}
<1>1. PICK x : x = [op |-> "release", arg |-> arg, rows |-> rows, seen |-> Snapshot]
  OBVIOUS
<1>2. x.op = "release" /\ x.arg.entries = EntriesAt(s) /\ x.arg.stops = {s} /\ x.arg.trips = {}
  BY <1>1
<1>3. /\ x.seen.claim = claim /\ x.seen.delivery = delivery /\ x.seen.dline = dline
      /\ x.seen.stop = stop /\ x.seen.entry = entry /\ x.rows = rows
  BY <1>1 DEF Snapshot
<1>4. Begins(r, "release", arg, rows)
  BY DEF RemoveBegin
<1>5. Loading(s)
  BY DEF RemoveBegin, Loading
<1>6. \A e \in EntriesAt(s) : e \in Entries /\ entry[e] # None /\ Loading(entry[e].stop)
  BY <1>5 DEF EntriesAt
<1> HIDE DEF arg, rows
<1>9. Sound(x)
  BY <1>2, <1>3, <1>5, <1>6 DEF Sound, SoundOrder, SoundTrip, SoundClose, Steps, Solo
<1> QED
  BY <1>1, <1>4, <1>9, BeginsKeeps DEF Solo, Steps

LEMMA CancelTripBeginSafe ==
    ASSUME OneAtATime, DeliveryInv, NEW r \in Requests, NEW t \in Trips, CancelTripBegin(r,
           t)
    PROVE  DeliveryInv'
<1> DEFINE arg == [entries |-> EntriesOf(t), stops |-> StopsOf(t), trips |-> {t}]
           rows == {}
<1>1. PICK x : x = [op |-> "release", arg |-> arg, rows |-> rows, seen |-> Snapshot]
  OBVIOUS
<1>2. x.op = "release" /\ x.arg.entries = EntriesOf(t) /\ x.arg.stops = StopsOf(t) /\ x.arg.trips = {t}
  BY <1>1
<1>3. /\ x.seen.claim = claim /\ x.seen.delivery = delivery /\ x.seen.dline = dline
      /\ x.seen.stop = stop /\ x.seen.entry = entry /\ x.rows = rows
  BY <1>1 DEF Snapshot
<1>4. Begins(r, "release", arg, rows)
  BY DEF CancelTripBegin
<1>5. IsOpen(t)
  BY DEF CancelTripBegin
<1>6. \A s \in StopsOf(t) : s \in Stops /\ Loading(s)
  BY <1>5 DEF StopsOf, Loading
<1>7. \A e \in EntriesOf(t) : e \in Entries /\ entry[e] # None /\ Loading(entry[e].stop)
  BY <1>6 DEF EntriesOf, EntriesAt
<1> HIDE DEF arg, rows
<1>9. Sound(x)
  BY <1>2, <1>3, <1>5, <1>6, <1>7 DEF Sound, SoundOrder, SoundTrip, SoundClose, Steps, Solo
<1> QED
  BY <1>1, <1>4, <1>9, BeginsKeeps DEF Solo, Steps

LEMMA DepartBeginSafe ==
    ASSUME OneAtATime, DeliveryInv, NEW r \in Requests, NEW t \in Trips, DepartBegin(r, t)
    PROVE  DeliveryInv'
<1> DEFINE arg == [trip |-> t, aboard |-> EntriesOf(t), orders |-> OrdersOf(EntriesOf(t))]
           rows == {}
<1>1. PICK x : x = [op |-> "depart", arg |-> arg, rows |-> rows, seen |-> Snapshot]
  OBVIOUS
<1>2. x.op = "depart" /\ x.arg.trip = t /\ x.arg.aboard = EntriesOf(t) /\ x.arg.orders = OrdersOf(EntriesOf(t))
  BY <1>1
<1>3. /\ x.seen.claim = claim /\ x.seen.delivery = delivery /\ x.seen.dline = dline
      /\ x.seen.stop = stop /\ x.seen.entry = entry /\ x.rows = rows
  BY <1>1 DEF Snapshot
<1>4. Begins(r, "depart", arg, rows)
  BY DEF DepartBegin
<1>5. IsOpen(t) /\ \A d \in OrdersOf(EntriesOf(t)) : Allows(d, "IN_TRANSIT")
  BY DEF DepartBegin
<1> HIDE DEF arg, rows
<1>9. Sound(x)
  BY <1>2, <1>3, <1>5 DEF Sound, SoundOrder, SoundTrip, SoundClose, Steps, Solo
<1> QED
  BY <1>1, <1>4, <1>9, BeginsKeeps DEF Solo, Steps

LEMMA CloseBeginSafe ==
    ASSUME OneAtATime, DeliveryInv, NEW r \in Requests, NEW s \in Stops, CloseBegin(r, s)
    PROVE  DeliveryInv'
<1> DEFINE arg == [stop |-> s, aboard |-> EntriesAt(s)]
           rows == CloseRows(s)
<1>1. PICK x : x = [op |-> "close", arg |-> arg, rows |-> rows, seen |-> Snapshot]
  OBVIOUS
<1>2. x.op = "close" /\ x.arg.stop = s /\ x.arg.aboard = EntriesAt(s)
  BY <1>1
<1>3. /\ x.seen.claim = claim /\ x.seen.delivery = delivery /\ x.seen.dline = dline
      /\ x.seen.stop = stop /\ x.seen.entry = entry /\ x.rows = rows
  BY <1>1 DEF Snapshot
<1>4. Begins(r, "close", arg, rows)
  BY DEF CloseBegin
<1>5. OnTheRoad(s)
  BY DEF CloseBegin, OnTheRoad
<1>6. /\ TripRow(stop[s].trip) \in x.rows
      /\ \A e \in EntriesAt(s) : FacilityRow(delivery[entry[e].key[1]].facility) \in x.rows
  BY <1>3 DEF CloseRows, OrdersOf
<1> HIDE DEF arg, rows
<1>9. Sound(x)
  BY <1>2, <1>3, <1>5, <1>6 DEF Sound, SoundOrder, SoundTrip, SoundClose, Steps, Solo
<1> QED
  BY <1>1, <1>4, <1>9, BeginsKeeps DEF Solo, Steps

-----------------------------------------------------------------------------
(***************************************************************************)
(* Steps of delivery orders.                                               *)
(***************************************************************************)
\* What a step that leaves trips, stops and their lines alone must keep.
LEMMA OrdersRooted ==
    ASSUME Rooted, UNCHANGED <<trip, stop, entry>>,
           \A d \in Deliveries : delivery'[d] = None => \A l \in SaleLines : dline'[d][l] = None,
           \A d \in Deliveries, l \in SaleLines :
              delivery'[d] # None /\ delivery'[d].status \in Early /\ dline'[d][l] # None =>
                  dline'[d][l].delivered = 0,
           \A e \in Entries : entry[e] # None =>
              LET k == entry[e].key
              IN  /\ delivery'[k[1]] # None /\ dline'[k[1]][k[2]] # None
                  /\ delivery'[k[1]].type = "DELIVERY" /\ delivery'[k[1]].status \notin Early
    PROVE  Rooted'
<1>1. \A p : IsOpen(p)' <=> IsOpen(p)
  BY DEF IsOpen
<1> QED
  BY <1>1 DEF Rooted

\* What DeliveryInv says of the rows an itinerary line is about.
LEMMA EntryIsRooted ==
    ASSUME DeliveryInv, NEW e \in Entries, entry[e] # None
    PROVE  /\ entry[e] \in EntryRows /\ entry[e].key \in Keys
           /\ entry[e].key[1] \in Deliveries /\ entry[e].key[2] \in SaleLines
           /\ entry[e].stop \in Stops /\ stop[entry[e].stop] # None
           /\ delivery[entry[e].key[1]] # None
           /\ dline[entry[e].key[1]][entry[e].key[2]] # None
           /\ delivery[entry[e].key[1]].type = "DELIVERY"
           /\ delivery[entry[e].key[1]].status \notin Early
<1>1. entry[e] \in EntryRows
  BY DEF DeliveryInv, Typed
<1> QED
  BY <1>1 DEF DeliveryInv, Rooted, EntryRows, Keys

LEMMA CreateCommitSafe ==
    ASSUME DeliveryInv, NEW r \in Requests, NEW d \in Deliveries, CreateCommit(r, d)
    PROVE  DeliveryInv'
<1>1. PICK t : t = txn[r]
  OBVIOUS
<1>2. /\ t.op = "create" /\ delivery[d] = None /\ Ends(r)
      /\ UNCHANGED <<sale, claim, trip, stop, entry, onHand>>
  BY <1>1 DEF CreateCommit, Runs, Fresh
<1>3. /\ t.arg.sale \in Sales /\ t.arg.type \in Fulfillments /\ t.arg.chosen \in [SaleLines -> Nat]
  BY <1>1, <1>2 DEF DeliveryInv, Sound, SoundOrder
<1>4. PICK row : row = [status |-> "DRAFT", type |-> t.arg.type,
                        facility |-> FacilityOf[t.arg.sale], serial |-> 0, parent |-> None]
  OBVIOUS
<1>5. PICK lines : lines = [l \in SaleLines |-> IF t.arg.chosen[l] > 0 THEN NewLine(t.arg.chosen[l])
                                                ELSE None]
  OBVIOUS
<1>6. delivery' = [delivery EXCEPT ![d] = row] /\ dline' = [dline EXCEPT ![d] = lines]
  BY <1>1, <1>4, <1>5 DEF CreateCommit
<1>7. row \in DeliveryRows /\ row # None /\ row.status = "DRAFT"
  BY <1>3, <1>4, NoneIsNoDeliveryRow DEF DeliveryRows, Statuses
<1>8. \A q \in Nat : NewLine(q) \in DeliveryLines /\ NewLine(q).delivered = 0
  BY DEF NewLine, DeliveryLines
<1>9. /\ lines \in [SaleLines -> DeliveryLines \cup {None}]
      /\ \A l \in SaleLines : lines[l] # None => lines[l].delivered = 0
  BY <1>3, <1>5, <1>8
<1>10. Typed /\ Rooted /\ Beside
  BY DEF DeliveryInv
<1>11. Typed'
  BY <1>2, <1>6, <1>7, <1>9, <1>10 DEF Typed
<1>12. /\ delivery'[d] = row /\ dline'[d] = lines
       /\ \A c \in Deliveries : c # d => delivery'[c] = delivery[c] /\ dline'[c] = dline[c]
  BY <1>6, <1>10 DEF Typed
<1>13. \A c \in Deliveries : delivery'[c] = None => \A l \in SaleLines : dline'[c][l] = None
  BY <1>7, <1>10, <1>12 DEF Rooted
<1>14. \A c \in Deliveries, l \in SaleLines :
          delivery'[c] # None /\ delivery'[c].status \in Early /\ dline'[c][l] # None =>
              dline'[c][l].delivered = 0
  BY <1>9, <1>10, <1>12 DEF Rooted
<1>15. Rooted'
  BY <1>2, <1>10, <1>12, <1>13, <1>14, OrdersRooted, EntryIsRooted
<1> QED
  BY <1>1, <1>2, <1>10, <1>11, <1>15, LastEnds DEF Solo

\* What EditCommit does, in terms of the table it finds.
LEMMA EditDoes ==
    ASSUME DeliveryInv, NEW r \in Requests, EditCommit(r)
    PROVE  \E d \in Deliveries, l \in SaleLines, m \in DeliveryLines \cup {None} :
              /\ txn[r].op = "edit" /\ Ends(r) /\ Editable(d)
              /\ UNCHANGED <<sale, claim, delivery, trip, stop, entry, onHand>>
              /\ dline' \in [Deliveries -> [SaleLines -> DeliveryLines \cup {None}]]
              /\ dline'[d][l] = m
              /\ \A c \in Deliveries, k \in SaleLines :
                    c # d \/ k # l => dline'[c][k] = dline[c][k]
              /\ m # None =>
                    /\ FitsSale(l, IF dline[d][l] = None THEN Covered(l)
                                   ELSE Covered(l) - dline[d][l].quantity, m.quantity)
                    /\ m.committed = IF dline[d][l] = None THEN 0 ELSE dline[d][l].committed
                    /\ m.delivered = IF dline[d][l] = None THEN 0 ELSE dline[d][l].delivered
                    /\ m.returned = IF dline[d][l] = None THEN 0 ELSE dline[d][l].returned
<1>1. PICK t : t = txn[r]
  BY Zenon
<1>2. /\ t.op = "edit" /\ Ends(r) /\ UNCHANGED <<sale, claim, delivery, trip, stop, entry, onHand>>
  BY <1>1 DEF EditCommit, Runs
<1>3. Sound(t)
  BY <1>1 DEF DeliveryInv
<1>4. PICK d, l, row : d = t.arg.d /\ l = t.arg.line /\ row = t.arg.row
  OBVIOUS
<1>5. /\ d \in Deliveries /\ l \in SaleLines /\ Editable(d)
      /\ \/ row = None
         \/ /\ row \in DeliveryLines
            /\ dline[d][l] = None => row = NewLine(row.quantity)
            /\ FitsSale(l, IF dline[d][l] = None THEN Covered(l)
                           ELSE Covered(l) - dline[d][l].quantity, row.quantity)
  BY <1>2, <1>3, <1>4 DEF Sound, SoundOrder
<1>6. t.seen.dline = dline
  BY <1>2, <1>3 DEF Sound, SoundTrip, Solo
<1>7. PICK old : old = dline[d][l]
  OBVIOUS
<1>8. Typed /\ old \in DeliveryLines \cup {None}
  BY <1>5, <1>7 DEF DeliveryInv, Typed
<1>9. PICK e : e = [old EXCEPT !.quantity = row.quantity]
  OBVIOUS
<1>10. PICK m : m = IF old # None /\ row # None THEN e ELSE row
  OBVIOUS
<1>11. old # None /\ row # None =>
          /\ e \in DeliveryLines /\ e.quantity = row.quantity /\ e.committed = old.committed
          /\ e.delivered = old.delivered /\ e.returned = old.returned
  BY <1>5, <1>8, <1>9 DEF DeliveryLines
<1>12. old = None /\ row # None =>
          row \in DeliveryLines /\ row.committed = 0 /\ row.delivered = 0 /\ row.returned = 0
  BY <1>5, <1>7 DEF NewLine
<1>13. m \in DeliveryLines \cup {None}
  BY <1>5, <1>10, <1>11
<1>14. m # None =>
          /\ FitsSale(l, IF dline[d][l] = None THEN Covered(l)
                         ELSE Covered(l) - dline[d][l].quantity, m.quantity)
          /\ m.committed = IF dline[d][l] = None THEN 0 ELSE dline[d][l].committed
          /\ m.delivered = IF dline[d][l] = None THEN 0 ELSE dline[d][l].delivered
          /\ m.returned = IF dline[d][l] = None THEN 0 ELSE dline[d][l].returned
  BY <1>5, <1>7, <1>10, <1>11, <1>12
<1>15. \A a, b : Flushed(a, a, b) = b
  BY Zenon DEF Flushed
<1>16. dline' = [dline EXCEPT ![d][l] = m]
  BY <1>1, <1>4, <1>6, <1>7, <1>9, <1>10, <1>15, Zenon DEF EditCommit
<1>17. /\ dline'[d][l] = m
       /\ dline' \in [Deliveries -> [SaleLines -> DeliveryLines \cup {None}]]
       /\ \A c \in Deliveries, k \in SaleLines : c # d \/ k # l => dline'[c][k] = dline[c][k]
  BY <1>5, <1>8, <1>13, <1>16 DEF Typed
<1> QED
  BY <1>1, <1>2, <1>5, <1>13, <1>14, <1>17

LEMMA EditCommitSafe ==
    ASSUME DeliveryInv, NEW r \in Requests, EditCommit(r)
    PROVE  DeliveryInv'
<1>1. PICK d \in Deliveries, l \in SaleLines, m \in DeliveryLines \cup {None} :
         /\ txn[r].op = "edit" /\ Ends(r) /\ Editable(d)
         /\ UNCHANGED <<sale, claim, delivery, trip, stop, entry, onHand>>
         /\ dline' \in [Deliveries -> [SaleLines -> DeliveryLines \cup {None}]]
         /\ dline'[d][l] = m
         /\ \A c \in Deliveries, k \in SaleLines : c # d \/ k # l => dline'[c][k] = dline[c][k]
         /\ m # None => m.delivered = IF dline[d][l] = None THEN 0 ELSE dline[d][l].delivered
  BY EditDoes
<1>2. Typed /\ Rooted /\ Beside
  BY DEF DeliveryInv
<1>3. Typed'
  BY <1>1, <1>2 DEF Typed
<1>4. delivery[d] # None /\ delivery[d].status \in Early
  BY <1>1 DEF Editable, Early
<1>5. \A c \in Deliveries : delivery'[c] = None => \A k \in SaleLines : dline'[c][k] = None
  BY <1>1, <1>2, <1>4 DEF Rooted
<1>6. \A c \in Deliveries, k \in SaleLines :
          delivery'[c] # None /\ delivery'[c].status \in Early /\ dline'[c][k] # None =>
              dline'[c][k].delivered = 0
  BY <1>1, <1>2, <1>4 DEF Rooted
<1>7. Rooted'
  <2>1. \A e \in Entries : entry[e] # None =>
          LET k == entry[e].key
          IN  /\ delivery'[k[1]] # None /\ dline'[k[1]][k[2]] # None
              /\ delivery'[k[1]].type = "DELIVERY" /\ delivery'[k[1]].status \notin Early
    BY <1>1, <1>4, EntryIsRooted
  <2> QED
    BY <1>1, <1>2, <1>5, <1>6, <2>1, OrdersRooted
<1> QED
  BY <1>1, <1>2, <1>3, <1>7, LastEnds DEF Solo

\* MAX(serial) + 1 is a folio.
LEMMA FolioIsNat ==
    ASSUME NEW copies \in [Deliveries -> DeliveryRows \cup {None}], NEW f
    PROVE  Max({copies[c].serial : c \in {c \in Deliveries : copies[c] # None
                                                         /\ copies[c].facility = f}}
                  \cup {0}) + 1 \in Nat
<1> DEFINE D == {c \in Deliveries : copies[c] # None /\ copies[c].facility = f}
           S == {copies[c].serial : c \in D}
<1>1. IsFiniteSet(D)
  BY DeliveryConstants, FS_Subset
<1>2. S \in SUBSET Nat
  BY DEF DeliveryRows
<1>3. [c \in D |-> copies[c].serial] \in Surjection(D, S)
  BY DEF Surjection
<1>4. IsFiniteSet(S)
  BY <1>1, <1>3, FS_Surjection
<1> HIDE DEF S
<1>5. IsFiniteSet(S \cup {0})
  BY <1>4, FS_AddElement
<1>6. Max(S \cup {0}) \in S \cup {0}
  BY <1>2, <1>5, MaxIsGreatest
<1>7. PICK m : m = Max(S \cup {0})
  OBVIOUS
<1>8. m \in Nat
  <2>1. m \in S \cup {0}
    BY <1>6, <1>7
  <2> QED
    BY <1>2, <2>1
<1>9. Max(S \cup {0}) + 1 \in Nat
  BY <1>7, <1>8
<1> QED
  BY <1>9 DEF S

\* What confirm does.
LEMMA ConfirmDoes ==
    ASSUME DeliveryInv, NEW r \in Requests, ConfirmCommit(r)
    PROVE  \E d \in Deliveries, row \in DeliveryRows :
              /\ txn[r].op = "confirm" /\ Ends(r) /\ Editable(d)
              /\ UNCHANGED <<sale, claim, dline, trip, stop, entry, onHand>>
              /\ delivery' \in [Deliveries -> DeliveryRows \cup {None}]
              /\ delivery'[d] = row /\ \A c \in Deliveries : c # d => delivery'[c] = delivery[c]
              /\ row.type = delivery[d].type /\ row.facility = delivery[d].facility
              /\ row.parent = delivery[d].parent
              /\ AssertLegal(delivery[d].status, row.status, row.type)
              /\ row.status \in Early \cup {"IN_PREPARATION"}
<1>1. PICK t : t = txn[r]
  OBVIOUS
<1>2. /\ t.op = "confirm" /\ Ends(r)
      /\ UNCHANGED <<sale, claim, dline, trip, stop, entry, onHand>>
  BY <1>1 DEF ConfirmCommit, Runs
<1>3. Sound(t)
  BY <1>1 DEF DeliveryInv
<1>4. PICK d : d = t.arg.d
  OBVIOUS
<1>5. d \in Deliveries /\ Editable(d) /\ t.seen.delivery = delivery
  BY <1>2, <1>3, <1>4 DEF Sound, SoundOrder, SoundTrip, Solo
<1>6. PICK old : old = delivery[d]
  OBVIOUS
<1>7. Typed /\ old \in DeliveryRows /\ old.status = "DRAFT"
  BY <1>5, <1>6 DEF DeliveryInv, Typed, Editable
<1>8. PICK n : n = Max({delivery[c].serial : c \in {c \in Deliveries : delivery[c] # None
                                                          /\ delivery[c].facility = old.facility}}
                          \cup {0}) + 1
  OBVIOUS
<1>9. n \in Nat
  BY <1>7, <1>8, FolioIsNat DEF Typed
<1>10. PICK to : to = IF Approval THEN "PENDING_APPROVAL" ELSE BranchTarget(old.type)
  OBVIOUS
<1>11. /\ to \in Statuses /\ to \in Early \cup {"IN_PREPARATION"}
       /\ AssertLegal("DRAFT", to, old.type)
  <2>1. old.type \in Fulfillments
    BY <1>7 DEF DeliveryRows
  <2> QED
    BY <1>10, <2>1, LegalMoves DEF BranchTarget, Statuses, Early, AssertLegal, TERMINAL,
                                   TYPE_RESTRICTED, Fulfillments
<1>12. PICK one : one = [old EXCEPT !.serial = n]
  OBVIOUS
<1>13. /\ one \in DeliveryRows /\ one.type = old.type /\ one.facility = old.facility
       /\ one.parent = old.parent /\ one.status = old.status
  BY <1>7, <1>9, <1>12 DEF DeliveryRows
<1>14. PICK row : row = [one EXCEPT !.status = to]
  OBVIOUS
<1>15. /\ row \in DeliveryRows /\ row.type = old.type /\ row.facility = old.facility
       /\ row.parent = old.parent /\ row.status = to
  BY <1>11, <1>13, <1>14 DEF DeliveryRows
<1>16. delivery' = [delivery EXCEPT ![d].serial = n, ![d].status = to]
  BY <1>1, <1>4, <1>5, <1>6, <1>8, <1>10 DEF ConfirmCommit
<1>17. delivery'[d] = row /\ \A c \in Deliveries : c # d => delivery'[c] = delivery[c]
  BY <1>5, <1>6, <1>7, <1>12, <1>14, <1>16 DEF Typed
<1>18. delivery' \in [Deliveries -> DeliveryRows \cup {None}]
  <2>1. delivery' = [c \in Deliveries |-> delivery'[c]]
    BY <1>7, <1>16 DEF Typed
  <2>2. \A c \in Deliveries : delivery'[c] \in DeliveryRows \cup {None}
    BY <1>7, <1>15, <1>17 DEF Typed
  <2> QED
    BY <2>1, <2>2
<1> QED
  BY <1>1, <1>2, <1>5, <1>6, <1>7, <1>11, <1>15, <1>17, <1>18, Zenon

LEMMA ConfirmCommitSafe ==
    ASSUME DeliveryInv, NEW r \in Requests, ConfirmCommit(r)
    PROVE  DeliveryInv'
<1>1. PICK d \in Deliveries, row \in DeliveryRows :
         /\ txn[r].op = "confirm" /\ Ends(r) /\ Editable(d)
         /\ UNCHANGED <<sale, claim, dline, trip, stop, entry, onHand>>
         /\ delivery' \in [Deliveries -> DeliveryRows \cup {None}]
         /\ delivery'[d] = row /\ \A c \in Deliveries : c # d => delivery'[c] = delivery[c]
  BY ConfirmDoes
<1>2. Typed /\ Rooted /\ Beside
  BY DEF DeliveryInv
<1>3. Typed'
  BY <1>1, <1>2 DEF Typed
<1>4. delivery[d] # None /\ delivery[d].status \in Early /\ row # None
  BY <1>1, NoneIsNoDeliveryRow DEF Editable, Early
<1>5. \A c \in Deliveries : delivery'[c] = None => \A k \in SaleLines : dline'[c][k] = None
  BY <1>1, <1>2, <1>4 DEF Rooted
<1>6. \A c \in Deliveries, k \in SaleLines :
          delivery'[c] # None /\ delivery'[c].status \in Early /\ dline'[c][k] # None =>
              dline'[c][k].delivered = 0
  BY <1>1, <1>2, <1>4 DEF Rooted
<1>7. Rooted'
  <2>1. \A e \in Entries : entry[e] # None =>
          LET k == entry[e].key
          IN  /\ delivery'[k[1]] # None /\ dline'[k[1]][k[2]] # None
              /\ delivery'[k[1]].type = "DELIVERY" /\ delivery'[k[1]].status \notin Early
    BY <1>1, <1>4, EntryIsRooted
  <2> QED
    BY <1>1, <1>2, <1>5, <1>6, <2>1, OrdersRooted
<1> QED
  BY <1>1, <1>2, <1>3, <1>7, LastEnds DEF Solo

\* What approve, reject, mark_ready_for_pickup, requeue and cancel do.
LEMMA StepDoes ==
    ASSUME DeliveryInv, NEW r \in Requests, StepCommit(r)
    PROVE  \E d \in Deliveries, step \in Steps, row \in DeliveryRows :
              /\ txn[r].op = step /\ Ends(r) /\ AsksFor(step, d)
              /\ UNCHANGED <<sale, claim, trip, stop, entry, onHand>>
              /\ delivery' \in [Deliveries -> DeliveryRows \cup {None}]
              /\ delivery'[d] = row /\ \A c \in Deliveries : c # d => delivery'[c] = delivery[c]
              /\ row.type = delivery[d].type /\ row.facility = delivery[d].facility
              /\ row.parent = delivery[d].parent /\ row.status = Target(step, d)
              /\ AssertLegal(delivery[d].status, row.status, row.type)
              /\ dline' \in [Deliveries -> [SaleLines -> DeliveryLines \cup {None}]]
              /\ \A c \in Deliveries : c # d => dline'[c] = dline[c]
              /\ \A l \in SaleLines :
                    IF dline[d][l] = None THEN dline'[d][l] = None
                    ELSE /\ dline'[d][l] # None
                         /\ dline'[d][l].quantity = dline[d][l].quantity
                         /\ dline'[d][l].delivered = dline[d][l].delivered
                         /\ dline'[d][l].committed = IF step = "cancel" THEN 0
                                                     ELSE dline[d][l].committed
                         /\ dline'[d][l].returned = IF step = "requeue" THEN 0
                                                    ELSE dline[d][l].returned
<1>1. PICK t : t = txn[r]
  OBVIOUS
<1>2. /\ t.op \in Steps /\ Ends(r) /\ UNCHANGED <<sale, claim, trip, stop, entry, onHand>>
  BY <1>1 DEF StepCommit
<1>3. Sound(t)
  BY <1>1 DEF DeliveryInv
<1>4. PICK d, step : d = t.arg.d /\ step = t.op
  OBVIOUS
<1>5. /\ d \in Deliveries /\ AsksFor(step, d) /\ t.arg.to = Target(step, d)
      /\ t.seen.dline = dline
  <2>1. t.op \in Solo \ {"whole"}
    BY <1>2 DEF Solo, Steps
  <2> QED
    BY <1>2, <1>3, <1>4, <2>1 DEF Sound, SoundOrder, SoundTrip
<1>6. PICK old, to : old = delivery[d] /\ to = Target(step, d)
  OBVIOUS
<1>7. Typed /\ old \in DeliveryRows /\ AssertLegal(old.status, to, old.type)
  BY <1>5, <1>6 DEF DeliveryInv, Typed, AsksFor, Allows
<1>8. to \in Statuses
  BY <1>7, LegalOnwards DEF DeliveryRows
<1>9. PICK row : row = [old EXCEPT !.status = to]
  OBVIOUS
<1>10. /\ row \in DeliveryRows /\ row.type = old.type /\ row.facility = old.facility
       /\ row.parent = old.parent /\ row.status = to
  BY <1>7, <1>8, <1>9 DEF DeliveryRows
<1>11. delivery' = [delivery EXCEPT ![d] = row]
  BY <1>1, <1>4, <1>5, <1>6, <1>9 DEF StepCommit, Becomes, WritesHeader
<1>12. /\ delivery' \in [Deliveries -> DeliveryRows \cup {None}]
       /\ delivery'[d] = row /\ \A c \in Deliveries : c # d => delivery'[c] = delivery[c]
  BY <1>5, <1>7, <1>10, <1>11 DEF Typed
<1>13. PICK lines : lines = SettledLines(r)
  OBVIOUS
<1>14. dline' = [dline EXCEPT ![d] = lines]
  BY <1>1, <1>4, <1>13, Zenon DEF StepCommit
<1>15. lines = [l \in SaleLines |-> lines[l]]
  BY <1>13 DEF SettledLines
<1>16. \A l \in SaleLines :
          IF dline[d][l] = None THEN lines[l] = None
          ELSE /\ lines[l] \in DeliveryLines
               /\ lines[l].quantity = dline[d][l].quantity
               /\ lines[l].delivered = dline[d][l].delivered
               /\ lines[l].committed = IF step = "cancel" THEN 0 ELSE dline[d][l].committed
               /\ lines[l].returned = IF step = "requeue" THEN 0 ELSE dline[d][l].returned
  <2>1. SUFFICES ASSUME NEW l \in SaleLines
                 PROVE  IF dline[d][l] = None THEN lines[l] = None
                        ELSE /\ lines[l] \in DeliveryLines
                             /\ lines[l].quantity = dline[d][l].quantity
                             /\ lines[l].delivered = dline[d][l].delivered
                             /\ lines[l].committed = IF step = "cancel" THEN 0
                                                     ELSE dline[d][l].committed
                             /\ lines[l].returned = IF step = "requeue" THEN 0
                                                    ELSE dline[d][l].returned
    OBVIOUS
  <2>2. PICK m : m = dline[d][l]
    OBVIOUS
  <2>3. m \in DeliveryLines \cup {None}
    BY <1>5, <1>7, <2>1, <2>2 DEF Typed
  <2>4. PICK back, free : /\ back = [m EXCEPT !.returned = 0]
                          /\ free = [m EXCEPT !.committed = 0]
    OBVIOUS
  <2>5. lines[l] = IF m = None THEN m
                   ELSE IF step = "requeue" THEN back
                   ELSE IF step = "cancel" THEN free ELSE m
    <3>1. Flushed(m.returned, m.returned, 0) = 0 /\ Flushed(m.committed, m.committed, 0) = 0
      BY DEF Flushed
    <3>2. CASE m = None
      BY <1>1, <1>4, <1>5, <1>13, <2>1, <2>2, <3>2, Zenon DEF SettledLines
    <3>3. CASE m # None /\ step = "requeue"
      BY <1>1, <1>4, <1>5, <1>13, <2>1, <2>2, <2>4, <3>1, <3>3, Zenon DEF SettledLines
    <3>4. CASE m # None /\ step = "cancel"
      BY <1>1, <1>4, <1>5, <1>13, <2>1, <2>2, <2>4, <3>1, <3>4, Zenon DEF SettledLines
    <3>5. CASE m # None /\ step # "requeue" /\ step # "cancel"
      BY <1>1, <1>4, <1>5, <1>13, <2>1, <2>2, <2>4, <3>1, <3>5 DEF SettledLines
    <3> QED
      BY <3>2, <3>3, <3>4, <3>5
  <2>6. m # None =>
          /\ back \in DeliveryLines /\ back.quantity = m.quantity /\ back.delivered = m.delivered
          /\ back.committed = m.committed /\ back.returned = 0
    BY <2>3, <2>4 DEF DeliveryLines
  <2>7. m # None =>
          /\ free \in DeliveryLines /\ free.quantity = m.quantity /\ free.delivered = m.delivered
          /\ free.committed = 0 /\ free.returned = m.returned
    BY <2>3, <2>4 DEF DeliveryLines
  <2> QED
    BY <2>2, <2>3, <2>5, <2>6, <2>7
<1>17. /\ dline' \in [Deliveries -> [SaleLines -> DeliveryLines \cup {None}]]
       /\ dline'[d] = lines /\ \A c \in Deliveries : c # d => dline'[c] = dline[c]
  <2>1. lines \in [SaleLines -> DeliveryLines \cup {None}]
    BY <1>15, <1>16
  <2> QED
    BY <1>5, <1>7, <1>14, <2>1 DEF Typed
<1>18. \A l \in SaleLines :
          IF dline[d][l] = None THEN dline'[d][l] = None
          ELSE /\ dline'[d][l] # None
               /\ dline'[d][l].quantity = dline[d][l].quantity
               /\ dline'[d][l].delivered = dline[d][l].delivered
               /\ dline'[d][l].committed = IF step = "cancel" THEN 0 ELSE dline[d][l].committed
               /\ dline'[d][l].returned = IF step = "requeue" THEN 0 ELSE dline[d][l].returned
  BY <1>16, <1>17, NoneIsNoDeliveryRow, Zenon
<1>19. /\ step \in Steps
       /\ txn[r].op = step /\ Ends(r) /\ AsksFor(step, d)
       /\ UNCHANGED <<sale, claim, trip, stop, entry, onHand>>
       /\ delivery' \in [Deliveries -> DeliveryRows \cup {None}]
       /\ delivery'[d] = row /\ \A c \in Deliveries : c # d => delivery'[c] = delivery[c]
       /\ row.type = delivery[d].type /\ row.facility = delivery[d].facility
       /\ row.parent = delivery[d].parent /\ row.status = Target(step, d)
       /\ AssertLegal(delivery[d].status, row.status, row.type)
       /\ dline' \in [Deliveries -> [SaleLines -> DeliveryLines \cup {None}]]
       /\ \A c \in Deliveries : c # d => dline'[c] = dline[c]
       /\ \A l \in SaleLines :
             IF dline[d][l] = None THEN dline'[d][l] = None
             ELSE /\ dline'[d][l] # None
                  /\ dline'[d][l].quantity = dline[d][l].quantity
                  /\ dline'[d][l].delivered = dline[d][l].delivered
                  /\ dline'[d][l].committed = IF step = "cancel" THEN 0
                                              ELSE dline[d][l].committed
                  /\ dline'[d][l].returned = IF step = "requeue" THEN 0
                                             ELSE dline[d][l].returned
  BY <1>1, <1>2, <1>4, <1>5, <1>6, <1>7, <1>10, <1>12, <1>17, <1>18, Zenon
<1> QED
  BY <1>5, <1>10, <1>19

LEMMA StepCommitSafe ==
    ASSUME DeliveryInv, NEW r \in Requests, StepCommit(r)
    PROVE  DeliveryInv'
<1>1. PICK d \in Deliveries, step \in Steps, row \in DeliveryRows :
         /\ txn[r].op = step /\ Ends(r) /\ AsksFor(step, d)
         /\ UNCHANGED <<sale, claim, trip, stop, entry, onHand>>
         /\ delivery' \in [Deliveries -> DeliveryRows \cup {None}]
         /\ delivery'[d] = row /\ \A c \in Deliveries : c # d => delivery'[c] = delivery[c]
         /\ row.type = delivery[d].type
         /\ AssertLegal(delivery[d].status, row.status, row.type)
         /\ dline' \in [Deliveries -> [SaleLines -> DeliveryLines \cup {None}]]
         /\ \A c \in Deliveries : c # d => dline'[c] = dline[c]
         /\ \A l \in SaleLines :
               IF dline[d][l] = None THEN dline'[d][l] = None
               ELSE dline'[d][l] # None /\ dline'[d][l].delivered = dline[d][l].delivered
  BY StepDoes
<1>2. Typed /\ Rooted /\ Beside
  BY DEF DeliveryInv
<1>3. Typed'
  BY <1>1, <1>2 DEF Typed
<1>4. delivery[d] # None /\ row # None /\ delivery[d].status \in Statuses
  BY <1>1, <1>2, NoneIsNoDeliveryRow DEF AsksFor, Typed, DeliveryRows
<1>5. delivery[d].status \notin Early => row.status \notin Early
  BY <1>1, <1>4, LegalOnwards
<1>6. \A c \in Deliveries : delivery'[c] = None => \A k \in SaleLines : dline'[c][k] = None
  BY <1>1, <1>2, <1>4 DEF Rooted
<1>7. \A c \in Deliveries, k \in SaleLines :
          delivery'[c] # None /\ delivery'[c].status \in Early /\ dline'[c][k] # None =>
              dline'[c][k].delivered = 0
  BY <1>1, <1>2, <1>4, <1>5 DEF Rooted
<1>8. Rooted'
  <2>1. \A e \in Entries : entry[e] # None =>
          LET k == entry[e].key
          IN  /\ delivery'[k[1]] # None /\ dline'[k[1]][k[2]] # None
              /\ delivery'[k[1]].type = "DELIVERY" /\ delivery'[k[1]].status \notin Early
    BY <1>1, <1>4, <1>5, EntryIsRooted, ZenonT(40)
  <2> QED
    BY <1>1, <1>2, <1>6, <1>7, <2>1, OrdersRooted
<1>9. txn[r].op \in Solo
  BY <1>1 DEF Solo
<1> QED
  BY <1>1, <1>2, <1>3, <1>8, <1>9, LastEnds

\* What confirm_pickup does to order d.
PickupEffect(d) ==
    /\ Allows(d, "PICKED_UP") /\ UNCHANGED <<sale, trip, stop, entry>>
    /\ delivery' \in [Deliveries -> DeliveryRows \cup {None}] /\ delivery'[d] # None
    /\ \A c \in Deliveries : c # d => delivery'[c] = delivery[c] /\ dline'[c] = dline[c]
    /\ delivery'[d].status = "PICKED_UP" /\ delivery'[d].type = delivery[d].type
    /\ delivery'[d].parent = delivery[d].parent
    /\ dline' \in [Deliveries -> [SaleLines -> DeliveryLines \cup {None}]]
    /\ \A l \in SaleLines :
          IF dline[d][l] = None THEN dline'[d][l] = None
          ELSE /\ dline'[d][l] # None /\ dline'[d][l].quantity = dline[d][l].quantity
               /\ dline'[d][l].delivered = dline[d][l].quantity
               /\ dline'[d][l].committed = 0 /\ dline'[d][l].returned = dline[d][l].returned
    /\ claim' = [l \in SaleLines |->
                    IF l \in LinesOf(d) \cap Stocked
                    THEN Released(claim[l], dline[d][l].quantity) ELSE claim[l]]
    /\ onHand' = [w \in Warehouses |-> onHand[w] -
                    SumFunctionOnSet([l \in LinesOf(d) |-> dline[d][l].quantity],
                                     {l \in LinesOf(d) \cap Stocked : WarehouseOf[l] = w})]

LEMMA PickupDoes ==
    ASSUME DeliveryInv, NEW r \in Requests, PickupCommit(r)
    PROVE  \E d \in Deliveries : /\ txn[r].op = "pickup" /\ Refreshes(r, SalesOf(LinesOf(d)))
                                 /\ PickupEffect(d)
<1>1. PICK t : t = txn[r]
  OBVIOUS
<1>2. t.op = "pickup" /\ UNCHANGED <<sale, trip, stop, entry>>
  BY <1>1 DEF PickupCommit, Runs
<1>3. Sound(t)
  BY <1>1 DEF DeliveryInv
<1>4. PICK d : d = t.arg.d
  OBVIOUS
<1>5. /\ d \in Deliveries /\ Allows(d, "PICKED_UP")
      /\ t.seen.dline = dline /\ t.seen.claim = claim
  BY <1>2, <1>3, <1>4 DEF Sound, SoundOrder, SoundTrip, Solo
<1>6. PICK old : old = delivery[d]
  OBVIOUS
<1>7. Typed /\ old \in DeliveryRows
  BY <1>5, <1>6 DEF DeliveryInv, Typed, Allows
<1>8. PICK row : row = [old EXCEPT !.status = "PICKED_UP"]
  OBVIOUS
<1>9. /\ row \in DeliveryRows /\ row.type = old.type /\ row.status = "PICKED_UP"
      /\ row.parent = old.parent /\ row # None
  BY <1>7, <1>8, NoneIsNoDeliveryRow DEF DeliveryRows, Statuses
<1>10. delivery' = [delivery EXCEPT ![d] = row]
  BY <1>1, <1>4, <1>6, <1>8 DEF PickupCommit, Becomes, WritesHeader
<1>11. /\ delivery' \in [Deliveries -> DeliveryRows \cup {None}]
       /\ delivery'[d] = row /\ \A c \in Deliveries : c # d => delivery'[c] = delivery[c]
  BY <1>5, <1>7, <1>9, <1>10 DEF Typed
<1>12. PICK lines : lines = {l \in SaleLines : t.seen.dline[d][l] # None /\ dline[d][l] # None}
  OBVIOUS
<1>13. lines = LinesOf(d)
  BY <1>5, <1>12 DEF LinesOf
<1>14. PICK now : now = [l \in SaleLines |->
               IF l \in lines
               THEN [dline[d][l] EXCEPT
                        !.delivered = Flushed(dline[d][l].delivered, t.seen.dline[d][l].delivered,
                                              t.seen.dline[d][l].quantity),
                        !.committed = Flushed(dline[d][l].committed, t.seen.dline[d][l].committed, 0)]
               ELSE dline[d][l]]
  OBVIOUS
<1>15. dline' = [dline EXCEPT ![d] = now]
  BY <1>1, <1>4, <1>12, <1>14 DEF PickupCommit
<1>16. \A l \in SaleLines :
          IF dline[d][l] = None THEN now[l] = None
          ELSE /\ now[l] \in DeliveryLines /\ now[l].quantity = dline[d][l].quantity
               /\ now[l].delivered = dline[d][l].quantity
               /\ now[l].committed = 0 /\ now[l].returned = dline[d][l].returned
  <2>1. SUFFICES ASSUME NEW l \in SaleLines
                 PROVE  IF dline[d][l] = None THEN now[l] = None
                        ELSE /\ now[l] \in DeliveryLines
                             /\ now[l].quantity = dline[d][l].quantity
                             /\ now[l].delivered = dline[d][l].quantity
                             /\ now[l].committed = 0 /\ now[l].returned = dline[d][l].returned
    OBVIOUS
  <2>2. PICK m : m = dline[d][l]
    OBVIOUS
  <2>3. m \in DeliveryLines \cup {None}
    BY <1>5, <1>7, <2>1, <2>2 DEF Typed
  <2>4. \A a, b : Flushed(a, a, b) = b
    BY DEF Flushed
  <2>5. PICK n : n = [m EXCEPT !.delivered = m.quantity]
    OBVIOUS
  <2>6. PICK n2 : n2 = [n EXCEPT !.committed = 0]
    OBVIOUS
  <2>7. m # None =>
          /\ n \in DeliveryLines /\ n.quantity = m.quantity /\ n.delivered = m.quantity
          /\ n.returned = m.returned /\ n.committed = m.committed
    BY <2>3, <2>5 DEF DeliveryLines
  <2>8. m # None =>
          /\ n2 \in DeliveryLines /\ n2.quantity = m.quantity /\ n2.delivered = m.quantity
          /\ n2.returned = m.returned /\ n2.committed = 0
    BY <2>6, <2>7 DEF DeliveryLines
  <2>9. m # None => now[l] = [m EXCEPT !.delivered = m.quantity, !.committed = 0]
    BY <1>5, <1>12, <1>14, <2>1, <2>2, <2>4, Zenon
  <2>10. m # None => now[l] = n2
    BY <2>3, <2>5, <2>6, <2>9 DEF DeliveryLines
  <2>11. m = None => now[l] = None
    BY <1>12, <1>14, <2>1, <2>2
  <2> QED
    BY <2>2, <2>8, <2>10, <2>11
<1>17. now \in [SaleLines -> DeliveryLines \cup {None}]
  <2>1. now = [l \in SaleLines |-> now[l]]
    BY <1>14
  <2> QED
    BY <1>16, <2>1
<1>18. /\ dline' \in [Deliveries -> [SaleLines -> DeliveryLines \cup {None}]]
       /\ dline'[d] = now /\ \A c \in Deliveries : c # d => dline'[c] = dline[c]
  BY <1>5, <1>7, <1>15, <1>17, Zenon DEF Typed
<1>19. claim' = [l \in SaleLines |->
                    IF l \in LinesOf(d) \cap Stocked
                    THEN Released(claim[l], dline[d][l].quantity) ELSE claim[l]]
  BY <1>1, <1>4, <1>5, <1>12, <1>13, Zenon DEF PickupCommit
<1>20. onHand' = [w \in Warehouses |-> onHand[w] -
                    SumFunctionOnSet([l \in LinesOf(d) |-> dline[d][l].quantity],
                                     {l \in LinesOf(d) \cap Stocked : WarehouseOf[l] = w})]
  BY <1>1, <1>4, <1>5, <1>12, <1>13, Zenon DEF PickupCommit
<1>21. Refreshes(r, SalesOf(LinesOf(d)))
  BY <1>1, <1>4, <1>5, <1>12, <1>13 DEF PickupCommit
<1>22. \A l \in SaleLines :
          IF dline[d][l] = None THEN dline'[d][l] = None
          ELSE /\ dline'[d][l] # None /\ dline'[d][l].quantity = dline[d][l].quantity
               /\ dline'[d][l].delivered = dline[d][l].quantity
               /\ dline'[d][l].committed = 0 /\ dline'[d][l].returned = dline[d][l].returned
  BY <1>16, <1>18, NoneIsNoDeliveryRow
<1>23. PickupEffect(d)
  BY <1>2, <1>5, <1>6, <1>9, <1>11, <1>18, <1>19, <1>20, <1>22 DEF PickupEffect
<1> QED
  BY <1>1, <1>2, <1>5, <1>21, <1>23

\* The stock a set of lines moves is a number.
LEMMA LinesAreFinite ==
    ASSUME NEW S \in SUBSET SaleLines
    PROVE  IsFiniteSet(S)
BY DeliveryConstants, FS_Subset

LEMMA PickupCommitSafe ==
    ASSUME DeliveryInv, NEW r \in Requests, PickupCommit(r)
    PROVE  DeliveryInv'
<1>1. PICK d \in Deliveries : /\ txn[r].op = "pickup" /\ Refreshes(r, SalesOf(LinesOf(d)))
                              /\ PickupEffect(d)
  BY PickupDoes
<1>2. Typed /\ Rooted /\ Beside
  BY DEF DeliveryInv
<1>3. claim' \in [SaleLines -> Int]
  <2>1. \A l \in LinesOf(d) : dline[d][l] \in DeliveryLines
    BY <1>2 DEF Typed, LinesOf
  <2>2. \A l \in LinesOf(d) : Released(claim[l], dline[d][l].quantity) \in Int
    BY <1>2, <2>1 DEF Typed, Released, DeliveryLines, LinesOf
  <2> QED
    BY <1>1, <1>2, <2>2 DEF PickupEffect, Typed
<1>4. onHand' \in [Warehouses -> Int]
  <2> DEFINE f == [l \in LinesOf(d) |-> dline[d][l].quantity]
             at(w) == {l \in LinesOf(d) \cap Stocked : WarehouseOf[l] = w}
  <2>1. \A l \in LinesOf(d) : f[l] \in Int
    BY <1>2 DEF Typed, LinesOf, DeliveryLines
  <2>2. ASSUME NEW w \in Warehouses PROVE SumFunctionOnSet(f, at(w)) \in Int
    <3>1. IsFiniteSet(at(w)) /\ \A l \in at(w) : f[l] \in Int
      BY <2>1, LinesAreFinite DEF LinesOf
    <3> HIDE DEF f, at
    <3> QED
      BY <3>1, SumIsInt
  <2>3. onHand' = [w \in Warehouses |-> onHand[w] - SumFunctionOnSet(f, at(w))]
    BY <1>1 DEF PickupEffect
  <2> HIDE DEF f, at
  <2> QED
    BY <1>2, <2>2, <2>3 DEF Typed
<1>5. Typed'
  BY <1>1, <1>2, <1>3, <1>4 DEF Typed, PickupEffect
<1>6. /\ delivery[d] # None /\ delivery[d].status \in Early
      /\ delivery'[d].status \notin Early
  <2>1. delivery[d] \in DeliveryRows /\ AssertLegal(delivery[d].status, "PICKED_UP", delivery[d].type)
    BY <1>1, <1>2 DEF PickupEffect, Allows, Typed
  <2>2. delivery[d].status \in Statuses
    BY <2>1 DEF DeliveryRows
  <2>3. delivery[d].status = "READY_FOR_PICKUP"
    BY <2>1, <2>2, LegalMoves DEF AssertLegal, TERMINAL, Statuses
  <2> QED
    BY <1>1, <2>3 DEF PickupEffect, Allows, Early
<1>7. \A c \in Deliveries : delivery'[c] = None => \A k \in SaleLines : dline'[c][k] = None
  BY <1>1, <1>2 DEF Rooted, PickupEffect
<1>8. \A c \in Deliveries, k \in SaleLines :
          delivery'[c] # None /\ delivery'[c].status \in Early /\ dline'[c][k] # None =>
              dline'[c][k].delivered = 0
  BY <1>1, <1>2, <1>6 DEF Rooted, PickupEffect
<1>9. Rooted'
  <2>1. \A e \in Entries : entry[e] # None =>
          LET k == entry[e].key
          IN  /\ delivery'[k[1]] # None /\ dline'[k[1]][k[2]] # None
              /\ delivery'[k[1]].type = "DELIVERY" /\ delivery'[k[1]].status \notin Early
    BY <1>1, <1>6, EntryIsRooted DEF PickupEffect
  <2> QED
    BY <1>1, <1>2, <1>7, <1>8, <2>1, OrdersRooted DEF PickupEffect
<1>10. SalesOf(LinesOf(d)) \in SUBSET Sales
  BY DeliveryConstants DEF SalesOf, LinesOf
<1> QED
  BY <1>1, <1>2, <1>5, <1>9, <1>10, LastRefreshes DEF Solo

-----------------------------------------------------------------------------
(***************************************************************************)
(* Steps of trips.                                                         *)
(***************************************************************************)
LEMMA TripCommitSafe ==
    ASSUME DeliveryInv, NEW r \in Requests, NEW p \in Trips, TripCommit(r, p)
    PROVE  DeliveryInv'
<1>1. PICK t : t = txn[r]
  OBVIOUS
<1>2. /\ t.op = "plan" /\ Ends(r) /\ trip[p] = None
      /\ UNCHANGED <<sale, claim, delivery, dline, stop, entry, onHand>>
  BY <1>1 DEF TripCommit, Runs, Fresh
<1>3. PICK row : row = [status |-> "OPEN", vehicle |-> t.arg.vehicle]
  OBVIOUS
<1>4. t.arg.vehicle \in Vehicles
  BY <1>1, <1>2 DEF DeliveryInv, Sound, SoundTrip
<1>5. row \in TripRows /\ row # None
  BY <1>3, <1>4, NoneIsNoDeliveryRow DEF TripRows
<1>6. trip' = [trip EXCEPT ![p] = row]
  BY <1>1, <1>3 DEF TripCommit
<1>7. Typed /\ Rooted /\ Beside
  BY DEF DeliveryInv
<1>8. Typed' /\ \A o \in Trips : o # p => trip'[o] = trip[o]
  BY <1>2, <1>5, <1>6, <1>7 DEF Typed
<1>9. \A s \in Stops : stop[s] # None => stop[s].trip # p /\ stop[s].trip \in Trips
  BY <1>2, <1>7 DEF Rooted, Typed, StopRows
<1>10. \A s \in Stops : stop'[s] # None =>
          /\ trip'[stop'[s].trip] # None
          /\ IsOpen(stop[s].trip)' => stop'[s].outcome = "PENDING"
  BY <1>2, <1>7, <1>8, <1>9 DEF Rooted, IsOpen
<1>11. Rooted'
  BY <1>2, <1>7, <1>10 DEF Rooted
<1> QED
  BY <1>1, <1>2, <1>7, <1>8, <1>11, LastEnds DEF Solo

LEMMA UpdateTripSafe ==
    ASSUME DeliveryInv, NEW p \in Trips, NEW v \in Vehicles, UpdateTrip(p, v)
    PROVE  DeliveryInv'
<1>1. /\ trip[p] # None /\ trip' = [trip EXCEPT ![p].vehicle = v]
      /\ UNCHANGED <<sale, claim, delivery, dline, stop, entry, onHand, txn>>
  BY DEF UpdateTrip, IsOpen
<1>2. Typed /\ Rooted /\ Beside /\ trip[p] \in TripRows
  BY <1>1 DEF DeliveryInv, Typed
<1>3. PICK row : row = [trip[p] EXCEPT !.vehicle = v]
  OBVIOUS
<1>4. row \in TripRows /\ row # None /\ row.status = trip[p].status
  BY <1>2, <1>3, NoneIsNoDeliveryRow DEF TripRows
<1>5. trip' = [trip EXCEPT ![p] = row]
  BY <1>1, <1>3
<1>6. Typed' /\ trip'[p] = row /\ \A o \in Trips : o # p => trip'[o] = trip[o]
  BY <1>1, <1>2, <1>4, <1>5 DEF Typed
<1>7. \A o \in Trips : (trip'[o] = None <=> trip[o] = None) /\ trip'[o].status = trip[o].status
  BY <1>1, <1>4, <1>6
<1>8. \A o \in Trips : IsOpen(o)' <=> IsOpen(o)
  BY <1>7 DEF IsOpen
<1>9. \A s \in Stops : stop[s] # None => stop[s].trip \in Trips
  BY <1>2 DEF Typed, StopRows
<1>10. Rooted'
  BY <1>1, <1>2, <1>7, <1>8, <1>9 DEF Rooted
<1>11. \A q \in Requests : Sound(txn[q])'
  <2>1. SUFFICES ASSUME NEW q \in Requests PROVE Sound(txn[q])'
    OBVIOUS
  <2>2. PICK y : y = txn'[q]
    OBVIOUS
  <2>3. Sound(y)
    BY <1>1, <2>2 DEF DeliveryInv
  <2>4. Sound(y)'
    BY <1>1, <1>2, <1>7, <2>3, SoundKept
  <2> QED
    BY <2>2, <2>4, SoundIs
<1>12. Beside'
  BY <1>1, <1>2 DEF Beside, Holds
<1> QED
  BY <1>6, <1>10, <1>11, <1>12 DEF DeliveryInv

LEMMA StopCommitSafe ==
    ASSUME DeliveryInv, NEW r \in Requests, NEW s \in Stops, StopCommit(r, s)
    PROVE  DeliveryInv'
<1>1. PICK t : t = txn[r]
  OBVIOUS
<1>2. /\ t.op = "stop" /\ Ends(r) /\ stop[s] = None
      /\ UNCHANGED <<sale, claim, delivery, dline, trip, entry, onHand>>
  BY <1>1 DEF StopCommit, Runs, Fresh
<1>3. PICK row : row = [trip |-> t.arg.trip, outcome |-> "PENDING"]
  OBVIOUS
<1>4. t.arg.trip \in Trips /\ IsOpen(t.arg.trip)
  BY <1>1, <1>2 DEF DeliveryInv, Sound, SoundTrip
<1>5. row \in StopRows /\ row # None /\ row.trip = t.arg.trip /\ row.outcome = "PENDING"
  BY <1>3, <1>4, NoneIsNoDeliveryRow DEF StopRows, Outcomes
<1>6. stop' = [stop EXCEPT ![s] = row]
  BY <1>1, <1>3 DEF StopCommit
<1>7. Typed /\ Rooted /\ Beside
  BY DEF DeliveryInv
<1>8. Typed' /\ stop'[s] = row /\ \A o \in Stops : o # s => stop'[o] = stop[o]
  BY <1>2, <1>5, <1>6, <1>7 DEF Typed
<1>9. \A o \in Stops : stop'[o] # None =>
          /\ trip'[stop'[o].trip] # None
          /\ IsOpen(stop[o].trip)' => stop'[o].outcome = "PENDING"
  BY <1>2, <1>4, <1>5, <1>7, <1>8 DEF Rooted, IsOpen
<1>10. \A e \in Entries : entry'[e] # None => stop'[entry'[e].stop] # None
  BY <1>2, <1>5, <1>7, <1>8, EntryIsRooted
<1>11. Rooted'
  BY <1>2, <1>7, <1>9, <1>10 DEF Rooted
<1> QED
  BY <1>1, <1>2, <1>7, <1>8, <1>11, LastEnds DEF Solo

\* What one line loaded does: entry e claims q of line k for stop s.
ClaimEffect(e, s, k, q) ==
    /\ entry[e] = None /\ Loading(s) /\ Loadable(k) /\ Places(k[1], s)
    /\ q <= OpenQuantity(dline[k[1]][k[2]])
    /\ UNCHANGED <<sale, claim, delivery, trip, stop, onHand>>
    /\ entry' = [entry EXCEPT ![e] = NewEntry(s, k, q)]
    /\ dline' \in [Deliveries -> [SaleLines -> DeliveryLines \cup {None}]]
    /\ \A d \in Deliveries, l \in SaleLines : d # k[1] \/ l # k[2] => dline'[d][l] = dline[d][l]
    /\ dline'[k[1]][k[2]] # None
    /\ dline'[k[1]][k[2]].quantity = dline[k[1]][k[2]].quantity
    /\ dline'[k[1]][k[2]].delivered = dline[k[1]][k[2]].delivered
    /\ dline'[k[1]][k[2]].returned = dline[k[1]][k[2]].returned
    /\ dline'[k[1]][k[2]].committed = dline[k[1]][k[2]].committed + q

\* A line's committed quantity is set from a copy that is still so.
LEMMA CommitsDoes ==
    ASSUME Typed, NEW k \in Keys, dline[k[1]][k[2]] # None, NEW v \in Int, NEW c,
           c = dline[k[1]][k[2]].committed, Commits(k, c, v)
    PROVE  /\ dline' \in [Deliveries -> [SaleLines -> DeliveryLines \cup {None}]]
           /\ \A d \in Deliveries, l \in SaleLines :
                 d # k[1] \/ l # k[2] => dline'[d][l] = dline[d][l]
           /\ dline'[k[1]][k[2]] # None
           /\ dline'[k[1]][k[2]].quantity = dline[k[1]][k[2]].quantity
           /\ dline'[k[1]][k[2]].delivered = dline[k[1]][k[2]].delivered
           /\ dline'[k[1]][k[2]].returned = dline[k[1]][k[2]].returned
           /\ dline'[k[1]][k[2]].committed = v
<1>1. PICK d, l, m : d = k[1] /\ l = k[2] /\ m = dline[d][l]
  OBVIOUS
<1>2. d \in Deliveries /\ l \in SaleLines /\ m \in DeliveryLines
  BY <1>1 DEF Keys, Typed
<1>3. PICK now : now = [m EXCEPT !.committed = v]
  OBVIOUS
<1>4. /\ now \in DeliveryLines /\ now # None /\ now.quantity = m.quantity
      /\ now.delivered = m.delivered /\ now.returned = m.returned /\ now.committed = v
  BY <1>2, <1>3, NoneIsNoDeliveryRow DEF DeliveryLines
<1>5. Flushed(m.committed, c, v) = v
  BY <1>1 DEF Flushed
<1>6. dline' = [dline EXCEPT ![d][l] = now]
  BY <1>1, <1>3, <1>5 DEF Commits
<1>7. /\ dline'[d][l] = now
      /\ dline' \in [Deliveries -> [SaleLines -> DeliveryLines \cup {None}]]
      /\ \A c2 \in Deliveries, l2 \in SaleLines : c2 # d \/ l2 # l => dline'[c2][l2] = dline[c2][l2]
  BY <1>2, <1>4, <1>6 DEF Typed
<1> QED
  BY <1>1, <1>4, <1>7

LEMMA OpenIsInt ==
    ASSUME NEW m \in DeliveryLines
    PROVE  OpenQuantity(m) \in Int
BY DEF OpenQuantity, DeliveryLines

LEMMA LoadDoes ==
    ASSUME DeliveryInv, NEW r \in Requests, NEW e \in Entries, LoadCommit(r, e)
    PROVE  \E s \in Stops, k \in Keys, q \in Nat \ {0} :
              txn[r].op = "load" /\ Ends(r) /\ ClaimEffect(e, s, k, q)
<1>1. PICK t : t = txn[r]
  OBVIOUS
<1>2. PICK s, k, q : s = t.arg.stop /\ k = t.arg.key /\ q = t.arg.quantity
  BY Zenon
<1>3. PICK m : m = dline[k[1]][k[2]]
  BY Zenon
<1>4. /\ t.op = "load" /\ Ends(r) /\ entry[e] = None /\ Places(k[1], s) /\ q <= OpenQuantity(m)
      /\ entry' = [entry EXCEPT ![e] = NewEntry(s, k, q)]
      /\ Commits(k, m.committed, m.committed + q)
      /\ UNCHANGED <<sale, claim, delivery, trip, stop, onHand>>
  BY <1>1, <1>2, <1>3, Zenon DEF LoadCommit, Runs, Fresh
<1>5. s \in Stops /\ Loading(s) /\ k \in Keys /\ Loadable(k) /\ q \in Nat \ {0}
  BY <1>1, <1>2, <1>4 DEF DeliveryInv, Sound, SoundTrip
<1>6. Typed /\ m # None /\ m \in DeliveryLines
  BY <1>3, <1>5 DEF DeliveryInv, Typed, Loadable, Keys
<1>7. m.committed + q \in Int
  BY <1>5, <1>6 DEF DeliveryLines
<1>8. ClaimEffect(e, s, k, q)
  BY <1>3, <1>4, <1>5, <1>6, <1>7, CommitsDoes DEF ClaimEffect
<1> QED
  BY <1>1, <1>4, <1>5, <1>8

LEMMA WholeDoes ==
    ASSUME DeliveryInv, NEW r \in Requests, NEW e \in Entries, NEW k \in Keys, WholeCommit(r, e, k)
    PROVE  \E s \in Stops, q \in Nat \ {0} :
              /\ txn[r].op = "whole" /\ s = txn[r].arg.stop /\ k \in txn[r].arg.queue
              /\ txn' = [txn EXCEPT ![r] =
                            IF txn[r].arg.queue = {k} THEN Idle
                            ELSE [txn[r] EXCEPT !.arg.queue = txn[r].arg.queue \ {k}]]
              /\ ClaimEffect(e, s, k, q)
<1>1. PICK t : t = txn[r]
  OBVIOUS
<1>2. PICK s, copy : s = t.arg.stop /\ copy = t.seen.dline[k[1]][k[2]]
  OBVIOUS
<1>3. PICK q : q = OpenQuantity(copy)
  BY Zenon
<1>4. /\ t.op = "whole" /\ k \in t.arg.queue /\ entry[e] = None /\ Places(k[1], s)
      /\ entry' = [entry EXCEPT ![e] = NewEntry(s, k, q)]
      /\ Commits(k, copy.committed, copy.committed + q)
      /\ UNCHANGED <<sale, claim, delivery, trip, stop, onHand>>
  BY <1>1, <1>2, <1>3, Zenon DEF WholeCommit, Runs, Fresh
<1>5. /\ s \in Stops /\ Loading(s) /\ Loadable(k) /\ copy = dline[k[1]][k[2]] /\ q > 0
  BY <1>1, <1>2, <1>3, <1>4, Zenon DEF DeliveryInv, Sound, SoundTrip
<1>6. Typed /\ copy # None /\ copy \in DeliveryLines
  BY <1>5 DEF DeliveryInv, Typed, Loadable, Keys
<1>7. q \in Nat \ {0} /\ copy.committed + q \in Int
  <2>1. q \in Int
    BY <1>3, <1>6, OpenIsInt
  <2> QED
    BY <1>5, <1>6, <2>1 DEF DeliveryLines
<1>8. /\ dline' \in [Deliveries -> [SaleLines -> DeliveryLines \cup {None}]]
      /\ \A d \in Deliveries, l \in SaleLines :
            d # k[1] \/ l # k[2] => dline'[d][l] = dline[d][l]
      /\ dline'[k[1]][k[2]] # None
      /\ dline'[k[1]][k[2]].quantity = dline[k[1]][k[2]].quantity
      /\ dline'[k[1]][k[2]].delivered = dline[k[1]][k[2]].delivered
      /\ dline'[k[1]][k[2]].returned = dline[k[1]][k[2]].returned
      /\ dline'[k[1]][k[2]].committed = copy.committed + q
  BY <1>4, <1>5, <1>6, <1>7, CommitsDoes
<1>9. ClaimEffect(e, s, k, q)
  <2>1. q <= OpenQuantity(dline[k[1]][k[2]])
    BY <1>3, <1>5, <1>7, SMTT(60)
  <2> QED
    BY <1>4, <1>5, <1>8, <2>1 DEF ClaimEffect
<1>10. txn' = [txn EXCEPT ![r] = IF t.arg.queue = {k} THEN Idle
                                 ELSE [t EXCEPT !.arg.queue = t.arg.queue \ {k}]]
  BY <1>1 DEF WholeCommit
<1> QED
  BY <1>1, <1>2, <1>4, <1>5, <1>7, <1>9, <1>10

\* The tables after a line is loaded.
LEMMA ClaimKeeps ==
    ASSUME DeliveryInv, NEW e \in Entries, NEW s \in Stops, NEW k \in Keys, NEW q \in Nat,
           ClaimEffect(e, s, k, q)
    PROVE  Typed' /\ Rooted'
<1>1. PICK n : n = NewEntry(s, k, q)
  OBVIOUS
<1>2. /\ n \in EntryRows /\ n # None /\ n.stop = s /\ n.key = k
  BY <1>1, NoneIsNoDeliveryRow DEF NewEntry, EntryRows
<1>3. Typed /\ Rooted
  BY DEF DeliveryInv
<1>4. entry' = [entry EXCEPT ![e] = n]
  BY <1>1 DEF ClaimEffect
<1>5. /\ entry' \in [Entries -> EntryRows \cup {None}] /\ entry'[e] = n
      /\ \A o \in Entries : o # e => entry'[o] = entry[o]
  BY <1>2, <1>3, <1>4 DEF Typed
<1>6. Typed'
  BY <1>3, <1>5 DEF Typed, ClaimEffect
<1>7. \A d \in Deliveries, l \in SaleLines : dline'[d][l] = None <=> dline[d][l] = None
  BY DEF ClaimEffect, Loadable
<1>8. \A d \in Deliveries, l \in SaleLines : dline[d][l] # None =>
          dline'[d][l].delivered = dline[d][l].delivered
  BY DEF ClaimEffect
<1>9. \A p : IsOpen(p)' <=> IsOpen(p)
  BY DEF IsOpen, ClaimEffect
<1>10. \A o \in Entries : entry'[o] # None =>
          LET j == entry'[o].key
          IN  /\ stop'[entry'[o].stop] # None
              /\ delivery'[j[1]] # None /\ dline'[j[1]][j[2]] # None
              /\ delivery'[j[1]].type = "DELIVERY" /\ delivery'[j[1]].status \notin Early
  <2>1. SUFFICES ASSUME NEW o \in Entries, entry'[o] # None
                 PROVE  LET j == entry'[o].key
                        IN  /\ stop'[entry'[o].stop] # None
                            /\ delivery'[j[1]] # None /\ dline'[j[1]][j[2]] # None
                            /\ delivery'[j[1]].type = "DELIVERY"
                            /\ delivery'[j[1]].status \notin Early
    OBVIOUS
  <2>2. CASE o = e
    BY <1>2, <1>5, <2>2, Zenon DEF ClaimEffect, Loading, Loadable, Early
  <2>3. CASE o # e
    BY <1>5, <1>7, <2>1, <2>3, EntryIsRooted DEF ClaimEffect
  <2> QED
    BY <2>2, <2>3
<1>11. Rooted'
  <2>1. UNCHANGED <<delivery, trip, stop>>
    BY DEF ClaimEffect
  <2>2. \A d \in Deliveries : delivery'[d] = None => \A l \in SaleLines : dline'[d][l] = None
    BY <1>3, <1>7, <2>1 DEF Rooted
  <2>3. \A d \in Deliveries, l \in SaleLines :
          delivery'[d] # None /\ delivery'[d].status \in Early /\ dline'[d][l] # None =>
              dline'[d][l].delivered = 0
    BY <1>3, <1>7, <1>8, <2>1 DEF Rooted
  <2>4. \A o \in Stops : stop'[o] # None =>
          /\ trip'[stop'[o].trip] # None
          /\ IsOpen(stop[o].trip)' => stop'[o].outcome = "PENDING"
    BY <1>3, <1>9, <2>1 DEF Rooted
  <2> QED
    BY <1>10, <2>2, <2>3, <2>4 DEF Rooted
<1> QED
  BY <1>6, <1>11

LEMMA LoadCommitSafe ==
    ASSUME DeliveryInv, NEW r \in Requests, NEW e \in Entries, LoadCommit(r, e)
    PROVE  DeliveryInv'
<1>1. PICK s \in Stops, k \in Keys, q \in Nat \ {0} :
         txn[r].op = "load" /\ Ends(r) /\ ClaimEffect(e, s, k, q)
  BY LoadDoes
<1>2. Typed' /\ Rooted' /\ Beside
  BY <1>1, ClaimKeeps DEF DeliveryInv
<1>3. Beside' /\ txn'[r] = Idle /\ \A p \in Requests : p # r => txn'[p] = txn[p]
  BY <1>1, <1>2, GoesOn DEF Ends
<1>4. \A p \in Requests : p # r => Sound(txn[p])'
  <2>1. SUFFICES ASSUME NEW p \in Requests, p # r PROVE Sound(txn[p])'
    OBVIOUS
  <2>2. PICK y : y = txn'[p]
    OBVIOUS
  <2>3. Sound(y) /\ y.op \in {"load", "idle"}
    BY <1>1, <1>2, <1>3, <2>1, <2>2 DEF DeliveryInv, Beside
  <2>4. \A j \in Keys : Loadable(j) => Loadable(j)'
    BY <1>1 DEF ClaimEffect, Loadable, Keys
  <2>5. \A o : Loading(o)' <=> Loading(o)
    BY <1>1 DEF ClaimEffect, Loading, IsOpen
  <2>6. Sound(y)'
    BY <2>3, <2>4, <2>5 DEF Sound, SoundOrder, SoundTrip, SoundClose, Solo, Steps
  <2> QED
    BY <2>2, <2>6, SoundIs
<1> QED
  BY <1>2, <1>3, <1>4, AllSound

LEMMA WholeCommitSafe ==
    ASSUME DeliveryInv, NEW r \in Requests, NEW e \in Entries, NEW k \in Keys, WholeCommit(r, e, k)
    PROVE  DeliveryInv'
<1>1. PICK t : t = txn[r]
  OBVIOUS
<1>2. PICK s \in Stops, q \in Nat \ {0} :
         /\ t.op = "whole" /\ s = t.arg.stop /\ k \in t.arg.queue
         /\ txn' = [txn EXCEPT ![r] = IF t.arg.queue = {k} THEN Idle
                                      ELSE [t EXCEPT !.arg.queue = t.arg.queue \ {k}]]
         /\ ClaimEffect(e, s, k, q)
  BY <1>1, WholeDoes
<1>3. Typed' /\ Rooted' /\ Beside /\ Sound(t)
  BY <1>1, <1>2, ClaimKeeps DEF DeliveryInv
<1>4. \A p \in Requests : p # r => txn[p] = Idle
  BY <1>1, <1>2, <1>3, Alone DEF Solo
<1>5. CASE t.arg.queue = {k}
  <2>1. Ends(r)
    BY <1>2, <1>5 DEF Ends
  <2> QED
    BY <1>1, <1>2, <1>3, <2>1, LastEnds DEF Solo
<1>6. CASE t.arg.queue # {k}
  <2>1. PICK rest : rest = t.arg.queue \ {k}
    OBVIOUS
  <2>2. PICK a : a = [stop |-> s, queue |-> rest]
    OBVIOUS
  <2>3. PICK u : u = [op |-> "whole", arg |-> a, rows |-> {}, seen |-> t.seen]
    OBVIOUS
  <2>4. t = [op |-> "whole", arg |-> [stop |-> t.arg.stop, queue |-> t.arg.queue],
             rows |-> {}, seen |-> t.seen]
    BY <1>2, <1>3 DEF Sound, SoundTrip
  <2>5. [t EXCEPT !.arg.queue = t.arg.queue \ {k}] = u
    BY <1>2, <2>1, <2>2, <2>3, <2>4
  <2>6. txn' = [txn EXCEPT ![r] = u]
    BY <1>2, <1>6, <2>5
  <2>7. /\ u.op = "whole" /\ u.rows = {} /\ u.seen = t.seen
        /\ u.arg.stop = s /\ u.arg.queue = rest
    BY <2>2, <2>3
  <2>8. Beside' /\ txn'[r] = u /\ \A p \in Requests : p # r => txn'[p] = txn[p]
    BY <1>1, <1>2, <1>3, <2>6, <2>7, GoesOn
  <2>9. /\ Loading(s) /\ t.arg.queue \subseteq Keys
        /\ \A j \in t.arg.queue :
              /\ Loadable(j) /\ t.seen.dline[j[1]][j[2]] = dline[j[1]][j[2]]
              /\ OpenQuantity(dline[j[1]][j[2]]) > 0
    BY <1>2, <1>3 DEF Sound, SoundTrip
  <2>10. \A j \in rest : j \in Keys /\ dline'[j[1]][j[2]] = dline[j[1]][j[2]]
    <3>1. \A j \in rest : j \in Keys /\ j # k
      BY <2>1, <2>9
    <3>2. \A j \in Keys : j # k => j[1] # k[1] \/ j[2] # k[2]
      BY SMTT(60) DEF Keys
    <3> QED
      BY <1>2, <3>1, <3>2 DEF ClaimEffect, Keys
  <2>11. Loading(s)' /\ \A j \in rest : Loadable(j)'
    BY <1>2, <2>1, <2>9, <2>10 DEF ClaimEffect, Loading, Loadable, IsOpen
  <2>12. /\ u = [op |-> "whole", arg |-> [stop |-> u.arg.stop, queue |-> u.arg.queue],
                 rows |-> {}, seen |-> u.seen]
         /\ rest \subseteq Keys
    BY <2>2, <2>3, <2>7, <2>10
  <2>13. \A j \in rest : /\ u.seen.dline[j[1]][j[2]] = dline'[j[1]][j[2]]
                         /\ OpenQuantity(dline'[j[1]][j[2]]) > 0
    BY <2>1, <2>7, <2>9, <2>10
  <2>14. Sound(u)'
    BY <2>7, <2>11, <2>12, <2>13 DEF Sound, SoundOrder, SoundTrip, SoundClose, Solo, Steps,
                                     OpenQuantity
  <2>15. \A p \in Requests : p # r => Sound(txn[p])'
    <3>1. SUFFICES ASSUME NEW p \in Requests, p # r PROVE Sound(txn[p])'
      OBVIOUS
    <3>2. txn'[p] = Idle
      BY <1>4, <2>8, <3>1
    <3> QED
      BY <3>2 DEF Sound, SoundOrder, SoundTrip, SoundClose, Idle, Solo, Steps
  <2> QED
    BY <1>3, <2>8, <2>14, <2>15, AllSound
<1> QED
  BY <1>5, <1>6

\* What adjust_commitment does to entry e.
AdjustsLine(e, q, k) ==
    /\ entry[e] # None /\ Loading(entry[e].stop)
    /\ q <= OpenQuantity(dline[k[1]][k[2]]) + entry[e].committed
    /\ UNCHANGED <<sale, claim, delivery, trip, stop, onHand>>
    /\ entry' \in [Entries -> EntryRows \cup {None}] /\ entry'[e] # None
    /\ entry'[e].stop = entry[e].stop /\ entry'[e].key = k /\ entry'[e].committed = q
    /\ entry'[e].sent = entry[e].sent
    /\ \A o \in Entries : o # e => entry'[o] = entry[o]
    /\ dline' \in [Deliveries -> [SaleLines -> DeliveryLines \cup {None}]]
    /\ \A d \in Deliveries, l \in SaleLines : d # k[1] \/ l # k[2] => dline'[d][l] = dline[d][l]
    /\ dline'[k[1]][k[2]] # None
    /\ dline'[k[1]][k[2]].quantity = dline[k[1]][k[2]].quantity
    /\ dline'[k[1]][k[2]].delivered = dline[k[1]][k[2]].delivered
    /\ dline'[k[1]][k[2]].returned = dline[k[1]][k[2]].returned
    /\ dline'[k[1]][k[2]].committed = dline[k[1]][k[2]].committed + q - entry[e].committed

AdjustEffect(e, q) == AdjustsLine(e, q, entry[e].key)

LEMMA AdjustDoes ==
    ASSUME DeliveryInv, NEW r \in Requests, AdjustCommit(r)
    PROVE  \E e \in Entries, q \in Nat \ {0} :
              txn[r].op = "adjust" /\ Ends(r) /\ AdjustEffect(e, q)
<1>1. PICK t : t = txn[r]
  OBVIOUS
<1>2. PICK e, q, copy : e = t.arg.entry /\ q = t.arg.quantity /\ copy = t.seen.entry[e]
  OBVIOUS
<1>3. PICK k, m : k = copy.key /\ m = dline[k[1]][k[2]]
  BY Zenon
<1>4. /\ t.op = "adjust" /\ Ends(r) /\ q <= OpenQuantity(m) + copy.committed
      /\ entry' = [entry EXCEPT ![e].committed = Flushed(@, copy.committed, q)]
      /\ Commits(k, m.committed, Adjusted(m, copy, q))
      /\ UNCHANGED <<sale, claim, delivery, trip, stop, onHand>>
  BY <1>1, <1>2, <1>3, Zenon DEF AdjustCommit, Runs
<1>5. /\ e \in Entries /\ entry[e] # None /\ Loading(entry[e].stop) /\ q \in Nat \ {0}
      /\ t.seen.entry = entry
  BY <1>1, <1>2, <1>4, Zenon DEF DeliveryInv, Sound, SoundTrip, Solo
<1>6. copy = entry[e] /\ copy \in EntryRows /\ k \in Keys /\ m # None
  BY <1>2, <1>3, <1>5, EntryIsRooted
<1>7. Typed /\ m \in DeliveryLines
  BY <1>3, <1>6 DEF DeliveryInv, Typed, Keys
<1>8. Adjusted(m, copy, q) = m.committed + q - copy.committed /\ Adjusted(m, copy, q) \in Int
  BY <1>5, <1>6, <1>7, SMTT(60) DEF Adjusted, DeliveryLines, EntryRows
<1>9. /\ dline' \in [Deliveries -> [SaleLines -> DeliveryLines \cup {None}]]
      /\ \A d \in Deliveries, l \in SaleLines :
            d # k[1] \/ l # k[2] => dline'[d][l] = dline[d][l]
      /\ dline'[k[1]][k[2]] # None
      /\ dline'[k[1]][k[2]].quantity = dline[k[1]][k[2]].quantity
      /\ dline'[k[1]][k[2]].delivered = dline[k[1]][k[2]].delivered
      /\ dline'[k[1]][k[2]].returned = dline[k[1]][k[2]].returned
      /\ dline'[k[1]][k[2]].committed = m.committed + q - copy.committed
  BY <1>3, <1>4, <1>6, <1>7, <1>8, CommitsDoes
<1>10. PICK n : n = [copy EXCEPT !.committed = q]
  OBVIOUS
<1>11. /\ n \in EntryRows /\ n # None /\ n.stop = copy.stop /\ n.key = copy.key
       /\ n.committed = q /\ n.sent = copy.sent
  BY <1>5, <1>6, <1>10, NoneIsNoDeliveryRow DEF EntryRows
<1>12. entry' = [entry EXCEPT ![e] = n]
  <2>1. Flushed(copy.committed, copy.committed, q) = q
    BY DEF Flushed
  <2> QED
    BY <1>4, <1>6, <1>10, <2>1
<1>13. /\ entry' \in [Entries -> EntryRows \cup {None}] /\ entry'[e] = n
       /\ \A o \in Entries : o # e => entry'[o] = entry[o]
  BY <1>5, <1>7, <1>11, <1>12 DEF Typed
<1>14. AdjustsLine(e, q, k)
  <2>1. UNCHANGED <<sale, claim, delivery, trip, stop, onHand>>
    BY <1>4
  <2>2. /\ entry' \in [Entries -> EntryRows \cup {None}] /\ entry'[e] # None
        /\ entry'[e].stop = entry[e].stop /\ entry'[e].key = k /\ entry'[e].committed = q
        /\ entry'[e].sent = entry[e].sent
        /\ \A o \in Entries : o # e => entry'[o] = entry[o]
    BY <1>3, <1>6, <1>11, <1>13, Zenon
  <2>3. q <= OpenQuantity(dline[k[1]][k[2]]) + entry[e].committed
    BY <1>3, <1>4, <1>6, Zenon
  <2>4. dline'[k[1]][k[2]].committed = dline[k[1]][k[2]].committed + q - entry[e].committed
    BY <1>3, <1>6, <1>9
  <2> QED
    BY <1>5, <1>9, <2>1, <2>2, <2>3, <2>4, Zenon DEF AdjustsLine
<1>15. AdjustEffect(e, q)
  BY <1>3, <1>6, <1>14 DEF AdjustEffect
<1> QED
  BY <1>1, <1>4, <1>5, <1>15

LEMMA AdjustCommitSafe ==
    ASSUME DeliveryInv, NEW r \in Requests, AdjustCommit(r)
    PROVE  DeliveryInv'
<1>1. PICK e \in Entries, q \in Nat \ {0} :
         txn[r].op = "adjust" /\ Ends(r) /\ AdjustEffect(e, q)
  BY AdjustDoes
<1>2. Typed /\ Rooted /\ Beside
  BY Zenon DEF DeliveryInv
<1>3. Typed'
  BY <1>1, <1>2, Zenon DEF Typed, AdjustEffect, AdjustsLine
<1>4. UNCHANGED <<delivery, trip, stop>> /\ entry[e] # None
  BY <1>1 DEF AdjustEffect, AdjustsLine
<1>5. entry[e].key \in Keys /\ dline[entry[e].key[1]][entry[e].key[2]] # None
  BY <1>4, EntryIsRooted, Zenon
<1>6. \A d \in Deliveries, l \in SaleLines : dline'[d][l] = None <=> dline[d][l] = None
  BY <1>1, <1>5, Zenon DEF AdjustEffect, AdjustsLine
<1>7. \A d \in Deliveries, l \in SaleLines : dline[d][l] # None =>
          dline'[d][l].delivered = dline[d][l].delivered
  BY <1>1, Zenon DEF AdjustEffect, AdjustsLine
<1>8. \A p : IsOpen(p)' <=> IsOpen(p)
  BY <1>4 DEF IsOpen
<1>9. \A o \in Entries : entry'[o] # None =>
          entry[o] # None /\ entry'[o].key = entry[o].key /\ entry'[o].stop = entry[o].stop
  BY <1>1 DEF AdjustEffect, AdjustsLine
<1>10. \A o \in Entries : entry'[o] # None =>
          LET j == entry'[o].key
          IN  /\ stop'[entry'[o].stop] # None
              /\ delivery'[j[1]] # None /\ dline'[j[1]][j[2]] # None
              /\ delivery'[j[1]].type = "DELIVERY" /\ delivery'[j[1]].status \notin Early
  BY <1>4, <1>6, <1>9, EntryIsRooted
<1>11. Rooted'
  <2>1. \A d \in Deliveries : delivery'[d] = None => \A l \in SaleLines : dline'[d][l] = None
    BY <1>2, <1>4, <1>6 DEF Rooted
  <2>2. \A d \in Deliveries, l \in SaleLines :
          delivery'[d] # None /\ delivery'[d].status \in Early /\ dline'[d][l] # None =>
              dline'[d][l].delivered = 0
    BY <1>2, <1>4, <1>6, <1>7 DEF Rooted
  <2>3. \A o \in Stops : stop'[o] # None =>
          /\ trip'[stop'[o].trip] # None
          /\ IsOpen(stop[o].trip)' => stop'[o].outcome = "PENDING"
    BY <1>2, <1>4, <1>8 DEF Rooted
  <2> QED
    BY <1>10, <2>1, <2>2, <2>3 DEF Rooted
<1> QED
  BY <1>1, <1>2, <1>3, <1>11, LastEnds DEF Solo

\* What some entries claim of a line is a number.
LEMMA EntriesAreFinite ==
    ASSUME NEW S \in SUBSET Entries
    PROVE  IsFiniteSet(S)
BY DeliveryConstants, FS_Subset

LEMMA ClaimedIsNat ==
    ASSUME DeliveryInv, NEW S \in SUBSET Entries, \A e \in S : entry[e] # None, NEW k
    PROVE  ClaimedBy(S, entry, k) \in Nat
<1> DEFINE f == [e \in S |-> entry[e].committed]
           T == {e \in S : entry[e].key = k}
<1>1. IsFiniteSet(T)
  BY EntriesAreFinite
<1>2. \A e \in T : f[e] \in Nat
  BY EntryIsRooted DEF EntryRows
<1>3. ClaimedBy(S, entry, k) = SumFunctionOnSet(f, T)
  BY DEF ClaimedBy
<1> HIDE DEF f, T
<1> QED
  BY <1>1, <1>2, <1>3, SumIsNat

\* What release_commitment, remove_stop and cancel_itinerary do.
ReleaseEffect(gone, stops, trips) ==
    /\ \A e \in gone : entry[e] # None /\ Loading(entry[e].stop)
    /\ \A s \in stops : Loading(s)
    /\ \A p \in trips : IsOpen(p)
    /\ \A e \in Entries : entry[e] # None /\ entry[e].stop \in stops => e \in gone
    /\ UNCHANGED <<sale, claim, delivery, onHand>>
    /\ entry' = [e \in Entries |-> IF e \in gone THEN None ELSE entry[e]]
    /\ stop' = [s \in Stops |-> IF s \in stops THEN None ELSE stop[s]]
    /\ trip' \in [Trips -> TripRows \cup {None}]
    /\ \A p \in Trips :
          IF p \in trips THEN trip'[p] # None /\ trip'[p].status = "CANCELLED"
          ELSE trip'[p] = trip[p]
    /\ dline' \in [Deliveries -> [SaleLines -> DeliveryLines \cup {None}]]
    /\ \A d \in Deliveries, l \in SaleLines :
          IF dline[d][l] = None THEN dline'[d][l] = None
          ELSE /\ dline'[d][l] # None /\ dline'[d][l].quantity = dline[d][l].quantity
               /\ dline'[d][l].delivered = dline[d][l].delivered
               /\ dline'[d][l].returned = dline[d][l].returned
               /\ dline'[d][l].committed = dline[d][l].committed
                                              - ClaimedBy(gone, entry, <<d, l>>)

LEMMA ReleaseDoes ==
    ASSUME DeliveryInv, NEW r \in Requests, ReleaseCommit(r)
    PROVE  \E gone \in SUBSET Entries, stops \in SUBSET Stops, trips \in SUBSET Trips :
              txn[r].op = "release" /\ Ends(r) /\ ReleaseEffect(gone, stops, trips)
<1>1. PICK t : t = txn[r]
  OBVIOUS
<1>2. PICK gone, stops, trips : gone = t.arg.entries /\ stops = t.arg.stops /\ trips = t.arg.trips
  OBVIOUS
<1>3. t.op = "release" /\ Ends(r) /\ UNCHANGED <<sale, claim, delivery, onHand>>
  BY <1>1 DEF ReleaseCommit, Runs
<1>4. /\ gone \in SUBSET Entries /\ stops \in SUBSET Stops /\ trips \in SUBSET Trips
      /\ \A e \in gone : entry[e] # None /\ Loading(entry[e].stop)
      /\ \A s \in stops : Loading(s)
      /\ \A p \in trips : IsOpen(p)
      /\ t.seen.dline = dline /\ t.seen.entry = entry
  BY <1>1, <1>2, <1>3 DEF DeliveryInv, Sound, SoundTrip, Solo
<1>5. /\ \A e \in Entries : entry[e] # None /\ entry[e].stop \in stops => e \in gone
      /\ entry' = [e \in Entries |-> IF e \in gone THEN None ELSE entry[e]]
      /\ stop' = [s \in Stops |-> IF s \in stops THEN None ELSE stop[s]]
      /\ trip' = [p \in Trips |-> IF p \in trips THEN [trip[p] EXCEPT !.status = "CANCELLED"]
                                  ELSE trip[p]]
  BY <1>1, <1>2 DEF ReleaseCommit
<1>6. dline' = [d \in Deliveries |-> [l \in SaleLines |->
               IF dline[d][l] = None THEN None
               ELSE [dline[d][l] EXCEPT !.committed =
                        IF ClaimedBy(gone, entry, <<d, l>>) = 0 THEN dline[d][l].committed
                        ELSE dline[d][l].committed - ClaimedBy(gone, entry, <<d, l>>)]]]
  BY <1>1, <1>2, <1>4 DEF ReleaseCommit
<1>7. Typed
  BY DEF DeliveryInv
<1>8. \A p \in Trips : IF p \in trips
                       THEN /\ trip'[p] \in TripRows /\ trip'[p] # None
                            /\ trip'[p].status = "CANCELLED"
                       ELSE trip'[p] = trip[p]
  <2>1. SUFFICES ASSUME NEW p \in Trips, p \in trips
                 PROVE  /\ trip'[p] \in TripRows /\ trip'[p] # None
                        /\ trip'[p].status = "CANCELLED"
    BY <1>5
  <2>2. trip[p] \in TripRows
    BY <1>4, <1>7, <2>1 DEF IsOpen, Typed
  <2>3. PICK row : row = [trip[p] EXCEPT !.status = "CANCELLED"]
    OBVIOUS
  <2>4. row \in TripRows /\ row # None /\ row.status = "CANCELLED"
    BY <2>2, <2>3, NoneIsNoDeliveryRow DEF TripRows
  <2> QED
    BY <1>5, <2>1, <2>3, <2>4
<1>9. trip' \in [Trips -> TripRows \cup {None}]
  <2>1. trip' = [p \in Trips |-> trip'[p]]
    BY <1>5
  <2> QED
    BY <1>7, <1>8, <2>1 DEF Typed
<1>10. ASSUME NEW d \in Deliveries, NEW l \in SaleLines
       PROVE  IF dline[d][l] = None THEN dline'[d][l] = None
              ELSE /\ dline'[d][l] \in DeliveryLines
                   /\ dline'[d][l].quantity = dline[d][l].quantity
                   /\ dline'[d][l].delivered = dline[d][l].delivered
                   /\ dline'[d][l].returned = dline[d][l].returned
                   /\ dline'[d][l].committed = dline[d][l].committed
                                                  - ClaimedBy(gone, entry, <<d, l>>)
  <2>1. PICK m, n : m = dline[d][l] /\ n = ClaimedBy(gone, entry, <<d, l>>)
    OBVIOUS
  <2>2. m \in DeliveryLines \cup {None} /\ n \in Nat
    BY <1>4, <1>7, <2>1, ClaimedIsNat DEF Typed
  <2>3. PICK v : v = m.committed - n
    OBVIOUS
  <2>4. PICK now : now = [m EXCEPT !.committed = v]
    OBVIOUS
  <2>5. m # None => /\ now \in DeliveryLines /\ now.quantity = m.quantity /\ now.committed = v
                    /\ now.delivered = m.delivered /\ now.returned = m.returned
    BY <2>2, <2>3, <2>4 DEF DeliveryLines
  <2>6. dline'[d][l] = IF m = None THEN None
                       ELSE [m EXCEPT !.committed = IF n = 0 THEN m.committed ELSE m.committed - n]
    BY <1>6, <2>1
  <2>7. m # None => (IF n = 0 THEN m.committed ELSE m.committed - n) = v
    BY <2>2, <2>3 DEF DeliveryLines
  <2>8. m # None => dline'[d][l] = now
    BY <2>4, <2>6, <2>7
  <2> QED
    BY <2>1, <2>3, <2>5, <2>6, <2>8
<1>11. dline' \in [Deliveries -> [SaleLines -> DeliveryLines \cup {None}]]
  BY <1>6, <1>10
<1>12. ReleaseEffect(gone, stops, trips)
  BY <1>3, <1>4, <1>5, <1>8, <1>9, <1>10, <1>11, NoneIsNoDeliveryRow DEF ReleaseEffect
<1> QED
  BY <1>1, <1>3, <1>4, <1>12

LEMMA ReleaseCommitSafe ==
    ASSUME DeliveryInv, NEW r \in Requests, ReleaseCommit(r)
    PROVE  DeliveryInv'
<1>1. PICK gone \in SUBSET Entries, stops \in SUBSET Stops, trips \in SUBSET Trips :
         txn[r].op = "release" /\ Ends(r) /\ ReleaseEffect(gone, stops, trips)
  BY ReleaseDoes
<1>2. Typed /\ Rooted /\ Beside
  BY DEF DeliveryInv
<1>3. Typed'
  BY <1>1, <1>2 DEF Typed, ReleaseEffect
<1>4. UNCHANGED delivery
  BY <1>1 DEF ReleaseEffect
<1>5. \A d \in Deliveries, l \in SaleLines : dline'[d][l] = None <=> dline[d][l] = None
  BY <1>1 DEF ReleaseEffect
<1>6. \A d \in Deliveries, l \in SaleLines : dline[d][l] # None =>
          dline'[d][l].delivered = dline[d][l].delivered
  BY <1>1 DEF ReleaseEffect
<1>7. \A o \in Entries : entry'[o] # None =>
          entry[o] # None /\ entry'[o] = entry[o] /\ entry[o].stop \notin stops
  BY <1>1 DEF ReleaseEffect
<1>8. \A o \in Stops : o \notin stops => stop'[o] = stop[o]
  BY <1>1 DEF ReleaseEffect
<1>9. \A o \in Stops : stop'[o] # None => stop'[o] = stop[o] /\ stop[o].trip \in Trips
  BY <1>1, <1>2 DEF ReleaseEffect, Typed, StopRows
<1>10. \A p \in Trips : /\ trip[p] # None => trip'[p] # None
                        /\ IsOpen(p)' => IsOpen(p)
  BY <1>1 DEF ReleaseEffect, IsOpen
<1>11. \A o \in Entries : entry'[o] # None =>
          LET j == entry'[o].key
          IN  /\ stop'[entry'[o].stop] # None
              /\ delivery'[j[1]] # None /\ dline'[j[1]][j[2]] # None
              /\ delivery'[j[1]].type = "DELIVERY" /\ delivery'[j[1]].status \notin Early
  BY <1>4, <1>5, <1>7, <1>8, EntryIsRooted
<1>12. Rooted'
  <2>1. \A d \in Deliveries : delivery'[d] = None => \A l \in SaleLines : dline'[d][l] = None
    BY <1>2, <1>4, <1>5 DEF Rooted
  <2>2. \A d \in Deliveries, l \in SaleLines :
          delivery'[d] # None /\ delivery'[d].status \in Early /\ dline'[d][l] # None =>
              dline'[d][l].delivered = 0
    BY <1>2, <1>4, <1>5, <1>6 DEF Rooted
  <2>3. \A o \in Stops : stop'[o] # None =>
          /\ trip'[stop'[o].trip] # None
          /\ IsOpen(stop[o].trip)' => stop'[o].outcome = "PENDING"
    BY <1>2, <1>9, <1>10 DEF Rooted
  <2> QED
    BY <1>9, <1>11, <2>1, <2>2, <2>3 DEF Rooted, IsOpen
<1> QED
  BY <1>1, <1>2, <1>3, <1>12, LastEnds DEF Solo

\* The goods some entries carry are counted.
LEMMA GoodsIsNat ==
    ASSUME NEW S \in SUBSET Entries, NEW f, \A e \in S : f[e] \in Nat, NEW copies, NEW lines
    PROVE  GoodsOf(f, S, copies, lines) \in Nat
<1> DEFINE T == {e \in S : copies[e].key[2] \in Stocked \cap lines}
<1>1. IsFiniteSet(T) /\ \A e \in T : f[e] \in Nat
  BY EntriesAreFinite
<1>2. GoodsOf(f, S, copies, lines) = SumFunctionOnSet(f, T)
  BY DEF GoodsOf
<1> HIDE DEF T
<1> QED
  BY <1>1, <1>2, SumIsNat

\* What depart does to trip p, with `aboard` sent on it.
DepartEffect(p, aboard, sent) ==
    /\ IsOpen(p) /\ aboard = EntriesOf(p) /\ sent = [e \in aboard |-> entry[e].committed]
    /\ \A d \in OrdersOf(aboard) : Allows(d, "IN_TRANSIT")
    /\ UNCHANGED <<sale, dline, stop>>
    /\ entry' \in [Entries -> EntryRows \cup {None}]
    /\ \A e \in Entries :
          IF e \in aboard
          THEN /\ entry'[e] # None /\ entry'[e].sent = sent[e] /\ entry'[e].stop = entry[e].stop
               /\ entry'[e].key = entry[e].key /\ entry'[e].committed = entry[e].committed
          ELSE entry'[e] = entry[e]
    /\ onHand' = [w \in Warehouses |-> onHand[w] - GoodsOf(sent, aboard, entry, From(w))
                                                 + GoodsOf(sent, aboard, entry, Through(w))]
    /\ claim' = [l \in SaleLines |->
                    IF GoodsOf(sent, aboard, entry, {l}) = 0 THEN claim[l]
                    ELSE Released(claim[l], GoodsOf(sent, aboard, entry, {l}))]
    /\ delivery' \in [Deliveries -> DeliveryRows \cup {None}]
    /\ \A d \in Deliveries :
          IF d \in OrdersOf(aboard)
          THEN /\ delivery'[d] # None /\ delivery'[d].status = "IN_TRANSIT"
               /\ delivery'[d].type = delivery[d].type
               /\ delivery'[d].parent = delivery[d].parent
          ELSE delivery'[d] = delivery[d]
    /\ trip' \in [Trips -> TripRows \cup {None}]
    /\ trip'[p] # None /\ trip'[p].status = "DEPARTED"
    /\ \A o \in Trips : o # p => trip'[o] = trip[o]

\* The entries of a trip, and the orders they are of.
LEMMA EntriesOfTrip ==
    ASSUME DeliveryInv, NEW p
    PROVE  /\ EntriesOf(p) \in SUBSET Entries
           /\ \A e \in Entries : e \in EntriesOf(p) <=>
                 entry[e] # None /\ stop[entry[e].stop].trip = p
<1>1. \A e \in Entries : entry[e] # None => entry[e].stop \in Stops /\ stop[entry[e].stop] # None
  BY EntryIsRooted
<1> QED
  BY <1>1 DEF EntriesOf, EntriesAt, StopsOf

LEMMA DepartDoes ==
    ASSUME DeliveryInv, NEW r \in Requests, DepartCommit(r)
    PROVE  \E p, aboard, sent :
              /\ p \in Trips /\ aboard \in SUBSET Entries
              /\ txn[r].op = "depart" /\ Ends(r) /\ DepartEffect(p, aboard, sent)
<1>1. PICK t : t = txn[r]
  OBVIOUS
<1>2. PICK p, aboard : p = t.arg.trip /\ aboard = t.arg.aboard
  OBVIOUS
<1>3. t.op = "depart" /\ Ends(r) /\ UNCHANGED <<sale, dline, stop>>
  BY <1>1 DEF DepartCommit, Runs
<1>4. /\ p \in Trips /\ IsOpen(p) /\ aboard = EntriesOf(p) /\ t.arg.orders = OrdersOf(aboard)
      /\ \A d \in OrdersOf(aboard) : Allows(d, "IN_TRANSIT")
      /\ t.seen.entry = entry /\ t.seen.claim = claim
  BY <1>1, <1>2, <1>3, Zenon DEF DeliveryInv, Sound, SoundTrip, Solo
<1>5. PICK sent : sent = [e \in aboard |-> entry[e].committed]
  OBVIOUS
<1>6. Typed /\ aboard \in SUBSET Entries
  BY <1>4, EntriesOfTrip DEF DeliveryInv
<1>7. /\ entry' = [e \in Entries |-> IF e \in aboard THEN [entry[e] EXCEPT !.sent = sent[e]]
                                     ELSE entry[e]]
      /\ trip' = [trip EXCEPT ![p].status = "DEPARTED"]
      /\ delivery' = [d \in Deliveries |-> IF d \in OrdersOf(aboard)
                            THEN [delivery[d] EXCEPT !.status = "IN_TRANSIT"] ELSE delivery[d]]
  BY <1>1, <1>2, <1>4, <1>5 DEF DepartCommit
<1>8. /\ onHand' = [w \in Warehouses |-> onHand[w] - GoodsOf(sent, aboard, entry, From(w))
                                                 + GoodsOf(sent, aboard, entry, Through(w))]
      /\ claim' = [l \in SaleLines |->
                    IF GoodsOf(sent, aboard, entry, {l}) = 0 THEN claim[l]
                    ELSE Released(claim[l], GoodsOf(sent, aboard, entry, {l}))]
  BY <1>1, <1>2, <1>4, <1>5 DEF DepartCommit, Aboard
<1>9. \A e \in Entries :
          IF e \in aboard
          THEN /\ entry'[e] \in EntryRows
               /\ entry'[e].sent = sent[e] /\ entry'[e].stop = entry[e].stop
               /\ entry'[e].key = entry[e].key /\ entry'[e].committed = entry[e].committed
          ELSE entry'[e] = entry[e]
  <2>1. SUFFICES ASSUME NEW e \in Entries, e \in aboard
                 PROVE  /\ entry'[e] \in EntryRows
                        /\ entry'[e].sent = sent[e] /\ entry'[e].stop = entry[e].stop
                        /\ entry'[e].key = entry[e].key
                        /\ entry'[e].committed = entry[e].committed
    BY <1>7
  <2>2. PICK old : old = entry[e]
    OBVIOUS
  <2>3. old \in EntryRows
    BY <1>4, <2>1, <2>2, EntriesOfTrip, EntryIsRooted
  <2>4. sent[e] = old.committed /\ old.committed \in Nat
    BY <1>5, <2>1, <2>2, <2>3 DEF EntryRows
  <2>5. PICK now : now = [old EXCEPT !.sent = old.committed]
    OBVIOUS
  <2>6. /\ now \in EntryRows /\ now.sent = old.committed /\ now.stop = old.stop
        /\ now.key = old.key /\ now.committed = old.committed
    BY <2>3, <2>4, <2>5 DEF EntryRows
  <2>7. entry'[e] = now
    BY <1>7, <2>1, <2>2, <2>4, <2>5
  <2> QED
    BY <2>2, <2>4, <2>6, <2>7
<1>10. entry' \in [Entries -> EntryRows \cup {None}]
  BY <1>6, <1>7, <1>9 DEF Typed
<1>11. \A d \in Deliveries :
          IF d \in OrdersOf(aboard)
          THEN /\ delivery'[d] \in DeliveryRows /\ delivery'[d].status = "IN_TRANSIT"
               /\ delivery'[d].type = delivery[d].type
               /\ delivery'[d].parent = delivery[d].parent
          ELSE delivery'[d] = delivery[d]
  <2>1. SUFFICES ASSUME NEW d \in Deliveries, d \in OrdersOf(aboard)
                 PROVE  /\ delivery'[d] \in DeliveryRows /\ delivery'[d].status = "IN_TRANSIT"
                        /\ delivery'[d].type = delivery[d].type
                        /\ delivery'[d].parent = delivery[d].parent
    BY <1>7
  <2>2. PICK old : old = delivery[d]
    OBVIOUS
  <2>3. old \in DeliveryRows
    BY <1>4, <1>6, <2>1, <2>2 DEF Allows, Typed
  <2>4. PICK now : now = [old EXCEPT !.status = "IN_TRANSIT"]
    OBVIOUS
  <2>5. /\ now \in DeliveryRows /\ now.status = "IN_TRANSIT" /\ now.type = old.type
        /\ now.parent = old.parent
    BY <2>3, <2>4 DEF DeliveryRows, Statuses
  <2> QED
    BY <1>7, <2>1, <2>2, <2>4, <2>5
<1>12. delivery' \in [Deliveries -> DeliveryRows \cup {None}]
  BY <1>6, <1>7, <1>11 DEF Typed
<1>13. PICK row : row = [trip[p] EXCEPT !.status = "DEPARTED"]
  OBVIOUS
<1>14. row \in TripRows /\ row # None /\ row.status = "DEPARTED"
  BY <1>4, <1>6, <1>13, NoneIsNoDeliveryRow DEF TripRows, Typed, IsOpen
<1>15. trip' = [trip EXCEPT ![p] = row]
  BY <1>7, <1>13
<1>16. /\ trip' \in [Trips -> TripRows \cup {None}] /\ trip'[p] = row
       /\ \A o \in Trips : o # p => trip'[o] = trip[o]
  BY <1>4, <1>6, <1>14, <1>15 DEF Typed
<1>17. DepartEffect(p, aboard, sent)
  <2>1. \A e \in Entries : entry'[e] \in EntryRows => entry'[e] # None
    BY NoneIsNoDeliveryRow
  <2>2. \A d \in Deliveries : delivery'[d] \in DeliveryRows => delivery'[d] # None
    BY NoneIsNoDeliveryRow
  <2>3. \A e \in Entries :
          IF e \in aboard
          THEN /\ entry'[e] # None /\ entry'[e].sent = sent[e] /\ entry'[e].stop = entry[e].stop
               /\ entry'[e].key = entry[e].key /\ entry'[e].committed = entry[e].committed
          ELSE entry'[e] = entry[e]
    BY <1>9, <2>1
  <2>4. \A d \in Deliveries :
          IF d \in OrdersOf(aboard)
          THEN /\ delivery'[d] # None /\ delivery'[d].status = "IN_TRANSIT"
               /\ delivery'[d].type = delivery[d].type
               /\ delivery'[d].parent = delivery[d].parent
          ELSE delivery'[d] = delivery[d]
    BY <1>11, <2>2
  <2>5. trip'[p] # None /\ trip'[p].status = "DEPARTED"
    BY <1>14, <1>16
  <2> QED
    BY <1>3, <1>4, <1>5, <1>8, <1>10, <1>12, <1>16, <2>3, <2>4, <2>5, Zenon DEF DepartEffect
<1> QED
  BY <1>1, <1>3, <1>4, <1>6, <1>17

LEMMA DepartCommitSafe ==
    ASSUME DeliveryInv, NEW r \in Requests, DepartCommit(r)
    PROVE  DeliveryInv'
<1>1. PICK p, aboard, sent :
         /\ p \in Trips /\ aboard \in SUBSET Entries
         /\ txn[r].op = "depart" /\ Ends(r) /\ DepartEffect(p, aboard, sent)
  BY DepartDoes
<1>2. Typed /\ Rooted /\ Beside
  BY DEF DeliveryInv
<1>3. \A e \in aboard : sent[e] \in Nat /\ entry[e] # None /\ entry[e] \in EntryRows
  <2>1. \A e \in aboard : entry[e] # None
    BY <1>1, EntriesOfTrip DEF DepartEffect
  <2> QED
    BY <1>1, <2>1, EntryIsRooted DEF DepartEffect, EntryRows
<1>4. claim' \in [SaleLines -> Int] /\ onHand' \in [Warehouses -> Int]
  <2>1. \A lines : GoodsOf(sent, aboard, entry, lines) \in Nat
    BY <1>1, <1>3, GoodsIsNat
  <2>2. \A l \in SaleLines : claim[l] \in Int
    BY <1>2 DEF Typed
  <2>3. \A w \in Warehouses : onHand[w] \in Int
    BY <1>2 DEF Typed
  <2>4. \A a \in Int, b \in Nat : Released(a, b) \in Int
    BY DEF Released
  <2>5. claim' \in [SaleLines -> Int]
    BY <1>1, <2>1, <2>2, <2>4 DEF DepartEffect
  <2>6. onHand' \in [Warehouses -> Int]
    BY <1>1, <2>1, <2>3 DEF DepartEffect
  <2> QED
    BY <2>5, <2>6
<1>5. Typed'
  BY <1>1, <1>2, <1>4 DEF Typed, DepartEffect
<1>6. /\ UNCHANGED <<dline, stop>> /\ IsOpen(p) /\ trip'[p] # None /\ trip'[p].status = "DEPARTED"
      /\ \A o \in Trips : o # p => trip'[o] = trip[o]
  BY <1>1 DEF DepartEffect
<1>7. \A d \in Deliveries :
          /\ delivery'[d] = None <=> delivery[d] = None
          /\ delivery'[d] # None => delivery'[d].type = delivery[d].type
          /\ delivery'[d] # None /\ delivery'[d].status \in Early => delivery[d].status \in Early
          /\ delivery[d] # None /\ delivery[d].status \notin Early =>
                delivery'[d].status \notin Early
  BY <1>1 DEF DepartEffect, Allows, Early
<1>8. \A o \in Entries : entry'[o] # None =>
          entry[o] # None /\ entry'[o].key = entry[o].key /\ entry'[o].stop = entry[o].stop
  BY <1>1, <1>3 DEF DepartEffect
<1>9. \A o \in Entries : entry'[o] # None =>
          LET j == entry'[o].key
          IN  /\ stop'[entry'[o].stop] # None
              /\ delivery'[j[1]] # None /\ dline'[j[1]][j[2]] # None
              /\ delivery'[j[1]].type = "DELIVERY" /\ delivery'[j[1]].status \notin Early
  BY <1>6, <1>7, <1>8, EntryIsRooted
<1>10. Rooted'
  <2>1. \A d \in Deliveries : delivery'[d] = None => \A l \in SaleLines : dline'[d][l] = None
    BY <1>2, <1>6, <1>7 DEF Rooted
  <2>2. \A d \in Deliveries, l \in SaleLines :
          delivery'[d] # None /\ delivery'[d].status \in Early /\ dline'[d][l] # None =>
              dline'[d][l].delivered = 0
    BY <1>2, <1>6, <1>7 DEF Rooted
  <2>3. \A o \in Stops : stop'[o] # None =>
          /\ trip'[stop'[o].trip] # None
          /\ IsOpen(stop[o].trip)' => stop'[o].outcome = "PENDING"
    <3>1. \A o \in Stops : stop[o] # None => stop[o].trip \in Trips
      BY <1>2 DEF Typed, StopRows
    <3> QED
      BY <1>2, <1>6, <3>1 DEF Rooted, IsOpen
  <2> QED
    BY <1>6, <1>9, <2>1, <2>2, <2>3 DEF Rooted
<1> QED
  BY <1>1, <1>2, <1>5, <1>10, LastEnds DEF Solo

-----------------------------------------------------------------------------
(***************************************************************************)
(* Closing a stop.                                                         *)
(***************************************************************************)
SentOn(S) == [e \in S |-> entry[e].sent]
BackOn(S, accepted) == [e \in S |-> entry[e].sent - accepted[e]]
Carries(S, d, l) == \E e \in S : entry[e].key = <<d, l>>
SplitOf(settled) == {d \in DOMAIN settled : settled[d] = "PARTIALLY_DELIVERED"}

\* Other stops of the trip that are not resolved.
Siblings(s) == {q \in Stops \ {s} : /\ stop[q] # None /\ stop[q].trip = stop[s].trip
                                    /\ stop[q].outcome = "PENDING"}

\* What _close_locked does at stop s, in terms of the tables it finds: the
\* entries S are accepted as given, and the orders `born` take on the rest.
CloseWrites(s, S, accepted, settled, born, parent) ==
    /\ \A e \in S : accepted[e] <= entry[e].sent
    /\ settled = Settled(S, entry, accepted)
    /\ \A d \in OrdersOf(S) : AssertLegal(delivery[d].status, settled[d], delivery[d].type)
    /\ UNCHANGED sale
    /\ entry' = [e \in Entries |-> IF e \in S
           THEN [entry[e] EXCEPT !.delivered = accepted[e], !.returned = BackOn(S, accepted)[e]]
           ELSE entry[e]]
    /\ delivery' = [d \in Deliveries |->
           IF d \in OrdersOf(S) THEN [delivery[d] EXCEPT !.status = settled[d]]
           ELSE IF d \in born
           THEN [status |-> "IN_PREPARATION", type |-> delivery[parent[d]].type,
                 facility |-> delivery[parent[d]].facility,
                 serial |-> NextFolio(delivery[parent[d]].facility)
                               + Cardinality({c \in born : c < d}),
                 parent |-> parent[d]]
           ELSE delivery[d]]
    /\ dline' = [d \in Deliveries |->
           IF d \in born
           THEN Remainder([l \in SaleLines |->
                    OfLine(BackOn(S, accepted), S, entry, <<parent[d], l>>)])
           ELSE [l \in SaleLines |->
               IF Carries(S, d, l)
               THEN [dline[d][l] EXCEPT
                        !.delivered = dline[d][l].delivered + OfLine(accepted, S, entry, <<d, l>>),
                        !.returned = dline[d][l].returned
                                        + OfLine(BackOn(S, accepted), S, entry, <<d, l>>),
                        !.committed = dline[d][l].committed - ClaimedBy(S, entry, <<d, l>>)]
               ELSE dline[d][l]]]
    /\ onHand' = [w \in Warehouses |->
           onHand[w] - GoodsOf(SentOn(S), S, entry, Through(w))
                     + GoodsOf(BackOn(S, accepted), S, entry, From(w))]
    /\ claim' = [l \in SaleLines |-> claim[l] + GoodsOf(BackOn(S, accepted), S, entry, {l})]
    /\ stop' = [stop EXCEPT ![s].outcome = StopOutcome({settled[d] : d \in OrdersOf(S)})]
    /\ trip' = IF Siblings(s) = {} THEN [trip EXCEPT ![stop[s].trip].status = "CLOSED"] ELSE trip

Closing(s, S, accepted, settled, born, parent) ==
    /\ s \in Stops /\ OnTheRoad(s) /\ S = EntriesAt(s)
    /\ accepted \in [S -> Nat]
    /\ born = FirstFree(Cardinality(SplitOf(settled)))
    /\ parent \in Bijection(born, SplitOf(settled))
    /\ CloseWrites(s, S, accepted, settled, born, parent)

LEMMA CloseReads ==
    ASSUME DeliveryInv, NEW r \in Requests, NEW accepted \in [txn[r].arg.aboard -> Nat],
           CloseCommit(r, accepted)
    PROVE  \E s, S, settled, born, parent, sales :
              /\ txn[r].op = "close" /\ S = txn[r].arg.aboard /\ s = txn[r].arg.stop
              /\ Closing(s, S, accepted, settled, born, parent)
              /\ sales \in SUBSET Sales /\ Refreshes(r, sales)
<1>1. PICK t : t = txn[r]
  OBVIOUS
<1>2. PICK s, S, seen, copies, acc :
         s = t.arg.stop /\ S = t.arg.aboard /\ seen = t.seen /\ copies = seen.entry /\ acc = accepted
  BY Zenon
<1>3. t.op = "close" /\ acc \in [S -> Nat]
  BY <1>1, <1>2 DEF CloseCommit, Runs
<1>4. SoundClose(t)
  BY <1>1 DEF DeliveryInv, Sound
<1>5. /\ s \in Stops /\ OnTheRoad(s) /\ S = EntriesAt(s)
      /\ \A e \in S : /\ copies[e] = entry[e]
                      /\ seen.delivery[entry[e].key[1]] = delivery[entry[e].key[1]]
                      /\ seen.dline[entry[e].key[1]] = dline[entry[e].key[1]]
  BY <1>2, <1>3, <1>4 DEF SoundClose
<1>6. \A q \in Stops : (stop[q] # None /\ stop[q].trip = stop[s].trip)
                       \/ (seen.stop[q] # None /\ seen.stop[q].trip = stop[s].trip)
                       => seen.stop[q] = stop[q]
  BY <1>2, <1>3, <1>4 DEF SoundClose
<1>7. seen.stop[s] = stop[s]
  BY <1>5, <1>6 DEF OnTheRoad
<1>8. {q \in Stops \ {s} : /\ seen.stop[q] # None
                           /\ seen.stop[q].trip = seen.stop[s].trip
                           /\ seen.stop[q].outcome = "PENDING"} = Siblings(s)
  BY <1>6, <1>7 DEF Siblings
<1>9. {copies[e].key[1] : e \in S} = OrdersOf(S)
  BY <1>5 DEF OrdersOf
<1>10. \A d \in OrdersOf(S) : seen.delivery[d] = delivery[d] /\ seen.dline[d] = dline[d]
  BY <1>5 DEF OrdersOf
<1>11. [e \in S |-> copies[e].sent] = SentOn(S)
  BY <1>5 DEF SentOn
<1>12. [e \in S |-> SentOn(S)[e] - acc[e]] = BackOn(S, acc)
  BY DEF SentOn, BackOn
<1>13. \A f, k : OfLine(f, S, copies, k) = OfLine(f, S, entry, k)
  <2>1. \A k : {e \in S : copies[e].key = k} = {e \in S : entry[e].key = k}
    BY <1>5
  <2> QED
    BY <2>1 DEF OfLine
<1>14. \A k : ClaimedBy(S, copies, k) = ClaimedBy(S, entry, k)
  <2>1. \A k : {e \in S : copies[e].key = k} = {e \in S : entry[e].key = k}
    BY <1>5
  <2>2. [e \in S |-> copies[e].committed] = [e \in S |-> entry[e].committed]
    BY <1>5
  <2> QED
    BY <2>1, <2>2 DEF ClaimedBy
<1>15. \A f, lines : GoodsOf(f, S, copies, lines) = GoodsOf(f, S, entry, lines)
  <2>1. \A lines : {e \in S : copies[e].key[2] \in Stocked \cap lines}
                     = {e \in S : entry[e].key[2] \in Stocked \cap lines}
    BY <1>5
  <2> QED
    BY <2>1 DEF GoodsOf
<1>16. PICK sent, back, settled :
          /\ sent = [e \in S |-> copies[e].sent]
          /\ back = [e \in S |-> sent[e] - acc[e]]
          /\ settled = Settled(S, copies, acc)
  OBVIOUS
<1>17. sent = SentOn(S) /\ back = BackOn(S, acc)
  BY <1>11, <1>12, <1>16
<1>18. DOMAIN settled = OrdersOf(S)
  BY <1>9, <1>16 DEF Settled
<1>19. settled = Settled(S, entry, acc)
  <2>1. [e \in S |-> entry[e].sent] = [e \in S |-> copies[e].sent]
    BY <1>5
  <2>2. \A d : {e \in S : copies[e].key[1] = d} = {e \in S : entry[e].key[1] = d}
    BY <1>5
  <2>3. \A f, d : OfOrder(f, S, copies, d) = OfOrder(f, S, entry, d)
    BY <2>2 DEF OfOrder
  <2>4. {copies[e].key[1] : e \in S} = {entry[e].key[1] : e \in S}
    BY <1>5
  <2> QED
    BY <1>16, <2>1, <2>3, <2>4 DEF Settled
<1>20. PICK born : born = FirstFree(Cardinality(SplitOf(settled)))
  OBVIOUS
<1>21. PICK sales : sales = SalesOf({copies[e].key[2] : e \in S})
  BY Zenon
<1>22. UNCHANGED sale
  BY DEF CloseCommit
<1>23. Refreshes(r, sales)
  <2>1. Refreshes(r, SalesOf({txn[r].seen.entry[e].key[2] : e \in txn[r].arg.aboard}))
    BY Zenon DEF CloseCommit
  <2> QED
    BY <1>1, <1>2, <1>21, <2>1 DEF Refreshes
<1>24. \A e \in S : Accepts(sent[e], acc[e])
  BY <1>1, <1>2, <1>16, Zenon DEF CloseCommit
<1>25. \A d \in DOMAIN settled : AssertLegal(seen.delivery[d].status, settled[d], seen.delivery[d].type)
  BY <1>1, <1>2, <1>16, Zenon DEF CloseCommit
<1>26. entry' = [e \in Entries |-> IF e \in S
           THEN [entry[e] EXCEPT !.delivered = acc[e], !.returned = back[e]] ELSE entry[e]]
  BY <1>1, <1>2, <1>16 DEF CloseCommit
<1>27. stop' = [stop EXCEPT ![s].outcome = StopOutcome({settled[d] : d \in DOMAIN settled})]
  <2>1. stop' = [stop EXCEPT ![txn[r].arg.stop].outcome =
           StopOutcome({Settled(txn[r].arg.aboard, txn[r].seen.entry, accepted)[d] :
                        d \in DOMAIN Settled(txn[r].arg.aboard, txn[r].seen.entry, accepted)})]
    BY Zenon DEF CloseCommit
  <2>2. PICK outcome : outcome =
           StopOutcome({Settled(txn[r].arg.aboard, txn[r].seen.entry, accepted)[d] :
                        d \in DOMAIN Settled(txn[r].arg.aboard, txn[r].seen.entry, accepted)})
    OBVIOUS
  <2>3. outcome = StopOutcome({settled[d] : d \in DOMAIN settled})
    BY <1>1, <1>2, <1>16, <2>2
  <2>4. stop' = [stop EXCEPT ![txn[r].arg.stop].outcome = outcome]
    BY <2>1, <2>2, Zenon
  <2> QED
    BY <1>1, <1>2, <2>3, <2>4
<1>28. trip' = IF Siblings(s) = {} THEN [trip EXCEPT ![stop[s].trip].status = "CLOSED"] ELSE trip
  BY <1>1, <1>2, <1>7, <1>8, Zenon DEF CloseCommit
<1>29. onHand' = [w \in Warehouses |-> onHand[w] - Aboard(r, sent, Through(w))
                                                + Aboard(r, back, From(w))]
  BY <1>1, <1>2, <1>16, Zenon DEF CloseCommit
<1>30. claim' = [l \in SaleLines |-> claim[l] + Aboard(r, back, {l})]
  BY <1>1, <1>2, <1>16 DEF CloseCommit
<1> DEFINE now == Settled(txn[r].arg.aboard, txn[r].seen.entry, accepted)
           split == {d \in DOMAIN now : now[d] = "PARTIALLY_DELIVERED"}
           fresh == FirstFree(Cardinality(split))
           went == [e \in txn[r].arg.aboard |-> txn[r].seen.entry[e].sent]
           rest == [e \in txn[r].arg.aboard |-> went[e] - accepted[e]]
<1>31. \E parent \in Bijection(fresh, split) :
          /\ delivery' = [d \in Deliveries |->
                 IF d \in DOMAIN now THEN [delivery[d] EXCEPT !.status = now[d]]
                 ELSE IF d \in fresh
                 THEN Child(r, parent[d], Cardinality({c \in fresh : c < d}))
                 ELSE delivery[d]]
          /\ dline' = [d \in Deliveries |->
                 IF d \in fresh
                 THEN Remainder([l \in SaleLines |-> OfLine(rest, txn[r].arg.aboard,
                                     txn[r].seen.entry, <<parent[d], l>>)])
                 ELSE [l \in SaleLines |->
                     IF \E e \in txn[r].arg.aboard : txn[r].seen.entry[e].key = <<d, l>>
                     THEN [dline[d][l] EXCEPT
                              !.delivered = txn[r].seen.dline[d][l].delivered
                                  + OfLine(accepted, txn[r].arg.aboard, txn[r].seen.entry, <<d, l>>),
                              !.returned = txn[r].seen.dline[d][l].returned
                                  + OfLine(rest, txn[r].arg.aboard, txn[r].seen.entry, <<d, l>>),
                              !.committed = txn[r].seen.dline[d][l].committed
                                  - ClaimedBy(txn[r].arg.aboard, txn[r].seen.entry, <<d, l>>)]
                     ELSE dline[d][l]]]
  BY Zenon DEF CloseCommit
<1>32. now = settled /\ rest = back
  BY <1>1, <1>2, <1>16
<1>33. split = SplitOf(settled)
  BY <1>32 DEF SplitOf
<1>34. fresh = born
  BY <1>20, <1>33, Zenon
<1> HIDE DEF now, split, fresh, went, rest
<1>35. PICK parent \in Bijection(fresh, split) :
          /\ delivery' = [d \in Deliveries |->
                 IF d \in DOMAIN now THEN [delivery[d] EXCEPT !.status = now[d]]
                 ELSE IF d \in fresh
                 THEN Child(r, parent[d], Cardinality({c \in fresh : c < d}))
                 ELSE delivery[d]]
          /\ dline' = [d \in Deliveries |->
                 IF d \in fresh
                 THEN Remainder([l \in SaleLines |-> OfLine(rest, txn[r].arg.aboard,
                                     txn[r].seen.entry, <<parent[d], l>>)])
                 ELSE [l \in SaleLines |->
                     IF \E e \in txn[r].arg.aboard : txn[r].seen.entry[e].key = <<d, l>>
                     THEN [dline[d][l] EXCEPT
                              !.delivered = txn[r].seen.dline[d][l].delivered
                                  + OfLine(accepted, txn[r].arg.aboard, txn[r].seen.entry, <<d, l>>),
                              !.returned = txn[r].seen.dline[d][l].returned
                                  + OfLine(rest, txn[r].arg.aboard, txn[r].seen.entry, <<d, l>>),
                              !.committed = txn[r].seen.dline[d][l].committed
                                  - ClaimedBy(txn[r].arg.aboard, txn[r].seen.entry, <<d, l>>)]
                     ELSE dline[d][l]]]
  BY <1>31, Zenon
<1>36. delivery' = [d \in Deliveries |->
           IF d \in DOMAIN settled THEN [delivery[d] EXCEPT !.status = settled[d]]
           ELSE IF d \in born
           THEN [status |-> "IN_PREPARATION", type |-> seen.delivery[parent[d]].type,
                 facility |-> seen.delivery[parent[d]].facility,
                 serial |-> NextFolio(seen.delivery[parent[d]].facility)
                               + Cardinality({c \in born : c < d}),
                 parent |-> parent[d]]
           ELSE delivery[d]]
  BY <1>1, <1>2, <1>32, <1>34, <1>35, Zenon DEF Child
<1>37. dline' = [d \in Deliveries |->
           IF d \in born
           THEN Remainder([l \in SaleLines |-> OfLine(back, S, copies, <<parent[d], l>>)])
           ELSE [l \in SaleLines |->
               IF \E e \in S : copies[e].key = <<d, l>>
               THEN [dline[d][l] EXCEPT
                        !.delivered = seen.dline[d][l].delivered + OfLine(acc, S, copies, <<d, l>>),
                        !.returned = seen.dline[d][l].returned + OfLine(back, S, copies, <<d, l>>),
                        !.committed = seen.dline[d][l].committed - ClaimedBy(S, copies, <<d, l>>)]
               ELSE dline[d][l]]]
  BY <1>1, <1>2, <1>32, <1>34, <1>35, Zenon
<1>38. parent \in Bijection(born, SplitOf(settled))
  BY <1>33, <1>34, <1>35
<1>39. \A d \in born : parent[d] \in OrdersOf(S)
  BY <1>18, <1>38 DEF SplitOf, Bijection, Injection
<1>40. \A d \in Deliveries, l \in SaleLines :
          (\E e \in S : copies[e].key = <<d, l>>) <=> Carries(S, d, l)
  BY <1>5 DEF Carries
<1>41. \A d, l : Carries(S, d, l) => d \in OrdersOf(S)
  BY DEF Carries, OrdersOf
<1>42. \A e \in S : acc[e] <= entry[e].sent
  BY <1>16, <1>5, <1>24 DEF Accepts
<1>43. \A d \in OrdersOf(S) : AssertLegal(delivery[d].status, settled[d], delivery[d].type)
  BY <1>10, <1>18, <1>25
<1>44. entry' = [e \in Entries |-> IF e \in S
           THEN [entry[e] EXCEPT !.delivered = acc[e], !.returned = BackOn(S, acc)[e]]
           ELSE entry[e]]
  BY <1>17, <1>26
<1>45. delivery' = [d \in Deliveries |->
           IF d \in OrdersOf(S) THEN [delivery[d] EXCEPT !.status = settled[d]]
           ELSE IF d \in born
           THEN [status |-> "IN_PREPARATION", type |-> delivery[parent[d]].type,
                 facility |-> delivery[parent[d]].facility,
                 serial |-> NextFolio(delivery[parent[d]].facility)
                               + Cardinality({c \in born : c < d}),
                 parent |-> parent[d]]
           ELSE delivery[d]]
  BY <1>10, <1>18, <1>36, <1>39, Zenon
<1>46. dline' = [d \in Deliveries |->
           IF d \in born
           THEN Remainder([l \in SaleLines |->
                    OfLine(BackOn(S, acc), S, entry, <<parent[d], l>>)])
           ELSE [l \in SaleLines |->
               IF Carries(S, d, l)
               THEN [dline[d][l] EXCEPT
                        !.delivered = dline[d][l].delivered + OfLine(acc, S, entry, <<d, l>>),
                        !.returned = dline[d][l].returned
                                        + OfLine(BackOn(S, acc), S, entry, <<d, l>>),
                        !.committed = dline[d][l].committed - ClaimedBy(S, entry, <<d, l>>)]
               ELSE dline[d][l]]]
  <2>1. \A d, l : [m \in SaleLines |-> OfLine(back, S, copies, <<parent[d], m>>)]
                    = [m \in SaleLines |-> OfLine(BackOn(S, acc), S, entry, <<parent[d], m>>)]
    BY <1>13, <1>17
  <2>2. \A d \in Deliveries, l \in SaleLines : Carries(S, d, l) =>
          /\ seen.dline[d][l].delivered + OfLine(acc, S, copies, <<d, l>>)
                = dline[d][l].delivered + OfLine(acc, S, entry, <<d, l>>)
          /\ seen.dline[d][l].returned + OfLine(back, S, copies, <<d, l>>)
                = dline[d][l].returned + OfLine(BackOn(S, acc), S, entry, <<d, l>>)
          /\ seen.dline[d][l].committed - ClaimedBy(S, copies, <<d, l>>)
                = dline[d][l].committed - ClaimedBy(S, entry, <<d, l>>)
    BY <1>10, <1>13, <1>14, <1>17, <1>41
  <2>3. \A d \in Deliveries, l \in SaleLines :
          (IF \E e \in S : copies[e].key = <<d, l>>
           THEN [dline[d][l] EXCEPT
                    !.delivered = seen.dline[d][l].delivered + OfLine(acc, S, copies, <<d, l>>),
                    !.returned = seen.dline[d][l].returned + OfLine(back, S, copies, <<d, l>>),
                    !.committed = seen.dline[d][l].committed - ClaimedBy(S, copies, <<d, l>>)]
           ELSE dline[d][l])
          = (IF Carries(S, d, l)
             THEN [dline[d][l] EXCEPT
                      !.delivered = dline[d][l].delivered + OfLine(acc, S, entry, <<d, l>>),
                      !.returned = dline[d][l].returned
                                      + OfLine(BackOn(S, acc), S, entry, <<d, l>>),
                      !.committed = dline[d][l].committed - ClaimedBy(S, entry, <<d, l>>)]
             ELSE dline[d][l])
    BY <1>40, <2>2
  <2> QED
    BY <1>37, <2>1, <2>3
<1>47. onHand' = [w \in Warehouses |->
           onHand[w] - GoodsOf(SentOn(S), S, entry, Through(w))
                     + GoodsOf(BackOn(S, acc), S, entry, From(w))]
  BY <1>1, <1>2, <1>15, <1>17, <1>29 DEF Aboard
<1>48. claim' = [l \in SaleLines |-> claim[l] + GoodsOf(BackOn(S, acc), S, entry, {l})]
  BY <1>1, <1>2, <1>15, <1>17, <1>30 DEF Aboard
<1>49. stop' = [stop EXCEPT ![s].outcome = StopOutcome({settled[d] : d \in OrdersOf(S)})]
  BY <1>18, <1>27
<1>50. CloseWrites(s, S, acc, settled, born, parent)
  BY <1>19, <1>22, <1>28, <1>42, <1>43, <1>44, <1>45, <1>46, <1>47, <1>48, <1>49, Zenon
     DEF CloseWrites
<1>51. sales \in SUBSET Sales
  <2>1. \A e \in S : copies[e].key[2] \in SaleLines
    BY <1>5, EntryIsRooted DEF EntriesAt
  <2> QED
    BY <1>21, <2>1, DeliveryConstants DEF SalesOf
<1>52. Closing(s, S, acc, settled, born, parent)
  BY <1>3, <1>5, <1>20, <1>38, <1>50 DEF Closing
<1> QED
  BY <1>1, <1>2, <1>3, <1>23, <1>51, <1>52
\* What a closure finds of the entries at its stop.
LEMMA ClosingFinds ==
    ASSUME DeliveryInv, NEW s, NEW S, NEW accepted, NEW settled, NEW born, NEW parent,
           Closing(s, S, accepted, settled, born, parent)
    PROVE  /\ s \in Stops /\ stop[s] \in StopRows /\ stop[s] # None /\ S \in SUBSET Entries
           /\ stop[s].trip \in Trips /\ trip[stop[s].trip] # None
           /\ \A e \in S : /\ entry[e] # None /\ entry[e].stop = s /\ entry[e] \in EntryRows
                           /\ entry[e].key \in Keys
           /\ \A d \in OrdersOf(S) : d \in Deliveries /\ delivery[d] # None
           /\ \A d, l : Carries(S, d, l) => /\ d \in OrdersOf(S) /\ l \in SaleLines
                                            /\ dline[d][l] \in DeliveryLines
           /\ \A e \in S : accepted[e] \in Nat /\ BackOn(S, accepted)[e] \in Nat
           /\ born \in SUBSET Deliveries /\ \A d \in born : delivery[d] = None
           /\ DOMAIN settled = OrdersOf(S)
           /\ \A d \in born : parent[d] \in OrdersOf(S)
<1>1. Typed /\ Rooted
  BY DEF DeliveryInv
<1>2. /\ s \in Stops /\ OnTheRoad(s) /\ S = EntriesAt(s) /\ accepted \in [S -> Nat]
      /\ born = FirstFree(Cardinality(SplitOf(settled)))
      /\ parent \in Bijection(born, SplitOf(settled))
  BY DEF Closing
<1>3. /\ \A e \in S : accepted[e] <= entry[e].sent
      /\ settled = Settled(S, entry, accepted)
  BY DEF Closing, CloseWrites
<1>4. stop[s] \in StopRows /\ stop[s] # None /\ S \in SUBSET Entries
  BY <1>1, <1>2 DEF Typed, OnTheRoad, EntriesAt
<1>5. stop[s].trip \in Trips /\ trip[stop[s].trip] # None
  BY <1>1, <1>2, <1>4 DEF StopRows, Rooted
<1>6. \A e \in S : /\ entry[e] # None /\ entry[e].stop = s /\ e \in Entries
  BY <1>2 DEF EntriesAt
<1>7. \A e \in S : /\ entry[e] \in EntryRows /\ entry[e].key \in Keys
                   /\ entry[e].key[1] \in Deliveries /\ delivery[entry[e].key[1]] # None
                   /\ entry[e].key[2] \in SaleLines
                   /\ dline[entry[e].key[1]][entry[e].key[2]] # None
  BY <1>6, EntryIsRooted
<1>8. \A d \in OrdersOf(S) : d \in Deliveries /\ delivery[d] # None
  BY <1>7 DEF OrdersOf
<1>9. \A d, l : Carries(S, d, l) => /\ d \in OrdersOf(S) /\ l \in SaleLines
                                    /\ dline[d][l] \in DeliveryLines
  <2>1. SUFFICES ASSUME NEW d, NEW l, NEW e \in S, entry[e].key = <<d, l>>
                 PROVE  d \in OrdersOf(S) /\ l \in SaleLines /\ dline[d][l] \in DeliveryLines
    BY DEF Carries
  <2>2. d \in OrdersOf(S) /\ d \in Deliveries /\ l \in SaleLines /\ dline[d][l] # None
    BY <1>7, <2>1 DEF OrdersOf
  <2> QED
    BY <1>1, <2>2 DEF Typed
<1>10. \A e \in S : accepted[e] \in Nat /\ BackOn(S, accepted)[e] \in Nat
  <2>1. \A e \in S : entry[e].sent \in Nat
    BY <1>7 DEF EntryRows
  <2> QED
    BY <1>2, <1>3, <2>1 DEF BackOn
<1>11. born \in SUBSET Deliveries /\ \A d \in born : delivery[d] = None
  BY <1>2 DEF FirstFree
<1>12. DOMAIN settled = OrdersOf(S)
  BY <1>3 DEF Settled, OrdersOf
<1>13. \A d \in born : parent[d] \in OrdersOf(S)
  BY <1>2, <1>12 DEF SplitOf, Bijection, Injection
<1> QED
  BY <1>2, <1>4, <1>5, <1>6, <1>7, <1>8, <1>9, <1>10, <1>11, <1>12, <1>13

\* Where orders settle, and the outcome of their stop.
LEMMA SettlesIs ==
    /\ \A m, n : Settles(m, n) \in {"DELIVERED", "FAILED", "PARTIALLY_DELIVERED"}
    /\ \A set : StopOutcome(set) \in Outcomes /\ StopOutcome(set) # "PENDING"
<1>1. \A m, n : Settles(m, n) \in {"DELIVERED", "FAILED", "PARTIALLY_DELIVERED"}
  <2>1. SUFFICES ASSUME NEW m, NEW n
                 PROVE  Settles(m, n) \in {"DELIVERED", "FAILED", "PARTIALLY_DELIVERED"}
    OBVIOUS
  <2>2. CASE n = m
    BY <2>2 DEF Settles
  <2>3. CASE n # m /\ n = 0
    BY <2>3 DEF Settles
  <2>4. CASE n # m /\ n # 0
    BY <2>4 DEF Settles
  <2> QED
    BY <2>2, <2>3, <2>4
<1>2. \A set : StopOutcome(set) \in {"DELIVERED", "FAILED", "PARTIALLY_DELIVERED"}
  <2>1. SUFFICES ASSUME NEW set
                 PROVE  StopOutcome(set) \in {"DELIVERED", "FAILED", "PARTIALLY_DELIVERED"}
    OBVIOUS
  <2>2. CASE set \subseteq {"DELIVERED"}
    BY <2>2 DEF StopOutcome
  <2>3. CASE ~ (set \subseteq {"DELIVERED"}) /\ set = {"FAILED"}
    BY <2>3 DEF StopOutcome
  <2>4. CASE ~ (set \subseteq {"DELIVERED"}) /\ set # {"FAILED"}
    BY <2>4 DEF StopOutcome
  <2> QED
    BY <2>2, <2>3, <2>4
<1> QED
  BY <1>1, <1>2 DEF Outcomes
\* What a closure does to the itinerary.
LEMMA ClosingEntries ==
    ASSUME DeliveryInv, NEW s, NEW S, NEW accepted, NEW settled, NEW born, NEW parent,
           Closing(s, S, accepted, settled, born, parent)
    PROVE  /\ entry' \in [Entries -> EntryRows \cup {None}]
           /\ \A e \in Entries :
                 IF e \in S
                 THEN /\ entry'[e] # None /\ entry'[e].stop = entry[e].stop
                      /\ entry'[e].key = entry[e].key /\ entry'[e].sent = entry[e].sent
                      /\ entry'[e].committed = entry[e].committed
                 ELSE entry'[e] = entry[e]
<1>1. /\ S \in SUBSET Entries /\ \A e \in S : entry[e] # None /\ entry[e] \in EntryRows
      /\ \A e \in S : accepted[e] \in Nat /\ BackOn(S, accepted)[e] \in Nat
  BY ClosingFinds
<1>2. entry' = [e \in Entries |-> IF e \in S
           THEN [entry[e] EXCEPT !.delivered = accepted[e], !.returned = BackOn(S, accepted)[e]]
           ELSE entry[e]]
  BY DEF Closing, CloseWrites
<1>3. Typed
  BY DEF DeliveryInv
<1>4. \A e \in S : /\ entry'[e] \in EntryRows /\ entry'[e].stop = entry[e].stop
                   /\ entry'[e].key = entry[e].key /\ entry'[e].sent = entry[e].sent
                   /\ entry'[e].committed = entry[e].committed
  <2>1. SUFFICES ASSUME NEW e \in S
                 PROVE  /\ entry'[e] \in EntryRows /\ entry'[e].stop = entry[e].stop
                        /\ entry'[e].key = entry[e].key /\ entry'[e].sent = entry[e].sent
                        /\ entry'[e].committed = entry[e].committed
    OBVIOUS
  <2>2. PICK old, m, n : old = entry[e] /\ m = accepted[e] /\ n = BackOn(S, accepted)[e]
    OBVIOUS
  <2>3. old \in EntryRows /\ m \in Nat /\ n \in Nat
    BY <1>1, <2>1, <2>2
  <2>4. PICK now : now = [old EXCEPT !.delivered = m, !.returned = n]
    OBVIOUS
  <2>5. now \in EntryRows
    BY <2>3, <2>4 DEF EntryRows
  <2>6. now.stop = old.stop /\ now.key = old.key
    BY <2>3, <2>4 DEF EntryRows
  <2>7. now.sent = old.sent /\ now.committed = old.committed
    BY <2>3, <2>4 DEF EntryRows
  <2>8. entry'[e] = now
    BY <1>1, <1>2, <2>1, <2>2, <2>4
  <2> QED
    BY <2>2, <2>5, <2>6, <2>7, <2>8
<1>5. \A e \in S : entry'[e] # None
  BY <1>4, NoneIsNoDeliveryRow
<1>6. \A e \in Entries : e \notin S => entry'[e] = entry[e]
  BY <1>2, Zenon
<1>7. entry' \in [Entries -> EntryRows \cup {None}]
  BY <1>1, <1>2, <1>3, <1>4, <1>6 DEF Typed
<1> QED
  BY <1>4, <1>5, <1>6, <1>7

LEMMA ClosingStops ==
    ASSUME DeliveryInv, NEW s, NEW S, NEW accepted, NEW settled, NEW born, NEW parent,
           Closing(s, S, accepted, settled, born, parent)
    PROVE  /\ stop' \in [Stops -> StopRows \cup {None}]
           /\ stop'[s] # None /\ stop'[s].outcome # "PENDING" /\ stop'[s].trip = stop[s].trip
           /\ \A q \in Stops : q # s => stop'[q] = stop[q]
           /\ trip' \in [Trips -> TripRows \cup {None}]
           /\ \A p \in Trips :
                 \/ trip'[p] = trip[p]
                 \/ /\ p = stop[s].trip /\ Siblings(s) = {}
                    /\ trip'[p] # None /\ trip'[p].status = "CLOSED"
<1>1. /\ s \in Stops /\ stop[s] \in StopRows /\ stop[s].trip \in Trips
      /\ trip[stop[s].trip] # None
  BY ClosingFinds
<1>2. Typed
  BY DEF DeliveryInv
<1>3. PICK outcome : outcome = StopOutcome({settled[d] : d \in OrdersOf(S)})
  OBVIOUS
<1>4. outcome \in Outcomes /\ outcome # "PENDING"
  BY <1>3, SettlesIs
<1>5. stop' = [stop EXCEPT ![s].outcome = outcome]
  <2>1. stop' = [stop EXCEPT ![s].outcome = StopOutcome({settled[d] : d \in OrdersOf(S)})]
    BY Zenon DEF Closing, CloseWrites
  <2> QED
    BY <1>3, <2>1, Zenon
<1>6. PICK row : row = [stop[s] EXCEPT !.outcome = outcome]
  OBVIOUS
<1>7. row \in StopRows /\ row.outcome = outcome /\ row.trip = stop[s].trip
  BY <1>1, <1>4, <1>6 DEF StopRows
<1>8. stop' = [stop EXCEPT ![s] = row]
  BY <1>5, <1>6
<1>9. /\ stop' \in [Stops -> StopRows \cup {None}] /\ stop'[s] = row
      /\ \A q \in Stops : q # s => stop'[q] = stop[q]
  BY <1>1, <1>2, <1>7, <1>8 DEF Typed
<1>10. row # None
  BY <1>7, NoneIsNoDeliveryRow
<1>11. PICK p : p = stop[s].trip
  OBVIOUS
<1>12. trip' = IF Siblings(s) = {} THEN [trip EXCEPT ![p].status = "CLOSED"] ELSE trip
  BY <1>11 DEF Closing, CloseWrites
<1>13. PICK closed : closed = [trip[p] EXCEPT !.status = "CLOSED"]
  OBVIOUS
<1>14. closed \in TripRows /\ closed.status = "CLOSED"
  BY <1>1, <1>2, <1>11, <1>13 DEF TripRows, Typed
<1>15. closed # None
  BY <1>14, NoneIsNoDeliveryRow
<1>16. trip' = IF Siblings(s) = {} THEN [trip EXCEPT ![p] = closed] ELSE trip
  BY <1>12, <1>13
<1>17. /\ trip' \in [Trips -> TripRows \cup {None}]
       /\ \A o \in Trips : \/ trip'[o] = trip[o]
                           \/ o = p /\ Siblings(s) = {} /\ trip'[o] = closed
  BY <1>1, <1>2, <1>11, <1>14, <1>16 DEF Typed
<1> QED
  BY <1>4, <1>7, <1>9, <1>10, <1>11, <1>14, <1>15, <1>17

\* What it does to the orders: those aboard settle, and children are born.
LEMMA ClosingOrders ==
    ASSUME DeliveryInv, NEW s, NEW S, NEW accepted, NEW settled, NEW born, NEW parent,
           Closing(s, S, accepted, settled, born, parent)
    PROVE  /\ delivery' \in [Deliveries -> DeliveryRows \cup {None}]
           /\ \A d \in OrdersOf(S) :
                 /\ delivery'[d] # None
                 /\ delivery'[d].status \in {"DELIVERED", "FAILED", "PARTIALLY_DELIVERED"}
                 /\ AssertLegal(delivery[d].status, delivery'[d].status, delivery[d].type)
                 /\ delivery'[d].type = delivery[d].type
                 /\ delivery'[d].facility = delivery[d].facility
                 /\ delivery'[d].parent = delivery[d].parent
                 /\ delivery'[d].status = settled[d]
           /\ \A d \in born :
                 /\ d \notin OrdersOf(S) /\ delivery'[d] # None
                 /\ delivery'[d].status = "IN_PREPARATION" /\ delivery'[d].type = "DELIVERY"
                 /\ delivery'[d].parent = parent[d]
                 /\ \E p \in OrdersOf(S) : delivery'[d].facility = delivery[p].facility
           /\ \A d \in Deliveries : d \notin OrdersOf(S) \cup born => delivery'[d] = delivery[d]
<1>1. /\ S \in SUBSET Entries /\ \A e \in S : entry[e] # None
      /\ \A d \in OrdersOf(S) : d \in Deliveries /\ delivery[d] # None
      /\ born \in SUBSET Deliveries /\ \A d \in born : delivery[d] = None
      /\ \A d \in born : parent[d] \in OrdersOf(S)
  BY ClosingFinds
<1>2. Typed
  BY DEF DeliveryInv
<1>3. delivery' = [d \in Deliveries |->
           IF d \in OrdersOf(S) THEN [delivery[d] EXCEPT !.status = settled[d]]
           ELSE IF d \in born
           THEN [status |-> "IN_PREPARATION", type |-> delivery[parent[d]].type,
                 facility |-> delivery[parent[d]].facility,
                 serial |-> NextFolio(delivery[parent[d]].facility)
                               + Cardinality({c \in born : c < d}),
                 parent |-> parent[d]]
           ELSE delivery[d]]
  BY DEF Closing, CloseWrites
<1>4. \A d \in OrdersOf(S) : settled[d] \in {"DELIVERED", "FAILED", "PARTIALLY_DELIVERED"}
  <2>1. settled = Settled(S, entry, accepted)
    BY DEF Closing, CloseWrites
  <2>2. \A d \in OrdersOf(S) :
           settled[d] = Settles(OfOrder([e \in S |-> entry[e].sent], S, entry, d),
                                OfOrder(accepted, S, entry, d))
    BY <2>1 DEF Settled, OrdersOf
  <2> QED
    BY <2>2, SettlesIs
<1>5. \A d \in OrdersOf(S) : AssertLegal(delivery[d].status, settled[d], delivery[d].type)
  BY DEF Closing, CloseWrites
<1>6. \A d \in OrdersOf(S) :
         /\ delivery'[d] \in DeliveryRows /\ delivery'[d].status = settled[d]
         /\ delivery'[d].type = delivery[d].type
         /\ delivery'[d].facility = delivery[d].facility
         /\ delivery'[d].parent = delivery[d].parent
  <2>1. SUFFICES ASSUME NEW d \in OrdersOf(S)
                 PROVE  /\ delivery'[d] \in DeliveryRows /\ delivery'[d].status = settled[d]
                        /\ delivery'[d].type = delivery[d].type
                        /\ delivery'[d].facility = delivery[d].facility
                        /\ delivery'[d].parent = delivery[d].parent
    OBVIOUS
  <2>2. PICK old, n : old = delivery[d] /\ n = settled[d]
    OBVIOUS
  <2>3. d \in Deliveries /\ old \in DeliveryRows /\ n \in Statuses
    BY <1>1, <1>2, <1>4, <2>1, <2>2 DEF Typed, Statuses
  <2>4. PICK now : now = [old EXCEPT !.status = n]
    OBVIOUS
  <2>5. /\ now \in DeliveryRows /\ now.status = n /\ now.type = old.type
        /\ now.facility = old.facility /\ now.parent = old.parent
    BY <2>3, <2>4 DEF DeliveryRows
  <2>6. delivery'[d] = now
    BY <1>3, <2>1, <2>2, <2>3, <2>4
  <2> QED
    BY <2>2, <2>5, <2>6
<1>7. \A d \in born :
         /\ d \notin OrdersOf(S) /\ delivery'[d] \in DeliveryRows
         /\ delivery'[d].status = "IN_PREPARATION" /\ delivery'[d].type = "DELIVERY"
         /\ delivery'[d].facility = delivery[parent[d]].facility
         /\ delivery'[d].parent = parent[d]
  <2>1. SUFFICES ASSUME NEW d \in born
                 PROVE  /\ d \notin OrdersOf(S) /\ delivery'[d] \in DeliveryRows
                        /\ delivery'[d].status = "IN_PREPARATION"
                        /\ delivery'[d].type = "DELIVERY"
                        /\ delivery'[d].facility = delivery[parent[d]].facility
                        /\ delivery'[d].parent = parent[d]
    OBVIOUS
  <2>2. d \notin OrdersOf(S) /\ d \in Deliveries
    BY <1>1, <2>1
  <2>3. PICK p, old : p = parent[d] /\ old = delivery[p]
    OBVIOUS
  <2>4. p \in OrdersOf(S) /\ p \in Deliveries /\ old \in DeliveryRows
    BY <1>1, <1>2, <2>1, <2>3 DEF Typed
  <2>5. old.type = "DELIVERY"
    <3>1. PICK e \in S : p = entry[e].key[1]
      BY <2>4 DEF OrdersOf
    <3> QED
      BY <1>1, <2>3, <3>1, EntryIsRooted
  <2>6. PICK n : n = NextFolio(old.facility) + Cardinality({c \in born : c < d})
    OBVIOUS
  <2>7. n \in Nat
    <3>1. NextFolio(old.facility) \in Nat
      BY <1>2, FolioIsNat DEF Typed, NextFolio
    <3>2. IsFiniteSet({c \in born : c < d})
      BY <1>1, DeliveryConstants, FS_Subset
    <3>3. Cardinality({c \in born : c < d}) \in Nat
      BY <3>2, FS_CardinalityType
    <3> QED
      BY <2>6, <3>1, <3>3
  <2>8. PICK now : now = [status |-> "IN_PREPARATION", type |-> old.type,
                          facility |-> old.facility, serial |-> n, parent |-> p]
    OBVIOUS
  <2>9. delivery'[d] = now
    BY <1>3, <2>2, <2>1, <2>3, <2>6, <2>8
  <2>10. now \in DeliveryRows
    BY <2>4, <2>7, <2>8 DEF DeliveryRows, Statuses
  <2> QED
    BY <2>2, <2>3, <2>5, <2>8, <2>9, <2>10
<1>8. \A d \in Deliveries : d \notin OrdersOf(S) \cup born => delivery'[d] = delivery[d]
  BY <1>3
<1>9. delivery' \in [Deliveries -> DeliveryRows \cup {None}]
  BY <1>2, <1>3, <1>6, <1>7, <1>8 DEF Typed
<1>10. \A d \in Deliveries : delivery'[d] \in DeliveryRows => delivery'[d] # None
  BY NoneIsNoDeliveryRow
<1> QED
  BY <1>1, <1>4, <1>5, <1>6, <1>7, <1>8, <1>9, <1>10
\* What it does to the lines of orders.
LEMMA ClosingLines ==
    ASSUME DeliveryInv, NEW s, NEW S, NEW accepted, NEW settled, NEW born, NEW parent,
           Closing(s, S, accepted, settled, born, parent)
    PROVE  /\ dline' \in [Deliveries -> [SaleLines -> DeliveryLines \cup {None}]]
           /\ \A d \in born, l \in SaleLines : dline'[d][l] # None =>
                 dline'[d][l].committed = 0 /\ dline'[d][l].delivered = 0
           /\ \A d \in born, l \in SaleLines :
                 dline'[d][l] = LET q == OfLine(BackOn(S, accepted), S, entry, <<parent[d], l>>)
                                IN  IF q > 0 THEN NewLine(q) ELSE None
           /\ \A d \in Deliveries, l \in SaleLines : d \notin born =>
                 IF Carries(S, d, l)
                 THEN /\ dline'[d][l] # None
                      /\ dline'[d][l].delivered
                            = dline[d][l].delivered + OfLine(accepted, S, entry, <<d, l>>)
                      /\ dline'[d][l].committed
                            = dline[d][l].committed - ClaimedBy(S, entry, <<d, l>>)
                      /\ dline'[d][l].quantity = dline[d][l].quantity
                      /\ dline'[d][l].returned
                            = dline[d][l].returned
                                 + OfLine(BackOn(S, accepted), S, entry, <<d, l>>)
                 ELSE dline'[d][l] = dline[d][l]
<1>1. /\ S \in SUBSET Entries /\ \A e \in S : entry[e] # None
      /\ \A d, l : Carries(S, d, l) => /\ d \in OrdersOf(S) /\ l \in SaleLines
                                       /\ dline[d][l] \in DeliveryLines
      /\ \A e \in S : accepted[e] \in Nat /\ BackOn(S, accepted)[e] \in Nat
      /\ born \in SUBSET Deliveries
  BY ClosingFinds
<1>2. Typed
  BY DEF DeliveryInv
<1>3. dline' = [d \in Deliveries |->
           IF d \in born
           THEN Remainder([l \in SaleLines |->
                    OfLine(BackOn(S, accepted), S, entry, <<parent[d], l>>)])
           ELSE [l \in SaleLines |->
               IF Carries(S, d, l)
               THEN [dline[d][l] EXCEPT
                        !.delivered = dline[d][l].delivered + OfLine(accepted, S, entry, <<d, l>>),
                        !.returned = dline[d][l].returned
                                        + OfLine(BackOn(S, accepted), S, entry, <<d, l>>),
                        !.committed = dline[d][l].committed - ClaimedBy(S, entry, <<d, l>>)]
               ELSE dline[d][l]]]
  BY DEF Closing, CloseWrites
<1>4. \A k : /\ OfLine(accepted, S, entry, k) \in Nat
             /\ OfLine(BackOn(S, accepted), S, entry, k) \in Nat
  <2>1. SUFFICES ASSUME NEW k
                 PROVE  /\ OfLine(accepted, S, entry, k) \in Nat
                        /\ OfLine(BackOn(S, accepted), S, entry, k) \in Nat
    OBVIOUS
  <2> DEFINE T == {e \in S : entry[e].key = k}
  <2>2. /\ IsFiniteSet(T) /\ \A e \in T : accepted[e] \in Nat
        /\ \A e \in T : BackOn(S, accepted)[e] \in Nat
    BY <1>1, EntriesAreFinite
  <2>3. /\ OfLine(accepted, S, entry, k) = SumFunctionOnSet(accepted, T)
        /\ OfLine(BackOn(S, accepted), S, entry, k) = SumFunctionOnSet(BackOn(S, accepted), T)
    BY DEF OfLine
  <2> HIDE DEF T
  <2> QED
    BY <2>2, <2>3, SumIsNat
<1>5. \A k : ClaimedBy(S, entry, k) \in Nat
  BY <1>1, ClaimedIsNat
<1>6. \A d \in born, l \in SaleLines :
         \/ dline'[d][l] = None
         \/ /\ dline'[d][l] \in DeliveryLines
            /\ dline'[d][l].committed = 0 /\ dline'[d][l].delivered = 0
  <2>1. SUFFICES ASSUME NEW d \in born, NEW l \in SaleLines
                 PROVE  \/ dline'[d][l] = None
                        \/ /\ dline'[d][l] \in DeliveryLines
                           /\ dline'[d][l].committed = 0 /\ dline'[d][l].delivered = 0
    OBVIOUS
  <2>2. PICK p, q : p = parent[d] /\ q = OfLine(BackOn(S, accepted), S, entry, <<p, l>>)
    OBVIOUS
  <2>3. q \in Nat
    BY <1>4, <2>2
  <2>4. dline'[d][l] = IF q > 0 THEN NewLine(q) ELSE None
    BY <1>1, <1>3, <2>1, <2>2 DEF Remainder
  <2> QED
    BY <2>3, <2>4 DEF NewLine, DeliveryLines
<1>7. \A d \in Deliveries, l \in SaleLines : d \notin born =>
         IF Carries(S, d, l)
         THEN /\ dline'[d][l] \in DeliveryLines
              /\ dline'[d][l].delivered
                    = dline[d][l].delivered + OfLine(accepted, S, entry, <<d, l>>)
              /\ dline'[d][l].committed
                    = dline[d][l].committed - ClaimedBy(S, entry, <<d, l>>)
              /\ dline'[d][l].quantity = dline[d][l].quantity
              /\ dline'[d][l].returned
                    = dline[d][l].returned + OfLine(BackOn(S, accepted), S, entry, <<d, l>>)
         ELSE dline'[d][l] = dline[d][l]
  <2>1. SUFFICES ASSUME NEW d \in Deliveries, NEW l \in SaleLines, d \notin born, Carries(S, d, l)
                 PROVE  /\ dline'[d][l] \in DeliveryLines
                        /\ dline'[d][l].delivered
                              = dline[d][l].delivered + OfLine(accepted, S, entry, <<d, l>>)
                        /\ dline'[d][l].committed
                              = dline[d][l].committed - ClaimedBy(S, entry, <<d, l>>)
                        /\ dline'[d][l].quantity = dline[d][l].quantity
                        /\ dline'[d][l].returned
                              = dline[d][l].returned
                                   + OfLine(BackOn(S, accepted), S, entry, <<d, l>>)
    BY <1>3
  <2>2. PICK old, m, n, c : /\ old = dline[d][l] /\ m = OfLine(accepted, S, entry, <<d, l>>)
                            /\ n = OfLine(BackOn(S, accepted), S, entry, <<d, l>>)
                            /\ c = ClaimedBy(S, entry, <<d, l>>)
    OBVIOUS
  <2>3. old \in DeliveryLines /\ m \in Nat /\ n \in Nat /\ c \in Nat
    BY <1>1, <1>4, <1>5, <2>1, <2>2
  <2>4. PICK a, b, k : a = old.delivered + m /\ b = old.returned + n /\ k = old.committed - c
    OBVIOUS
  <2>5. a \in Nat /\ b \in Nat /\ k \in Int
    BY <2>3, <2>4 DEF DeliveryLines
  <2>6. PICK now : now = [old EXCEPT !.delivered = a, !.returned = b, !.committed = k]
    OBVIOUS
  <2>7. now \in DeliveryLines
    BY <2>3, <2>5, <2>6 DEF DeliveryLines
  <2>8. now.delivered = a
    BY <2>3, <2>6 DEF DeliveryLines
  <2>9. now.committed = k /\ now.quantity = old.quantity /\ now.returned = b
    BY <2>3, <2>6 DEF DeliveryLines
  <2>10. dline'[d][l] = now
    BY <1>3, <2>1, <2>2, <2>4, <2>6
  <2> QED
    BY <2>2, <2>4, <2>7, <2>8, <2>9, <2>10
<1>8. \A d \in born, l \in SaleLines :
         dline'[d][l] = LET q == OfLine(BackOn(S, accepted), S, entry, <<parent[d], l>>)
                        IN  IF q > 0 THEN NewLine(q) ELSE None
  BY <1>1, <1>3 DEF Remainder
<1>9. dline' \in [Deliveries -> [SaleLines -> DeliveryLines \cup {None}]]
  <2>1. \A d \in Deliveries, l \in SaleLines : dline'[d][l] \in DeliveryLines \cup {None}
    BY <1>2, <1>6, <1>7, Zenon DEF Typed
  <2>2. \A d \in Deliveries : dline'[d] = [l \in SaleLines |-> dline'[d][l]]
    BY <1>3 DEF Remainder
  <2>3. dline' = [d \in Deliveries |-> dline'[d]]
    BY <1>3
  <2> QED
    BY <2>1, <2>2, <2>3
<1> QED
  BY <1>6, <1>7, <1>8, <1>9, NoneIsNoDeliveryRow

\* What it does to the reservations and the ledger.
LEMMA ClosingFigures ==
    ASSUME DeliveryInv, NEW s, NEW S, NEW accepted, NEW settled, NEW born, NEW parent,
           Closing(s, S, accepted, settled, born, parent)
    PROVE  claim' \in [SaleLines -> Int] /\ onHand' \in [Warehouses -> Int] /\ UNCHANGED sale
<1>1. /\ S \in SUBSET Entries /\ \A e \in S : entry[e] \in EntryRows
      /\ \A e \in S : BackOn(S, accepted)[e] \in Nat
  BY ClosingFinds
<1>2. \A e \in S : SentOn(S)[e] \in Nat
  BY <1>1 DEF SentOn, EntryRows
<1>3. /\ \A lines : GoodsOf(SentOn(S), S, entry, lines) \in Nat
      /\ \A lines : GoodsOf(BackOn(S, accepted), S, entry, lines) \in Nat
  BY <1>1, <1>2, GoodsIsNat
<1>4. /\ \A l \in SaleLines : claim[l] \in Int
      /\ \A w \in Warehouses : onHand[w] \in Int
  BY DEF DeliveryInv, Typed
<1>5. onHand' = [w \in Warehouses |->
           onHand[w] - GoodsOf(SentOn(S), S, entry, Through(w))
                     + GoodsOf(BackOn(S, accepted), S, entry, From(w))]
  BY Zenon DEF Closing, CloseWrites
<1>6. claim' = [l \in SaleLines |-> claim[l] + GoodsOf(BackOn(S, accepted), S, entry, {l})]
  BY Zenon DEF Closing, CloseWrites
<1>7. UNCHANGED sale
  BY DEF Closing, CloseWrites
<1>8. claim' \in [SaleLines -> Int]
  BY <1>3, <1>4, <1>6
<1>9. onHand' \in [Warehouses -> Int]
  BY <1>3, <1>4, <1>5
<1> QED
  BY <1>7, <1>8, <1>9
\* A closure leaves alone what another one relies on.
LEMMA ClosingApart ==
    ASSUME DeliveryInv, NEW s, NEW S, NEW accepted, NEW settled, NEW born, NEW parent,
           Closing(s, S, accepted, settled, born, parent), NEW y, y.op = "close", Sound(y),
           TripRow(stop[s].trip) \notin y.rows,
           \A e \in S : FacilityRow(delivery[entry[e].key[1]].facility) \notin y.rows
    PROVE  Sound(y)'
<1>1. PICK o : o = y.arg.stop
  OBVIOUS
<1>2. /\ o \in Stops /\ OnTheRoad(o) /\ y.arg.aboard = EntriesAt(o)
      /\ TripRow(stop[o].trip) \in y.rows
      /\ \A e \in y.arg.aboard :
            /\ y.seen.entry[e] = entry[e]
            /\ y.seen.delivery[entry[e].key[1]] = delivery[entry[e].key[1]]
            /\ y.seen.dline[entry[e].key[1]] = dline[entry[e].key[1]]
            /\ FacilityRow(delivery[entry[e].key[1]].facility) \in y.rows
      /\ \A q \in Stops : (stop[q] # None /\ stop[q].trip = stop[o].trip)
                          \/ (y.seen.stop[q] # None /\ y.seen.stop[q].trip = stop[o].trip)
                          => y.seen.stop[q] = stop[q]
  BY <1>1 DEF Sound, SoundClose
<1>3. Typed /\ Rooted
  BY DEF DeliveryInv
<1>4. /\ s \in Stops /\ stop[s] # None /\ S \in SUBSET Entries
      /\ \A e \in S : entry[e] # None /\ entry[e].stop = s
      /\ born \in SUBSET Deliveries /\ \A d \in born : delivery[d] = None
      /\ \A d, l : Carries(S, d, l) => d \in OrdersOf(S)
  BY ClosingFinds
<1>5. stop[o].trip # stop[s].trip /\ o # s
  BY <1>2
<1>6. stop'[s] # None /\ stop'[s].trip = stop[s].trip /\ \A q \in Stops : q # s => stop'[q] = stop[q]
  BY ClosingStops
<1>7. stop'[o] = stop[o] /\ stop[o] # None /\ stop[o].trip \in Trips
  BY <1>2, <1>3, <1>5, <1>6 DEF OnTheRoad, Typed, StopRows
<1>8. trip'[stop[o].trip] = trip[stop[o].trip]
  BY <1>5, <1>7, ClosingStops
<1>9. OnTheRoad(o)'
  BY <1>2, <1>7, <1>8 DEF OnTheRoad
<1>10. \A e \in Entries : /\ entry'[e] = None <=> entry[e] = None
                          /\ entry[e] # None => entry'[e].stop = entry[e].stop
                          /\ e \notin S => entry'[e] = entry[e]
  BY <1>4, ClosingEntries
<1>11. EntriesAt(o)' = EntriesAt(o)
  BY <1>10 DEF EntriesAt
<1>12. \A e \in EntriesAt(o) : e \in Entries /\ e \notin S
  BY <1>4, <1>5 DEF EntriesAt
<1>13. \A e \in EntriesAt(o) :
          LET d == entry[e].key[1]
          IN  d \notin OrdersOf(S) /\ d \in Deliveries /\ d \notin born
  <2>1. SUFFICES ASSUME NEW e \in EntriesAt(o), NEW d, d = entry[e].key[1]
                 PROVE  d \notin OrdersOf(S) /\ d \in Deliveries /\ d \notin born
    OBVIOUS
  <2>2. d \in Deliveries /\ delivery[d] # None
    BY <2>1, EntryIsRooted DEF EntriesAt
  <2>3. FacilityRow(delivery[d].facility) \in y.rows
    BY <1>2, <2>1
  <2>4. d \notin OrdersOf(S)
    BY <2>3 DEF OrdersOf
  <2> QED
    BY <1>4, <2>2, <2>4
<1>14. \A d \in Deliveries : d \notin OrdersOf(S) /\ d \notin born =>
          delivery'[d] = delivery[d] /\ dline'[d] = dline[d]
  <2>1. SUFFICES ASSUME NEW d \in Deliveries, d \notin OrdersOf(S), d \notin born
                 PROVE  delivery'[d] = delivery[d] /\ dline'[d] = dline[d]
    OBVIOUS
  <2>2. delivery'[d] = delivery[d]
    BY <2>1, ClosingOrders
  <2>3. \A l \in SaleLines : dline'[d][l] = dline[d][l]
    <3>1. \A x \in Deliveries, l \in SaleLines : x \notin born =>
               IF Carries(S, x, l)
               THEN /\ dline'[x][l] # None
                    /\ dline'[x][l].delivered
                          = dline[x][l].delivered + OfLine(accepted, S, entry, <<x, l>>)
                    /\ dline'[x][l].committed
                          = dline[x][l].committed - ClaimedBy(S, entry, <<x, l>>)
               ELSE dline'[x][l] = dline[x][l]
      BY ClosingLines
    <3>2. \A l \in SaleLines : ~ Carries(S, d, l)
      BY <1>4, <2>1
    <3> QED
      BY <2>1, <3>1, <3>2
  <2>4. dline' \in [Deliveries -> [SaleLines -> DeliveryLines \cup {None}]]
    BY ClosingLines
  <2>5. dline'[d] = dline[d]
    BY <1>3, <2>3, <2>4 DEF Typed
  <2> QED
    BY <2>2, <2>5
<1>15. \A e \in y.arg.aboard :
          LET d == entry'[e].key[1]
          IN  /\ y.seen.entry[e] = entry'[e] /\ y.seen.delivery[d] = delivery'[d]
              /\ y.seen.dline[d] = dline'[d]
              /\ FacilityRow(delivery'[d].facility) \in y.rows
  BY <1>2, <1>10, <1>12, <1>13, <1>14
<1>16. \A q \in Stops : (stop'[q] # None /\ stop'[q].trip = stop[o].trip)
                        \/ (y.seen.stop[q] # None /\ y.seen.stop[q].trip = stop[o].trip)
                        => y.seen.stop[q] = stop'[q]
  BY <1>2, <1>4, <1>5, <1>6
<1>17. SoundClose(y)'
  BY <1>1, <1>2, <1>7, <1>9, <1>11, <1>15, <1>16 DEF SoundClose
<1>18. SoundOrder(y)' /\ SoundTrip(y)'
  BY DEF SoundOrder, SoundTrip, Solo, Steps
<1> QED
  BY <1>17, <1>18 DEF Sound

LEMMA CloseCommitSafe ==
    ASSUME DeliveryInv, NEW r \in Requests, NEW given \in [txn[r].arg.aboard -> Nat],
           CloseCommit(r, given)
    PROVE  DeliveryInv'
<1>1. PICK s, S, accepted, settled, born, parent, sales :
         /\ txn[r].op = "close" /\ S = txn[r].arg.aboard /\ s = txn[r].arg.stop
         /\ Closing(s, S, accepted, settled, born, parent)
         /\ sales \in SUBSET Sales /\ Refreshes(r, sales)
  BY CloseReads
<1>2. Typed /\ Rooted /\ Beside
  BY DEF DeliveryInv
<1>3. Typed'
  <2>1. sale' \in [Sales -> BOOLEAN]
    BY <1>1, <1>2, ClosingFigures DEF Typed
  <2>2. claim' \in [SaleLines -> Int] /\ onHand' \in [Warehouses -> Int]
    BY <1>1, ClosingFigures
  <2>3. delivery' \in [Deliveries -> DeliveryRows \cup {None}]
    BY <1>1, ClosingOrders
  <2>4. dline' \in [Deliveries -> [SaleLines -> DeliveryLines \cup {None}]]
    BY <1>1, ClosingLines
  <2>5. trip' \in [Trips -> TripRows \cup {None}] /\ stop' \in [Stops -> StopRows \cup {None}]
    BY <1>1, ClosingStops
  <2>6. entry' \in [Entries -> EntryRows \cup {None}]
    BY <1>1, ClosingEntries
  <2> QED
    BY <2>1, <2>2, <2>3, <2>4, <2>5, <2>6 DEF Typed
<1>4. /\ s \in Stops /\ stop[s] # None /\ S \in SUBSET Entries
      /\ stop[s].trip \in Trips /\ trip[stop[s].trip] # None
      /\ \A e \in S : entry[e] # None
      /\ \A d \in OrdersOf(S) : d \in Deliveries /\ delivery[d] # None
      /\ born \in SUBSET Deliveries /\ \A d \in born : delivery[d] = None
      /\ \A d, l : Carries(S, d, l) => d \in OrdersOf(S) /\ l \in SaleLines
  BY <1>1, ClosingFinds
<1>5. \A d \in Deliveries :
         /\ delivery'[d] = None => delivery[d] = None /\ d \notin born /\ d \notin OrdersOf(S)
         /\ delivery[d] # None => /\ delivery'[d] # None /\ d \notin born
                                  /\ delivery'[d].type = delivery[d].type
         /\ delivery'[d] # None /\ delivery'[d].status \in Early =>
               delivery'[d] = delivery[d] /\ d \notin born /\ d \notin OrdersOf(S)
         /\ delivery[d] # None /\ delivery[d].status \notin Early =>
               delivery'[d].status \notin Early
  <2>1. \A d \in OrdersOf(S) :
           /\ delivery'[d] # None /\ delivery'[d].type = delivery[d].type
           /\ delivery'[d].status \in {"DELIVERED", "FAILED", "PARTIALLY_DELIVERED"}
    BY <1>1, ClosingOrders
  <2>2. \A d \in born : delivery'[d] # None /\ delivery'[d].status = "IN_PREPARATION"
    BY <1>1, ClosingOrders
  <2>3. \A d \in Deliveries : d \notin OrdersOf(S) \cup born => delivery'[d] = delivery[d]
    BY <1>1, ClosingOrders
  <2> QED
    BY <1>4, <2>1, <2>2, <2>3 DEF Early
<1>6. \A d \in Deliveries, l \in SaleLines :
         /\ d \notin born /\ d \notin OrdersOf(S) => dline'[d][l] = dline[d][l]
         /\ d \notin born /\ dline[d][l] # None => dline'[d][l] # None
  <2>1. Closing(s, S, accepted, settled, born, parent)
    BY <1>1
  <2>2. \A x \in Deliveries, l \in SaleLines : x \notin born =>
             IF Carries(S, x, l)
             THEN /\ dline'[x][l] # None
                  /\ dline'[x][l].delivered
                        = dline[x][l].delivered + OfLine(accepted, S, entry, <<x, l>>)
                  /\ dline'[x][l].committed
                        = dline[x][l].committed - ClaimedBy(S, entry, <<x, l>>)
             ELSE dline'[x][l] = dline[x][l]
    BY <2>1, ClosingLines
  <2> QED
    BY <1>4, <2>2
<1>7. Rooted'
  <2>1. \A d \in Deliveries : delivery'[d] = None => \A l \in SaleLines : dline'[d][l] = None
    BY <1>2, <1>5, <1>6 DEF Rooted
  <2>2. \A d \in Deliveries, l \in SaleLines :
          delivery'[d] # None /\ delivery'[d].status \in Early /\ dline'[d][l] # None =>
              dline'[d][l].delivered = 0
    BY <1>2, <1>5, <1>6 DEF Rooted
  <2>3. \A q \in Stops : stop'[q] # None =>
          /\ trip'[stop'[q].trip] # None
          /\ IsOpen(stop[q].trip)' => stop'[q].outcome = "PENDING"
    <3>1. SUFFICES ASSUME NEW q \in Stops, stop'[q] # None
                   PROVE  /\ trip'[stop'[q].trip] # None
                          /\ IsOpen(stop[q].trip)' => stop'[q].outcome = "PENDING"
      OBVIOUS
    <3>2. \A o \in Stops : o # s => stop'[o] = stop[o]
      BY <1>1, ClosingStops
    <3>3. stop'[s].trip = stop[s].trip
      BY <1>1, ClosingStops
    <3>4. stop[q] # None /\ stop'[q].trip = stop[q].trip
      BY <1>4, <3>1, <3>2, <3>3
    <3>5. stop[q].trip \in Trips /\ trip[stop[q].trip] # None
      BY <1>2, <3>4 DEF Typed, StopRows, Rooted
    <3>6. \A p \in Trips : \/ trip'[p] = trip[p]
                           \/ trip'[p] # None /\ trip'[p].status = "CLOSED"
      BY <1>1, ClosingStops
    <3>7. trip'[stop'[q].trip] # None
      BY <3>4, <3>5, <3>6
    <3>8. ASSUME IsOpen(stop[q].trip)'
          PROVE  stop'[q].outcome = "PENDING"
      <4>1. trip'[stop[q].trip] # None /\ trip'[stop[q].trip].status = "OPEN"
        BY <3>4, <3>8 DEF IsOpen
      <4>2. IsOpen(stop[q].trip)
        BY <3>5, <3>6, <4>1 DEF IsOpen
      <4>3. stop[q].outcome = "PENDING"
        BY <1>2, <3>4, <4>2 DEF Rooted
      <4>4. q # s
        BY <1>1, <4>2 DEF Closing, OnTheRoad, IsOpen
      <4> QED
        BY <3>2, <4>3, <4>4
    <3> QED
      BY <3>7, <3>8
  <2>4. \A o \in Entries : entry'[o] # None =>
          LET j == entry'[o].key
          IN  /\ stop'[entry'[o].stop] # None
              /\ delivery'[j[1]] # None /\ dline'[j[1]][j[2]] # None
              /\ delivery'[j[1]].type = "DELIVERY" /\ delivery'[j[1]].status \notin Early
    <3>1. SUFFICES ASSUME NEW o \in Entries, entry'[o] # None, NEW j, j = entry'[o].key
                   PROVE  /\ stop'[entry'[o].stop] # None
                          /\ delivery'[j[1]] # None /\ dline'[j[1]][j[2]] # None
                          /\ delivery'[j[1]].type = "DELIVERY"
                          /\ delivery'[j[1]].status \notin Early
      OBVIOUS
    <3>2. /\ entry[o] # None /\ j = entry[o].key /\ entry'[o].stop = entry[o].stop
      BY <1>1, <1>4, <3>1, ClosingEntries
    <3>3. /\ j[1] \in Deliveries /\ j[2] \in SaleLines /\ entry[o].stop \in Stops
          /\ stop[entry[o].stop] # None /\ delivery[j[1]] # None /\ dline[j[1]][j[2]] # None
          /\ delivery[j[1]].type = "DELIVERY" /\ delivery[j[1]].status \notin Early
      BY <3>2, EntryIsRooted
    <3>4. stop'[entry[o].stop] # None
      BY <1>1, <3>3, ClosingStops
    <3> QED
      BY <1>5, <1>6, <3>2, <3>3, <3>4
  <2> QED
    BY <2>1, <2>2, <2>3, <2>4 DEF Rooted
<1>8. PICK u : /\ txn' = [txn EXCEPT ![r] = u]
               /\ u = Idle \/ (u.op = "refresh" /\ u.rows = {} /\ Sound(u)')
  BY <1>1, RefreshesNext
<1>9. Beside' /\ txn'[r] = u /\ \A q \in Requests : q # r => txn'[q] = txn[q]
  BY <1>1, <1>2, <1>8, GoesOn
<1>10. \A q \in Requests : q # r => Sound(txn[q])'
  <2>1. SUFFICES ASSUME NEW q \in Requests, q # r PROVE Sound(txn[q])'
    OBVIOUS
  <2>2. PICK y, t : y = txn[q] /\ t = txn[r]
    OBVIOUS
  <2>3. y = txn'[q] /\ Sound(y) /\ Sound(t)
    BY <1>9, <2>1, <2>2 DEF DeliveryInv
  <2>4. y.op \in {"idle", "close", "refresh"} /\ (y.op = "idle" => y = Idle)
    BY <1>1, <1>2, <2>1, <2>2 DEF Beside
  <2>5. CASE y.op = "idle"
    BY <2>3, <2>4, <2>5 DEF Sound, SoundOrder, SoundTrip, SoundClose, Idle, Solo, Steps
  <2>6. CASE y.op = "refresh"
    <3>1. Sound(y)'
      BY <2>3, <2>6 DEF Sound, SoundOrder, SoundTrip, SoundClose, Solo, Steps
    <3> QED
      BY <2>3, <3>1, SoundIs
  <2>7. CASE y.op = "close"
    <3>1. t.rows \cap y.rows = {}
      BY <1>1, <1>2, <2>1, <2>2, <2>7, Zenon DEF Beside, Holds, Idle
    <3>2. /\ TripRow(stop[s].trip) \in t.rows
          /\ \A e \in S : FacilityRow(delivery[entry[e].key[1]].facility) \in t.rows
      BY <1>1, <2>2, <2>3 DEF Sound, SoundClose
    <3>3. Sound(y)'
      BY <1>1, <2>3, <2>7, <3>1, <3>2, ClosingApart
    <3> QED
      BY <2>3, <3>3, SoundIs
  <2> QED
    BY <2>4, <2>5, <2>6, <2>7
<1> QED
  BY <1>3, <1>7, <1>8, <1>9, <1>10, AllSound
-----------------------------------------------------------------------------
(***************************************************************************)
(* The invariant holds.                                                    *)
(***************************************************************************)
LEMMA DeliveryInit ==
    ASSUME Init
    PROVE  DeliveryInv
<1>1. sale \in [Sales -> BOOLEAN]
  BY DEF Init
<1>2. claim \in [SaleLines -> Int]
  BY DeliveryConstants DEF Init
<1>3. delivery \in [Deliveries -> DeliveryRows \cup {None}]
  BY DEF Init
<1>4. dline \in [Deliveries -> [SaleLines -> DeliveryLines \cup {None}]]
  BY DEF Init
<1>5. trip \in [Trips -> TripRows \cup {None}] /\ stop \in [Stops -> StopRows \cup {None}]
  BY DEF Init
<1>6. entry \in [Entries -> EntryRows \cup {None}]
  BY DEF Init
<1>7. onHand \in [Warehouses -> Int]
  BY DeliveryConstants DEF Init
<1>8. Typed
  BY <1>1, <1>2, <1>3, <1>4, <1>5, <1>6, <1>7 DEF Typed
<1>9. Rooted
  BY DEF Rooted, Init
<1>10. \A q \in Requests : txn[q] = Idle
  BY DEF Init
<1>11. txn = [q \in Requests |-> txn[q]]
  BY DEF Init
<1>12. Beside
  BY <1>10, <1>11 DEF Beside, Holds, Idle
<1>13. \A q \in Requests : Sound(txn[q])
  BY <1>10, IdleIsSound
<1> QED
  BY <1>8, <1>9, <1>12, <1>13 DEF DeliveryInv

\* The quantities requests ask for.
LEMMA QuantitiesAreNat ==
    /\ Quantities \subseteq Nat \ {0} /\ \A l \in SaleLines : 1 .. Sold[l] \subseteq Nat
    /\ 0 .. Max({Sold[l] : l \in SaleLines}) \subseteq Nat
    /\ 0 .. Max(Quantities) \subseteq Nat
BY DEF Quantities

LEMMA OrderStepSafe ==
    ASSUME OneAtATime, DeliveryInv, OrderNext
    PROVE  DeliveryInv'
<1>1. CASE \E r \in Requests, s \in Sales, type \in Fulfillments,
              chosen \in [SaleLines -> 0 .. Max({Sold[l] : l \in SaleLines})] :
              CreateBegin(r, s, type, chosen)
  <2>1. PICK r \in Requests, s \in Sales, type \in Fulfillments,
             chosen \in [SaleLines -> 0 .. Max({Sold[l] : l \in SaleLines})] :
             CreateBegin(r, s, type, chosen)
    BY <1>1
  <2>2. chosen \in [SaleLines -> Nat]
    BY QuantitiesAreNat
  <2> QED
    BY <2>1, <2>2, CreateBeginSafe
<1>2. CASE \E r \in Requests, d \in Deliveries : CreateCommit(r, d)
  BY <1>2, CreateCommitSafe
<1>3. CASE \E r \in Requests, d \in Deliveries, l \in SaleLines :
              \E q \in 1 .. Sold[l] : AddBegin(r, d, l, q) \/ UpdateBegin(r, d, l, q)
  <2>1. PICK r \in Requests, d \in Deliveries, l \in SaleLines :
             \E q \in 1 .. Sold[l] : AddBegin(r, d, l, q) \/ UpdateBegin(r, d, l, q)
    BY <1>3
  <2>2. PICK q \in 1 .. Sold[l] : AddBegin(r, d, l, q) \/ UpdateBegin(r, d, l, q)
    BY <2>1
  <2>3. q \in Nat
    BY QuantitiesAreNat
  <2>4. CASE AddBegin(r, d, l, q)
    BY <2>3, <2>4, AddBeginSafe
  <2>5. CASE UpdateBegin(r, d, l, q)
    BY <2>3, <2>5, UpdateBeginSafe
  <2> QED
    BY <2>2, <2>4, <2>5
<1>4. CASE \E r \in Requests, d \in Deliveries, l \in SaleLines : DeleteBegin(r, d, l)
  BY <1>4, DeleteBeginSafe
<1>5. CASE \E r \in Requests : EditCommit(r)
  BY <1>5, EditCommitSafe
<1>6. CASE \E r \in Requests, d \in Deliveries : ConfirmBegin(r, d)
  BY <1>6, ConfirmBeginSafe
<1>7. CASE \E r \in Requests : ConfirmCommit(r)
  BY <1>7, ConfirmCommitSafe
<1>8. CASE \E r \in Requests, step \in Steps, d \in Deliveries : StepBegin(r, step, d)
  BY <1>8, StepBeginSafe
<1>9. CASE \E r \in Requests : StepCommit(r)
  BY <1>9, StepCommitSafe
<1>10. CASE \E r \in Requests, d \in Deliveries : PickupBegin(r, d)
  BY <1>10, PickupBeginSafe
<1>11. CASE \E r \in Requests : PickupCommit(r)
  BY <1>11, PickupCommitSafe
<1>12. CASE \E r \in Requests, s \in Sales : Refresh(r, s)
  BY <1>12, RefreshSafe
<1> QED
  BY <1>1, <1>2, <1>3, <1>4, <1>5, <1>6, <1>7, <1>8, <1>9, <1>10, <1>11, <1>12 DEF OrderNext

LEMMA ItineraryStepSafe ==
    ASSUME OneAtATime, DeliveryInv, Plan \/ Load \/ Unload \/ Travel
    PROVE  DeliveryInv'
<1>1. CASE Plan
  BY <1>1, TripBeginSafe, TripCommitSafe, UpdateTripSafe, StopBeginSafe, StopCommitSafe DEF Plan
<1>2. CASE Load
  <2>1. CASE \E r \in Requests, s \in Stops, k \in Keys, q \in Quantities : LoadBegin(r, s, k, q)
    BY <2>1, QuantitiesAreNat, LoadBeginSafe
  <2>2. CASE \E r \in Requests, e \in Entries : LoadCommit(r, e)
    BY <2>2, LoadCommitSafe
  <2>3. CASE \E r \in Requests, s \in Stops, d \in Deliveries : WholeBegin(r, s, d)
    BY <2>3, WholeBeginSafe
  <2>4. CASE \E r \in Requests, e \in Entries, k \in Keys : WholeCommit(r, e, k)
    BY <2>4, WholeCommitSafe
  <2>5. CASE \E r \in Requests, e \in Entries, q \in Quantities : AdjustBegin(r, e, q)
    BY <2>5, QuantitiesAreNat, AdjustBeginSafe
  <2>6. CASE \E r \in Requests : AdjustCommit(r)
    BY <2>6, AdjustCommitSafe
  <2> QED
    BY <1>2, <2>1, <2>2, <2>3, <2>4, <2>5, <2>6 DEF Load
<1>3. CASE Unload
  BY <1>3, ReleaseBeginSafe, RemoveBeginSafe, CancelTripBeginSafe, ReleaseCommitSafe DEF Unload
<1>4. CASE Travel
  <2>1. CASE \E r \in Requests, t \in Trips : DepartBegin(r, t)
    BY <2>1, DepartBeginSafe
  <2>2. CASE \E r \in Requests : DepartCommit(r)
    BY <2>2, DepartCommitSafe
  <2>3. CASE \E r \in Requests, s \in Stops : CloseBegin(r, s)
    BY <2>3, CloseBeginSafe
  <2>4. ASSUME NEW r \in Requests, NEW accepted \in [txn[r].arg.aboard -> 0 .. Max(Quantities)],
               CloseCommit(r, accepted)
        PROVE  DeliveryInv'
    <3>1. accepted \in [txn[r].arg.aboard -> Nat]
      BY QuantitiesAreNat
    <3> QED
      BY <2>4, <3>1, CloseCommitSafe
  <2> QED
    BY <1>4, <2>1, <2>2, <2>3, <2>4 DEF Travel
<1> QED
  BY <1>1, <1>2, <1>3, <1>4

LEMMA DeliveryStep ==
    ASSUME OneAtATime, DeliveryInv, [Next]_vars
    PROVE  DeliveryInv'
<1>1. CASE Next
  <2>1. CASE OrderNext
    BY <2>1, OrderStepSafe
  <2>2. CASE Plan \/ Load \/ Unload \/ Travel
    BY <2>2, ItineraryStepSafe
  <2>3. CASE \E r \in Requests : Abort(r)
    BY <2>3, AbortSafe
  <2> QED
    BY <1>1, <2>1, <2>2, <2>3 DEF Next
<1>2. CASE UNCHANGED vars
  <2>1. UNCHANGED tables /\ txn' = txn
    BY <1>2 DEF vars
  <2>2. Typed /\ Rooted /\ Beside
    BY DEF DeliveryInv
  <2>3. Typed' /\ Rooted'
    BY <2>1, <2>2, TablesKept
  <2>4. Beside'
    BY <2>1, <2>2 DEF Beside, Holds
  <2>5. \A q \in Requests : Sound(txn[q])'
    <3>1. SUFFICES ASSUME NEW q \in Requests PROVE Sound(txn[q])'
      OBVIOUS
    <3>2. PICK y : y = txn'[q]
      OBVIOUS
    <3>3. Sound(y)
      BY <2>1, <3>2 DEF DeliveryInv
    <3>4. Sound(y)'
      BY <2>1, <2>2, <3>3, StaysSound
    <3> QED
      BY <3>2, <3>4, SoundIs
  <2> QED
    BY <2>3, <2>4, <2>5 DEF DeliveryInv
<1> QED
  BY <1>1, <1>2

(***************************************************************************)
(* In every state, however many requests are in flight: every row refers   *)
(* to rows that exist and have got far enough; a stop of an open trip is   *)
(* not resolved; and each request's copies and checks are still good, a    *)
(* closure's because it holds its trip and the facilities of its orders,   *)
(* any other's because it runs alone.  What may overlap is the hypothesis. *)
(***************************************************************************)
THEOREM DeliveryInvariant ==
    ASSUME OneAtATime
    PROVE  Spec => []DeliveryInv
<1>1. Init => DeliveryInv
  BY DeliveryInit
<1>2. DeliveryInv /\ [Next]_vars => DeliveryInv'
  BY DeliveryStep
<1> QED
  BY <1>1, <1>2, PTL DEF Spec
-----------------------------------------------------------------------------
(***************************************************************************)
(* The steps that write more than the sales' delivered flag.               *)
(***************************************************************************)
Writes ==
    \/ \E r \in Requests, d \in Deliveries : CreateCommit(r, d)
    \/ \E r \in Requests : EditCommit(r)
    \/ \E r \in Requests : ConfirmCommit(r)
    \/ \E r \in Requests : StepCommit(r)
    \/ \E r \in Requests : PickupCommit(r)
    \/ \E r \in Requests, t \in Trips : TripCommit(r, t)
    \/ \E t \in Trips, v \in Vehicles : UpdateTrip(t, v)
    \/ \E r \in Requests, s \in Stops : StopCommit(r, s)
    \/ \E r \in Requests, e \in Entries : LoadCommit(r, e)
    \/ \E r \in Requests, e \in Entries, k \in Keys : WholeCommit(r, e, k)
    \/ \E r \in Requests : AdjustCommit(r)
    \/ \E r \in Requests : ReleaseCommit(r)
    \/ \E r \in Requests : DepartCommit(r)
    \/ \E r \in Requests : \E accepted \in [txn[r].arg.aboard -> Nat] : CloseCommit(r, accepted)

Leaves == UNCHANGED <<claim, delivery, dline, trip, stop, entry, onHand>>

LEMMA EveryStep ==
    ASSUME [Next]_vars
    PROVE  Leaves \/ Writes
<1>1. UNCHANGED tables => Leaves
  BY DEF tables, Leaves
<1>2. \A r, op, arg, rows : Begins(r, op, arg, rows) => UNCHANGED tables
  BY DEF Begins
<1>3. CASE UNCHANGED vars
  BY <1>1, <1>3 DEF vars
<1>4. CASE OrderNext
  <2>1. CASE \E r \in Requests, s \in Sales, type \in Fulfillments,
              chosen \in [SaleLines -> 0 .. Max({Sold[l] : l \in SaleLines})] :
              CreateBegin(r, s, type, chosen)
    BY <1>1, <1>2, <2>1 DEF CreateBegin
  <2>2. CASE \E r \in Requests, d \in Deliveries, l \in SaleLines :
              \E q \in 1 .. Sold[l] : AddBegin(r, d, l, q) \/ UpdateBegin(r, d, l, q)
    BY <1>1, <1>2, <2>2 DEF AddBegin, UpdateBegin
  <2>3. CASE \E r \in Requests, d \in Deliveries, l \in SaleLines : DeleteBegin(r, d, l)
    BY <1>1, <1>2, <2>3 DEF DeleteBegin
  <2>4. CASE \E r \in Requests, d \in Deliveries : ConfirmBegin(r, d)
    BY <1>1, <1>2, <2>4 DEF ConfirmBegin
  <2>5. CASE \E r \in Requests, step \in Steps, d \in Deliveries : StepBegin(r, step, d)
    BY <1>1, <1>2, <2>5 DEF StepBegin
  <2>6. CASE \E r \in Requests, d \in Deliveries : PickupBegin(r, d)
    BY <1>1, <1>2, <2>6 DEF PickupBegin
  <2>7. CASE \E r \in Requests, s \in Sales : Refresh(r, s)
    BY <2>7 DEF Refresh, Leaves
  <2> QED
    BY <1>4, <2>1, <2>2, <2>3, <2>4, <2>5, <2>6, <2>7 DEF OrderNext, Writes
<1>5. CASE Plan
  BY <1>1, <1>2, <1>5 DEF Plan, TripBegin, StopBegin, Writes
<1>6. CASE Load
  BY <1>1, <1>2, <1>6 DEF Load, LoadBegin, WholeBegin, AdjustBegin, Writes
<1>7. CASE Unload
  BY <1>1, <1>2, <1>7 DEF Unload, ReleaseBegin, RemoveBegin, CancelTripBegin, Writes
<1>8. CASE Travel
  <2>1. ASSUME NEW r \in Requests, NEW accepted \in [txn[r].arg.aboard -> 0 .. Max(Quantities)],
               CloseCommit(r, accepted)
        PROVE  Writes
    <3>1. accepted \in [txn[r].arg.aboard -> Nat]
      BY QuantitiesAreNat
    <3> QED
      BY <2>1, <3>1 DEF Writes
  <2> QED
    BY <1>1, <1>2, <1>8, <2>1 DEF Travel, DepartBegin, CloseBegin, Writes
<1>9. CASE \E r \in Requests : Abort(r)
  BY <1>1, <1>9 DEF Abort
<1> QED
  BY <1>3, <1>4, <1>5, <1>6, <1>7, <1>8, <1>9 DEF Next

LEMMA CreateDoes ==
    ASSUME DeliveryInv, NEW r \in Requests, NEW d \in Deliveries, CreateCommit(r, d)
    PROVE  /\ UNCHANGED <<sale, claim, trip, stop, entry, onHand>>
           /\ delivery[d] = None /\ delivery'[d] # None /\ delivery'[d].status = "DRAFT"
           /\ delivery'[d].parent = None
           /\ \A c \in Deliveries : c # d => delivery'[c] = delivery[c] /\ dline'[c] = dline[c]
           /\ \A l \in SaleLines : /\ dline[d][l] = None
                                   /\ dline'[d][l] # None => /\ dline'[d][l].committed = 0
                                                             /\ dline'[d][l].delivered = 0
                                                             /\ dline'[d][l].returned = 0
                                                             /\ dline'[d][l].quantity <= Uncovered(l)
<1>1. PICK t : t = txn[r]
  OBVIOUS
<1>2. /\ t.op = "create" /\ delivery[d] = None
      /\ UNCHANGED <<sale, claim, trip, stop, entry, onHand>>
  BY <1>1 DEF CreateCommit, Runs, Fresh
<1>3. PICK row : row = [status |-> "DRAFT", type |-> t.arg.type,
                        facility |-> FacilityOf[t.arg.sale], serial |-> 0, parent |-> None]
  OBVIOUS
<1>4. PICK lines : lines = [l \in SaleLines |-> IF t.arg.chosen[l] > 0 THEN NewLine(t.arg.chosen[l])
                                                ELSE None]
  OBVIOUS
<1>5. delivery' = [delivery EXCEPT ![d] = row] /\ dline' = [dline EXCEPT ![d] = lines]
  BY <1>1, <1>3, <1>4 DEF CreateCommit
<1>6. Typed /\ Rooted
  BY DEF DeliveryInv
<1>7. /\ delivery'[d] = row /\ dline'[d] = lines
      /\ \A c \in Deliveries : c # d => delivery'[c] = delivery[c] /\ dline'[c] = dline[c]
  BY <1>5, <1>6 DEF Typed
<1>8. t.arg.sale \in Sales /\ t.arg.type \in Fulfillments
  BY <1>1, <1>2 DEF DeliveryInv, Sound, SoundOrder
<1>9. row \in DeliveryRows /\ row # None /\ row.status = "DRAFT" /\ row.parent = None
  BY <1>3, <1>8, NoneIsNoDeliveryRow DEF DeliveryRows, Statuses
<1>10. \A l \in SaleLines : lines[l] # None =>
          /\ lines[l].committed = 0 /\ lines[l].delivered = 0 /\ lines[l].returned = 0
          /\ lines[l].quantity <= Uncovered(l)
  <2>1. \A l \in SaleLines : t.arg.chosen[l] > 0 => t.arg.chosen[l] <= Uncovered(l)
    BY <1>1, <1>2 DEF DeliveryInv, Sound, SoundOrder
  <2>2. SUFFICES ASSUME NEW l \in SaleLines, lines[l] # None
                 PROVE  /\ lines[l].committed = 0 /\ lines[l].delivered = 0
                        /\ lines[l].returned = 0 /\ lines[l].quantity <= Uncovered(l)
    OBVIOUS
  <2>3. PICK q : q = t.arg.chosen[l]
    OBVIOUS
  <2>4. lines[l] = NewLine(q) /\ q <= Uncovered(l)
    BY <1>4, <2>1, <2>2, <2>3
  <2> QED
    BY <2>4 DEF NewLine
<1>11. \A l \in SaleLines : dline[d][l] = None
  BY <1>2, <1>6 DEF Rooted
<1> QED
  BY <1>2, <1>7, <1>9, <1>10, <1>11

-----------------------------------------------------------------------------
(***************************************************************************)
(* The flow of an order's status.                                          *)
(***************************************************************************)
MovesAsTold ==
    \A d \in Deliveries :
        \/ delivery'[d] = delivery[d]
        \/ /\ delivery[d] = None /\ delivery'[d] # None
           /\ \/ delivery'[d].status = "DRAFT"
              \/ AssertLegal("DRAFT", delivery'[d].status, delivery'[d].type)
        \/ /\ delivery[d] # None /\ delivery'[d] # None
           /\ AssertLegal(delivery[d].status, delivery'[d].status, delivery[d].type)
           /\ delivery'[d].type = delivery[d].type

LEMMA RowsMove ==
    ASSUME NEW d \in Deliveries, NEW row, delivery'[d] = row, delivery[d] # None, row # None,
           \A c \in Deliveries : c # d => delivery'[c] = delivery[c],
           AssertLegal(delivery[d].status, row.status, delivery[d].type),
           row.type = delivery[d].type
    PROVE  MovesAsTold
BY DEF MovesAsTold

LEMMA CloseMoves ==
    ASSUME DeliveryInv, NEW r \in Requests, NEW given \in [txn[r].arg.aboard -> Nat],
           CloseCommit(r, given)
    PROVE  MovesAsTold
<1>1. PICK s, S, accepted, settled, born, parent, sales :
         /\ txn[r].op = "close" /\ S = txn[r].arg.aboard /\ s = txn[r].arg.stop
         /\ Closing(s, S, accepted, settled, born, parent)
         /\ sales \in SUBSET Sales /\ Refreshes(r, sales)
  BY CloseReads
<1>2. Closing(s, S, accepted, settled, born, parent)
  BY <1>1
<1>3. /\ \A d \in OrdersOf(S) : d \in Deliveries /\ delivery[d] # None
      /\ \A d \in born : delivery[d] = None
  BY <1>2, ClosingFinds
<1>4. \A d \in OrdersOf(S) :
         /\ delivery'[d] # None
         /\ AssertLegal(delivery[d].status, delivery'[d].status, delivery[d].type)
         /\ delivery'[d].type = delivery[d].type
  BY <1>2, ClosingOrders
<1>5. \A d \in born : /\ delivery'[d] # None /\ delivery'[d].status = "IN_PREPARATION"
                      /\ delivery'[d].type = "DELIVERY"
  BY <1>2, ClosingOrders
<1>6. \A d \in Deliveries : d \notin OrdersOf(S) \cup born => delivery'[d] = delivery[d]
  BY <1>2, ClosingOrders
<1>7. AssertLegal("DRAFT", "IN_PREPARATION", "DELIVERY")
  BY LegalMoves DEF AssertLegal, TERMINAL, TYPE_RESTRICTED
<1> QED
  BY <1>3, <1>4, <1>5, <1>6, <1>7 DEF MovesAsTold

LEMMA StepsMove ==
    ASSUME DeliveryInv, [Next]_vars
    PROVE  MovesAsTold
<1>1. UNCHANGED delivery => MovesAsTold
  BY DEF MovesAsTold
<1>2. ASSUME NEW r \in Requests, NEW d \in Deliveries, CreateCommit(r, d) PROVE MovesAsTold
  BY <1>2, CreateDoes, Zenon DEF MovesAsTold
<1>3. ASSUME NEW r \in Requests, EditCommit(r) PROVE UNCHANGED delivery
  BY <1>3 DEF EditCommit
<1>4. ASSUME NEW r \in Requests, ConfirmCommit(r) PROVE MovesAsTold
  <2>1. PICK d \in Deliveries, row \in DeliveryRows :
              /\ Editable(d)
              /\ delivery'[d] = row /\ \A c \in Deliveries : c # d => delivery'[c] = delivery[c]
              /\ row.type = delivery[d].type
              /\ AssertLegal(delivery[d].status, row.status, row.type)
    BY <1>4, ConfirmDoes
  <2>2. delivery[d] # None /\ row # None
    BY <2>1, NoneIsNoDeliveryRow DEF Editable
  <2> QED
    BY <2>1, <2>2, RowsMove
<1>5. ASSUME NEW r \in Requests, StepCommit(r) PROVE MovesAsTold
  <2>1. PICK d \in Deliveries, step \in Steps, row \in DeliveryRows :
              /\ AsksFor(step, d)
              /\ delivery'[d] = row /\ \A c \in Deliveries : c # d => delivery'[c] = delivery[c]
              /\ row.type = delivery[d].type
              /\ AssertLegal(delivery[d].status, row.status, row.type)
    BY <1>5, StepDoes
  <2>2. delivery[d] # None /\ row # None
    BY <2>1, NoneIsNoDeliveryRow DEF AsksFor
  <2> QED
    BY <2>1, <2>2, RowsMove
<1>6. ASSUME NEW r \in Requests, PickupCommit(r) PROVE MovesAsTold
  <2>1. PICK d \in Deliveries : PickupEffect(d)
    BY <1>6, PickupDoes
  <2> QED
    BY <2>1 DEF PickupEffect, Allows, MovesAsTold
<1>7. ASSUME NEW r \in Requests, DepartCommit(r) PROVE MovesAsTold
  <2>1. PICK p, aboard, sent : DepartEffect(p, aboard, sent)
    BY <1>7, DepartDoes, Zenon
  <2> QED
    BY <2>1 DEF DepartEffect, Allows, MovesAsTold
<1>8. ASSUME NEW r \in Requests, NEW e \in Entries, LoadCommit(r, e) PROVE UNCHANGED delivery
  BY <1>8, Zenon DEF LoadCommit
<1>9. ASSUME NEW r \in Requests, NEW e \in Entries, NEW k \in Keys, WholeCommit(r, e, k)
      PROVE  UNCHANGED delivery
  BY <1>9, Zenon DEF WholeCommit
<1>10. ASSUME NEW r \in Requests, AdjustCommit(r) PROVE UNCHANGED delivery
  BY <1>10 DEF AdjustCommit
<1>11. ASSUME NEW r \in Requests, ReleaseCommit(r) PROVE UNCHANGED delivery
  BY <1>11 DEF ReleaseCommit
<1>12. ASSUME NEW r \in Requests, NEW t \in Trips, TripCommit(r, t) PROVE UNCHANGED delivery
  BY <1>12 DEF TripCommit
<1>13. ASSUME NEW t \in Trips, NEW v \in Vehicles, UpdateTrip(t, v) PROVE UNCHANGED delivery
  BY <1>13 DEF UpdateTrip
<1>14. ASSUME NEW r \in Requests, NEW s \in Stops, StopCommit(r, s) PROVE UNCHANGED delivery
  BY <1>14 DEF StopCommit
<1>15. CASE Leaves
  BY <1>1, <1>15 DEF Leaves
<1>16. CASE Writes
  BY <1>1, <1>2, <1>3, <1>4, <1>5, <1>6, <1>7, <1>8, <1>9, <1>10, <1>11, <1>12, <1>13, <1>14,
     <1>16, CloseMoves DEF Writes
<1> QED
  BY <1>15, <1>16, EveryStep
\* An order's status and type, as the flow sees them.
FlowOf == [d \in Deliveries |-> IF delivery[d] = None THEN None
                                ELSE [status |-> delivery[d].status, type |-> delivery[d].type]]

LEMMA FlowInitOK ==
    ASSUME Init
    PROVE  Flow!FlowInit
BY DEF Init, Flow!FlowInit

LEMMA FlowStep ==
    ASSUME DeliveryInv, DeliveryInv', [Next]_vars
    PROVE  Flow!FlowNext
<1>1. MovesAsTold
  BY StepsMove
<1>2. /\ delivery \in [Deliveries -> DeliveryRows \cup {None}]
      /\ delivery' \in [Deliveries -> DeliveryRows \cup {None}]
  BY DEF DeliveryInv, Typed
<1>3. PICK old, new : old = FlowOf /\ new = FlowOf'
  OBVIOUS
<1>4. /\ old = [d \in Deliveries |-> IF delivery[d] = None THEN None
                                     ELSE [status |-> delivery[d].status, type |-> delivery[d].type]]
      /\ new = [d \in Deliveries |-> IF delivery'[d] = None THEN None
                                     ELSE [status |-> delivery'[d].status, type |-> delivery'[d].type]]
  BY <1>3 DEF FlowOf
<1>5. /\ \A d \in Deliveries : delivery[d] # None => delivery[d] \in DeliveryRows
      /\ \A d \in Deliveries : delivery'[d] # None => delivery'[d] \in DeliveryRows
  BY <1>2
<1>6. \A row \in DeliveryRows :
         /\ [status |-> row.status, type |-> row.type] \in [status : Statuses, type : Fulfillments]
         /\ [status |-> row.status, type |-> row.type] # None
  BY NoneIsNoFlow DEF DeliveryRows
<1>7. \A d \in Deliveries :
         /\ old[d] = None <=> delivery[d] = None
         /\ old[d] # None => old[d].status = delivery[d].status /\ old[d].type = delivery[d].type
         /\ new[d] = None <=> delivery'[d] = None
         /\ new[d] # None => new[d].status = delivery'[d].status /\ new[d].type = delivery'[d].type
  BY <1>4, <1>5, <1>6
<1>8. new \in [Deliveries -> [status : Statuses, type : Fulfillments] \cup {None}]
  BY <1>4, <1>5, <1>6
<1>9. \A d \in Deliveries : delivery'[d] = delivery[d] => new[d] = old[d]
  BY <1>4
<1>10. \A d \in Deliveries :
          \/ new[d] = old[d]
          \/ /\ old[d] = None /\ new[d] # None
             /\ new[d].status = "DRAFT" \/ AssertLegal("DRAFT", new[d].status, new[d].type)
          \/ /\ old[d] # None /\ new[d] # None
             /\ AssertLegal(old[d].status, new[d].status, old[d].type)
             /\ new[d].type = old[d].type
  BY <1>1, <1>7, <1>9 DEF MovesAsTold
<1>11. /\ Flow!Statuses = Statuses /\ Flow!Fulfillments = Fulfillments
       /\ Flow!TERMINAL = TERMINAL /\ Flow!TYPE_RESTRICTED = TYPE_RESTRICTED
  BY DEF Flow!Statuses, Statuses, Flow!Fulfillments, Fulfillments, Flow!TERMINAL, TERMINAL,
         Flow!TYPE_RESTRICTED, TYPE_RESTRICTED
<1>12. Flow!LEGAL = LEGAL
  BY <1>11, Zenon DEF Flow!LEGAL, LEGAL
<1>13. \A a, b, c : AssertLegal(a, b, c) => Flow!AssertLegal(a, b, c)
  BY <1>11, <1>12 DEF Flow!AssertLegal, AssertLegal
<1>14. Flow!FlowTypeOK'
  BY <1>4, <1>8, <1>11 DEF Flow!FlowTypeOK
<1>15. ASSUME NEW d \in Deliveries
       PROVE  new[d] = old[d] \/ Flow!Raised(d) \/ Flow!Moved(d)
  <2>1. CASE old[d] = None /\ new[d] # None
    <3>1. Flow!Raised(d) \/ new[d] = old[d]
      BY <1>4, <1>10, <1>13, <2>1 DEF Flow!Raised
    <3> QED
      BY <3>1
  <2>2. CASE old[d] # None /\ new[d] # None
    <3>1. Flow!Moved(d) \/ new[d] = old[d]
      BY <1>4, <1>10, <1>13, <2>2 DEF Flow!Moved
    <3> QED
      BY <3>1
  <2> QED
    BY <1>10, <2>1, <2>2
<1> QED
  BY <1>4, <1>14, <1>15 DEF Flow!FlowNext

(***************************************************************************)
(* Whatever the handlers ask, lock and copy, the status of a delivery      *)
(* order follows delivery_events: it is raised as a draft, keeps its       *)
(* fulfilment type, and moves only as the state machine permits.           *)
(***************************************************************************)
THEOREM StatusFollowsTheFlow ==
    ASSUME OneAtATime
    PROVE  Spec => FollowsTheFlow
<1>1. Init => Flow!FlowInit
  BY FlowInitOK
<1>2. DeliveryInv /\ DeliveryInv' /\ [Next]_vars => Flow!FlowNext
  BY FlowStep
<1>3. Spec => []DeliveryInv
  BY DeliveryInvariant
<1> QED
  BY <1>1, <1>2, <1>3, PTL DEF Spec, FollowsTheFlow, Flow!FlowSpec
-----------------------------------------------------------------------------
(***************************************************************************)
(* The two books of a claim.                                               *)
(***************************************************************************)
\* What a line says it has committed, and what itinerary lines hold of it.
Booked(k) == IF dline[k[1]][k[2]] = None THEN 0 ELSE dline[k[1]][k[2]].committed
Claims(k) == ClaimedBy(Held, entry, k)

Figures == [e \in Entries |-> entry[e].committed]
HeldOf(k) == {e \in Held : entry[e].key = k}

\* The entries that are held, before a step and after it.
LEMMA HeldIs ==
    /\ \A e : e \in Held <=> /\ e \in Entries /\ entry[e] # None /\ entry[e].stop \in Stops
                             /\ stop[entry[e].stop] # None
                             /\ stop[entry[e].stop].outcome = "PENDING"
    /\ \A e : e \in Held' <=> /\ e \in Entries /\ entry'[e] # None /\ entry'[e].stop \in Stops
                              /\ stop'[entry'[e].stop] # None
                              /\ stop'[entry'[e].stop].outcome = "PENDING"
<1>1. \A e : e \in Held <=> /\ e \in Entries /\ entry[e] # None /\ entry[e].stop \in Stops
                            /\ stop[entry[e].stop] # None
                            /\ stop[entry[e].stop].outcome = "PENDING"
  BY DEF Held, EntriesAt
<1>2. \A e : e \in Held' <=> /\ e \in Entries /\ entry'[e] # None /\ entry'[e].stop \in Stops
                             /\ stop'[entry'[e].stop] # None
                             /\ stop'[entry'[e].stop].outcome = "PENDING"
  BY DEF Held, EntriesAt
<1> QED
  BY <1>1, <1>2

LEMMA ClaimsAre ==
    ASSUME NEW k
    PROVE  /\ Claims(k) = SumFunctionOnSet(Figures, HeldOf(k)) /\ IsFiniteSet(HeldOf(k))
           /\ Claims(k)' = SumFunctionOnSet(Figures', HeldOf(k)') /\ IsFiniteSet(HeldOf(k)')
<1>1. HeldOf(k) \in SUBSET Entries /\ HeldOf(k)' \in SUBSET Entries
  BY HeldIs DEF HeldOf
<1>2. IsFiniteSet(HeldOf(k)) /\ IsFiniteSet(HeldOf(k)')
  BY <1>1, EntriesAreFinite
<1>3. Claims(k) = SumFunctionOnSet(Figures, HeldOf(k))
  <2>1. PICK f, g, S : f = [e \in Held |-> entry[e].committed] /\ g = Figures /\ S = HeldOf(k)
    OBVIOUS
  <2>2. \A e \in S : f[e] = g[e]
    BY <1>1, <2>1 DEF Figures, HeldOf
  <2>3. SumFunctionOnSet(f, S) = SumFunctionOnSet(g, S)
    BY <1>2, <2>1, <2>2, SumOfEqual
  <2> QED
    BY <2>1, <2>3 DEF Claims, ClaimedBy, HeldOf
<1>4. Claims(k)' = SumFunctionOnSet(Figures', HeldOf(k)')
  <2>1. PICK f, g, S : f = [e \in Held' |-> entry'[e].committed] /\ g = Figures' /\ S = HeldOf(k)'
    OBVIOUS
  <2>2. \A e \in S : f[e] = g[e]
    BY <1>1, <2>1 DEF Figures, HeldOf
  <2>3. SumFunctionOnSet(f, S) = SumFunctionOnSet(g, S)
    BY <1>2, <2>1, <2>2, SumOfEqual
  <2> QED
    BY <2>1, <2>3 DEF Claims, ClaimedBy, HeldOf
<1> QED
  BY <1>2, <1>3, <1>4

LEMMA FiguresAreNat ==
    ASSUME DeliveryInv
    PROVE  /\ \A e \in Held : Figures[e] = entry[e].committed /\ Figures[e] \in Nat
           /\ \A k : Claims(k) \in Nat
<1>1. \A e \in Held : Figures[e] = entry[e].committed /\ Figures[e] \in Nat
  BY HeldIs, EntryIsRooted DEF Figures, EntryRows
<1>2. ASSUME NEW k PROVE Claims(k) \in Nat
  <2>1. PICK f, S : f = Figures /\ S = HeldOf(k)
    OBVIOUS
  <2>2. IsFiniteSet(S) /\ \A e \in S : f[e] \in Nat
    BY <1>1, <2>1, ClaimsAre DEF HeldOf
  <2>3. SumFunctionOnSet(f, S) \in Nat
    BY <2>2, SumIsNat
  <2> QED
    BY <2>1, <2>3, ClaimsAre
<1> QED
  BY <1>1, <1>2

\* Claims on a line that no step's entry is of.
LEMMA ClaimsKept ==
    ASSUME NEW k,
           \A e \in Entries : e \in HeldOf(k)' <=> e \in HeldOf(k),
           \A e \in HeldOf(k) : entry'[e].committed = entry[e].committed
    PROVE  Claims(k)' = Claims(k)
<1>1. PICK f, g, S, R : f = Figures /\ g = Figures' /\ S = HeldOf(k) /\ R = HeldOf(k)'
  OBVIOUS
<1>2. S \in SUBSET Entries /\ R \in SUBSET Entries
  BY <1>1, HeldIs DEF HeldOf
<1>3. R = S
  BY <1>1, <1>2
<1>4. \A e \in S : f[e] = g[e]
  BY <1>1, <1>2 DEF Figures
<1>5. SumFunctionOnSet(f, S) = SumFunctionOnSet(g, S)
  BY <1>1, <1>4, ClaimsAre, SumOfEqual
<1> QED
  BY <1>1, <1>3, <1>5, ClaimsAre

LEMMA ClaimsOfSame ==
    ASSUME UNCHANGED <<stop, entry>>, NEW k
    PROVE  Claims(k)' = Claims(k)
BY ClaimsKept, HeldIs DEF HeldOf

\* Claims once some entries hold nothing any more.
LEMMA ClaimsReleased ==
    ASSUME DeliveryInv, NEW k, NEW gone \in SUBSET Held,
           \A e \in Entries : e \in HeldOf(k)' <=> e \in HeldOf(k) \ gone,
           \A e \in HeldOf(k) \ gone : entry'[e].committed = entry[e].committed
    PROVE  Claims(k)' = Claims(k) - ClaimedBy(gone, entry, k) /\ ClaimedBy(gone, entry, k) \in Nat
<1>1. PICK f, g, S, R : f = Figures /\ g = Figures' /\ S = HeldOf(k) /\ R = HeldOf(k)'
  OBVIOUS
<1>2. PICK T : T = {e \in gone : entry[e].key = k}
  OBVIOUS
<1>3. S \in SUBSET Entries /\ R \in SUBSET Entries /\ S \in SUBSET Held
  BY <1>1, HeldIs DEF HeldOf
<1>4. R = S \ gone
  BY <1>1, <1>3
<1>5. T \in SUBSET S /\ S = R \cup T /\ R \cap T = {}
  BY <1>1, <1>2, <1>3, <1>4 DEF HeldOf
<1>6. IsFiniteSet(R) /\ IsFiniteSet(T)
  BY <1>3, <1>5, EntriesAreFinite
<1>7. \A e \in S : f[e] \in Nat
  BY <1>1, <1>3, FiguresAreNat
<1>8. SumFunctionOnSet(f, S) = SumFunctionOnSet(f, R) + SumFunctionOnSet(f, T)
  BY <1>5, <1>6, <1>7, SumOfUnion
<1>9. SumFunctionOnSet(g, R) = SumFunctionOnSet(f, R)
  <2>1. \A e \in R : f[e] = g[e]
    BY <1>1, <1>3, <1>4 DEF Figures
  <2> QED
    BY <1>6, <2>1, SumOfEqual
<1>10. ClaimedBy(gone, entry, k) = SumFunctionOnSet(f, T)
  <2>1. PICK h : h = [e \in gone |-> entry[e].committed]
    OBVIOUS
  <2>2. \A e \in T : h[e] = f[e]
    BY <1>1, <1>2, <1>3, <1>5, <2>1 DEF Figures
  <2>3. SumFunctionOnSet(h, T) = SumFunctionOnSet(f, T)
    BY <1>6, <2>2, SumOfEqual
  <2> QED
    BY <1>2, <2>1, <2>3 DEF ClaimedBy
<1>11. SumFunctionOnSet(f, R) \in Nat /\ SumFunctionOnSet(f, T) \in Nat
  BY <1>5, <1>6, <1>7, SumIsNat
<1>12. Claims(k) = SumFunctionOnSet(f, S) /\ Claims(k)' = SumFunctionOnSet(g, R)
  BY <1>1, ClaimsAre
<1> QED
  BY <1>8, <1>9, <1>10, <1>11, <1>12
\* A step changes the two books of a claim alike, unless it cancels the order.
KeepsBooks ==
    \A k \in Keys : Live(k[1])' =>
        \E n \in Int : Booked(k)' = Booked(k) + n /\ Claims(k)' = Claims(k) + n

LEMMA BookedIsInt ==
    ASSUME DeliveryInv, NEW k \in Keys
    PROVE  Booked(k) \in Int /\ k[1] \in Deliveries /\ k[2] \in SaleLines
<1>1. k[1] \in Deliveries /\ k[2] \in SaleLines
  BY DEF Keys
<1>2. dline[k[1]][k[2]] \in DeliveryLines \cup {None}
  BY <1>1 DEF DeliveryInv, Typed
<1> QED
  BY <1>1, <1>2 DEF Booked, DeliveryLines

\* A line nothing is aboard for has no claims, and its order no entries.
LEMMA NothingAboard ==
    ASSUME DeliveryInv, NEW k \in Keys,
           \/ delivery[k[1]] = None \/ dline[k[1]][k[2]] = None
           \/ delivery[k[1]].status \in Early
    PROVE  /\ Claims(k) = 0 /\ HeldOf(k) = {}
           /\ \A e \in Entries : entry[e] # None => entry[e].key # k
<1>1. \A e \in Entries : entry[e] # None => entry[e].key # k
  BY EntryIsRooted
<1>2. HeldOf(k) = {}
  BY <1>1, HeldIs DEF HeldOf
<1> QED
  BY <1>1, <1>2, ClaimsAre, SumOfNone

\* The books agree on every line of an order that is not cancelled.
LEMMA BooksAgree ==
    ASSUME DeliveryInv, ClaimsAgree, NEW k \in Keys,
           delivery[k[1]] = None \/ delivery[k[1]].status # "CANCELLED"
    PROVE  Booked(k) = Claims(k)
<1>1. CASE delivery[k[1]] = None \/ dline[k[1]][k[2]] = None
  <2>1. k[1] \in Deliveries /\ k[2] \in SaleLines
    BY BookedIsInt
  <2>2. dline[k[1]][k[2]] = None
    BY <1>1, <2>1 DEF DeliveryInv, Rooted
  <2> QED
    BY <1>1, <2>2, NothingAboard DEF Booked
<1>2. CASE delivery[k[1]] # None /\ dline[k[1]][k[2]] # None
  BY <1>2 DEF ClaimsAgree, Booked, Claims, Live
<1> QED
  BY <1>1, <1>2

\* A step that leaves the itinerary's entries and stops alone.
LEMMA BooksOfOrders ==
    ASSUME DeliveryInv, UNCHANGED <<stop, entry>>,
           \A k \in Keys : Live(k[1])' => Booked(k)' = Booked(k)
    PROVE  KeepsBooks
<1>1. \A k \in Keys : Claims(k) \in Int /\ Booked(k) \in Int
  BY FiguresAreNat, BookedIsInt
<1>2. \A k \in Keys : Claims(k)' = Claims(k)
  BY ClaimsOfSame
<1>3. \A k \in Keys : Live(k[1])' => /\ 0 \in Int /\ Booked(k)' = Booked(k) + 0
                                     /\ Claims(k)' = Claims(k) + 0
  BY <1>1, <1>2
<1> QED
  BY <1>3 DEF KeepsBooks

LEMMA CreateBooks ==
    ASSUME DeliveryInv, NEW r \in Requests, NEW d \in Deliveries, CreateCommit(r, d)
    PROVE  KeepsBooks
<1>1. /\ UNCHANGED <<stop, entry>>
      /\ \A c \in Deliveries : c # d => dline'[c] = dline[c]
      /\ \A l \in SaleLines : /\ dline[d][l] = None
                              /\ dline'[d][l] # None => dline'[d][l].committed = 0
  BY CreateDoes
<1>2. \A k \in Keys : Booked(k)' = Booked(k)
  <2>1. \A k \in Keys : k[1] \in Deliveries /\ k[2] \in SaleLines
    BY DEF Keys
  <2> QED
    BY <1>1, <2>1 DEF Booked
<1> QED
  BY <1>1, <1>2, BooksOfOrders

LEMMA EditBooks ==
    ASSUME DeliveryInv, ClaimsAgree, NEW r \in Requests, EditCommit(r)
    PROVE  KeepsBooks
<1>1. PICK d \in Deliveries, l \in SaleLines, m \in DeliveryLines \cup {None} :
          /\ Editable(d) /\ UNCHANGED <<sale, claim, delivery, trip, stop, entry, onHand>>
          /\ dline'[d][l] = m
          /\ \A c \in Deliveries, k \in SaleLines : c # d \/ k # l => dline'[c][k] = dline[c][k]
          /\ m # None => m.committed = IF dline[d][l] = None THEN 0 ELSE dline[d][l].committed
  BY EditDoes
<1>2. PICK j : j = <<d, l>>
  OBVIOUS
<1>3. j \in Keys /\ j[1] = d /\ j[2] = l
  BY <1>2 DEF Keys
<1>4. \A k \in Keys : k[1] \in Deliveries /\ k[2] \in SaleLines /\ (k # j => k[1] # d \/ k[2] # l)
  BY <1>2 DEF Keys
<1>5. Booked(j) = 0
  <2>1. /\ delivery[j[1]] # None /\ delivery[j[1]].status \in Early
        /\ delivery[j[1]].status # "CANCELLED"
    BY <1>1, <1>3 DEF Editable, Early
  <2> QED
    BY <1>3, <2>1, NothingAboard, BooksAgree
<1>6. Booked(j)' = 0
  BY <1>1, <1>3, <1>5 DEF Booked
<1>7. \A k \in Keys : k # j => Booked(k)' = Booked(k)
  BY <1>1, <1>4 DEF Booked
<1> QED
  BY <1>1, <1>5, <1>6, <1>7, BooksOfOrders

LEMMA StepBooks ==
    ASSUME DeliveryInv, NEW r \in Requests, StepCommit(r)
    PROVE  KeepsBooks
<1>1. PICK d \in Deliveries, step \in Steps, row \in DeliveryRows :
          /\ UNCHANGED <<sale, claim, trip, stop, entry, onHand>>
          /\ delivery'[d] = row /\ row.status = Target(step, d)
          /\ \A c \in Deliveries : c # d => dline'[c] = dline[c]
          /\ \A l \in SaleLines :
                IF dline[d][l] = None THEN dline'[d][l] = None
                ELSE /\ dline'[d][l] # None
                     /\ dline'[d][l].committed = IF step = "cancel" THEN 0
                                                 ELSE dline[d][l].committed
  BY StepDoes
<1>2. step = "cancel" => ~ Live(d)'
  BY <1>1 DEF Live, Target
<1>3. \A k \in Keys : Live(k[1])' => Booked(k)' = Booked(k)
  <2>1. \A k \in Keys : k[1] \in Deliveries /\ k[2] \in SaleLines
    BY DEF Keys
  <2>2. step # "cancel" => \A k \in Keys : Booked(k)' = Booked(k)
    BY <1>1, <2>1 DEF Booked
  <2>3. \A k \in Keys : k[1] # d => Booked(k)' = Booked(k)
    BY <1>1, <2>1 DEF Booked
  <2>4. CASE step = "cancel"
    <3>1. \A k \in Keys : Live(k[1])' => k[1] # d
      BY <1>2, <2>4 DEF Live
    <3> QED
      BY <2>3, <3>1
  <2> QED
    BY <2>2, <2>4
<1> QED
  BY <1>1, <1>3, BooksOfOrders

\* An order a customer picks up was never on an itinerary.
LEMMA PickedUpIsEarly ==
    ASSUME DeliveryInv, NEW d \in Deliveries, Allows(d, "PICKED_UP")
    PROVE  delivery[d] # None /\ delivery[d].status = "READY_FOR_PICKUP"
<1>1. /\ delivery[d] # None /\ delivery[d].status \notin TERMINAL
      /\ "PICKED_UP" \in LEGAL[delivery[d].status]
  BY DEF Allows, AssertLegal
<1>2. delivery[d].status \in Statuses
  BY <1>1 DEF DeliveryInv, Typed, DeliveryRows
<1> QED
  BY <1>1, <1>2, LegalMoves DEF Statuses, TERMINAL

LEMMA PickupBooks ==
    ASSUME DeliveryInv, ClaimsAgree, NEW r \in Requests, PickupCommit(r)
    PROVE  KeepsBooks
<1>1. PICK d \in Deliveries : PickupEffect(d)
  BY PickupDoes
<1>2. /\ Allows(d, "PICKED_UP") /\ UNCHANGED <<stop, entry>>
      /\ \A c \in Deliveries : c # d => dline'[c] = dline[c]
      /\ \A l \in SaleLines : IF dline[d][l] = None THEN dline'[d][l] = None
                              ELSE dline'[d][l] # None /\ dline'[d][l].committed = 0
  BY <1>1 DEF PickupEffect
<1>3. delivery[d] # None /\ delivery[d].status = "READY_FOR_PICKUP"
  BY <1>2, PickedUpIsEarly
<1>4. \A k \in Keys : k[1] \in Deliveries /\ k[2] \in SaleLines
  BY DEF Keys
<1>5. \A k \in Keys : k[1] = d => Booked(k) = 0
  BY <1>3, BooksAgree, NothingAboard DEF Early
<1>6. \A k \in Keys : Booked(k)' = Booked(k)
  BY <1>2, <1>4, <1>5 DEF Booked
<1> QED
  BY <1>2, <1>6, BooksOfOrders

\* A step that leaves every claim with its entry, and what lines say of it.
LEMMA BooksOfItinerary ==
    ASSUME DeliveryInv, UNCHANGED dline, \A e \in Entries : e \in Held' <=> e \in Held,
           \A e \in Held : entry'[e].key = entry[e].key /\ entry'[e].committed = entry[e].committed
    PROVE  KeepsBooks
<1>1. \A e : (e \in Held => e \in Entries) /\ (e \in Held' => e \in Entries)
  BY HeldIs
<1>2. \A k : \A e \in Entries : e \in HeldOf(k)' <=> e \in HeldOf(k)
  BY <1>1 DEF HeldOf
<1>3. \A k : \A e \in HeldOf(k) : entry'[e].committed = entry[e].committed
  BY DEF HeldOf
<1>4. \A k : Claims(k)' = Claims(k)
  BY <1>2, <1>3, ClaimsKept
<1>5. \A k \in Keys : Claims(k) \in Int /\ Booked(k) \in Int
  BY FiguresAreNat, BookedIsInt
<1>6. \A k \in Keys : Booked(k)' = Booked(k)
  BY DEF Booked
<1>7. \A k \in Keys : /\ 0 \in Int /\ Booked(k)' = Booked(k) + 0
                      /\ Claims(k)' = Claims(k) + 0
  BY <1>4, <1>5, <1>6
<1> QED
  BY <1>7 DEF KeepsBooks

LEMMA StopBooks ==
    ASSUME DeliveryInv, NEW r \in Requests, NEW s \in Stops, StopCommit(r, s)
    PROVE  KeepsBooks
<1>1. stop[s] = None /\ UNCHANGED <<dline, entry>>
  BY DEF StopCommit, Fresh
<1>2. PICK row : stop' = [stop EXCEPT ![s] = row]
  BY DEF StopCommit
<1>3. \A q \in Stops : q # s => stop'[q] = stop[q]
  BY <1>2 DEF DeliveryInv, Typed
<1>4. \A e \in Entries : entry[e] # None => entry[e].stop \in Stops /\ entry[e].stop # s
  BY <1>1, EntryIsRooted
<1>5. \A e \in Entries : e \in Held' <=> e \in Held
  BY <1>1, <1>3, <1>4, HeldIs
<1> QED
  BY <1>1, <1>5, BooksOfItinerary

LEMMA DepartBooks ==
    ASSUME DeliveryInv, NEW r \in Requests, DepartCommit(r)
    PROVE  KeepsBooks
<1>1. PICK p, aboard, sent : aboard \in SUBSET Entries /\ DepartEffect(p, aboard, sent)
  BY DepartDoes
<1>2. UNCHANGED <<dline, stop>>
  BY <1>1 DEF DepartEffect
<1>3. \A e \in Entries :
         IF e \in aboard
         THEN /\ entry'[e] # None /\ entry'[e].stop = entry[e].stop
              /\ entry'[e].key = entry[e].key /\ entry'[e].committed = entry[e].committed
         ELSE entry'[e] = entry[e]
  BY <1>1 DEF DepartEffect
<1>4. \A e \in aboard : entry[e] # None
  BY <1>1, EntriesOfTrip DEF DepartEffect
<1>5. \A e \in Entries : e \in Held' <=> e \in Held
  BY <1>2, <1>3, <1>4, HeldIs
<1>6. \A e \in Held : entry'[e].key = entry[e].key /\ entry'[e].committed = entry[e].committed
  BY <1>3, HeldIs
<1> QED
  BY <1>2, <1>5, <1>6, BooksOfItinerary

LEMMA LoadBooks ==
    ASSUME DeliveryInv, NEW e \in Entries, NEW s \in Stops, NEW k \in Keys, NEW q \in Nat,
           ClaimEffect(e, s, k, q)
    PROVE  KeepsBooks
<1>1. /\ entry[e] = None /\ Loading(s) /\ UNCHANGED stop
      /\ dline[k[1]][k[2]] # None /\ dline'[k[1]][k[2]] # None
      /\ dline'[k[1]][k[2]].committed = dline[k[1]][k[2]].committed + q
      /\ \A d \in Deliveries, l \in SaleLines :
            d # k[1] \/ l # k[2] => dline'[d][l] = dline[d][l]
  BY DEF ClaimEffect, Loadable
<1>2. PICK row : row = NewEntry(s, k, q)
  OBVIOUS
<1>3. entry' = [entry EXCEPT ![e] = row]
  BY <1>2 DEF ClaimEffect
<1>4. entry'[e] = row /\ \A o \in Entries : o # e => entry'[o] = entry[o]
  BY <1>3 DEF DeliveryInv, Typed
<1>5. row \in EntryRows /\ row # None /\ row.stop = s /\ row.key = k /\ row.committed = q
  BY <1>2, NoneIsNoDeliveryRow DEF NewEntry, EntryRows
<1>6. stop[s] # None /\ stop[s].outcome = "PENDING"
  BY <1>1 DEF Loading, DeliveryInv, Rooted
<1>7. \A o \in Entries : o \in Held' <=> o \in Held \/ o = e
  BY <1>1, <1>4, <1>5, <1>6, HeldIs
<1>8. e \notin Held
  BY <1>1, HeldIs
<1>9. ASSUME NEW j \in Keys, j # k
      PROVE  Booked(j)' = Booked(j) /\ Claims(j)' = Claims(j)
  <2>1. j[1] # k[1] \/ j[2] # k[2]
    BY <1>9 DEF Keys
  <2>2. j[1] \in Deliveries /\ j[2] \in SaleLines
    BY BookedIsInt
  <2>3. Booked(j)' = Booked(j)
    BY <1>1, <2>1, <2>2 DEF Booked
  <2>4. \A o \in Entries : o \in HeldOf(j)' <=> o \in HeldOf(j)
    BY <1>4, <1>5, <1>7, <1>8, <1>9 DEF HeldOf
  <2>5. \A o \in HeldOf(j) : entry'[o].committed = entry[o].committed
    BY <1>4, <1>8, HeldIs DEF HeldOf
  <2> QED
    BY <2>3, <2>4, <2>5, ClaimsKept
<1>10. Booked(k)' = Booked(k) + q
  BY <1>1 DEF Booked
<1>11. Claims(k)' = Claims(k) + q
  <2>1. PICK f, g, S, R : f = Figures /\ g = Figures' /\ S = HeldOf(k) /\ R = HeldOf(k)'
    OBVIOUS
  <2>2. S \in SUBSET Entries /\ R \in SUBSET Entries /\ S \in SUBSET Held /\ e \notin S
    BY <1>8, <2>1, HeldIs DEF HeldOf
  <2>3. \A o \in Entries : o \in R <=> o \in S \/ o = e
    BY <1>4, <1>5, <1>7, <1>8, <2>1 DEF HeldOf
  <2>4. R = S \cup {e}
    BY <2>2, <2>3
  <2>5. \A o \in S : f[o] \in Nat /\ g[o] = f[o]
    BY <1>4, <2>1, <2>2, FiguresAreNat DEF Figures
  <2>6. g[e] = q
    BY <1>4, <1>5, <2>1 DEF Figures
  <2>7. IsFiniteSet(S)
    BY <2>2, EntriesAreFinite
  <2>8. SumFunctionOnSet(g, R) = q + SumFunctionOnSet(g, S)
    <3>1. \A o \in S \cup {e} : g[o] \in Int
      BY <2>5, <2>6
    <3> QED
      BY <2>2, <2>4, <2>6, <2>7, <3>1, SumWith
  <2>9. SumFunctionOnSet(g, S) = SumFunctionOnSet(f, S)
    BY <2>5, <2>7, SumOfEqual
  <2>10. Claims(k) = SumFunctionOnSet(f, S) /\ Claims(k)' = SumFunctionOnSet(g, R)
    BY <2>1, ClaimsAre
  <2>11. Claims(k) \in Int
    BY FiguresAreNat
  <2> QED
    BY <2>8, <2>9, <2>10, <2>11
<1>12. \A j \in Keys : Claims(j) \in Int /\ Booked(j) \in Int
  BY FiguresAreNat, BookedIsInt
<1>13. \A j \in Keys : j # k => /\ 0 \in Int /\ Booked(j)' = Booked(j) + 0
                                /\ Claims(j)' = Claims(j) + 0
  BY <1>9, <1>12
<1> QED
  BY <1>10, <1>11, <1>13 DEF KeepsBooks

LEMMA AdjustBooks ==
    ASSUME DeliveryInv, NEW r \in Requests, AdjustCommit(r)
    PROVE  KeepsBooks
<1>1. PICK e \in Entries, q \in Nat : AdjustEffect(e, q)
  BY AdjustDoes
<1>2. PICK k, was : k = entry[e].key /\ was = entry[e].committed
  BY Zenon
<1>3. AdjustsLine(e, q, k)
  BY <1>1, <1>2 DEF AdjustEffect
<1>4. /\ entry[e] # None /\ Loading(entry[e].stop) /\ UNCHANGED stop
      /\ entry'[e] # None /\ entry'[e].stop = entry[e].stop /\ entry'[e].key = k
      /\ entry'[e].committed = q
      /\ \A o \in Entries : o # e => entry'[o] = entry[o]
      /\ \A d \in Deliveries, l \in SaleLines :
            d # k[1] \/ l # k[2] => dline'[d][l] = dline[d][l]
      /\ dline'[k[1]][k[2]] # None
      /\ dline'[k[1]][k[2]].committed = dline[k[1]][k[2]].committed + q - was
  BY <1>2, <1>3, Zenon DEF AdjustsLine
<1>5. k \in Keys /\ dline[k[1]][k[2]] # None /\ was \in Nat
  BY <1>2, <1>4, EntryIsRooted DEF EntryRows
<1>6. e \in Held
  <2>1. stop[entry[e].stop] # None /\ entry[e].stop \in Stops
    BY <1>4, EntryIsRooted
  <2>2. stop[entry[e].stop].outcome = "PENDING"
    BY <1>4, <2>1 DEF Loading, DeliveryInv, Rooted
  <2> QED
    BY <1>4, <2>1, <2>2, HeldIs
<1>7. \A o \in Entries : o \in Held' <=> o \in Held
  BY <1>4, HeldIs
<1>8. \A o \in Held : o \in Entries
  BY HeldIs
<1>9. ASSUME NEW j \in Keys, j # k
      PROVE  Booked(j)' = Booked(j) /\ Claims(j)' = Claims(j)
  <2>1. j[1] # k[1] \/ j[2] # k[2]
    BY <1>5, <1>9 DEF Keys
  <2>2. j[1] \in Deliveries /\ j[2] \in SaleLines
    BY BookedIsInt
  <2>3. Booked(j)' = Booked(j)
    BY <1>4, <2>1, <2>2 DEF Booked
  <2>4. \A o \in Entries : o \in HeldOf(j)' <=> o \in HeldOf(j)
    BY <1>2, <1>4, <1>7, <1>8, <1>9 DEF HeldOf
  <2>5. \A o \in HeldOf(j) : entry'[o].committed = entry[o].committed
    BY <1>2, <1>4, <1>8, <1>9 DEF HeldOf
  <2> QED
    BY <2>3, <2>4, <2>5, ClaimsKept
<1>10. Booked(k)' = Booked(k) + (q - was)
  <2>1. Booked(k) \in Int
    BY <1>5, BookedIsInt
  <2>2. Booked(k) = dline[k[1]][k[2]].committed
        /\ Booked(k)' = dline[k[1]][k[2]].committed + q - was
    BY <1>4, <1>5 DEF Booked
  <2> QED
    BY <1>5, <2>1, <2>2
<1>11. Claims(k)' = Claims(k) + (q - was)
  <2>1. PICK f, g, S, R : f = Figures /\ g = Figures' /\ S = HeldOf(k) /\ R = HeldOf(k)'
    OBVIOUS
  <2>2. S \in SUBSET Entries /\ R \in SUBSET Entries /\ S \in SUBSET Held /\ e \in S
    BY <1>2, <1>6, <2>1, HeldIs DEF HeldOf
  <2>3. \A o \in Entries : o \in R <=> o \in S
    BY <1>2, <1>4, <1>7, <2>1 DEF HeldOf
  <2>4. R = S
    BY <2>2, <2>3
  <2>5. /\ \A o \in S : f[o] \in Nat
        /\ \A o \in S \ {e} : g[o] = f[o]
    BY <1>4, <2>1, <2>2, FiguresAreNat DEF Figures
  <2>6. g[e] = q /\ f[e] = was
    BY <1>2, <1>4, <2>1 DEF Figures
  <2>7. IsFiniteSet(S)
    BY <2>2, EntriesAreFinite
  <2>8. SumFunctionOnSet(g, S) = SumFunctionOnSet(f, S) - f[e] + g[e]
    <3>1. \A o \in S : f[o] \in Int /\ g[o] \in Int
      BY <2>5, <2>6
    <3>2. \A o \in S \ {e} : f[o] = g[o]
      BY <2>5
    <3> QED
      BY <2>2, <2>7, <3>1, <3>2, SumChanged
  <2>9. Claims(k) = SumFunctionOnSet(f, S) /\ Claims(k)' = SumFunctionOnSet(g, R)
    BY <2>1, ClaimsAre
  <2>10. Claims(k) \in Int
    BY FiguresAreNat
  <2> QED
    BY <1>5, <2>4, <2>6, <2>8, <2>9, <2>10
<1>12. \A j \in Keys : Claims(j) \in Int /\ Booked(j) \in Int
  BY FiguresAreNat, BookedIsInt
<1>13. \A j \in Keys : j # k => /\ 0 \in Int /\ Booked(j)' = Booked(j) + 0
                                /\ Claims(j)' = Claims(j) + 0
  BY <1>9, <1>12
<1>14. q - was \in Int
  BY <1>5
<1> QED
  BY <1>10, <1>11, <1>13, <1>14 DEF KeepsBooks

LEMMA ReleaseBooks ==
    ASSUME DeliveryInv, NEW r \in Requests, ReleaseCommit(r)
    PROVE  KeepsBooks
<1>1. PICK gone, stops, trips : gone \in SUBSET Entries /\ ReleaseEffect(gone, stops, trips)
  BY ReleaseDoes
<1>2. /\ \A e \in gone : entry[e] # None /\ Loading(entry[e].stop)
      /\ \A e \in Entries : entry[e] # None /\ entry[e].stop \in stops => e \in gone
      /\ entry' = [e \in Entries |-> IF e \in gone THEN None ELSE entry[e]]
      /\ stop' = [s \in Stops |-> IF s \in stops THEN None ELSE stop[s]]
      /\ \A d \in Deliveries, l \in SaleLines :
            IF dline[d][l] = None THEN dline'[d][l] = None
            ELSE /\ dline'[d][l] # None
                 /\ dline'[d][l].committed = dline[d][l].committed
                                                - ClaimedBy(gone, entry, <<d, l>>)
  BY <1>1 DEF ReleaseEffect
<1>3. gone \in SUBSET Held
  <2>1. ASSUME NEW e \in gone PROVE e \in Held
    <3>0. e \in Entries
      BY <1>1
    <3>1. entry[e] # None /\ entry[e].stop \in Stops /\ stop[entry[e].stop] # None
      BY <1>2, <3>0, EntryIsRooted
    <3>2. stop[entry[e].stop].outcome = "PENDING"
      BY <1>2, <3>1 DEF Loading, DeliveryInv, Rooted
    <3> QED
      BY <3>0, <3>1, <3>2, HeldIs
  <2> QED
    BY <2>1
<1>4. \A e \in Entries : e \in Held' <=> e \in Held /\ e \notin gone
  BY <1>2, HeldIs
<1>5. \A e \in Held : e \notin gone => entry'[e] = entry[e]
  BY <1>2, HeldIs
<1>6. ASSUME NEW k \in Keys
      PROVE  \E n \in Int : Booked(k)' = Booked(k) + n /\ Claims(k)' = Claims(k) + n
  <2>1. k[1] \in Deliveries /\ k[2] \in SaleLines /\ k = <<k[1], k[2]>> /\ Booked(k) \in Int
    BY BookedIsInt DEF Keys
  <2>2. Claims(k) \in Nat
    BY FiguresAreNat
  <2>3. /\ \A e \in Entries : e \in HeldOf(k)' <=> e \in HeldOf(k) \ gone
        /\ \A e \in HeldOf(k) \ gone : entry'[e].committed = entry[e].committed
    <3>1. \A e : (e \in Held => e \in Entries) /\ (e \in Held' => e \in Entries)
      BY HeldIs
    <3> QED
      BY <1>4, <1>5, <3>1 DEF HeldOf
  <2>4. Claims(k)' = Claims(k) - ClaimedBy(gone, entry, k) /\ ClaimedBy(gone, entry, k) \in Nat
    BY <1>3, <2>3, ClaimsReleased
  <2>5. CASE dline[k[1]][k[2]] = None
    <3>1. HeldOf(k) = {}
      BY <2>5, NothingAboard
    <3>2. Claims(k)' = Claims(k)
      BY <2>3, <3>1, ClaimsKept
    <3>3. Booked(k)' = Booked(k)
      BY <1>2, <2>1, <2>5 DEF Booked
    <3>4. 0 \in Int /\ Booked(k)' = Booked(k) + 0 /\ Claims(k)' = Claims(k) + 0
      BY <2>1, <2>2, <3>2, <3>3
    <3> QED
      BY <3>4
  <2>6. CASE dline[k[1]][k[2]] # None
    <3>1. PICK c : c = ClaimedBy(gone, entry, k)
      OBVIOUS
    <3>2. c = ClaimedBy(gone, entry, <<k[1], k[2]>>)
      BY <2>1, <3>1
    <3>3. Booked(k)' = Booked(k) - c
      BY <1>2, <2>1, <2>6, <3>2 DEF Booked
    <3>4. /\ 0 - c \in Int /\ Booked(k)' = Booked(k) + (0 - c) /\ Claims(k)' = Claims(k) + (0 - c)
      BY <2>1, <2>2, <2>4, <3>1, <3>3
    <3> QED
      BY <3>4
  <2> QED
    BY <2>5, <2>6
<1> QED
  BY <1>6 DEF KeepsBooks

LEMMA CloseBooks ==
    ASSUME DeliveryInv, NEW r \in Requests, NEW given \in [txn[r].arg.aboard -> Nat],
           CloseCommit(r, given)
    PROVE  KeepsBooks
<1>1. PICK s, S, accepted, settled, born, parent :
         Closing(s, S, accepted, settled, born, parent)
  BY CloseReads
<1>2. /\ s \in Stops /\ S \in SUBSET Entries /\ stop[s] # None
      /\ \A e \in S : entry[e] # None /\ entry[e].stop = s
      /\ born \in SUBSET Deliveries /\ \A d \in born : delivery[d] = None
  BY <1>1, ClosingFinds
<1>3. stop[s].outcome = "PENDING" /\ S = EntriesAt(s)
  BY <1>1 DEF Closing, OnTheRoad
<1>4. \A e \in Entries :
         IF e \in S THEN entry'[e] # None /\ entry'[e].stop = s
         ELSE entry'[e] = entry[e]
  BY <1>1, <1>2, ClosingEntries
<1>5. /\ stop'[s] # None /\ stop'[s].outcome # "PENDING"
      /\ \A q \in Stops : q # s => stop'[q] = stop[q]
  BY <1>1, ClosingStops
<1>6. S \in SUBSET Held
  BY <1>2, <1>3, HeldIs
<1>7. \A e \in Entries : entry[e] # None /\ entry[e].stop = s => e \in S
  BY <1>3 DEF EntriesAt
<1>8. \A e \in Entries : e \in Held' <=> e \in Held /\ e \notin S
  <2>1. \A e \in S : e \in Entries /\ e \notin Held'
    BY <1>2, <1>4, <1>5, HeldIs
  <2>2. ASSUME NEW e \in Entries, e \notin S PROVE e \in Held' <=> e \in Held
    <3>1. entry'[e] = entry[e] /\ (entry[e] # None => entry[e].stop # s)
      BY <1>4, <1>7, <2>2
    <3>2. entry[e] # None /\ entry[e].stop \in Stops => stop'[entry[e].stop] = stop[entry[e].stop]
      BY <1>5, <3>1
    <3> QED
      BY <3>1, <3>2, HeldIs
  <2> QED
    BY <2>1, <2>2
<1>9. \A e \in Held : e \in Entries /\ (e \notin S => entry'[e] = entry[e])
  BY <1>4, HeldIs
<1>10. \A d \in born, l \in SaleLines : dline'[d][l] # None => dline'[d][l].committed = 0
  BY <1>1, ClosingLines
<1>11. \A d \in Deliveries, l \in SaleLines : d \notin born =>
          IF Carries(S, d, l)
          THEN /\ dline'[d][l] # None
               /\ dline'[d][l].committed = dline[d][l].committed - ClaimedBy(S, entry, <<d, l>>)
          ELSE dline'[d][l] = dline[d][l]
  BY <1>1, ClosingLines
<1>12. ASSUME NEW k \in Keys
       PROVE  \E n \in Int : Booked(k)' = Booked(k) + n /\ Claims(k)' = Claims(k) + n
  <2>1. k[1] \in Deliveries /\ k[2] \in SaleLines /\ k = <<k[1], k[2]>> /\ Booked(k) \in Int
    BY BookedIsInt DEF Keys
  <2>2. Claims(k) \in Nat
    BY FiguresAreNat
  <2>3. /\ \A e \in Entries : e \in HeldOf(k)' <=> e \in HeldOf(k) \ S
        /\ \A e \in HeldOf(k) \ S : entry'[e].committed = entry[e].committed
    <3>1. \A e : e \in Held' => e \in Entries
      BY HeldIs
    <3> QED
      BY <1>8, <1>9, <3>1 DEF HeldOf
  <2>4. Claims(k)' = Claims(k) - ClaimedBy(S, entry, k) /\ ClaimedBy(S, entry, k) \in Nat
    BY <1>6, <2>3, ClaimsReleased
  <2>5. CASE Booked(k)' = Booked(k) /\ \A e \in S : entry[e].key # k
    <3>1. \A e \in HeldOf(k) : e \notin S
      BY <2>5 DEF HeldOf
    <3>2. Claims(k)' = Claims(k)
      BY <2>3, <3>1, ClaimsKept
    <3>3. 0 \in Int /\ Booked(k)' = Booked(k) + 0 /\ Claims(k)' = Claims(k) + 0
      BY <2>1, <2>2, <2>5, <3>2
    <3> QED
      BY <3>3
  <2>6. CASE k[1] \in born
    <3>1. delivery[k[1]] = None /\ dline[k[1]][k[2]] = None
      BY <1>2, <2>1, <2>6 DEF DeliveryInv, Rooted
    <3>2. \A e \in S : entry[e].key # k
      BY <1>2, <3>1, NothingAboard
    <3>3. Booked(k)' = Booked(k)
      BY <1>10, <2>1, <2>6, <3>1 DEF Booked
    <3> QED
      BY <2>5, <3>2, <3>3
  <2>7. CASE k[1] \notin born /\ ~ Carries(S, k[1], k[2])
    <3>1. \A e \in S : entry[e].key # k
      BY <2>1, <2>7 DEF Carries
    <3>2. Booked(k)' = Booked(k)
      BY <1>11, <2>1, <2>7 DEF Booked
    <3> QED
      BY <2>5, <3>1, <3>2
  <2>8. CASE k[1] \notin born /\ Carries(S, k[1], k[2])
    <3>1. PICK c : c = ClaimedBy(S, entry, k)
      OBVIOUS
    <3>2. c = ClaimedBy(S, entry, <<k[1], k[2]>>)
      BY <2>1, <3>1
    <3>3. PICK e \in S : entry[e].key = k
      BY <2>1, <2>8 DEF Carries
    <3>4. dline[k[1]][k[2]] # None
      BY <1>2, <3>3, EntryIsRooted
    <3>5. Booked(k)' = Booked(k) - c
      BY <1>11, <2>1, <2>8, <3>2, <3>4 DEF Booked
    <3>6. /\ 0 - c \in Int /\ Booked(k)' = Booked(k) + (0 - c) /\ Claims(k)' = Claims(k) + (0 - c)
      BY <2>1, <2>2, <2>4, <3>1, <3>5
    <3> QED
      BY <3>6
  <2> QED
    BY <2>6, <2>7, <2>8
<1> QED
  BY <1>12 DEF KeepsBooks

LEMMA StepsKeepBooks ==
    ASSUME DeliveryInv, ClaimsAgree, [Next]_vars
    PROVE  KeepsBooks
<1>1. UNCHANGED <<stop, entry, dline>> => KeepsBooks
  BY BooksOfOrders, BookedIsInt, Zenon DEF Booked
<1>2. ASSUME NEW r \in Requests, ConfirmCommit(r) PROVE UNCHANGED <<stop, entry, dline>>
  BY <1>2 DEF ConfirmCommit
<1>3. ASSUME NEW r \in Requests, NEW t \in Trips, TripCommit(r, t)
      PROVE  UNCHANGED <<stop, entry, dline>>
  BY <1>3 DEF TripCommit
<1>4. ASSUME NEW t \in Trips, NEW v \in Vehicles, UpdateTrip(t, v)
      PROVE  UNCHANGED <<stop, entry, dline>>
  BY <1>4 DEF UpdateTrip
<1>5. ASSUME NEW r \in Requests, NEW e \in Entries, LoadCommit(r, e) PROVE KeepsBooks
  <2>1. PICK s \in Stops, k \in Keys, q \in Nat : ClaimEffect(e, s, k, q)
    BY <1>5, LoadDoes
  <2> QED
    BY <2>1, LoadBooks
<1>6. ASSUME NEW r \in Requests, NEW e \in Entries, NEW k \in Keys, WholeCommit(r, e, k)
      PROVE  KeepsBooks
  <2>1. PICK s \in Stops, q \in Nat : ClaimEffect(e, s, k, q)
    BY <1>6, WholeDoes
  <2> QED
    BY <2>1, LoadBooks
<1>7. CASE Leaves
  BY <1>1, <1>7 DEF Leaves
<1>8. CASE Writes
  BY <1>1, <1>2, <1>3, <1>4, <1>5, <1>6, <1>8, CreateBooks, EditBooks, StepBooks, PickupBooks,
     StopBooks, AdjustBooks, ReleaseBooks, DepartBooks, CloseBooks DEF Writes
<1> QED
  BY <1>7, <1>8, EveryStep

LEMMA ClaimsStep ==
    ASSUME DeliveryInv, ClaimsAgree, [Next]_vars
    PROVE  ClaimsAgree'
<1>1. KeepsBooks /\ MovesAsTold
  BY StepsKeepBooks, StepsMove
<1>2. ASSUME NEW k \in Keys, Live(k[1])', dline'[k[1]][k[2]] # None
      PROVE  dline'[k[1]][k[2]].committed = Claims(k)'
  <2>1. k[1] \in Deliveries
    BY DEF Keys
  <2>2. delivery'[k[1]] # None /\ delivery'[k[1]].status # "CANCELLED"
    BY <1>2 DEF Live
  <2>3. delivery[k[1]] = None \/ delivery[k[1]].status # "CANCELLED"
    BY <1>1, <2>1, <2>2 DEF MovesAsTold, AssertLegal, TERMINAL
  <2>4. Booked(k) = Claims(k)
    BY <2>3, BooksAgree
  <2>5. Booked(k)' = Claims(k)'
    BY <1>1, <1>2, <2>4 DEF KeepsBooks
  <2> QED
    BY <1>2, <2>5 DEF Booked
<1> QED
  BY <1>2 DEF ClaimsAgree, Claims

(***************************************************************************)
(* What a line of an order says it has committed is what the itinerary     *)
(* lines not resolved hold of it, whatever is loaded, adjusted, released,  *)
(* sent or settled, and however many closures and loadings are in flight.  *)
(* The double-assignment guard reads the line's figure.                    *)
(***************************************************************************)
THEOREM TwoBooksOfAClaim ==
    ASSUME OneAtATime
    PROVE  Spec => []ClaimsAgree
<1>1. ASSUME Init PROVE ClaimsAgree
  BY <1>1 DEF Init, ClaimsAgree, Live, Keys
<1>2. ASSUME DeliveryInv, ClaimsAgree, [Next]_vars PROVE ClaimsAgree'
  BY <1>2, ClaimsStep
<1>3. Spec => []DeliveryInv
  BY DeliveryInvariant
<1> QED
  BY <1>1, <1>2, <1>3, PTL DEF Spec
-----------------------------------------------------------------------------
(***************************************************************************)
(* The goods on the road.                                                  *)
(***************************************************************************)
\* What orders have delivered of a line, and of the stocked ones of a set.
DeliveredBy(l) ==
    [d \in Deliveries |-> IF dline[d][l] = None THEN 0 ELSE dline[d][l].delivered]
Handed(lines) == SumFunctionOnSet([l \in SaleLines |-> Delivered(l)], lines \cap Stocked)

SentFigures == [e \in Entries |-> entry[e].sent]
AloftOf(lines) == {e \in Aloft : entry[e].key[2] \in Stocked \cap lines}

LEMMA AloftIs ==
    /\ \A e : e \in Aloft <=> /\ e \in Entries /\ entry[e] # None /\ entry[e].stop \in Stops
                              /\ stop[entry[e].stop] # None
                              /\ stop[entry[e].stop].outcome = "PENDING"
                              /\ trip[stop[entry[e].stop].trip].status = "DEPARTED"
    /\ \A e : e \in Aloft' <=> /\ e \in Entries /\ entry'[e] # None /\ entry'[e].stop \in Stops
                               /\ stop'[entry'[e].stop] # None
                               /\ stop'[entry'[e].stop].outcome = "PENDING"
                               /\ trip'[stop'[entry'[e].stop].trip].status = "DEPARTED"
<1>1. \A e : e \in Aloft <=> /\ e \in Entries /\ entry[e] # None /\ entry[e].stop \in Stops
                             /\ stop[entry[e].stop] # None
                             /\ stop[entry[e].stop].outcome = "PENDING"
                             /\ trip[stop[entry[e].stop].trip].status = "DEPARTED"
  BY DEF Aloft, OnTheRoad, EntriesAt
<1>2. \A e : e \in Aloft' <=> /\ e \in Entries /\ entry'[e] # None /\ entry'[e].stop \in Stops
                              /\ stop'[entry'[e].stop] # None
                              /\ stop'[entry'[e].stop].outcome = "PENDING"
                              /\ trip'[stop'[entry'[e].stop].trip].status = "DEPARTED"
  BY DEF Aloft, OnTheRoad, EntriesAt
<1> QED
  BY <1>1, <1>2

LEMMA SentIs ==
    ASSUME NEW lines
    PROVE  /\ Sent(lines) = SumFunctionOnSet(SentFigures, AloftOf(lines))
           /\ IsFiniteSet(AloftOf(lines))
           /\ Sent(lines)' = SumFunctionOnSet(SentFigures', AloftOf(lines)')
           /\ IsFiniteSet(AloftOf(lines)')
<1>1. Aloft \in SUBSET Entries /\ Aloft' \in SUBSET Entries
  BY AloftIs
<1>2. Sent(lines) = SumFunctionOnSet(SentFigures, AloftOf(lines)) /\ IsFiniteSet(AloftOf(lines))
  <2>1. PICK S, f, g, T : /\ S = Aloft /\ f = [e \in Aloft |-> entry[e].sent] /\ g = SentFigures
                          /\ T = AloftOf(lines)
    OBVIOUS
  <2>2. \A e \in S : f[e] = g[e]
    BY <1>1, <2>1 DEF SentFigures
  <2>3. IsFiniteSet(T) /\ \A e \in T : f[e] = g[e]
    BY <1>1, <2>1, <2>2, EntriesAreFinite DEF AloftOf
  <2>4. SumFunctionOnSet(f, T) = SumFunctionOnSet(g, T)
    BY <2>3, SumOfEqual
  <2>5. Sent(lines) = SumFunctionOnSet(f, T)
    BY <2>1 DEF Sent, GoodsOf, AloftOf
  <2> QED
    BY <2>1, <2>3, <2>4, <2>5
<1>3. /\ Sent(lines)' = SumFunctionOnSet(SentFigures', AloftOf(lines)')
      /\ IsFiniteSet(AloftOf(lines)')
  <2>1. PICK S, f, g, T, new : /\ S = Aloft' /\ f = [e \in Aloft' |-> entry'[e].sent]
                               /\ g = SentFigures' /\ T = AloftOf(lines)'
    OBVIOUS
  <2>2. \A e \in S : f[e] = g[e]
    BY <1>1, <2>1 DEF SentFigures
  <2>3. IsFiniteSet(T) /\ \A e \in T : f[e] = g[e]
    BY <1>1, <2>1, <2>2, EntriesAreFinite DEF AloftOf
  <2>4. SumFunctionOnSet(f, T) = SumFunctionOnSet(g, T)
    BY <2>3, SumOfEqual
  <2>5. Sent(lines)' = SumFunctionOnSet(f, T)
    BY <2>1 DEF Sent, GoodsOf, AloftOf
  <2> QED
    BY <2>1, <2>3, <2>4, <2>5
<1> QED
  BY <1>2, <1>3

LEMMA SentIsNat ==
    ASSUME Typed, Typed', NEW lines
    PROVE  Sent(lines) \in Nat /\ Sent(lines)' \in Nat
<1>1. PICK f, g, S, R : f = SentFigures /\ g = SentFigures' /\ S = AloftOf(lines)
                        /\ R = AloftOf(lines)'
  OBVIOUS
<1>2. /\ \A e \in S : e \in Entries /\ entry[e] \in EntryRows
      /\ \A e \in R : e \in Entries /\ entry'[e] \in EntryRows
  BY <1>1, AloftIs DEF AloftOf, Typed
<1>3. (\A e \in S : f[e] \in Nat) /\ (\A e \in R : g[e] \in Nat)
  BY <1>1, <1>2 DEF SentFigures, EntryRows
<1>4. /\ IsFiniteSet(S) /\ Sent(lines) = SumFunctionOnSet(f, S)
      /\ IsFiniteSet(R) /\ Sent(lines)' = SumFunctionOnSet(g, R)
  BY <1>1, SentIs
<1>5. SumFunctionOnSet(f, S) \in Nat /\ SumFunctionOnSet(g, R) \in Nat
  BY <1>3, <1>4, SumIsNat
<1> QED
  BY <1>4, <1>5

\* What is delivered of a line, as a sum over every order.
LEMMA DeliveredIs ==
    ASSUME Typed, Typed', NEW l \in SaleLines
    PROVE  /\ Delivered(l) = SumFunctionOnSet(DeliveredBy(l), Deliveries)
           /\ Delivered(l) \in Nat /\ \A d \in Deliveries : DeliveredBy(l)[d] \in Nat
           /\ Delivered(l)' = SumFunctionOnSet(DeliveredBy(l)', Deliveries)
           /\ Delivered(l)' \in Nat /\ \A d \in Deliveries : DeliveredBy(l)'[d] \in Nat
<1>1. /\ Delivered(l) = SumFunctionOnSet(DeliveredBy(l), Deliveries)
      /\ Delivered(l) \in Nat /\ \A d \in Deliveries : DeliveredBy(l)[d] \in Nat
  <2>1. PICK orders : orders = {d \in Deliveries : dline[d][l] # None}
    OBVIOUS
  <2>2. PICK f, g : /\ f = [d \in orders |-> dline[d][l].delivered]
                    /\ g = [d \in Deliveries |-> IF dline[d][l] = None THEN 0
                                                  ELSE dline[d][l].delivered]
    OBVIOUS
  <2>3. orders \in SUBSET Deliveries /\ IsFiniteSet(Deliveries)
    BY <2>1, DeliveryConstants
  <2>4. /\ \A d \in orders : f[d] = g[d] /\ f[d] \in Nat
        /\ \A d \in Deliveries \ orders : g[d] = 0
    BY <2>1, <2>2 DEF Typed, DeliveryLines
  <2>5. Delivered(l) = SumFunctionOnSet(f, orders) /\ g = DeliveredBy(l)
    BY <2>1, <2>2 DEF Delivered, DeliveredBy
  <2>6. /\ SumFunctionOnSet(f, orders) = SumFunctionOnSet(g, Deliveries)
        /\ SumFunctionOnSet(f, orders) \in Nat
    BY <2>3, <2>4, SumOverAll
  <2>7. \A d \in Deliveries : g[d] \in Nat
    BY <2>4
  <2> QED
    BY <2>5, <2>6, <2>7
<1>2. /\ Delivered(l)' = SumFunctionOnSet(DeliveredBy(l)', Deliveries)
      /\ Delivered(l)' \in Nat /\ \A d \in Deliveries : DeliveredBy(l)'[d] \in Nat
  <2>1. PICK orders : orders = {d \in Deliveries : dline'[d][l] # None}
    OBVIOUS
  <2>2. PICK f, g : /\ f = [d \in orders |-> dline'[d][l].delivered]
                    /\ g = [d \in Deliveries |-> IF dline'[d][l] = None THEN 0
                                                  ELSE dline'[d][l].delivered]
    OBVIOUS
  <2>3. orders \in SUBSET Deliveries /\ IsFiniteSet(Deliveries)
    BY <2>1, DeliveryConstants
  <2>4. /\ \A d \in orders : f[d] = g[d] /\ f[d] \in Nat
        /\ \A d \in Deliveries \ orders : g[d] = 0
    BY <2>1, <2>2 DEF Typed, DeliveryLines
  <2>5. /\ SumFunctionOnSet(f, orders) = SumFunctionOnSet(g, Deliveries)
        /\ SumFunctionOnSet(f, orders) \in Nat
    BY <2>3, <2>4, SumOverAll
  <2>6. Delivered(l)' = SumFunctionOnSet(f, orders) /\ g = DeliveredBy(l)'
    BY <2>1, <2>2 DEF Delivered, DeliveredBy
  <2>7. \A d \in Deliveries : g[d] \in Nat
    BY <2>4
  <2> QED
    BY <2>5, <2>6, <2>7
<1> QED
  BY <1>1, <1>2

LEMMA HandedIsInt ==
    ASSUME Typed, Typed', NEW lines
    PROVE  Handed(lines) \in Int /\ Handed(lines)' \in Int
<1>1. PICK f, g, S : /\ f = [l \in SaleLines |-> Delivered(l)] /\ S = lines \cap Stocked
                     /\ g = [l \in SaleLines |-> Delivered(l)']
  OBVIOUS
<1>2. S \in SUBSET SaleLines
  BY <1>1, DeliveryConstants
<1>3. IsFiniteSet(S) /\ (\A l \in S : f[l] \in Int) /\ (\A l \in S : g[l] \in Int)
  BY <1>1, <1>2, LinesAreFinite, DeliveredIs
<1>4. SumFunctionOnSet(f, S) \in Int /\ SumFunctionOnSet(g, S) \in Int
  BY <1>3, SumIsInt
<1> QED
  BY <1>1, <1>4 DEF Handed

\* What more the stocked lines of a set have delivered, as one sum.
LEMMA HandedMore ==
    ASSUME Typed, Typed', NEW more, \A l \in SaleLines : more[l] = Delivered(l)' - Delivered(l),
           NEW lines
    PROVE  SumFunctionOnSet(more, lines \cap Stocked) = Handed(lines)' - Handed(lines)
<1>1. PICK f, g, S : /\ f = [l \in SaleLines |-> Delivered(l)'] /\ S = lines \cap Stocked
                     /\ g = [l \in SaleLines |-> Delivered(l)]
  OBVIOUS
<1>2. S \in SUBSET SaleLines
  BY <1>1, DeliveryConstants
<1>3. \A l \in SaleLines : Delivered(l) \in Nat
  BY DeliveredIs
<1>4. \A l \in SaleLines : Delivered(l)' \in Nat
  BY DeliveredIs
<1>5. IsFiniteSet(S) /\ \A l \in S : f[l] \in Int /\ g[l] \in Int /\ more[l] = f[l] - g[l]
  BY <1>1, <1>2, <1>3, <1>4, LinesAreFinite
<1>6. SumFunctionOnSet(more, S) = SumFunctionOnSet(f, S) - SumFunctionOnSet(g, S)
  BY <1>5, SumOfDifferences
<1>7. Handed(lines) = SumFunctionOnSet(g, S) /\ Handed(lines)' = SumFunctionOnSet(f, S)
  BY <1>1 DEF Handed
<1> QED
  BY <1>1, <1>6, <1>7

\* No goods are dispatched from an in-transit location or pass through a shelf.
LEMMA Ways ==
    ASSUME NEW w \in DOMAIN TransitOf
    PROVE  /\ w \in Warehouses /\ TransitOf[w] \in Warehouses
           /\ From(TransitOf[w]) = {} /\ Through(w) = {}
           /\ From(w) \in SUBSET SaleLines /\ Through(TransitOf[w]) \in SUBSET SaleLines
<1>1. \A l \in SaleLines : WarehouseOf[l] \in DOMAIN TransitOf
  BY DeliveryConstants
<1>2. w \in Warehouses /\ TransitOf[w] \in Warehouses
  BY DeliveryConstants
<1>3. \A l \in SaleLines : WarehouseOf[l] # TransitOf[w] /\ TransitOf[WarehouseOf[l]] # w
  BY <1>1, DeliveryConstants
<1> QED
  BY <1>2, <1>3 DEF From, Through

LEMMA NoGoods == ASSUME NEW f, NEW S, NEW copies PROVE GoodsOf(f, S, copies, {}) = 0
<1>1. {e \in S : copies[e].key[2] \in Stocked \cap {}} = {}
  OBVIOUS
<1> QED
  BY <1>1, SumOfNone DEF GoodsOf

\* A step that moves goods as much as it changes what is on the road and what
\* customers have.
GoodsMove ==
    \A w \in DOMAIN TransitOf :
        /\ onHand'[TransitOf[w]] = onHand[TransitOf[w]] + Sent(Through(TransitOf[w]))'
                                      - Sent(Through(TransitOf[w]))
        /\ onHand'[w] = onHand[w] + Sent(From(w)) - Sent(From(w))'
                                  + Handed(From(w)) - Handed(From(w))'

LEMMA HandedFrom ==
    ASSUME NEW w
    PROVE  /\ SumFunctionOnSet([l \in From(w) |-> Delivered(l)], From(w) \cap Stocked)
                = Handed(From(w))
           /\ SumFunctionOnSet([l \in From(w) |-> Delivered(l)'], From(w) \cap Stocked)
                = Handed(From(w))'
<1>1. PICK F, S : F = From(w) /\ S = From(w) \cap Stocked
  OBVIOUS
<1>2. S \in SUBSET F /\ F \in SUBSET SaleLines /\ IsFiniteSet(S)
  BY <1>1, LinesAreFinite DEF From
<1>3. PICK f, g : f = [l \in F |-> Delivered(l)] /\ g = [l \in SaleLines |-> Delivered(l)]
  OBVIOUS
<1>4. \A l \in S : f[l] = g[l]
  BY <1>2, <1>3
<1>5. SumFunctionOnSet(f, S) = SumFunctionOnSet(g, S)
  BY <1>2, <1>4, SumOfEqual
<1>6. PICK h, j : h = [l \in F |-> Delivered(l)'] /\ j = [l \in SaleLines |-> Delivered(l)']
  OBVIOUS
<1>7. \A l \in S : h[l] = j[l]
  BY <1>2, <1>6
<1>8. SumFunctionOnSet(h, S) = SumFunctionOnSet(j, S)
  BY <1>2, <1>7, SumOfEqual
<1>9. Handed(From(w)) = SumFunctionOnSet(g, S)
  BY <1>1, <1>3 DEF Handed
<1>10. Handed(From(w))' = SumFunctionOnSet(j, S)
  BY <1>1, <1>6 DEF Handed, From
<1> QED
  BY <1>1, <1>3, <1>5, <1>6, <1>8, <1>9, <1>10

LEMMA GoodsFollow ==
    ASSUME Typed, Typed', GoodsOnTheRoad, GoodsMove
    PROVE  GoodsOnTheRoad'
<1>1. ASSUME NEW w \in DOMAIN TransitOf
      PROVE  /\ onHand'[TransitOf[w]] = Opening[TransitOf[w]] + Sent(Through(TransitOf[w]))'
             /\ onHand'[w] = Opening[w] - Sent(From(w))' - Handed(From(w))'
  <2>1. w \in Warehouses /\ TransitOf[w] \in Warehouses
    BY Ways
  <2>2. /\ onHand[w] \in Int /\ onHand[TransitOf[w]] \in Int
        /\ Opening[w] \in Nat /\ Opening[TransitOf[w]] \in Nat
    BY <2>1, DeliveryConstants DEF Typed
  <2>3. \A lines : Sent(lines) \in Nat /\ Handed(lines) \in Int
    BY SentIsNat, HandedIsInt
  <2>4. \A lines : Sent(lines)' \in Int /\ Handed(lines)' \in Int
    BY SentIsNat, HandedIsInt
  <2>5. /\ onHand[TransitOf[w]] = Opening[TransitOf[w]] + Sent(Through(TransitOf[w]))
        /\ onHand[w] = Opening[w] - Sent(From(w)) - Handed(From(w))
    BY HandedFrom DEF GoodsOnTheRoad
  <2>6. PICK T, F : T = Through(TransitOf[w]) /\ F = From(w)
    OBVIOUS
  <2>7. /\ onHand'[TransitOf[w]] = onHand[TransitOf[w]] + Sent(T)' - Sent(T)
        /\ onHand'[w] = onHand[w] + Sent(F) - Sent(F)' + Handed(F) - Handed(F)'
    BY <2>6 DEF GoodsMove
  <2> QED
    BY <2>2, <2>3, <2>4, <2>5, <2>6, <2>7
<1>2. \A w \in DOMAIN TransitOf :
         SumFunctionOnSet([l \in From(w) |-> Delivered(l)'], From(w) \cap Stocked) = Handed(From(w))'
  BY HandedFrom
<1> QED
  BY <1>1, <1>2 DEF GoodsOnTheRoad

\* What is on the road, and handed over, where no step's entry or line is.
LEMMA SentKept ==
    ASSUME \A e \in Entries : e \in Aloft' <=> e \in Aloft,
           \A e \in Aloft : entry'[e].key = entry[e].key /\ entry'[e].sent = entry[e].sent,
           NEW lines
    PROVE  Sent(lines)' = Sent(lines)
<1>1. PICK f, g, S, R : f = SentFigures /\ g = SentFigures' /\ S = AloftOf(lines)
                        /\ R = AloftOf(lines)'
  OBVIOUS
<1>2. \A e : (e \in Aloft => e \in Entries) /\ (e \in Aloft' => e \in Entries)
  BY AloftIs
<1>3. R = S /\ \A e \in S : f[e] = g[e]
  BY <1>1, <1>2 DEF AloftOf, SentFigures
<1>4. SumFunctionOnSet(f, S) = SumFunctionOnSet(g, S)
  BY <1>1, <1>3, SentIs, SumOfEqual
<1> QED
  BY <1>1, <1>3, <1>4, SentIs

LEMMA DeliveredKept ==
    ASSUME Typed, Typed', NEW l \in SaleLines,
           \A d \in Deliveries : DeliveredBy(l)'[d] = DeliveredBy(l)[d]
    PROVE  Delivered(l)' = Delivered(l)
<1>1. IsFiniteSet(Deliveries)
  BY DeliveryConstants
<1>2. PICK f, g : f = DeliveredBy(l) /\ g = DeliveredBy(l)'
  OBVIOUS
<1>3. SumFunctionOnSet(f, Deliveries) = SumFunctionOnSet(g, Deliveries)
  BY <1>1, <1>2, SumOfEqual
<1> QED
  BY <1>2, <1>3, DeliveredIs

LEMMA HandedKept ==
    ASSUME Typed, Typed',
           \A d \in Deliveries, l \in SaleLines : DeliveredBy(l)'[d] = DeliveredBy(l)[d], NEW lines
    PROVE  Handed(lines)' = Handed(lines)
<1>1. \A l \in SaleLines : Delivered(l)' = Delivered(l)
  BY DeliveredKept
<1>2. PICK f, g, S : /\ f = [l \in SaleLines |-> Delivered(l)] /\ S = lines \cap Stocked
                     /\ g = [l \in SaleLines |-> Delivered(l)']
  OBVIOUS
<1>3. IsFiniteSet(S) /\ S \in SUBSET SaleLines
  BY <1>2, LinesAreFinite, DeliveryConstants
<1>4. SumFunctionOnSet(f, S) = SumFunctionOnSet(g, S)
  BY <1>1, <1>2, <1>3, SumOfEqual
<1> QED
  BY <1>2, <1>4 DEF Handed

\* A step that neither sends, settles nor hands over anything.
GoodsStill ==
    /\ UNCHANGED <<claim, onHand>> /\ \A e \in Entries : e \in Aloft' <=> e \in Aloft
    /\ \A e \in Aloft : /\ entry'[e].key = entry[e].key /\ entry'[e].sent = entry[e].sent
                        /\ entry'[e].committed = entry[e].committed
    /\ \A d \in Deliveries, l \in SaleLines : DeliveredBy(l)'[d] = DeliveredBy(l)[d]
LEMMA GoodsStay ==
    ASSUME Typed, Typed', GoodsStill
    PROVE  /\ GoodsMove
           /\ \A l \in SaleLines : /\ claim'[l] = claim[l] /\ Delivered(l)' = Delivered(l)
                                    /\ Sent({l})' = Sent({l})
<1>0. /\ UNCHANGED <<claim, onHand>> /\ \A e \in Entries : e \in Aloft' <=> e \in Aloft
      /\ \A e \in Aloft : entry'[e].key = entry[e].key /\ entry'[e].sent = entry[e].sent
      /\ \A d \in Deliveries, l \in SaleLines : DeliveredBy(l)'[d] = DeliveredBy(l)[d]
  BY DEF GoodsStill
<1>1. \A w \in Warehouses : onHand[w] \in Int
  BY DEF Typed
<1>2. \A lines : Sent(lines) \in Nat /\ Handed(lines) \in Int
  BY SentIsNat, HandedIsInt
<1>3. \A lines : Sent(lines)' = Sent(lines)
  BY <1>0, SentKept
<1>4. \A lines : Handed(lines)' = Handed(lines)
  BY <1>0, HandedKept
<1>5. ASSUME NEW w \in DOMAIN TransitOf
      PROVE  /\ onHand'[TransitOf[w]] = onHand[TransitOf[w]] + Sent(Through(TransitOf[w]))'
                                      - Sent(Through(TransitOf[w]))
             /\ onHand'[w] = onHand[w] + Sent(From(w)) - Sent(From(w))'
                                  + Handed(From(w)) - Handed(From(w))'
  <2>1. PICK T, F : T = Through(TransitOf[w]) /\ F = From(w)
    OBVIOUS
  <2>2. /\ Sent(T)' = Sent(T) /\ Sent(F)' = Sent(F) /\ Handed(F)' = Handed(F)
        /\ Sent(T) \in Nat /\ Sent(F) \in Nat /\ Handed(F) \in Int
    BY <1>2, <1>3, <1>4
  <2>3. onHand[w] \in Int /\ onHand[TransitOf[w]] \in Int
    BY <1>1, Ways
  <2> QED
    BY <1>0, <2>1, <2>2, <2>3
<1>6. GoodsMove
  BY <1>5 DEF GoodsMove
<1> QED
  BY <1>0, <1>3, <1>6, DeliveredKept

\* A step of the orders, whose lines have delivered what they had.
LEMMA GoodsOfOrders ==
    ASSUME Typed, Typed', UNCHANGED <<claim, trip, stop, entry, onHand>>,
           \A d \in Deliveries, l \in SaleLines : DeliveredBy(l)'[d] = DeliveredBy(l)[d]
    PROVE  GoodsStill
<1>1. \A e \in Entries : e \in Aloft' <=> e \in Aloft
  BY AloftIs
<1> QED
  BY <1>1 DEF GoodsStill

LEMMA CreateGoods ==
    ASSUME DeliveryInv, Typed', NEW r \in Requests, NEW d \in Deliveries, CreateCommit(r, d)
    PROVE  GoodsStill
<1>1. /\ UNCHANGED <<claim, trip, stop, entry, onHand>>
      /\ \A c \in Deliveries : c # d => dline'[c] = dline[c]
      /\ \A l \in SaleLines : /\ dline[d][l] = None
                              /\ dline'[d][l] # None => dline'[d][l].delivered = 0
  BY CreateDoes
<1>2. \A c \in Deliveries, l \in SaleLines : DeliveredBy(l)'[c] = DeliveredBy(l)[c]
  BY <1>1 DEF DeliveredBy
<1> QED
  BY <1>1, <1>2, GoodsOfOrders DEF DeliveryInv

LEMMA EditGoods ==
    ASSUME DeliveryInv, Typed', NEW r \in Requests, EditCommit(r)
    PROVE  GoodsStill
<1>1. PICK d \in Deliveries, l \in SaleLines, m \in DeliveryLines \cup {None} :
         /\ Editable(d) /\ UNCHANGED <<sale, claim, delivery, trip, stop, entry, onHand>>
         /\ dline'[d][l] = m
         /\ \A c \in Deliveries, k \in SaleLines : c # d \/ k # l => dline'[c][k] = dline[c][k]
         /\ m # None => m.delivered = IF dline[d][l] = None THEN 0 ELSE dline[d][l].delivered
  BY EditDoes
<1>2. dline[d][l] # None => dline[d][l].delivered = 0
  <2>1. delivery[d] # None /\ delivery[d].status \in Early
    BY <1>1 DEF Editable, Early
  <2> QED
    BY <2>1 DEF DeliveryInv, Rooted
<1>3. DeliveredBy(l)'[d] = DeliveredBy(l)[d]
  BY <1>1, <1>2 DEF DeliveredBy
<1>4. \A c \in Deliveries, k \in SaleLines : c # d \/ k # l => DeliveredBy(k)'[c] = DeliveredBy(k)[c]
  BY <1>1 DEF DeliveredBy
<1>5. \A c \in Deliveries, k \in SaleLines : DeliveredBy(k)'[c] = DeliveredBy(k)[c]
  BY <1>3, <1>4
<1> QED
  BY <1>1, <1>5, GoodsOfOrders DEF DeliveryInv

LEMMA StepGoods ==
    ASSUME DeliveryInv, Typed', NEW r \in Requests, StepCommit(r)
    PROVE  GoodsStill
<1>1. PICK d \in Deliveries :
         /\ UNCHANGED <<sale, claim, trip, stop, entry, onHand>>
         /\ \A c \in Deliveries : c # d => dline'[c] = dline[c]
         /\ \A l \in SaleLines :
               IF dline[d][l] = None THEN dline'[d][l] = None
               ELSE dline'[d][l] # None /\ dline'[d][l].delivered = dline[d][l].delivered
  BY StepDoes
<1>2. \A c \in Deliveries, l \in SaleLines : DeliveredBy(l)'[c] = DeliveredBy(l)[c]
  BY <1>1 DEF DeliveredBy
<1> QED
  BY <1>1, <1>2, GoodsOfOrders DEF DeliveryInv

LEMMA LinesSame ==
    ASSUME UNCHANGED dline
    PROVE  \A c \in Deliveries, l \in SaleLines : DeliveredBy(l)'[c] = DeliveredBy(l)[c]
BY DEF DeliveredBy

\* Planning, and the trips and stops it adds.
LEMMA PlanGoods ==
    ASSUME DeliveryInv, Typed', UNCHANGED <<claim, dline, entry, onHand>>,
           \A s \in Stops : stop[s] # None => stop'[s] = stop[s],
           \A p \in Trips : trip[p] # None => trip'[p].status = trip[p].status
    PROVE  GoodsStill
<1>1. \A e \in Entries : entry[e] # None => entry[e].stop \in Stops /\ stop[entry[e].stop] # None
  BY EntryIsRooted
<1>2. \A s \in Stops : stop[s] # None => stop[s].trip \in Trips /\ trip[stop[s].trip] # None
  BY DEF DeliveryInv, Typed, StopRows, Rooted
<1>3. \A e \in Entries : e \in Aloft' <=> e \in Aloft
  <2>1. ASSUME NEW e \in Entries, entry[e] # None PROVE e \in Aloft' <=> e \in Aloft
    <3>1. PICK s : s = entry[e].stop
      OBVIOUS
    <3>2. s \in Stops /\ stop[s] # None /\ stop'[s] = stop[s]
      BY <1>1, <2>1, <3>1
    <3>3. trip'[stop[s].trip].status = trip[stop[s].trip].status
      BY <1>2, <3>2
    <3>4. entry'[e] = entry[e]
      OBVIOUS
    <3>5. e \in Aloft <=> stop[s].outcome = "PENDING" /\ trip[stop[s].trip].status = "DEPARTED"
      BY <2>1, <3>1, <3>2, AloftIs
    <3>6. e \in Aloft' <=> stop'[s].outcome = "PENDING" /\ trip'[stop'[s].trip].status = "DEPARTED"
      BY <2>1, <3>1, <3>2, <3>4, AloftIs
    <3> QED
      BY <3>2, <3>3, <3>5, <3>6
  <2>2. ASSUME NEW e \in Entries, entry[e] = None PROVE e \notin Aloft' /\ e \notin Aloft
    <3>1. entry'[e] = None
      BY <2>2
    <3> QED
      BY <2>2, <3>1, AloftIs
  <2> QED
    BY <2>1, <2>2
<1> QED
  BY <1>3, LinesSame DEF GoodsStill

LEMMA TripGoods ==
    ASSUME DeliveryInv, Typed', NEW r \in Requests, NEW p \in Trips, TripCommit(r, p)
    PROVE  GoodsStill
<1>1. trip[p] = None /\ UNCHANGED <<claim, dline, entry, onHand, stop>>
  BY DEF TripCommit, Fresh
<1>2. PICK row : trip' = [trip EXCEPT ![p] = row]
  BY DEF TripCommit
<1>3. \A o \in Trips : trip[o] # None => trip'[o] = trip[o]
  BY <1>1, <1>2 DEF DeliveryInv, Typed
<1> QED
  BY <1>1, <1>3, PlanGoods

LEMMA VehicleGoods ==
    ASSUME DeliveryInv, Typed', NEW p \in Trips, NEW v \in Vehicles, UpdateTrip(p, v)
    PROVE  GoodsStill
<1>1. IsOpen(p) /\ UNCHANGED <<claim, dline, entry, onHand, stop>> /\ trip' = [trip EXCEPT ![p].vehicle = v]
  BY DEF UpdateTrip
<1>2. Typed /\ trip[p] \in TripRows
  BY <1>1 DEF DeliveryInv, Typed, IsOpen
<1>3. PICK row : row = [trip[p] EXCEPT !.vehicle = v]
  OBVIOUS
<1>4. row.status = trip[p].status
  BY <1>2, <1>3 DEF TripRows
<1>5. \A o \in Trips : trip'[o].status = trip[o].status
  BY <1>1, <1>2, <1>3, <1>4 DEF Typed
<1> QED
  BY <1>1, <1>5, PlanGoods

LEMMA StopGoods ==
    ASSUME DeliveryInv, Typed', NEW r \in Requests, NEW s \in Stops, StopCommit(r, s)
    PROVE  GoodsStill
<1>1. stop[s] = None /\ UNCHANGED <<claim, dline, entry, onHand, trip>>
  BY DEF StopCommit, Fresh
<1>2. PICK row : stop' = [stop EXCEPT ![s] = row]
  BY DEF StopCommit
<1>3. \A q \in Stops : stop[q] # None => stop'[q] = stop[q]
  BY <1>1, <1>2 DEF DeliveryInv, Typed
<1> QED
  BY <1>1, <1>3, PlanGoods

LEMMA LoadGoods ==
    ASSUME DeliveryInv, Typed', NEW e \in Entries, NEW s \in Stops, NEW k \in Keys, NEW q \in Nat,
           ClaimEffect(e, s, k, q)
    PROVE  GoodsStill
<1>1. /\ entry[e] = None /\ Loading(s) /\ UNCHANGED <<claim, stop, trip, onHand>>
      /\ dline[k[1]][k[2]] # None /\ dline'[k[1]][k[2]] # None
      /\ dline'[k[1]][k[2]].delivered = dline[k[1]][k[2]].delivered
      /\ \A d \in Deliveries, l \in SaleLines :
            d # k[1] \/ l # k[2] => dline'[d][l] = dline[d][l]
  BY DEF ClaimEffect, Loadable
<1>2. PICK row : row = NewEntry(s, k, q)
  OBVIOUS
<1>3. entry' = [entry EXCEPT ![e] = row]
  BY <1>2 DEF ClaimEffect
<1>4. entry'[e] = row /\ \A o \in Entries : o # e => entry'[o] = entry[o]
  BY <1>3 DEF DeliveryInv, Typed
<1>5. row.stop = s
  BY <1>2 DEF NewEntry
<1>6. e \notin Aloft /\ e \notin Aloft'
  BY <1>1, <1>4, <1>5, AloftIs DEF Loading, IsOpen
<1>7. \A o \in Entries : o \in Aloft' <=> o \in Aloft
  BY <1>1, <1>4, <1>6, AloftIs
<1>8. \A o \in Aloft : entry'[o] = entry[o]
  BY <1>4, <1>6, AloftIs
<1>9. \A c \in Deliveries, l \in SaleLines : DeliveredBy(l)'[c] = DeliveredBy(l)[c]
  <2>1. \A c \in Deliveries, l \in SaleLines :
           c # k[1] \/ l # k[2] => DeliveredBy(l)'[c] = DeliveredBy(l)[c]
    BY <1>1 DEF DeliveredBy
  <2>2. ASSUME NEW c \in Deliveries, NEW l \in SaleLines, c = k[1], l = k[2]
        PROVE  DeliveredBy(l)'[c] = DeliveredBy(l)[c]
    BY <1>1, <2>2 DEF DeliveredBy
  <2> QED
    BY <2>1, <2>2
<1> QED
  BY <1>1, <1>7, <1>8, <1>9 DEF GoodsStill

LEMMA AdjustGoods ==
    ASSUME DeliveryInv, Typed', NEW r \in Requests, AdjustCommit(r)
    PROVE  GoodsStill
<1>1. PICK e \in Entries, q \in Nat : AdjustEffect(e, q)
  BY AdjustDoes
<1>2. PICK k : k = entry[e].key
  OBVIOUS
<1>3. AdjustsLine(e, q, k)
  BY <1>1, <1>2 DEF AdjustEffect
<1>4. /\ entry[e] # None /\ Loading(entry[e].stop) /\ UNCHANGED <<claim, stop, trip, onHand>>
      /\ entry'[e] # None /\ entry'[e].stop = entry[e].stop
      /\ \A o \in Entries : o # e => entry'[o] = entry[o]
      /\ \A d \in Deliveries, l \in SaleLines :
            d # k[1] \/ l # k[2] => dline'[d][l] = dline[d][l]
      /\ dline'[k[1]][k[2]] # None
      /\ dline'[k[1]][k[2]].delivered = dline[k[1]][k[2]].delivered
  BY <1>3, Zenon DEF AdjustsLine
<1>5. dline[k[1]][k[2]] # None
  BY <1>2, <1>4, EntryIsRooted, Zenon
<1>6. e \notin Aloft /\ e \notin Aloft'
  BY <1>4, AloftIs DEF Loading, IsOpen
<1>7. \A o \in Entries : o \in Aloft' <=> o \in Aloft
  BY <1>4, <1>6, AloftIs
<1>8. \A o \in Aloft : entry'[o] = entry[o]
  BY <1>4, <1>6, AloftIs
<1>9. \A c \in Deliveries, l \in SaleLines : DeliveredBy(l)'[c] = DeliveredBy(l)[c]
  <2>1. \A c \in Deliveries, l \in SaleLines :
           c # k[1] \/ l # k[2] => DeliveredBy(l)'[c] = DeliveredBy(l)[c]
    BY <1>4 DEF DeliveredBy
  <2>2. ASSUME NEW c \in Deliveries, NEW l \in SaleLines, c = k[1], l = k[2]
        PROVE  DeliveredBy(l)'[c] = DeliveredBy(l)[c]
    BY <1>4, <1>5, <2>2 DEF DeliveredBy
  <2> QED
    BY <2>1, <2>2
<1> QED
  BY <1>4, <1>7, <1>8, <1>9 DEF GoodsStill

LEMMA ReleaseGoods ==
    ASSUME DeliveryInv, Typed', NEW r \in Requests, ReleaseCommit(r)
    PROVE  GoodsStill
<1>1. PICK gone \in SUBSET Entries, stops \in SUBSET Stops, trips \in SUBSET Trips :
         ReleaseEffect(gone, stops, trips)
  BY ReleaseDoes
<1>2. /\ \A e \in gone : entry[e] # None /\ Loading(entry[e].stop)
      /\ \A s \in stops : Loading(s)
      /\ \A p \in trips : IsOpen(p)
      /\ UNCHANGED <<claim, onHand>>
      /\ entry' = [e \in Entries |-> IF e \in gone THEN None ELSE entry[e]]
      /\ stop' = [s \in Stops |-> IF s \in stops THEN None ELSE stop[s]]
      /\ \A p \in Trips :
            IF p \in trips THEN trip'[p] # None /\ trip'[p].status = "CANCELLED"
            ELSE trip'[p] = trip[p]
      /\ \A d \in Deliveries, l \in SaleLines :
            IF dline[d][l] = None THEN dline'[d][l] = None
            ELSE dline'[d][l] # None /\ dline'[d][l].delivered = dline[d][l].delivered
  BY <1>1 DEF ReleaseEffect
<1>3. \A s \in Stops : stop[s] # None => stop[s].trip \in Trips
  BY DEF DeliveryInv, Typed, StopRows
<1>4. ASSUME NEW e \in Aloft PROVE e \in Aloft' /\ entry'[e] = entry[e]
  <2>1. PICK s : s = entry[e].stop
    OBVIOUS
  <2>2. /\ e \in Entries /\ entry[e] # None /\ s \in Stops /\ stop[s] # None
        /\ stop[s].outcome = "PENDING" /\ trip[stop[s].trip].status = "DEPARTED"
    BY <2>1, AloftIs
  <2>3. ~ Loading(s) /\ ~ IsOpen(stop[s].trip)
    BY <2>2 DEF Loading, IsOpen
  <2>4. e \notin gone /\ s \notin stops /\ stop[s].trip \notin trips
    BY <1>2, <2>1, <2>3
  <2>5. entry'[e] = entry[e] /\ stop'[s] = stop[s] /\ trip'[stop[s].trip] = trip[stop[s].trip]
    BY <1>2, <1>3, <2>2, <2>4, Zenon
  <2> QED
    BY <2>1, <2>2, <2>5, AloftIs
<1>5. ASSUME NEW e \in Entries, e \in Aloft' PROVE e \in Aloft
  <2>1. entry'[e] = entry[e] /\ entry[e] # None
    BY <1>2, <1>5, AloftIs
  <2>2. PICK s : s = entry[e].stop
    OBVIOUS
  <2>3. /\ s \in Stops /\ stop'[s] # None /\ stop'[s].outcome = "PENDING"
        /\ trip'[stop'[s].trip].status = "DEPARTED"
    BY <1>5, <2>1, <2>2, AloftIs
  <2>4. stop'[s] = stop[s] /\ stop[s].trip \in Trips
    BY <1>2, <1>3, <2>3
  <2>5. trip'[stop[s].trip] = trip[stop[s].trip]
    BY <1>2, <2>3, <2>4
  <2> QED
    BY <2>1, <2>2, <2>3, <2>4, <2>5, AloftIs, Zenon
<1>6. \A c \in Deliveries, l \in SaleLines : DeliveredBy(l)'[c] = DeliveredBy(l)[c]
  BY <1>2 DEF DeliveredBy
<1> QED
  BY <1>2, <1>4, <1>5, <1>6 DEF GoodsStill

\* Goods that come to be on the road, and goods that no longer are.
LEMMA SentMore ==
    ASSUME DeliveryInv, Typed', NEW S \in SUBSET Entries, \A e \in S : e \notin Aloft,
           \A e \in Entries : e \in Aloft' <=> e \in Aloft \/ e \in S,
           \A e \in Aloft : entry'[e].key = entry[e].key /\ entry'[e].sent = entry[e].sent,
           NEW f, \A e \in S : entry'[e].key = entry[e].key /\ entry'[e].sent = f[e], NEW lines
    PROVE  /\ Sent(lines)' = Sent(lines) + GoodsOf(f, S, entry, lines)
           /\ GoodsOf(f, S, entry, lines) \in Nat
<1>1. PICK g, h, A, B, T : /\ g = SentFigures /\ h = SentFigures' /\ A = AloftOf(lines)
                           /\ B = AloftOf(lines)'
                           /\ T = {e \in S : entry[e].key[2] \in Stocked \cap lines}
  OBVIOUS
<1>2. \A e : (e \in Aloft => e \in Entries) /\ (e \in Aloft' => e \in Entries)
  BY AloftIs
<1>3. B = A \cup T /\ A \cap T = {} /\ A \in SUBSET Aloft /\ T \in SUBSET S
  BY <1>1, <1>2 DEF AloftOf
<1>4. IsFiniteSet(A) /\ IsFiniteSet(T)
  BY <1>2, <1>3, EntriesAreFinite
<1>5. /\ \A e \in A : h[e] = g[e]
      /\ \A e \in T : h[e] = f[e]
  BY <1>1, <1>2, <1>3 DEF SentFigures
<1>6. \A e \in A \cup T : h[e] \in Nat
  <2>1. \A e \in A \cup T : e \in Entries /\ e \in Aloft'
    BY <1>2, <1>3
  <2>2. \A e \in A \cup T : entry'[e] \in EntryRows
    BY <2>1, AloftIs DEF Typed
  <2> QED
    BY <1>1, <2>1, <2>2 DEF SentFigures, EntryRows
<1>7. SumFunctionOnSet(h, A \cup T) = SumFunctionOnSet(h, A) + SumFunctionOnSet(h, T)
  BY <1>3, <1>4, <1>6, SumOfUnion
<1>8. SumFunctionOnSet(h, A) = SumFunctionOnSet(g, A)
  BY <1>4, <1>5, SumOfEqual
<1>9. SumFunctionOnSet(h, T) = SumFunctionOnSet(f, T)
  BY <1>4, <1>5, SumOfEqual
<1>10. SumFunctionOnSet(h, T) \in Nat
  BY <1>4, <1>6, SumIsNat
<1>11. GoodsOf(f, S, entry, lines) = SumFunctionOnSet(f, T)
  BY <1>1 DEF GoodsOf
<1>12. Sent(lines) = SumFunctionOnSet(g, A) /\ Sent(lines)' = SumFunctionOnSet(h, B)
  BY <1>1, SentIs
<1> QED
  BY <1>3, <1>7, <1>8, <1>9, <1>10, <1>11, <1>12

LEMMA SentLess ==
    ASSUME DeliveryInv, NEW S \in SUBSET Aloft,
           \A e \in Entries : e \in Aloft' <=> e \in Aloft /\ e \notin S,
           \A e \in Aloft : e \notin S => entry'[e].key = entry[e].key /\ entry'[e].sent = entry[e].sent,
           NEW f, \A e \in S : f[e] = entry[e].sent, NEW lines
    PROVE  /\ Sent(lines) = Sent(lines)' + GoodsOf(f, S, entry, lines)
           /\ GoodsOf(f, S, entry, lines) \in Nat /\ Sent(lines)' \in Nat
<1>1. PICK g, h, A, B, T : /\ g = SentFigures /\ h = SentFigures' /\ A = AloftOf(lines)
                           /\ B = AloftOf(lines)'
                           /\ T = {e \in S : entry[e].key[2] \in Stocked \cap lines}
  OBVIOUS
<1>2. \A e : (e \in Aloft => e \in Entries) /\ (e \in Aloft' => e \in Entries)
  BY AloftIs
<1>3. A = B \cup T /\ B \cap T = {} /\ A \in SUBSET Aloft /\ T \in SUBSET S
  BY <1>1, <1>2 DEF AloftOf
<1>4. IsFiniteSet(B) /\ IsFiniteSet(T)
  BY <1>2, <1>3, EntriesAreFinite
<1>5. /\ \A e \in B : h[e] = g[e]
      /\ \A e \in T : g[e] = f[e]
  <2>1. \A e \in B : e \in Entries /\ e \in Aloft /\ e \notin S
    BY <1>1, <1>2 DEF AloftOf
  <2>2. \A e \in T : e \in S /\ e \in Entries
    BY <1>2, <1>3
  <2>3. \A e \in Entries : g[e] = entry[e].sent /\ h[e] = entry'[e].sent
    BY <1>1 DEF SentFigures
  <2> QED
    BY <2>1, <2>2, <2>3
<1>6. \A e \in B \cup T : g[e] \in Nat
  <2>1. \A e \in B \cup T : e \in Entries /\ e \in Aloft
    BY <1>2, <1>3
  <2>2. \A e \in B \cup T : entry[e] \in EntryRows
    BY <2>1, AloftIs DEF DeliveryInv, Typed
  <2> QED
    BY <1>1, <2>1, <2>2 DEF SentFigures, EntryRows
<1>7. SumFunctionOnSet(g, B \cup T) = SumFunctionOnSet(g, B) + SumFunctionOnSet(g, T)
  BY <1>3, <1>4, <1>6, SumOfUnion
<1>8. SumFunctionOnSet(h, B) = SumFunctionOnSet(g, B)
  BY <1>4, <1>5, SumOfEqual
<1>9. SumFunctionOnSet(g, T) = SumFunctionOnSet(f, T)
  BY <1>4, <1>5, SumOfEqual
<1>10. SumFunctionOnSet(g, T) \in Nat /\ SumFunctionOnSet(g, B) \in Nat
  BY <1>4, <1>6, SumIsNat
<1>11. GoodsOf(f, S, entry, lines) = SumFunctionOnSet(f, T)
  BY <1>1 DEF GoodsOf
<1>12. Sent(lines) = SumFunctionOnSet(g, A) /\ Sent(lines)' = SumFunctionOnSet(h, B)
  BY <1>1, SentIs
<1> QED
  BY <1>3, <1>7, <1>8, <1>9, <1>10, <1>11, <1>12

\* What a departure puts on the road.
LEMMA DepartSends ==
    ASSUME DeliveryInv, Typed', NEW p \in Trips, NEW S \in SUBSET Entries, NEW sent,
           DepartEffect(p, S, sent)
    PROVE  /\ \A e \in S : /\ e \notin Aloft /\ entry'[e].key = entry[e].key
                           /\ entry'[e].sent = sent[e]
           /\ \A e \in Entries : e \in Aloft' <=> e \in Aloft \/ e \in S
           /\ \A e \in Aloft : entry'[e] = entry[e]
           /\ \A lines : /\ Sent(lines)' = Sent(lines) + GoodsOf(sent, S, entry, lines)
                         /\ GoodsOf(sent, S, entry, lines) \in Nat
<1>1. /\ IsOpen(p) /\ S = EntriesOf(p) /\ UNCHANGED <<dline, stop>>
      /\ \A e \in Entries :
            IF e \in S
            THEN /\ entry'[e] # None /\ entry'[e].sent = sent[e] /\ entry'[e].stop = entry[e].stop
                 /\ entry'[e].key = entry[e].key
            ELSE entry'[e] = entry[e]
      /\ trip'[p].status = "DEPARTED" /\ \A o \in Trips : o # p => trip'[o] = trip[o]
  BY DEF DepartEffect
<1>2. \A e \in Entries : e \in S <=> entry[e] # None /\ stop[entry[e].stop].trip = p
  BY <1>1, EntriesOfTrip
<1>3. \A e \in S : entry[e].stop \in Stops /\ stop[entry[e].stop] # None
                   /\ stop[entry[e].stop].outcome = "PENDING"
  <2>1. \A e \in S : entry[e] # None /\ entry[e].stop \in Stops /\ stop[entry[e].stop] # None
    BY <1>2, EntryIsRooted
  <2>2. \A s \in Stops : stop[s] # None /\ IsOpen(stop[s].trip) => stop[s].outcome = "PENDING"
    BY DEF DeliveryInv, Rooted
  <2>3. \A e \in S : IsOpen(stop[entry[e].stop].trip)
    BY <1>1, <1>2
  <2> QED
    BY <2>1, <2>2, <2>3
<1>4. \A e \in S : e \notin Aloft /\ e \in Aloft'
  <2>1. \A e \in S : e \notin Aloft
    BY <1>1, <1>2, AloftIs DEF IsOpen
  <2>2. \A e \in S : /\ e \in Entries /\ entry'[e] # None /\ entry'[e].stop = entry[e].stop
                     /\ stop[entry[e].stop].trip = p
    BY <1>1, <1>2
  <2> QED
    BY <1>1, <1>3, <2>1, <2>2, AloftIs
<1>5. \A s \in Stops : stop[s] # None => stop[s].trip \in Trips
  BY DEF DeliveryInv, Typed, StopRows
<1>6. \A e \in Entries : e \in Aloft' <=> e \in Aloft \/ e \in S
  <2>1. ASSUME NEW e \in Entries, e \notin S PROVE e \in Aloft' <=> e \in Aloft
    <3>1. entry'[e] = entry[e] /\ (entry[e] # None => stop[entry[e].stop].trip # p)
      BY <1>1, <1>2, <2>1
    <3>2. entry[e] # None /\ entry[e].stop \in Stops /\ stop[entry[e].stop] # None =>
             trip'[stop[entry[e].stop].trip] = trip[stop[entry[e].stop].trip]
      BY <1>1, <1>5, <3>1
    <3> QED
      BY <1>1, <3>1, <3>2, AloftIs
  <2> QED
    BY <1>4, <2>1
<1>7. \A e \in Aloft : entry'[e] = entry[e]
  BY <1>1, <1>4, AloftIs
<1>8. \A e \in S : entry'[e].key = entry[e].key /\ entry'[e].sent = sent[e]
  BY <1>1
<1>9. \A lines : /\ Sent(lines)' = Sent(lines) + GoodsOf(sent, S, entry, lines)
                  /\ GoodsOf(sent, S, entry, lines) \in Nat
  BY <1>4, <1>6, <1>7, <1>8, SentMore
<1> QED
  BY <1>4, <1>6, <1>7, <1>8, <1>9

LEMMA DepartGoods ==
    ASSUME DeliveryInv, Typed', NEW r \in Requests, DepartCommit(r)
    PROVE  GoodsMove
<1>1. PICK p, S, sent : p \in Trips /\ S \in SUBSET Entries /\ DepartEffect(p, S, sent)
  BY DepartDoes
<1>2. /\ UNCHANGED dline
      /\ onHand' = [w \in Warehouses |-> onHand[w] - GoodsOf(sent, S, entry, From(w))
                                                   + GoodsOf(sent, S, entry, Through(w))]
  BY <1>1 DEF DepartEffect
<1>3. \A lines : /\ Sent(lines)' = Sent(lines) + GoodsOf(sent, S, entry, lines)
                  /\ GoodsOf(sent, S, entry, lines) \in Nat
  BY <1>1, DepartSends
<1>4. Typed
  BY DEF DeliveryInv
<1>5. \A lines : Handed(lines)' = Handed(lines) /\ Handed(lines) \in Int
  BY <1>2, <1>4, LinesSame, HandedKept, HandedIsInt
<1>6. ASSUME NEW w \in DOMAIN TransitOf
       PROVE  /\ onHand'[TransitOf[w]] = onHand[TransitOf[w]] + Sent(Through(TransitOf[w]))'
                                       - Sent(Through(TransitOf[w]))
              /\ onHand'[w] = onHand[w] + Sent(From(w)) - Sent(From(w))'
                                   + Handed(From(w)) - Handed(From(w))'
  <2>1. PICK T, F : T = Through(TransitOf[w]) /\ F = From(w)
    OBVIOUS
  <2>2. /\ w \in Warehouses /\ TransitOf[w] \in Warehouses
        /\ From(TransitOf[w]) = {} /\ Through(w) = {}
    BY Ways
  <2>3. PICK gT, gF : gT = GoodsOf(sent, S, entry, T) /\ gF = GoodsOf(sent, S, entry, F)
    OBVIOUS
  <2>4. /\ Sent(T)' = Sent(T) + gT /\ Sent(F)' = Sent(F) + gF /\ gT \in Nat /\ gF \in Nat
        /\ Sent(T) \in Nat /\ Sent(F) \in Nat /\ Handed(F)' = Handed(F) /\ Handed(F) \in Int
    BY <1>3, <1>4, <1>5, <2>3, SentIsNat
  <2>5. onHand[w] \in Int /\ onHand[TransitOf[w]] \in Int
    BY <1>4, <2>2 DEF Typed
  <2>6. onHand'[TransitOf[w]] = onHand[TransitOf[w]] - 0 + gT /\ onHand'[w] = onHand[w] - gF + 0
    <3>1. GoodsOf(sent, S, entry, {}) = 0
      BY NoGoods
    <3>2. \A v \in Warehouses : onHand'[v] = onHand[v] - GoodsOf(sent, S, entry, From(v))
                                                     + GoodsOf(sent, S, entry, Through(v))
      BY <1>2
    <3>3. onHand'[w] = onHand[w] - gF + GoodsOf(sent, S, entry, {})
      BY <2>1, <2>2, <2>3, <3>2
    <3>4. onHand'[TransitOf[w]] = onHand[TransitOf[w]] - GoodsOf(sent, S, entry, {}) + gT
      BY <2>1, <2>2, <2>3, <3>2
    <3> QED
      BY <3>1, <3>3, <3>4
  <2> QED
    BY <2>1, <2>4, <2>5, <2>6
<1> QED
  BY <1>6 DEF GoodsMove

\* What a pickup hands over, of goods that were never on the road.
LEMMA PickupHands ==
    ASSUME DeliveryInv, Typed', NEW d \in Deliveries, PickupEffect(d)
    PROVE  /\ \A l \in SaleLines : dline[d][l] # None => dline[d][l].quantity \in Nat
           /\ \A l \in SaleLines :
                 Delivered(l)' - Delivered(l) = IF dline[d][l] = None THEN 0
                                                ELSE dline[d][l].quantity
           /\ \A lines : Sent(lines)' = Sent(lines) /\ Sent(lines) \in Nat
<1>1. /\ Allows(d, "PICKED_UP") /\ UNCHANGED <<trip, stop, entry>>
      /\ \A c \in Deliveries : c # d => dline'[c] = dline[c]
      /\ \A l \in SaleLines :
            IF dline[d][l] = None THEN dline'[d][l] = None
            ELSE dline'[d][l] # None /\ dline'[d][l].delivered = dline[d][l].quantity
  BY DEF PickupEffect
<1>2. /\ Typed
      /\ \A l \in SaleLines : dline[d][l] # None => /\ dline[d][l].quantity \in Nat
                                                    /\ dline[d][l].delivered = 0
  <2>1. Typed /\ Rooted
    BY DEF DeliveryInv
  <2>2. delivery[d] # None /\ delivery[d].status \in Early
    BY <1>1, PickedUpIsEarly DEF Early
  <2>3. ASSUME NEW l \in SaleLines, dline[d][l] # None
        PROVE  dline[d][l].quantity \in Nat /\ dline[d][l].delivered = 0
    <3>1. dline[d][l] \in DeliveryLines
      BY <2>1, <2>3 DEF Typed
    <3>2. dline[d][l].delivered = 0
      BY <2>1, <2>2, <2>3 DEF Rooted
    <3> QED
      BY <3>1, <3>2 DEF DeliveryLines
  <2> QED
    BY <2>1, <2>3
<1>3. ASSUME NEW l \in SaleLines
      PROVE  Delivered(l)' - Delivered(l) = IF dline[d][l] = None THEN 0 ELSE dline[d][l].quantity
  <2>1. PICK f, g : f = DeliveredBy(l) /\ g = DeliveredBy(l)'
    OBVIOUS
  <2>2. /\ \A c \in Deliveries : f[c] \in Int /\ g[c] \in Int
        /\ Delivered(l) = SumFunctionOnSet(f, Deliveries) /\ Delivered(l) \in Int
        /\ Delivered(l)' = SumFunctionOnSet(g, Deliveries) /\ Delivered(l)' \in Int
    BY <1>2, <2>1, DeliveredIs
  <2>3. \A c \in Deliveries \ {d} : f[c] = g[c]
    BY <1>1, <2>1 DEF DeliveredBy
  <2>4. f[d] = 0 /\ g[d] = IF dline[d][l] = None THEN 0 ELSE dline[d][l].quantity
    BY <1>1, <1>2, <2>1 DEF DeliveredBy
  <2>5. IsFiniteSet(Deliveries)
    BY DeliveryConstants
  <2>6. SumFunctionOnSet(g, Deliveries) = SumFunctionOnSet(f, Deliveries) - f[d] + g[d]
    BY <2>2, <2>3, <2>5, SumChanged
  <2>7. PICK q : q = IF dline[d][l] = None THEN 0 ELSE dline[d][l].quantity
    OBVIOUS
  <2>8. q \in Int
    BY <1>2, <2>7
  <2> QED
    BY <2>2, <2>4, <2>6, <2>7, <2>8
<1>4. \A lines : Sent(lines)' = Sent(lines) /\ Sent(lines) \in Nat
  <2>1. \A e \in Entries : e \in Aloft' <=> e \in Aloft
    BY <1>1, AloftIs
  <2> QED
    BY <1>1, <1>2, <2>1, SentKept, SentIsNat
<1> QED
  BY <1>2, <1>3, <1>4

LEMMA PickupGoods ==
    ASSUME DeliveryInv, Typed', NEW r \in Requests, PickupCommit(r)
    PROVE  GoodsMove
<1>1. PICK d \in Deliveries : PickupEffect(d)
  BY PickupDoes
<1>2. onHand' = [w \in Warehouses |-> onHand[w] -
                   SumFunctionOnSet([l \in LinesOf(d) |-> dline[d][l].quantity],
                                    {l \in LinesOf(d) \cap Stocked : WarehouseOf[l] = w})]
  BY <1>1 DEF PickupEffect
<1>3. Typed /\ \A l \in SaleLines : dline[d][l] # None => dline[d][l].quantity \in Nat
  BY <1>1, PickupHands DEF DeliveryInv
<1>4. PICK L, q : L = LinesOf(d) /\ q = [l \in L |-> dline[d][l].quantity]
  OBVIOUS
<1>5. PICK more : more = [l \in SaleLines |-> IF l \in L THEN q[l] ELSE 0]
  OBVIOUS
<1>6. /\ L \in SUBSET SaleLines /\ \A l \in SaleLines : l \in L <=> dline[d][l] # None
      /\ \A l \in L : q[l] = dline[d][l].quantity /\ q[l] \in Nat
  BY <1>3, <1>4 DEF LinesOf
<1>7. \A l \in SaleLines : more[l] = Delivered(l)' - Delivered(l)
  <2>1. \A l \in SaleLines : more[l] = IF dline[d][l] = None THEN 0 ELSE dline[d][l].quantity
    BY <1>5, <1>6
  <2> QED
    BY <1>1, <2>1, PickupHands
<1>8. \A lines : SumFunctionOnSet(more, lines \cap Stocked) = Handed(lines)' - Handed(lines)
  BY <1>3, <1>7, HandedMore
<1>9. \A lines : Sent(lines)' = Sent(lines) /\ Sent(lines) \in Nat
  BY <1>1, PickupHands
<1>10. ASSUME NEW w \in Warehouses
       PROVE  SumFunctionOnSet(q, {l \in L \cap Stocked : WarehouseOf[l] = w})
                 = SumFunctionOnSet(more, From(w) \cap Stocked)
  <2>1. PICK A, B : /\ A = {l \in L \cap Stocked : WarehouseOf[l] = w}
                    /\ B = From(w) \cap Stocked
    OBVIOUS
  <2>2. A \in SUBSET B /\ B \in SUBSET SaleLines /\ \A l \in B : l \in A <=> l \in L
    BY <1>6, <2>1 DEF From
  <2>3. IsFiniteSet(B)
    BY <2>2, LinesAreFinite
  <2>4. /\ \A l \in A : q[l] = more[l] /\ q[l] \in Nat
        /\ \A l \in B \ A : more[l] = 0
    BY <1>5, <1>6, <2>1, <2>2
  <2>5. SumFunctionOnSet(q, A) = SumFunctionOnSet(more, B)
    BY <2>2, <2>3, <2>4, SumOverAll
  <2> QED
    BY <2>1, <2>5
<1>11. ASSUME NEW w \in Warehouses
       PROVE  onHand'[w] = onHand[w] - (Handed(From(w))' - Handed(From(w)))
  <2>1. onHand'[w] = onHand[w] - SumFunctionOnSet(q, {l \in L \cap Stocked : WarehouseOf[l] = w})
    BY <1>2, <1>4
  <2> QED
    BY <1>8, <1>10, <2>1
<1>12. ASSUME NEW w \in DOMAIN TransitOf
       PROVE  /\ onHand'[TransitOf[w]] = onHand[TransitOf[w]] + Sent(Through(TransitOf[w]))'
                                       - Sent(Through(TransitOf[w]))
              /\ onHand'[w] = onHand[w] + Sent(From(w)) - Sent(From(w))'
                                   + Handed(From(w)) - Handed(From(w))'
  <2>1. PICK T, F : T = Through(TransitOf[w]) /\ F = From(w)
    OBVIOUS
  <2>2. w \in Warehouses /\ TransitOf[w] \in Warehouses /\ From(TransitOf[w]) = {}
    BY Ways
  <2>3. onHand[w] \in Int /\ onHand[TransitOf[w]] \in Int
    BY <1>3, <2>2 DEF Typed
  <2>4. /\ Handed(F) \in Int /\ Handed(F)' \in Int
        /\ Sent(T)' = Sent(T) /\ Sent(F)' = Sent(F) /\ Sent(T) \in Nat /\ Sent(F) \in Nat
    BY <1>3, <1>9, HandedIsInt
  <2>5. onHand'[w] = onHand[w] - (Handed(F)' - Handed(F))
    BY <1>11, <2>1, <2>2
  <2>6. onHand'[TransitOf[w]] = onHand[TransitOf[w]]
    <3>1. {} \cap Stocked = {}
      OBVIOUS
    <3>2. SumFunctionOnSet(more, From(TransitOf[w]) \cap Stocked) = 0
      BY <2>2, <3>1, SumOfNone
    <3>3. SumFunctionOnSet(q, {l \in L \cap Stocked : WarehouseOf[l] = TransitOf[w]}) = 0
      BY <1>10, <2>2, <3>2
    <3> QED
      BY <1>2, <1>4, <2>2, <2>3, <3>3
  <2> QED
    BY <2>1, <2>3, <2>4, <2>5, <2>6
<1> QED
  BY <1>12 DEF GoodsMove

\* What a closure's entries were accepted for, by line, is what it delivers.
LEMMA ClosingDelivers ==
    ASSUME DeliveryInv, Typed', NEW s, NEW S, NEW accepted, NEW settled, NEW born, NEW parent,
           Closing(s, S, accepted, settled, born, parent), NEW l \in SaleLines
    PROVE  Delivered(l)' - Delivered(l)
              = SumFunctionOnSet(accepted, {e \in S : entry[e].key[2] = l})
<1>1. /\ S \in SUBSET Entries /\ born \in SUBSET Deliveries
      /\ \A e \in S : /\ entry[e] # None /\ entry[e].key \in Keys /\ accepted[e] \in Nat
                      /\ entry[e].key[1] \in Deliveries /\ delivery[entry[e].key[1]] # None
      /\ \A d \in born : delivery[d] = None
  BY ClosingFinds, EntryIsRooted
<1>2. PICK T, K : T = {e \in S : entry[e].key[2] = l} /\ K = Deliveries
  OBVIOUS
<1>3. PICK key : key = [e \in S |-> entry[e].key[1]]
  OBVIOUS
<1>4. PICK part : part = [d \in K |-> {e \in S : entry[e].key = <<d, l>>}]
  OBVIOUS
<1>5. PICK more : more = [d \in K |-> OfLine(accepted, S, entry, <<d, l>>)]
  OBVIOUS
<1>6. \A d \in K : more[d] = SumFunctionOnSet(accepted, part[d])
  BY <1>4, <1>5 DEF OfLine
<1>7. IsFiniteSet(T) /\ IsFiniteSet(K) /\ T \in SUBSET S
  BY <1>1, <1>2, EntriesAreFinite, DeliveryConstants
<1>8. \A d \in K : \A e : e \in part[d] <=> e \in T /\ key[e] = d
  <2>1. \A d : \A e \in S : entry[e].key = <<d, l>> <=> entry[e].key[1] = d /\ entry[e].key[2] = l
    BY <1>1 DEF Keys
  <2> QED
    BY <1>2, <1>3, <1>4, <2>1
<1>9. (\A e \in T : accepted[e] \in Int) /\ (\A e \in T : key[e] \in K)
  BY <1>1, <1>2, <1>3, <1>7
<1>10. SumFunctionOnSet(accepted, T) = SumFunctionOnSet(more, K)
  BY <1>6, <1>7, <1>8, <1>9, SumGrouped
<1>11. PICK f, g : f = DeliveredBy(l) /\ g = DeliveredBy(l)'
  OBVIOUS
<1>12. Typed
  BY DEF DeliveryInv
<1>13. /\ \A d \in K : f[d] \in Int /\ g[d] \in Int
       /\ Delivered(l) = SumFunctionOnSet(f, K) /\ Delivered(l)' = SumFunctionOnSet(g, K)
  BY <1>2, <1>11, <1>12, DeliveredIs
<1>14. ASSUME NEW d \in K PROVE more[d] = g[d] - f[d]
  <2>1. more[d] = OfLine(accepted, S, entry, <<d, l>>) /\ d \in Deliveries
    BY <1>2, <1>5
  <2>2. (\A e \in S : entry[e].key # <<d, l>>) => more[d] = 0
    <3>1. (\A e \in S : entry[e].key # <<d, l>>) => part[d] = {}
      BY <1>4
    <3> QED
      BY <1>6, <3>1, SumOfNone
  <2>3. CASE d \in born
    <3>1. \A e \in S : entry[e].key # <<d, l>>
      BY <1>1, <2>3
    <3>2. dline[d][l] = None
      BY <1>1, <2>1, <2>3 DEF DeliveryInv, Rooted
    <3>3. dline'[d][l] # None => dline'[d][l].delivered = 0
      BY <2>3, ClosingLines
    <3>4. f[d] = 0 /\ g[d] = 0
      BY <1>11, <2>1, <3>2, <3>3 DEF DeliveredBy
    <3> QED
      BY <2>2, <3>1, <3>4
  <2>4. CASE d \notin born /\ ~ Carries(S, d, l)
    <3>1. \A e \in S : entry[e].key # <<d, l>>
      BY <2>4 DEF Carries
    <3>2. dline'[d][l] = dline[d][l]
      BY <2>1, <2>4, ClosingLines
    <3>3. g[d] = f[d]
      BY <1>11, <2>1, <3>2 DEF DeliveredBy
    <3> QED
      BY <1>13, <2>2, <3>1, <3>3
  <2>5. CASE d \notin born /\ Carries(S, d, l)
    <3>1. /\ dline'[d][l] # None
          /\ dline'[d][l].delivered = dline[d][l].delivered + OfLine(accepted, S, entry, <<d, l>>)
      BY <2>1, <2>5, ClosingLines
    <3>2. dline[d][l] \in DeliveryLines /\ dline[d][l] # None
      BY <2>5, ClosingFinds, NoneIsNoDeliveryRow
    <3>3. f[d] = dline[d][l].delivered /\ g[d] = dline'[d][l].delivered
      BY <1>11, <2>1, <3>1, <3>2 DEF DeliveredBy
    <3>4. more[d] \in Int
      <4>1. IsFiniteSet(part[d]) /\ \A e \in part[d] : accepted[e] \in Int
        BY <1>7, <1>8, <1>9, FS_Subset
      <4> QED
        BY <1>6, <4>1, SumIsInt
    <3> QED
      BY <1>13, <2>1, <3>1, <3>3, <3>4
  <2> QED
    BY <2>3, <2>4, <2>5
<1>15. SumFunctionOnSet(more, K) = SumFunctionOnSet(g, K) - SumFunctionOnSet(f, K)
  BY <1>7, <1>13, <1>14, SumOfDifferences
<1> QED
  BY <1>2, <1>10, <1>13, <1>15

LEMMA ClosingHands ==
    ASSUME DeliveryInv, Typed', NEW s, NEW S, NEW accepted, NEW settled, NEW born, NEW parent,
           Closing(s, S, accepted, settled, born, parent), NEW lines
    PROVE  Handed(lines)' - Handed(lines) = GoodsOf(accepted, S, entry, lines)
<1>1. PICK more : more = [l \in SaleLines |-> Delivered(l)' - Delivered(l)]
  OBVIOUS
<1>2. Typed /\ \A l \in SaleLines : more[l] = Delivered(l)' - Delivered(l)
  BY <1>1 DEF DeliveryInv
<1>3. SumFunctionOnSet(more, lines \cap Stocked) = Handed(lines)' - Handed(lines)
  BY <1>2, HandedMore
<1>4. PICK K, T : /\ K = lines \cap Stocked
                  /\ T = {e \in S : entry[e].key[2] \in Stocked \cap lines}
  OBVIOUS
<1>5. PICK key, part : /\ key = [e \in S |-> entry[e].key[2]]
                       /\ part = [l \in K |-> {e \in S : entry[e].key[2] = l}]
  OBVIOUS
<1>6. S \in SUBSET Entries /\ \A e \in S : accepted[e] \in Nat
  BY ClosingFinds
<1>7. K \in SUBSET SaleLines /\ IsFiniteSet(K) /\ T \in SUBSET S /\ IsFiniteSet(T)
  BY <1>4, <1>6, LinesAreFinite, EntriesAreFinite, DeliveryConstants
<1>8. (\A e \in T : accepted[e] \in Int) /\ (\A e \in T : key[e] \in K)
  BY <1>4, <1>5, <1>6, <1>7
<1>9. \A l \in K : \A e : e \in part[l] <=> e \in T /\ key[e] = l
  BY <1>4, <1>5
<1>10. \A l \in K : more[l] = SumFunctionOnSet(accepted, part[l])
  <2>1. \A l \in SaleLines : more[l] = SumFunctionOnSet(accepted, {e \in S : entry[e].key[2] = l})
    BY <1>2, ClosingDelivers
  <2> QED
    BY <1>5, <1>7, <2>1
<1>11. SumFunctionOnSet(accepted, T) = SumFunctionOnSet(more, K)
  BY <1>7, <1>8, <1>9, <1>10, SumGrouped
<1>12. GoodsOf(accepted, S, entry, lines) = SumFunctionOnSet(accepted, T)
  BY <1>4 DEF GoodsOf
<1> QED
  BY <1>3, <1>4, <1>11, <1>12

LEMMA ClosingBack ==
    ASSUME DeliveryInv, NEW s, NEW S, NEW accepted, NEW settled, NEW born, NEW parent,
           Closing(s, S, accepted, settled, born, parent), NEW lines
    PROVE  /\ GoodsOf(BackOn(S, accepted), S, entry, lines)
                 = GoodsOf(SentOn(S), S, entry, lines) - GoodsOf(accepted, S, entry, lines)
           /\ GoodsOf(accepted, S, entry, lines) \in Nat
<1>1. /\ S \in SUBSET Entries
      /\ \A e \in S : accepted[e] \in Nat /\ entry[e] \in EntryRows
  BY ClosingFinds
<1>2. PICK f, g, T : /\ f = SentOn(S) /\ g = BackOn(S, accepted)
                     /\ T = {e \in S : entry[e].key[2] \in Stocked \cap lines}
  OBVIOUS
<1>3. T \in SUBSET S /\ IsFiniteSet(T)
  BY <1>1, <1>2, EntriesAreFinite
<1>4. \A e \in T : f[e] \in Int /\ accepted[e] \in Int /\ g[e] = f[e] - accepted[e]
  BY <1>1, <1>2, <1>3 DEF SentOn, BackOn, EntryRows
<1>5. SumFunctionOnSet(g, T) = SumFunctionOnSet(f, T) - SumFunctionOnSet(accepted, T)
  BY <1>3, <1>4, SumOfDifferences
<1>6. /\ GoodsOf(BackOn(S, accepted), S, entry, lines) = SumFunctionOnSet(g, T)
      /\ GoodsOf(SentOn(S), S, entry, lines) = SumFunctionOnSet(f, T)
      /\ GoodsOf(accepted, S, entry, lines) = SumFunctionOnSet(accepted, T)
  BY <1>2 DEF GoodsOf
<1>7. GoodsOf(accepted, S, entry, lines) \in Nat
  BY <1>1, GoodsIsNat
<1> QED
  BY <1>5, <1>6, <1>7

\* What a closure takes off the road.
LEMMA ClosingAirs ==
    ASSUME DeliveryInv, NEW s, NEW S, NEW accepted, NEW settled, NEW born, NEW parent,
           Closing(s, S, accepted, settled, born, parent)
    PROVE  /\ S \in SUBSET Aloft
           /\ \A e \in Entries : e \in Aloft' <=> e \in Aloft /\ e \notin S
           /\ \A e \in Aloft : e \notin S => entry'[e] = entry[e]
<1>1. /\ s \in Stops /\ S \in SUBSET Entries /\ stop[s] # None /\ stop[s].trip \in Trips
      /\ \A e \in S : entry[e] # None /\ entry[e].stop = s
  BY ClosingFinds
<1>2. OnTheRoad(s) /\ S = EntriesAt(s)
  BY DEF Closing
<1>3. /\ \A e \in Entries :
            IF e \in S THEN entry'[e] # None /\ entry'[e].stop = s ELSE entry'[e] = entry[e]
      /\ stop'[s] # None /\ stop'[s].outcome # "PENDING"
      /\ \A q \in Stops : q # s => stop'[q] = stop[q]
      /\ \A p \in Trips : trip'[p] = trip[p] \/ (p = stop[s].trip /\ Siblings(s) = {})
  BY <1>1, ClosingEntries, ClosingStops
<1>4. S \in SUBSET Aloft
  BY <1>1, <1>2, AloftIs DEF OnTheRoad
<1>5. \A e \in Entries : entry[e] # None /\ entry[e].stop = s => e \in S
  BY <1>2 DEF EntriesAt
<1>6. \A q \in Stops : stop[q] # None => stop[q].trip \in Trips
  BY DEF DeliveryInv, Typed, StopRows
<1>7. \A q \in Stops : q # s /\ stop[q] # None /\ stop[q].outcome = "PENDING" =>
         trip'[stop[q].trip] = trip[stop[q].trip]
  <2>1. ASSUME NEW q \in Stops, q # s, stop[q] # None, stop[q].outcome = "PENDING"
        PROVE  trip'[stop[q].trip] = trip[stop[q].trip]
    <3>1. stop[q].trip = stop[s].trip => q \in Siblings(s)
      BY <2>1 DEF Siblings
    <3> QED
      BY <1>3, <1>6, <2>1, <3>1
  <2> QED
    BY <2>1
<1>8. \A e \in Entries : e \in Aloft' <=> e \in Aloft /\ e \notin S
  <2>1. \A e \in S : e \notin Aloft'
    BY <1>1, <1>3, AloftIs
  <2>2. ASSUME NEW e \in Entries, e \notin S PROVE e \in Aloft' <=> e \in Aloft
    <3>1. entry'[e] = entry[e] /\ (entry[e] # None => entry[e].stop # s)
      BY <1>3, <1>5, <2>2
    <3>2. PICK q : q = entry[e].stop
      OBVIOUS
    <3>3. entry[e] # None /\ q \in Stops => stop'[q] = stop[q]
      BY <1>3, <3>1, <3>2
    <3>4. entry[e] # None /\ q \in Stops /\ stop[q] # None /\ stop[q].outcome = "PENDING" =>
             trip'[stop[q].trip] = trip[stop[q].trip]
      BY <1>7, <3>1, <3>2
    <3> QED
      BY <3>1, <3>2, <3>3, <3>4, AloftIs
  <2> QED
    BY <2>1, <2>2
<1>9. \A e \in Aloft : e \notin S => entry'[e] = entry[e]
  BY <1>3, AloftIs
<1> QED
  BY <1>4, <1>8, <1>9

LEMMA ClosingLands ==
    ASSUME DeliveryInv, NEW s, NEW S, NEW accepted, NEW settled, NEW born, NEW parent,
           Closing(s, S, accepted, settled, born, parent), NEW lines
    PROVE  /\ Sent(lines) = Sent(lines)' + GoodsOf(SentOn(S), S, entry, lines)
           /\ GoodsOf(SentOn(S), S, entry, lines) \in Nat /\ Sent(lines)' \in Nat
<1>1. \A e \in S : SentOn(S)[e] = entry[e].sent
  BY DEF SentOn
<1> QED
  BY <1>1, ClosingAirs, SentLess

LEMMA CloseGoods ==
    ASSUME DeliveryInv, Typed', NEW r \in Requests, NEW given \in [txn[r].arg.aboard -> Nat],
           CloseCommit(r, given)
    PROVE  GoodsMove
<1>1. PICK s, S, accepted, settled, born, parent :
         Closing(s, S, accepted, settled, born, parent)
  BY CloseReads, Zenon
<1>2. onHand' = [w \in Warehouses |->
           onHand[w] - GoodsOf(SentOn(S), S, entry, Through(w))
                     + GoodsOf(BackOn(S, accepted), S, entry, From(w))]
  BY <1>1 DEF Closing, CloseWrites
<1>3. \A lines : /\ Sent(lines) = Sent(lines)' + GoodsOf(SentOn(S), S, entry, lines)
                 /\ GoodsOf(SentOn(S), S, entry, lines) \in Nat /\ Sent(lines)' \in Nat
  BY <1>1, ClosingLands
<1>4. \A lines : Handed(lines)' - Handed(lines) = GoodsOf(accepted, S, entry, lines)
  BY <1>1, ClosingHands
<1>5. \A lines : /\ GoodsOf(BackOn(S, accepted), S, entry, lines)
                       = GoodsOf(SentOn(S), S, entry, lines) - GoodsOf(accepted, S, entry, lines)
                 /\ GoodsOf(accepted, S, entry, lines) \in Nat
  BY <1>1, ClosingBack
<1>6. Typed
  BY DEF DeliveryInv
<1>7. ASSUME NEW w \in DOMAIN TransitOf
      PROVE  /\ onHand'[TransitOf[w]] = onHand[TransitOf[w]] + Sent(Through(TransitOf[w]))'
                                      - Sent(Through(TransitOf[w]))
             /\ onHand'[w] = onHand[w] + Sent(From(w)) - Sent(From(w))'
                                  + Handed(From(w)) - Handed(From(w))'
  <2>1. PICK T, F : T = Through(TransitOf[w]) /\ F = From(w)
    OBVIOUS
  <2>2. /\ w \in Warehouses /\ TransitOf[w] \in Warehouses
        /\ From(TransitOf[w]) = {} /\ Through(w) = {}
    BY Ways
  <2>3. PICK sT, sF, aF, bF :
           /\ sT = GoodsOf(SentOn(S), S, entry, T) /\ sF = GoodsOf(SentOn(S), S, entry, F)
           /\ aF = GoodsOf(accepted, S, entry, F) /\ bF = GoodsOf(BackOn(S, accepted), S, entry, F)
    OBVIOUS
  <2>4. /\ Sent(T) = Sent(T)' + sT /\ sT \in Nat /\ Sent(T)' \in Nat
        /\ Sent(F) = Sent(F)' + sF /\ sF \in Nat /\ Sent(F)' \in Nat
    BY <1>3, <2>3
  <2>5. /\ Handed(F)' - Handed(F) = aF /\ bF = sF - aF /\ aF \in Nat
        /\ Handed(F) \in Int /\ Handed(F)' \in Int
    BY <1>4, <1>5, <1>6, <2>3, HandedIsInt
  <2>6. onHand[w] \in Int /\ onHand[TransitOf[w]] \in Int
    BY <1>6, <2>2 DEF Typed
  <2>7. onHand'[TransitOf[w]] = onHand[TransitOf[w]] - sT + 0 /\ onHand'[w] = onHand[w] - 0 + bF
    BY <1>2, <2>1, <2>2, <2>3, NoGoods
  <2> QED
    BY <2>1, <2>4, <2>5, <2>6, <2>7
<1> QED
  BY <1>7 DEF GoodsMove

\* The steps that neither send, settle nor hand over anything, and those that do.
LEMMA StepsKeepGoods ==
    ASSUME DeliveryInv, Typed', [Next]_vars
    PROVE  \/ GoodsStill
           \/ \E r \in Requests : PickupCommit(r) \/ DepartCommit(r)
           \/ \E r \in Requests : \E given \in [txn[r].arg.aboard -> Nat] : CloseCommit(r, given)
<1>1. UNCHANGED <<claim, dline, trip, stop, entry, onHand>> => GoodsStill
  BY LinesSame, GoodsOfOrders, Zenon DEF DeliveryInv
<1>2. ASSUME NEW r \in Requests, ConfirmCommit(r)
      PROVE  UNCHANGED <<claim, dline, trip, stop, entry, onHand>>
  BY <1>2 DEF ConfirmCommit
<1>3. ASSUME NEW r \in Requests, NEW e \in Entries, LoadCommit(r, e) PROVE GoodsStill
  <2>1. PICK s \in Stops, k \in Keys, q \in Nat : ClaimEffect(e, s, k, q)
    BY <1>3, LoadDoes
  <2> QED
    BY <2>1, LoadGoods
<1>4. ASSUME NEW r \in Requests, NEW e \in Entries, NEW k \in Keys, WholeCommit(r, e, k)
      PROVE  GoodsStill
  <2>1. PICK s \in Stops, q \in Nat : ClaimEffect(e, s, k, q)
    BY <1>4, WholeDoes
  <2> QED
    BY <2>1, LoadGoods
<1>5. CASE Leaves
  BY <1>1, <1>5 DEF Leaves
<1>6. CASE Writes
  BY <1>1, <1>2, <1>3, <1>4, <1>6, CreateGoods, EditGoods, StepGoods, TripGoods, VehicleGoods,
     StopGoods, AdjustGoods, ReleaseGoods DEF Writes
<1> QED
  BY <1>5, <1>6, EveryStep

LEMMA StepsMoveGoods ==
    ASSUME DeliveryInv, Typed', [Next]_vars
    PROVE  GoodsMove
<1>1. Typed
  BY DEF DeliveryInv
<1> QED
  BY <1>1, StepsKeepGoods, GoodsStay, PickupGoods, DepartGoods, CloseGoods

LEMMA GoodsInit ==
    ASSUME Init
    PROVE  GoodsOnTheRoad
<1>1. Aloft = {}
  BY DEF Init, Aloft, OnTheRoad
<1>2. \A lines : Sent(lines) = 0
  <2>1. \A f, copies, lines : GoodsOf(f, {}, copies, lines) = 0
    <3>1. \A copies, lines : {e \in {} : copies[e].key[2] \in Stocked \cap lines} = {}
      OBVIOUS
    <3> QED
      BY <3>1, SumOfNone DEF GoodsOf
  <2> QED
    BY <1>1, <2>1 DEF Sent
<1>3. \A l \in SaleLines : Delivered(l) = 0
  <2>1. \A l \in SaleLines : {d \in Deliveries : dline[d][l] # None} = {}
    BY DEF Init
  <2> QED
    BY <2>1, SumOfNone DEF Delivered
<1>4. ASSUME NEW w PROVE SumFunctionOnSet([l \in From(w) |-> Delivered(l)], From(w) \cap Stocked) = 0
  <2>1. PICK f, S : f = [l \in From(w) |-> Delivered(l)] /\ S = From(w) \cap Stocked
    OBVIOUS
  <2>2. IsFiniteSet(S) /\ \A l \in S : f[l] = 0
    BY <1>3, <2>1, LinesAreFinite DEF From
  <2>3. SumFunctionOnSet(f, S) = 0
    BY <2>2, SumOfZeros
  <2> QED
    BY <2>1, <2>3
<1>5. \A w \in DOMAIN TransitOf :
         /\ onHand[w] = Opening[w] /\ onHand[TransitOf[w]] = Opening[TransitOf[w]]
         /\ Opening[w] \in Nat /\ Opening[TransitOf[w]] \in Nat
  BY Ways, DeliveryConstants DEF Init
<1> QED
  BY <1>2, <1>4, <1>5 DEF GoodsOnTheRoad

(***************************************************************************)
(* Departures, closures and pickups move goods and never make or lose any, *)
(* however many closures are in flight: an in-transit location holds what  *)
(* its trucks carry, and a shelf what it opened with less what is on the   *)
(* road and what customers have.                                           *)
(***************************************************************************)
THEOREM GoodsAreNeitherMadeNorLost ==
    ASSUME OneAtATime
    PROVE  Spec => []GoodsOnTheRoad
<1>1. ASSUME Init PROVE GoodsOnTheRoad
  BY <1>1, GoodsInit
<1>2. ASSUME DeliveryInv, DeliveryInv', GoodsOnTheRoad, [Next]_vars PROVE GoodsOnTheRoad'
  <2>1. Typed /\ Typed'
    BY <1>2 DEF DeliveryInv
  <2>2. GoodsMove
    BY <1>2, <2>1, StepsMoveGoods
  <2> QED
    BY <1>2, <2>1, <2>2, GoodsFollow
<1>3. Spec => []DeliveryInv
  BY DeliveryInvariant
<1> QED
  BY <1>1, <1>2, <1>3, PTL DEF Spec

-----------------------------------------------------------------------------
(***************************************************************************)
(* Every unit once.  The invariant that makes the sale's claim suffice for *)
(* what departs and what is picked up.                                     *)
(***************************************************************************)
\* The quantity an order may still bring of a line, or has brought: what a
\* partly delivered order gave back is its child's.
Own(d, l) ==
    IF ~ Live(d) \/ dline[d][l] = None THEN 0
    ELSE IF delivery[d].status = "PARTIALLY_DELIVERED"
    THEN dline[d][l].quantity - dline[d][l].returned ELSE dline[d][l].quantity
OwnOf(l) == [d \in Deliveries |-> Own(d, l)]
Owed(l) == SumFunctionOnSet(OwnOf(l), Deliveries)

\* The orders of a sale line never own more than was sold.
WithinSale == \A l \in SaleLines : Owed(l) <= Sold[l]

\* Only a settled order has delivered, only one that failed or was split has
\* goods back, and a line's figures stay within its quantity.
Fits(m, status) ==
    /\ status \notin {"DELIVERED", "PARTIALLY_DELIVERED", "PICKED_UP"} => m.delivered = 0
    /\ status \notin {"FAILED", "PARTIALLY_DELIVERED", "CANCELLED"} => m.returned = 0
    /\ status # "CANCELLED" => m.committed + m.delivered + m.returned <= m.quantity
WithinLines ==
    \A d \in Deliveries, l \in SaleLines :
        delivery[d] # None /\ dline[d][l] # None => Fits(dline[d][l], delivery[d].status)

\* An order rides to one stop at a time, and is on its way while it rides.
Together ==
    \A e, f \in Held : entry[e].key[1] = entry[f].key[1] => entry[e].stop = entry[f].stop
Riding ==
    \A e \in Aloft : /\ delivery[entry[e].key[1]].status = "IN_TRANSIT"
                     /\ entry[e].sent = entry[e].committed

\* A child never becomes a draft again.
Grown == \A d \in Deliveries : delivery[d] # None /\ delivery[d].parent # None =>
                                  delivery[d].status \notin Early

UnitsInv == WithinSale /\ WithinLines /\ Together /\ Riding /\ Grown

\* What the other invariants say, before and after a step.
Settings == DeliveryInv /\ DeliveryInv' /\ ClaimsAgree /\ ClaimsAgree'

\* Where only a closure takes an order.
Settlements == {"DELIVERED", "PARTIALLY_DELIVERED", "FAILED"}

\* A step that settles no order: it may raise one, as a draft that is no
\* child, and move others.
Ordinary ==
    \A d \in Deliveries :
        \/ delivery'[d] = delivery[d]
        \/ /\ delivery[d] = None /\ delivery'[d] # None
           /\ delivery'[d].status = "DRAFT" /\ delivery'[d].parent = None
        \/ /\ delivery[d] # None /\ delivery'[d] # None
           /\ AssertLegal(delivery[d].status, delivery'[d].status, delivery[d].type)
           /\ delivery'[d].parent = delivery[d].parent
           /\ delivery'[d].status \notin Settlements

LEMMA OneMoves ==
    ASSUME NEW d \in Deliveries, NEW row, delivery'[d] = row, delivery[d] # None, row # None,
           \A c \in Deliveries : c # d => delivery'[c] = delivery[c],
           AssertLegal(delivery[d].status, row.status, delivery[d].type),
           row.parent = delivery[d].parent, row.status \notin Settlements
    PROVE  Ordinary
BY DEF Ordinary

LEMMA StepsAreOrdinary ==
    ASSUME DeliveryInv, [Next]_vars
    PROVE  \/ Ordinary
           \/ \E r \in Requests : \E given \in [txn[r].arg.aboard -> Nat] : CloseCommit(r, given)
<1>1. UNCHANGED delivery => Ordinary
  BY DEF Ordinary
<1>2. ASSUME NEW r \in Requests, NEW d \in Deliveries, CreateCommit(r, d) PROVE Ordinary
  BY <1>2, CreateDoes DEF Ordinary
<1>3. ASSUME NEW r \in Requests, EditCommit(r) PROVE UNCHANGED delivery
  BY <1>3 DEF EditCommit
<1>4. ASSUME NEW r \in Requests, ConfirmCommit(r) PROVE Ordinary
  <2>1. PICK d \in Deliveries, row \in DeliveryRows :
           /\ Editable(d) /\ delivery'[d] = row
           /\ \A c \in Deliveries : c # d => delivery'[c] = delivery[c]
           /\ row.type = delivery[d].type /\ row.parent = delivery[d].parent
           /\ AssertLegal(delivery[d].status, row.status, row.type)
           /\ row.status \in Early \cup {"IN_PREPARATION"}
    BY <1>4, ConfirmDoes
  <2>2. delivery[d] # None /\ row # None /\ row.status \notin Settlements
    BY <2>1, NoneIsNoDeliveryRow DEF Editable, Early, Settlements
  <2> QED
    BY <2>1, <2>2, OneMoves
<1>5. ASSUME NEW r \in Requests, StepCommit(r) PROVE Ordinary
  <2>1. PICK d \in Deliveries, step \in Steps, row \in DeliveryRows :
           /\ AsksFor(step, d) /\ delivery'[d] = row
           /\ \A c \in Deliveries : c # d => delivery'[c] = delivery[c]
           /\ row.type = delivery[d].type /\ row.parent = delivery[d].parent
           /\ row.status = Target(step, d)
           /\ AssertLegal(delivery[d].status, row.status, row.type)
    BY <1>5, StepDoes
  <2>2. delivery[d] # None /\ row # None /\ row.status \notin Settlements
    BY <2>1, NoneIsNoDeliveryRow DEF AsksFor, Target, Steps, BranchTarget, Settlements
  <2> QED
    BY <2>1, <2>2, OneMoves
<1>6. ASSUME NEW r \in Requests, PickupCommit(r) PROVE Ordinary
  <2>1. PICK d \in Deliveries : PickupEffect(d)
    BY <1>6, PickupDoes
  <2>2. PICK row : row = delivery'[d]
    OBVIOUS
  <2>3. /\ Allows(d, "PICKED_UP") /\ row # None
        /\ \A c \in Deliveries : c # d => delivery'[c] = delivery[c]
        /\ row.status = "PICKED_UP" /\ row.parent = delivery[d].parent
    BY <2>1, <2>2 DEF PickupEffect
  <2>4. /\ delivery[d] # None /\ row.status \notin Settlements
        /\ AssertLegal(delivery[d].status, row.status, delivery[d].type)
    BY <2>3 DEF Allows, Settlements
  <2> QED
    BY <2>2, <2>3, <2>4, OneMoves
<1>7. ASSUME NEW r \in Requests, NEW t \in Trips, TripCommit(r, t) PROVE UNCHANGED delivery
  BY <1>7 DEF TripCommit
<1>8. ASSUME NEW t \in Trips, NEW v \in Vehicles, UpdateTrip(t, v) PROVE UNCHANGED delivery
  BY <1>8 DEF UpdateTrip
<1>9. ASSUME NEW r \in Requests, NEW s \in Stops, StopCommit(r, s) PROVE UNCHANGED delivery
  BY <1>9 DEF StopCommit
<1>10. ASSUME NEW r \in Requests, NEW e \in Entries, LoadCommit(r, e) PROVE UNCHANGED delivery
  BY <1>10 DEF LoadCommit
<1>11. ASSUME NEW r \in Requests, NEW e \in Entries, NEW k \in Keys, WholeCommit(r, e, k)
       PROVE  UNCHANGED delivery
  BY <1>11 DEF WholeCommit
<1>12. ASSUME NEW r \in Requests, AdjustCommit(r) PROVE UNCHANGED delivery
  BY <1>12 DEF AdjustCommit
<1>13. ASSUME NEW r \in Requests, ReleaseCommit(r) PROVE UNCHANGED delivery
  BY <1>13 DEF ReleaseCommit
<1>14. ASSUME NEW r \in Requests, DepartCommit(r) PROVE Ordinary
  <2>1. PICK p, aboard, sent : DepartEffect(p, aboard, sent)
    BY <1>14, DepartDoes
  <2>2. /\ \A d \in OrdersOf(aboard) : Allows(d, "IN_TRANSIT")
        /\ \A d \in Deliveries :
              IF d \in OrdersOf(aboard)
              THEN /\ delivery'[d] # None /\ delivery'[d].status = "IN_TRANSIT"
                   /\ delivery'[d].parent = delivery[d].parent
              ELSE delivery'[d] = delivery[d]
    BY <2>1 DEF DepartEffect
  <2> QED
    BY <2>2 DEF Ordinary, Allows, Settlements
<1>15. Leaves => UNCHANGED delivery
  BY DEF Leaves
<1>16. CASE Writes
  BY <1>1, <1>2, <1>3, <1>4, <1>5, <1>6, <1>7, <1>8, <1>9, <1>10, <1>11, <1>12, <1>13, <1>14,
     <1>16 DEF Writes
<1> QED
  BY <1>1, <1>15, <1>16, EveryStep

\* What such a step leaves of an order's status and family.
LEMMA OrdinaryIs ==
    ASSUME DeliveryInv, DeliveryInv', Ordinary, NEW d \in Deliveries
    PROVE  /\ delivery[d] # None => /\ delivery'[d] # None
                                    /\ delivery'[d].parent = delivery[d].parent
                                    /\ delivery[d].status \notin Early =>
                                          delivery'[d].status \notin Early
                                    /\ delivery[d].status = "IN_TRANSIT" =>
                                          delivery'[d].status = "IN_TRANSIT"
                                    /\ delivery[d].status = "PARTIALLY_DELIVERED"
                                          <=> delivery'[d].status = "PARTIALLY_DELIVERED"
                                    /\ delivery[d].status = "CANCELLED" =>
                                          delivery'[d].status = "CANCELLED"
           /\ delivery[d] = None /\ delivery'[d] # None =>
                 delivery'[d].parent = None /\ delivery'[d].status = "DRAFT"
<1>1. CASE delivery'[d] = delivery[d]
  BY <1>1
<1>2. CASE delivery[d] = None
  BY <1>2 DEF Ordinary
<1>3. CASE delivery'[d] # delivery[d] /\ delivery[d] # None
  <2>1. /\ delivery'[d] # None /\ delivery'[d].parent = delivery[d].parent
        /\ AssertLegal(delivery[d].status, delivery'[d].status, delivery[d].type)
        /\ delivery'[d].status \notin Settlements
    BY <1>3 DEF Ordinary
  <2>2. PICK from, to, type : /\ from = delivery[d].status /\ to = delivery'[d].status
                              /\ type = delivery[d].type
    OBVIOUS
  <2>3. from \in Statuses /\ AssertLegal(from, to, type) /\ to \notin Settlements
    BY <1>3, <2>1, <2>2 DEF DeliveryInv, Typed, DeliveryRows
  <2>4. from \notin TERMINAL /\ (from \notin Early => to \notin Early)
    BY <2>3, LegalOnwards
  <2>5. from # "IN_TRANSIT"
    BY <2>3, LegalMoves DEF AssertLegal, Settlements
  <2> QED
    BY <1>3, <2>1, <2>2, <2>3, <2>4, <2>5 DEF TERMINAL, Settlements
<1> QED
  BY <1>1, <1>2, <1>3

\* The figures of a line whose order moves on.
LEMMA FitsOn ==
    ASSUME NEW m, NEW from \in Statuses, NEW to, NEW type, Fits(m, from),
           AssertLegal(from, to, type), to \notin Settlements,
           from # "FAILED" \/ to = "CANCELLED"
    PROVE  Fits(m, to)
<1>1. from \notin TERMINAL /\ to \in LEGAL[from]
  BY DEF AssertLegal
<1>2. from \notin TERMINAL \cup {"FAILED"} \/ (from = "FAILED" /\ to = "CANCELLED")
  BY <1>1
<1> QED
  BY <1>2 DEF Fits, TERMINAL, Settlements

\* A step of one order.
LEMMA OneFits ==
    ASSUME DeliveryInv, WithinLines, NEW d \in Deliveries,
           \A c \in Deliveries : c # d => delivery'[c] = delivery[c] /\ dline'[c] = dline[c],
           \A l \in SaleLines : dline'[d][l] # None => Fits(dline'[d][l], delivery'[d].status)
    PROVE  WithinLines'
BY DEF WithinLines

LEMMA LineFits ==
    ASSUME WithinLines, NEW d \in Deliveries, NEW l \in SaleLines,
           delivery[d] # None, dline[d][l] # None
    PROVE  Fits(dline[d][l], delivery[d].status)
BY DEF WithinLines

LEMMA CreateFits ==
    ASSUME Settings, WithinLines, NEW r \in Requests, NEW d \in Deliveries, CreateCommit(r, d)
    PROVE  WithinLines'
<1>1. /\ delivery'[d].status = "DRAFT"
      /\ \A c \in Deliveries : c # d => delivery'[c] = delivery[c] /\ dline'[c] = dline[c]
      /\ \A l \in SaleLines : dline'[d][l] # None => /\ dline'[d][l].committed = 0
                                                    /\ dline'[d][l].delivered = 0
                                                    /\ dline'[d][l].returned = 0
  BY CreateDoes DEF Settings
<1>2. \A l \in SaleLines : dline'[d][l] # None => dline'[d][l].quantity \in Nat
  BY DEF Settings, DeliveryInv, Typed, DeliveryLines
<1>3. \A l \in SaleLines : dline'[d][l] # None => Fits(dline'[d][l], "DRAFT")
  BY <1>1, <1>2 DEF Fits
<1> QED
  BY <1>1, <1>3, OneFits DEF Settings

LEMMA EditFits ==
    ASSUME Settings, WithinLines, NEW r \in Requests, EditCommit(r)
    PROVE  WithinLines'
<1>1. PICK d \in Deliveries, l \in SaleLines, m \in DeliveryLines \cup {None} :
         /\ Editable(d) /\ UNCHANGED <<sale, claim, delivery, trip, stop, entry, onHand>>
         /\ dline'[d][l] = m
         /\ \A c \in Deliveries, k \in SaleLines : c # d \/ k # l => dline'[c][k] = dline[c][k]
         /\ m # None =>
               /\ m.committed = IF dline[d][l] = None THEN 0 ELSE dline[d][l].committed
               /\ m.delivered = IF dline[d][l] = None THEN 0 ELSE dline[d][l].delivered
               /\ m.returned = IF dline[d][l] = None THEN 0 ELSE dline[d][l].returned
  BY EditDoes DEF Settings
<1>2. delivery[d] # None /\ delivery[d].status = "DRAFT"
  BY <1>1 DEF Editable
<1>3. dline[d][l] # None => /\ dline[d][l].committed = 0 /\ dline[d][l].delivered = 0
                           /\ dline[d][l].returned = 0
  <2>1. PICK j : j = <<d, l>>
    OBVIOUS
  <2>2. j \in Keys /\ j[1] = d /\ j[2] = l
    BY <2>1 DEF Keys
  <2>3. Booked(j) = 0
    BY <1>2, <2>2, NothingAboard, BooksAgree DEF Settings, Early
  <2>4. dline[d][l] # None => Fits(dline[d][l], "DRAFT")
    BY <1>2, LineFits
  <2> QED
    BY <2>2, <2>3, <2>4 DEF Booked, Fits
<1>4. m # None => Fits(m, "DRAFT")
  BY <1>1, <1>3 DEF Fits, DeliveryLines
<1>5. ASSUME NEW c \in Deliveries, NEW k \in SaleLines, delivery'[c] # None, dline'[c][k] # None
      PROVE  Fits(dline'[c][k], delivery'[c].status)
  <2>1. CASE c = d /\ k = l
    BY <1>1, <1>2, <1>4, <1>5, <2>1
  <2>2. CASE c # d \/ k # l
    BY <1>1, <1>5, <2>2, LineFits
  <2> QED
    BY <2>1, <2>2
<1> QED
  BY <1>5 DEF WithinLines

LEMMA ConfirmFits ==
    ASSUME Settings, WithinLines, NEW r \in Requests, ConfirmCommit(r)
    PROVE  WithinLines'
<1>1. PICK d \in Deliveries, row \in DeliveryRows :
         /\ Editable(d) /\ UNCHANGED dline /\ delivery'[d] = row
         /\ \A c \in Deliveries : c # d => delivery'[c] = delivery[c]
         /\ AssertLegal(delivery[d].status, row.status, row.type)
         /\ row.status \in Early \cup {"IN_PREPARATION"}
  BY ConfirmDoes DEF Settings
<1>2. /\ delivery[d] # None /\ delivery[d].status = "DRAFT" /\ "DRAFT" \in Statuses
      /\ row.status \notin Settlements
  BY <1>1 DEF Editable, Statuses, Settlements, Early
<1>3. \A l \in SaleLines : dline'[d][l] # None => Fits(dline'[d][l], row.status)
  BY <1>1, <1>2, LineFits, FitsOn
<1> QED
  BY <1>1, <1>3, OneFits DEF Settings

LEMMA StepFits ==
    ASSUME Settings, WithinLines, NEW r \in Requests, StepCommit(r)
    PROVE  WithinLines'
<1>1. PICK d \in Deliveries, step \in Steps, row \in DeliveryRows :
         /\ AsksFor(step, d) /\ delivery'[d] = row /\ row.status = Target(step, d)
         /\ AssertLegal(delivery[d].status, row.status, row.type)
         /\ \A c \in Deliveries : c # d => delivery'[c] = delivery[c]
         /\ \A c \in Deliveries : c # d => dline'[c] = dline[c]
         /\ \A l \in SaleLines :
               IF dline[d][l] = None THEN dline'[d][l] = None
               ELSE /\ dline'[d][l] # None
                    /\ dline'[d][l].quantity = dline[d][l].quantity
                    /\ dline'[d][l].delivered = dline[d][l].delivered
                    /\ dline'[d][l].committed = IF step = "cancel" THEN 0
                                                ELSE dline[d][l].committed
                    /\ dline'[d][l].returned = IF step = "requeue" THEN 0
                                               ELSE dline[d][l].returned
  BY StepDoes DEF Settings
<1>2. PICK from, to : from = delivery[d].status /\ to = row.status
  OBVIOUS
<1>3. delivery[d] # None /\ from \in Statuses /\ from \notin TERMINAL /\ to \in LEGAL[from]
  BY <1>1, <1>2 DEF AsksFor, Settings, DeliveryInv, Typed, DeliveryRows, AssertLegal
<1>4. /\ step = "requeue" => from = "FAILED" /\ to = "IN_PREPARATION"
      /\ step = "cancel" => to = "CANCELLED"
      /\ step \notin {"requeue", "cancel"} =>
            from # "FAILED" /\ to \notin TERMINAL \cup {"FAILED"}
  <2>1. step = "approve" => from = "PENDING_APPROVAL" /\ to \in {"APPROVED", "IN_PREPARATION"}
    BY <1>1, <1>2 DEF AsksFor, Target, BranchTarget
  <2>2. step = "reject" => from = "PENDING_APPROVAL" /\ to = "DRAFT"
    BY <1>1, <1>2 DEF AsksFor, Target
  <2>3. step = "ready" => to = "READY_FOR_PICKUP"
    BY <1>1, <1>2 DEF Target
  <2>4. step = "requeue" => from = "FAILED" /\ to = "IN_PREPARATION"
    BY <1>1, <1>2 DEF AsksFor, Target
  <2>5. step = "cancel" => to = "CANCELLED"
    BY <1>1, <1>2 DEF Target
  <2>6. from = "FAILED" => to \in {"IN_PREPARATION", "CANCELLED"}
    BY <1>3, LegalMoves
  <2> QED
    BY <2>1, <2>2, <2>3, <2>4, <2>5, <2>6 DEF Steps, TERMINAL
<1>5. ASSUME NEW l \in SaleLines, dline'[d][l] # None PROVE Fits(dline'[d][l], to)
  <2>1. PICK old, new : old = dline[d][l] /\ new = dline'[d][l]
    OBVIOUS
  <2>2. /\ old # None /\ new.quantity = old.quantity /\ new.delivered = old.delivered
        /\ new.committed = IF step = "cancel" THEN 0 ELSE old.committed
        /\ new.returned = IF step = "requeue" THEN 0 ELSE old.returned
    BY <1>1, <1>5, <2>1
  <2>3. Fits(old, from) /\ old \in DeliveryLines
    BY <1>2, <1>3, <2>1, <2>2, LineFits DEF Settings, DeliveryInv, Typed
  <2>4. /\ old.quantity \in Nat /\ old.committed \in Int /\ old.delivered \in Nat
        /\ old.returned \in Nat
    BY <2>3 DEF DeliveryLines
  <2>5. CASE step = "cancel"
    <3>1. to = "CANCELLED" /\ from \notin {"DELIVERED", "PARTIALLY_DELIVERED", "PICKED_UP"}
      BY <1>3, <1>4, <2>5 DEF TERMINAL
    <3>2. old.delivered = 0
      BY <2>3, <3>1 DEF Fits
    <3> QED
      BY <2>1, <2>2, <3>1, <3>2 DEF Fits
  <2>6. CASE step = "requeue"
    <3>1. old.delivered = 0 /\ old.committed + old.delivered + old.returned <= old.quantity
      BY <1>4, <2>3, <2>6 DEF Fits
    <3>2. new.returned = 0 /\ new.committed = old.committed
      BY <2>2, <2>6
    <3>3. new.delivered = 0 /\ new.committed + new.delivered + new.returned <= new.quantity
      BY <2>2, <2>4, <3>1, <3>2
    <3> QED
      BY <2>1, <3>2, <3>3 DEF Fits
  <2>7. CASE step \notin {"requeue", "cancel"}
    <3>1. from \notin TERMINAL \cup {"FAILED"}
      BY <1>3, <1>4, <2>7
    <3>2. /\ old.delivered = 0 /\ old.returned = 0
          /\ old.committed + old.delivered + old.returned <= old.quantity
      BY <2>3, <3>1 DEF Fits, TERMINAL
    <3>3. new.committed = old.committed /\ new.returned = old.returned
      BY <2>2, <2>7
    <3> QED
      BY <2>1, <2>2, <3>2, <3>3 DEF Fits
  <2> QED
    BY <2>1, <2>5, <2>6, <2>7
<1> QED
  BY <1>1, <1>2, <1>5, OneFits DEF Settings

LEMMA PickupFits ==
    ASSUME Settings, WithinLines, NEW r \in Requests, PickupCommit(r)
    PROVE  WithinLines'
<1>1. PICK d \in Deliveries : PickupEffect(d)
  BY PickupDoes DEF Settings
<1>2. /\ Allows(d, "PICKED_UP") /\ delivery'[d].status = "PICKED_UP"
      /\ \A c \in Deliveries : c # d => delivery'[c] = delivery[c] /\ dline'[c] = dline[c]
      /\ \A l \in SaleLines :
            IF dline[d][l] = None THEN dline'[d][l] = None
            ELSE /\ dline'[d][l].quantity = dline[d][l].quantity
                 /\ dline'[d][l].delivered = dline[d][l].quantity
                 /\ dline'[d][l].committed = 0 /\ dline'[d][l].returned = dline[d][l].returned
  BY <1>1 DEF PickupEffect
<1>3. delivery[d] # None /\ delivery[d].status = "READY_FOR_PICKUP"
  BY <1>2, PickedUpIsEarly DEF Settings
<1>4. ASSUME NEW l \in SaleLines, dline'[d][l] # None PROVE Fits(dline'[d][l], "PICKED_UP")
  <2>1. PICK old, new : old = dline[d][l] /\ new = dline'[d][l]
    OBVIOUS
  <2>2. /\ old # None /\ new.quantity = old.quantity /\ new.delivered = old.quantity
        /\ new.committed = 0 /\ new.returned = old.returned
    BY <1>2, <1>4, <2>1
  <2>3. Fits(old, "READY_FOR_PICKUP") /\ old \in DeliveryLines
    BY <1>3, <2>1, <2>2, LineFits DEF Settings, DeliveryInv, Typed
  <2>4. old.returned = 0 /\ old.quantity \in Nat
    BY <2>3 DEF Fits, DeliveryLines
  <2>5. Fits(new, "PICKED_UP")
    BY <2>2, <2>4 DEF Fits
  <2> QED
    BY <2>1, <2>5
<1> QED
  BY <1>2, <1>4, OneFits DEF Settings

\* A step of the itinerary that changes what lines have committed, and leaves
\* the status of their orders alone.
LEMMA CommittedFits ==
    ASSUME DeliveryInv, WithinLines, UNCHANGED delivery,
           \A d \in Deliveries, l \in SaleLines :
              \/ dline'[d][l] = dline[d][l]
              \/ /\ dline[d][l] # None
                 /\ dline'[d][l].quantity = dline[d][l].quantity
                 /\ dline'[d][l].delivered = dline[d][l].delivered
                 /\ dline'[d][l].returned = dline[d][l].returned
                 /\ \/ dline'[d][l].committed <= dline[d][l].committed
                    \/ dline'[d][l].committed + dline[d][l].delivered + dline[d][l].returned
                          <= dline[d][l].quantity,
           Typed'
    PROVE  WithinLines'
<1>1. SUFFICES ASSUME NEW d \in Deliveries, NEW l \in SaleLines, delivery'[d] # None,
                      dline'[d][l] # None
               PROVE  Fits(dline'[d][l], delivery'[d].status)
  BY DEF WithinLines
<1>2. CASE dline'[d][l] = dline[d][l]
  BY <1>1, <1>2, LineFits
<1>3. CASE dline'[d][l] # dline[d][l]
  <2>1. PICK old, new, st : /\ old = dline[d][l] /\ new = dline'[d][l]
                            /\ st = delivery[d].status
    OBVIOUS
  <2>2. old # None /\ old \in DeliveryLines /\ new \in DeliveryLines /\ Fits(old, st)
    BY <1>1, <1>3, <2>1, LineFits DEF DeliveryInv, Typed
  <2>3. /\ new.quantity = old.quantity /\ new.delivered = old.delivered
        /\ new.returned = old.returned
        /\ new.committed <= old.committed
              \/ new.committed + old.delivered + old.returned <= old.quantity
    BY <1>3, <2>1
  <2>4. /\ old.committed \in Int /\ new.committed \in Int /\ old.delivered \in Nat
        /\ old.returned \in Nat /\ old.quantity \in Nat
    BY <2>2 DEF DeliveryLines
  <2>5. Fits(new, st)
    BY <2>2, <2>3, <2>4 DEF Fits
  <2> QED
    BY <2>1, <2>5
<1> QED
  BY <1>2, <1>3

LEMMA DepartFits ==
    ASSUME Settings, WithinLines, NEW r \in Requests, DepartCommit(r)
    PROVE  WithinLines'
<1>1. PICK p, aboard, sent : DepartEffect(p, aboard, sent)
  BY DepartDoes DEF Settings
<1>2. /\ \A d \in OrdersOf(aboard) : Allows(d, "IN_TRANSIT")
      /\ UNCHANGED dline
      /\ \A d \in Deliveries :
            IF d \in OrdersOf(aboard)
            THEN delivery'[d] # None /\ delivery'[d].status = "IN_TRANSIT"
            ELSE delivery'[d] = delivery[d]
  BY <1>1 DEF DepartEffect
<1>3. SUFFICES ASSUME NEW d \in Deliveries, NEW l \in SaleLines, delivery'[d] # None,
                      dline'[d][l] # None
               PROVE  Fits(dline'[d][l], delivery'[d].status)
  BY DEF WithinLines
<1>4. CASE d \in OrdersOf(aboard)
  <2>1. PICK from : from = delivery[d].status
    OBVIOUS
  <2>2. /\ delivery[d] # None /\ from \in Statuses /\ AssertLegal(from, "IN_TRANSIT", delivery[d].type)
    BY <1>2, <1>4, <2>1 DEF Allows, Settings, DeliveryInv, Typed, DeliveryRows
  <2>3. from # "FAILED"
    BY <2>2, LegalMoves DEF AssertLegal
  <2>4. Fits(dline[d][l], from)
    BY <1>2, <1>3, <2>1, <2>2, LineFits
  <2>5. Fits(dline[d][l], "IN_TRANSIT")
    BY <2>2, <2>3, <2>4, FitsOn DEF Settlements
  <2> QED
    BY <1>2, <1>4, <2>5
<1>5. CASE d \notin OrdersOf(aboard)
  BY <1>2, <1>3, <1>5, LineFits
<1> QED
  BY <1>4, <1>5

\* A line is loaded, or an entry's claim adjusted, within what is open of it.
LEMMA ClaimFits ==
    ASSUME Settings, WithinLines, NEW e \in Entries, NEW s \in Stops, NEW k \in Keys,
           NEW q \in Nat, ClaimEffect(e, s, k, q)
    PROVE  WithinLines'
<1>1. k[1] \in Deliveries /\ k[2] \in SaleLines
  BY DEF Keys
<1>2. PICK old, new : old = dline[k[1]][k[2]] /\ new = dline'[k[1]][k[2]]
  OBVIOUS
<1>3. /\ UNCHANGED delivery /\ q <= OpenQuantity(old) /\ old # None
      /\ \A d \in Deliveries, l \in SaleLines :
            d # k[1] \/ l # k[2] => dline'[d][l] = dline[d][l]
      /\ new.quantity = old.quantity /\ new.delivered = old.delivered
      /\ new.returned = old.returned /\ new.committed = old.committed + q
  BY <1>2 DEF ClaimEffect, Loadable
<1>4. old \in DeliveryLines
  BY <1>1, <1>2, <1>3 DEF Settings, DeliveryInv, Typed
<1>5. new.committed + old.delivered + old.returned <= old.quantity
  BY <1>3, <1>4 DEF OpenQuantity, DeliveryLines
<1> QED
  BY <1>1, <1>2, <1>3, <1>5, CommittedFits DEF Settings, DeliveryInv

LEMMA AdjustFits ==
    ASSUME Settings, WithinLines, NEW r \in Requests, AdjustCommit(r)
    PROVE  WithinLines'
<1>1. PICK e \in Entries, q \in Nat \ {0} : AdjustEffect(e, q)
  BY AdjustDoes DEF Settings
<1>2. PICK k, c : k = entry[e].key /\ c = entry[e].committed
  BY Zenon
<1>3. AdjustsLine(e, q, k) /\ entry[e] # None
  BY <1>1, <1>2 DEF AdjustEffect, AdjustsLine
<1>4. k[1] \in Deliveries /\ k[2] \in SaleLines /\ c \in Nat /\ dline[k[1]][k[2]] # None
  BY <1>2, <1>3, EntryIsRooted DEF Settings, EntryRows
<1>5. PICK old, new : old = dline[k[1]][k[2]] /\ new = dline'[k[1]][k[2]]
  OBVIOUS
<1>6. /\ UNCHANGED delivery /\ q <= OpenQuantity(old) + c /\ old # None
      /\ \A d \in Deliveries, l \in SaleLines :
            d # k[1] \/ l # k[2] => dline'[d][l] = dline[d][l]
      /\ new.quantity = old.quantity /\ new.delivered = old.delivered
      /\ new.returned = old.returned /\ new.committed = old.committed + q - c
  BY <1>2, <1>3, <1>4, <1>5 DEF AdjustsLine
<1>7. old \in DeliveryLines
  BY <1>4, <1>5, <1>6 DEF Settings, DeliveryInv, Typed
<1>8. new.committed + old.delivered + old.returned <= old.quantity
  BY <1>4, <1>6, <1>7 DEF OpenQuantity, DeliveryLines
<1> QED
  BY <1>4, <1>5, <1>6, <1>8, CommittedFits DEF Settings, DeliveryInv

LEMMA ReleaseFits ==
    ASSUME Settings, WithinLines, NEW r \in Requests, ReleaseCommit(r)
    PROVE  WithinLines'
<1>1. PICK gone \in SUBSET Entries, stops \in SUBSET Stops, trips \in SUBSET Trips :
         ReleaseEffect(gone, stops, trips)
  BY ReleaseDoes DEF Settings
<1>2. /\ \A e \in gone : entry[e] # None /\ UNCHANGED delivery
      /\ \A d \in Deliveries, l \in SaleLines :
            IF dline[d][l] = None THEN dline'[d][l] = None
            ELSE /\ dline'[d][l].quantity = dline[d][l].quantity
                 /\ dline'[d][l].delivered = dline[d][l].delivered
                 /\ dline'[d][l].returned = dline[d][l].returned
                 /\ dline'[d][l].committed = dline[d][l].committed
                                                - ClaimedBy(gone, entry, <<d, l>>)
      /\ UNCHANGED delivery
  BY <1>1 DEF ReleaseEffect
<1>3. ASSUME NEW d \in Deliveries, NEW l \in SaleLines, dline[d][l] # None
      PROVE  dline'[d][l].committed <= dline[d][l].committed
  <2>1. PICK n : n = ClaimedBy(gone, entry, <<d, l>>)
    OBVIOUS
  <2>2. n \in Nat
    BY <1>2, <2>1, ClaimedIsNat DEF Settings
  <2>3. dline[d][l] \in DeliveryLines
    BY <1>3 DEF Settings, DeliveryInv, Typed
  <2>4. dline[d][l].committed \in Int
    BY <2>3 DEF DeliveryLines
  <2>5. dline'[d][l].committed = dline[d][l].committed - n
    BY <1>2, <1>3, <2>1
  <2> QED
    BY <2>2, <2>4, <2>5
<1> QED
  BY <1>2, <1>3, CommittedFits DEF Settings, DeliveryInv

LEMMA SameFits ==
    ASSUME WithinLines, UNCHANGED <<delivery, dline>>
    PROVE  WithinLines'
BY DEF WithinLines

\* What a closure settles is on its way, with all that was claimed for it, and
\* nothing else holds its orders.
LEMMA ClosingAloft ==
    ASSUME DeliveryInv, Together, Riding, NEW s, NEW S, NEW accepted, NEW settled, NEW born,
           NEW parent, Closing(s, S, accepted, settled, born, parent)
    PROVE  /\ \A e \in S : /\ e \in Aloft /\ e \in Held /\ entry[e].sent = entry[e].committed
                           /\ delivery[entry[e].key[1]].status = "IN_TRANSIT"
           /\ \A d \in OrdersOf(S) : /\ d \in Deliveries /\ delivery[d] # None
                                     /\ delivery[d].status = "IN_TRANSIT"
           /\ \A e \in Held : entry[e].key[1] \in OrdersOf(S) => e \in S
<1>1. s \in Stops /\ OnTheRoad(s) /\ S = EntriesAt(s)
  BY Zenon DEF Closing
<1>2. \A e \in S : e \in Entries /\ entry[e] # None /\ entry[e].stop = s
  BY <1>1 DEF EntriesAt
<1>3. \A e \in S : e \in Aloft /\ e \in Held
  <2>1. stop[s] # None /\ stop[s].outcome = "PENDING" /\ trip[stop[s].trip].status = "DEPARTED"
    BY <1>1 DEF OnTheRoad
  <2> QED
    BY <1>1, <1>2, <2>1, AloftIs, HeldIs
<1>4. \A d \in OrdersOf(S) : \E e \in S : d = entry[e].key[1]
  BY DEF OrdersOf
<1>5. \A d \in OrdersOf(S) : d \in Deliveries /\ delivery[d] # None
  BY ClosingFinds
<1>6. ASSUME NEW e \in Held, entry[e].key[1] \in OrdersOf(S) PROVE e \in S
  <2>1. PICK f \in S : entry[e].key[1] = entry[f].key[1]
    BY <1>4, <1>6
  <2>2. entry[e].stop = entry[f].stop
    BY <1>3, <2>1 DEF Together
  <2>3. e \in Entries /\ entry[e] # None /\ entry[e].stop = s
    BY <1>2, <2>2, HeldIs
  <2> QED
    BY <1>1, <2>3 DEF EntriesAt
<1> QED
  BY <1>3, <1>4, <1>5, <1>6 DEF Riding

\* What was claimed of a line is accepted or goes back.
LEMMA ClosingSplits ==
    ASSUME DeliveryInv, Together, Riding, NEW s, NEW S, NEW accepted, NEW settled, NEW born,
           NEW parent, Closing(s, S, accepted, settled, born, parent), NEW k
    PROVE  /\ OfLine(accepted, S, entry, k) \in Nat
           /\ OfLine(BackOn(S, accepted), S, entry, k) \in Nat
           /\ OfLine(accepted, S, entry, k) + OfLine(BackOn(S, accepted), S, entry, k)
                 = ClaimedBy(S, entry, k)
           /\ (\A e \in S : entry[e].key # k) => /\ ClaimedBy(S, entry, k) = 0
                                                /\ OfLine(accepted, S, entry, k) = 0
                                                /\ OfLine(BackOn(S, accepted), S, entry, k) = 0
<1> DEFINE T == {e \in S : entry[e].key = k}
           b == BackOn(S, accepted)
           c == [e \in S |-> entry[e].committed]
<1>1. S \in SUBSET Entries /\ T \in SUBSET S
  BY ClosingFinds
<1>2. IsFiniteSet(T)
  BY <1>1, EntriesAreFinite
<1>3. \A e \in S : /\ accepted[e] \in Nat /\ b[e] \in Nat /\ entry[e].committed \in Nat
                   /\ entry[e].sent = entry[e].committed
  <2>1. \A e \in S : accepted[e] \in Nat /\ b[e] \in Nat /\ entry[e] \in EntryRows
    BY ClosingFinds
  <2>2. \A e \in S : entry[e].sent = entry[e].committed
    BY ClosingAloft
  <2> QED
    BY <2>1, <2>2 DEF EntryRows
<1>4. \A e \in S : b[e] = entry[e].sent - accepted[e]
  BY DEF BackOn
<1>5. /\ OfLine(accepted, S, entry, k) = SumFunctionOnSet(accepted, T)
      /\ OfLine(b, S, entry, k) = SumFunctionOnSet(b, T)
      /\ ClaimedBy(S, entry, k) = SumFunctionOnSet(c, T)
  BY DEF OfLine, ClaimedBy
<1>6. \A e \in T : /\ accepted[e] \in Nat /\ b[e] \in Nat /\ c[e] \in Int /\ accepted[e] \in Int
                   /\ b[e] = c[e] - accepted[e]
  <2> SUFFICES ASSUME NEW e \in T
               PROVE  /\ accepted[e] \in Nat /\ b[e] \in Nat /\ c[e] \in Int
                      /\ accepted[e] \in Int /\ b[e] = c[e] - accepted[e]
    OBVIOUS
  <2>1. e \in S /\ c[e] = entry[e].committed
    OBVIOUS
  <2> HIDE DEF T, b, c
  <2> QED
    BY <1>3, <1>4, <2>1
<1>7. (\A e \in S : entry[e].key # k) => T = {}
  OBVIOUS
<1> HIDE DEF T, b, c
<1>8. SumFunctionOnSet(accepted, T) \in Nat /\ SumFunctionOnSet(b, T) \in Nat
  BY <1>2, <1>6, SumIsNat
<1>9. SumFunctionOnSet(c, T) \in Int
  BY <1>2, <1>6, SumIsInt
<1>10. SumFunctionOnSet(b, T) = SumFunctionOnSet(c, T) - SumFunctionOnSet(accepted, T)
  BY <1>2, <1>6, SumOfDifferences
<1>11. T = {} => /\ SumFunctionOnSet(c, T) = 0 /\ SumFunctionOnSet(b, T) = 0
                 /\ SumFunctionOnSet(accepted, T) = 0
  BY SumOfNone
<1>12. /\ SumFunctionOnSet(accepted, T) \in Nat /\ SumFunctionOnSet(b, T) \in Nat
       /\ SumFunctionOnSet(accepted, T) + SumFunctionOnSet(b, T) = SumFunctionOnSet(c, T)
  BY <1>8, <1>9, <1>10
<1> QED
  BY <1>5, <1>7, <1>11, <1>12 DEF b

\* Those are all the claims on it.
LEMMA ClosingClaims ==
    ASSUME DeliveryInv, Together, Riding, NEW s, NEW S, NEW accepted, NEW settled, NEW born,
           NEW parent, Closing(s, S, accepted, settled, born, parent),
           NEW k \in Keys, k[1] \in OrdersOf(S)
    PROVE  Claims(k) = ClaimedBy(S, entry, k)
<1> DEFINE T == {e \in S : entry[e].key = k}
           c == [e \in S |-> entry[e].committed]
           H == HeldOf(k)
<1>1. \A e \in S : e \in Held
  BY ClosingAloft
<1>2. \A e \in Held : entry[e].key = k => e \in S
  BY ClosingAloft
<1>3. H = T
  BY <1>1, <1>2 DEF HeldOf
<1>4. ClaimedBy(S, entry, k) = SumFunctionOnSet(c, T)
  BY DEF ClaimedBy
<1>5. Claims(k) = SumFunctionOnSet(Figures, H) /\ IsFiniteSet(H)
  BY ClaimsAre
<1>6. \A e \in T : c[e] = Figures[e]
  <2>1. S \in SUBSET Entries
    BY ClosingFinds
  <2> QED
    BY <2>1 DEF Figures
<1> HIDE DEF T, c, H
<1>7. SumFunctionOnSet(Figures, T) = SumFunctionOnSet(c, T)
  BY <1>3, <1>5, <1>6, SumOfEqual
<1> QED
  BY <1>3, <1>4, <1>5, <1>7

\* What settles of a line.
LEMMA ClosingLine ==
    ASSUME Settings, WithinLines, Together, Riding, NEW s, NEW S, NEW accepted, NEW settled,
           NEW born, NEW parent, Closing(s, S, accepted, settled, born, parent),
           NEW d \in OrdersOf(S), NEW l \in SaleLines,
           NEW a, a = OfLine(accepted, S, entry, <<d, l>>),
           NEW b, b = OfLine(BackOn(S, accepted), S, entry, <<d, l>>)
    PROVE  /\ a \in Nat /\ b \in Nat
           /\ dline[d][l] = None => dline'[d][l] = None /\ a = 0 /\ b = 0
           /\ dline[d][l] # None =>
                 /\ dline[d][l].delivered = 0 /\ dline[d][l].returned = 0
                 /\ dline[d][l].committed = a + b /\ a + b <= dline[d][l].quantity
                 /\ dline'[d][l] # None /\ dline'[d][l].quantity = dline[d][l].quantity
                 /\ dline'[d][l].committed = 0
                 /\ dline'[d][l].delivered = a /\ dline'[d][l].returned = b
<1> USE DEF Settings
<1>1. /\ d \in Deliveries /\ delivery[d] # None /\ delivery[d].status = "IN_TRANSIT"
      /\ d \notin born
  <2>1. d \in Deliveries /\ delivery[d] # None /\ delivery[d].status = "IN_TRANSIT"
    BY ClosingAloft
  <2>2. \A c \in born : delivery[c] = None
    BY ClosingFinds
  <2> QED
    BY <2>1, <2>2
<1>2. PICK k : k = <<d, l>>
  OBVIOUS
<1>3. k \in Keys /\ k[1] = d /\ k[2] = l
  BY <1>1, <1>2 DEF Keys
<1>4. PICK c : c = ClaimedBy(S, entry, k)
  OBVIOUS
<1>5. /\ a \in Nat /\ b \in Nat /\ a + b = c
      /\ (\A e \in S : entry[e].key # k) => a = 0 /\ b = 0 /\ c = 0
  BY <1>2, <1>4, ClosingSplits
<1>6. Claims(k) = c
  BY <1>3, <1>4, ClosingClaims
<1>7. Booked(k) = c
  BY <1>1, <1>3, <1>6, BooksAgree
<1>8. dline[d][l] # None => dline[d][l].committed = c
  BY <1>3, <1>7 DEF Booked
<1>9. ASSUME dline[d][l] # None
      PROVE  /\ dline[d][l].delivered = 0 /\ dline[d][l].returned = 0
             /\ dline[d][l].committed <= dline[d][l].quantity
  <2>1. PICK old : old = dline[d][l]
    OBVIOUS
  <2>2. Fits(old, "IN_TRANSIT") /\ old \in DeliveryLines
    BY <1>1, <1>9, <2>1, LineFits DEF DeliveryInv, Typed
  <2>3. old.delivered = 0 /\ old.returned = 0 /\ old.committed + old.delivered + old.returned <= old.quantity
    BY <2>2 DEF Fits
  <2>4. old.committed \in Int /\ old.quantity \in Nat
    BY <2>2 DEF DeliveryLines
  <2> QED
    BY <2>1, <2>3, <2>4
<1>10. CASE Carries(S, d, l)
  <2>1. /\ dline[d][l] # None /\ dline'[d][l] # None
        /\ dline'[d][l].delivered = dline[d][l].delivered + a
        /\ dline'[d][l].committed = dline[d][l].committed - c
        /\ dline'[d][l].quantity = dline[d][l].quantity
        /\ dline'[d][l].returned = dline[d][l].returned + b
    <3>1. dline[d][l] \in DeliveryLines
      BY <1>10, ClosingFinds
    <3>2. dline[d][l] # None
      BY <3>1, NoneIsNoDeliveryRow
    <3> QED
      BY <1>1, <1>2, <1>4, <1>10, <3>2, ClosingLines
  <2>2. c \in Nat /\ dline[d][l].committed = c
    BY <1>5, <1>8, <2>1
  <2>3. dline'[d][l].committed = 0
    BY <2>1, <2>2
  <2>4. dline'[d][l].delivered = a /\ dline'[d][l].returned = b
    BY <1>5, <1>9, <2>1
  <2>5. a + b <= dline[d][l].quantity
    BY <1>5, <1>9, <2>1, <2>2
  <2> QED
    BY <1>5, <1>9, <2>1, <2>2, <2>3, <2>4, <2>5
<1>11. CASE ~ Carries(S, d, l)
  <2>1. \A e \in S : entry[e].key # k
    BY <1>2, <1>11 DEF Carries
  <2>2. dline'[d][l] = dline[d][l]
    BY <1>1, <1>11, ClosingLines
  <2> QED
    BY <1>5, <1>8, <1>9, <2>1, <2>2
<1> QED
  BY <1>10, <1>11

\* An order all of which is accepted has nothing back, and one of which nothing
\* is accepted delivers nothing.
LEMMA ClosingSettles ==
    ASSUME DeliveryInv, NEW s, NEW S, NEW accepted, NEW settled, NEW born, NEW parent,
           Closing(s, S, accepted, settled, born, parent), NEW d \in OrdersOf(S), NEW l
    PROVE  /\ settled[d] \in Settlements
           /\ settled[d] = "DELIVERED" => OfLine(BackOn(S, accepted), S, entry, <<d, l>>) = 0
           /\ settled[d] = "FAILED" => OfLine(accepted, S, entry, <<d, l>>) = 0
<1> DEFINE T == {e \in S : entry[e].key[1] = d}
           R == {e \in S : entry[e].key = <<d, l>>}
           b == BackOn(S, accepted)
           g == SentOn(S)
           took == SumFunctionOnSet(accepted, T)
           sent == SumFunctionOnSet(g, T)
<1>1. S \in SUBSET Entries
  BY ClosingFinds
<1>2. T \in SUBSET S /\ R \in SUBSET T
  OBVIOUS
<1>3. IsFiniteSet(T) /\ IsFiniteSet(R)
  BY <1>1, <1>2, EntriesAreFinite
<1>4. \A e \in T : /\ accepted[e] \in Nat /\ b[e] \in Nat /\ g[e] \in Nat
                   /\ b[e] = g[e] - accepted[e]
  <2>1. \A e \in S : accepted[e] \in Nat /\ b[e] \in Nat /\ entry[e] \in EntryRows
    BY ClosingFinds
  <2>2. \A e \in S : b[e] = entry[e].sent - accepted[e] /\ g[e] = entry[e].sent
    BY DEF BackOn, SentOn
  <2> HIDE DEF b, g, T
  <2> QED
    BY <1>2, <2>1, <2>2 DEF EntryRows
<1>5. settled[d] = Settles(sent, took)
  <2>1. settled = Settled(S, entry, accepted)
    BY Zenon DEF Closing, CloseWrites
  <2>2. d \in {entry[e].key[1] : e \in S}
    BY DEF OrdersOf
  <2>3. [e \in S |-> entry[e].sent] = g
    BY DEF SentOn
  <2> QED
    BY <2>1, <2>2, <2>3 DEF Settled, OfOrder
<1>6. /\ OfLine(accepted, S, entry, <<d, l>>) = SumFunctionOnSet(accepted, R)
      /\ OfLine(b, S, entry, <<d, l>>) = SumFunctionOnSet(b, R)
  BY DEF OfLine
<1> HIDE DEF T, R, b, g
<1>7. took \in Nat /\ sent \in Nat
  BY <1>3, <1>4, SumIsNat
<1>8. SumFunctionOnSet(b, T) = sent - took
  BY <1>3, <1>4, SumOfDifferences
<1>9. /\ SumFunctionOnSet(accepted, R) <= took /\ SumFunctionOnSet(accepted, R) \in Nat
      /\ SumFunctionOnSet(b, R) <= SumFunctionOnSet(b, T) /\ SumFunctionOnSet(b, R) \in Nat
  <2>1. \A e \in R : accepted[e] \in Nat /\ b[e] \in Nat
    BY <1>2, <1>4
  <2> QED
    BY <1>2, <1>3, <1>4, <2>1, SumOfSome, SumIsNat
<1> HIDE DEF took, sent
<1>10. /\ settled[d] \in Settlements
       /\ settled[d] = "DELIVERED" => took = sent
       /\ settled[d] = "FAILED" => took = 0
  BY <1>5 DEF Settles, Settlements
<1>11. settled[d] = "DELIVERED" => SumFunctionOnSet(b, R) = 0
  BY <1>7, <1>8, <1>9, <1>10
<1>12. settled[d] = "FAILED" => SumFunctionOnSet(accepted, R) = 0
  BY <1>7, <1>9, <1>10
<1> QED
  BY <1>6, <1>10, <1>11, <1>12 DEF b

\* The other orders are as they were.
LEMMA ClosingElsewhere ==
    ASSUME DeliveryInv, NEW s, NEW S, NEW accepted, NEW settled, NEW born, NEW parent,
           Closing(s, S, accepted, settled, born, parent),
           NEW d \in Deliveries, d \notin OrdersOf(S), d \notin born
    PROVE  delivery'[d] = delivery[d] /\ \A l \in SaleLines : dline'[d][l] = dline[d][l]
<1>1. delivery'[d] = delivery[d]
  BY ClosingOrders
<1>2. ASSUME NEW l \in SaleLines PROVE dline'[d][l] = dline[d][l]
  <2>1. ~ Carries(S, d, l)
    BY ClosingFinds
  <2>2. IF Carries(S, d, l)
        THEN /\ dline'[d][l] # None
             /\ dline'[d][l].delivered
                   = dline[d][l].delivered + OfLine(accepted, S, entry, <<d, l>>)
             /\ dline'[d][l].committed
                   = dline[d][l].committed - ClaimedBy(S, entry, <<d, l>>)
             /\ dline'[d][l].quantity = dline[d][l].quantity
             /\ dline'[d][l].returned
                   = dline[d][l].returned
                        + OfLine(BackOn(S, accepted), S, entry, <<d, l>>)
        ELSE dline'[d][l] = dline[d][l]
    BY ClosingLines
  <2> QED
    BY <2>1, <2>2
<1> QED
  BY <1>1, <1>2

LEMMA CloseFits ==
    ASSUME Settings, WithinLines, Together, Riding, NEW s, NEW S, NEW accepted, NEW settled,
           NEW born, NEW parent, Closing(s, S, accepted, settled, born, parent)
    PROVE  WithinLines'
<1> USE DEF Settings
<1>1. SUFFICES ASSUME NEW d \in Deliveries, NEW l \in SaleLines, delivery'[d] # None,
                      dline'[d][l] # None
               PROVE  Fits(dline'[d][l], delivery'[d].status)
  BY DEF WithinLines
<1>2. CASE d \in OrdersOf(S)
  <2>1. PICK a, b, st : /\ a = OfLine(accepted, S, entry, <<d, l>>)
                        /\ b = OfLine(BackOn(S, accepted), S, entry, <<d, l>>)
                        /\ st = settled[d]
    OBVIOUS
  <2>2. PICK old, new : old = dline[d][l] /\ new = dline'[d][l]
    OBVIOUS
  <2>3. /\ a \in Nat /\ b \in Nat /\ old # None /\ a + b <= old.quantity
        /\ new.quantity = old.quantity /\ new.committed = 0
        /\ new.delivered = a /\ new.returned = b
    BY <1>1, <1>2, <2>1, <2>2, ClosingLine
  <2>4. /\ st \in Settlements
        /\ st = "DELIVERED" => b = 0
        /\ st = "FAILED" => a = 0
    BY <1>2, <2>1, ClosingSettles
  <2>5. new.committed + new.delivered + new.returned <= new.quantity
    BY <2>3
  <2>6. Fits(new, st)
    BY <2>3, <2>4, <2>5 DEF Fits, Settlements
  <2>7. delivery'[d].status = st
    BY <1>2, <2>1, ClosingOrders
  <2> QED
    BY <2>2, <2>6, <2>7
<1>3. CASE d \in born
  <2>1. PICK q : q = OfLine(BackOn(S, accepted), S, entry, <<parent[d], l>>)
    OBVIOUS
  <2>2. dline'[d][l] = (IF q > 0 THEN NewLine(q) ELSE None)
    BY <1>3, <2>1, ClosingLines
  <2>3. q \in Nat
    BY <2>1, ClosingSplits
  <2>4. dline'[d][l] = NewLine(q)
    BY <1>1, <2>2
  <2>5. Fits(NewLine(q), "IN_PREPARATION")
    BY <2>3 DEF Fits, NewLine
  <2>6. delivery'[d].status = "IN_PREPARATION"
    BY <1>3, ClosingOrders
  <2> QED
    BY <2>4, <2>5, <2>6
<1>4. CASE d \notin OrdersOf(S) /\ d \notin born
  BY <1>1, <1>4, ClosingElsewhere, LineFits
<1> QED
  BY <1>2, <1>3, <1>4

\* Every step keeps the figures of lines within their quantities.
LEMMA StepsFit ==
    ASSUME Settings, UnitsInv, [Next]_vars
    PROVE  WithinLines'
<1> USE DEF UnitsInv
<1>1. Leaves => UNCHANGED <<delivery, dline>>
  BY DEF Leaves
<1>2. ASSUME NEW r \in Requests, NEW t \in Trips, TripCommit(r, t) PROVE UNCHANGED <<delivery, dline>>
  BY <1>2 DEF TripCommit
<1>3. ASSUME NEW t \in Trips, NEW v \in Vehicles, UpdateTrip(t, v) PROVE UNCHANGED <<delivery, dline>>
  BY <1>3 DEF UpdateTrip
<1>4. ASSUME NEW r \in Requests, NEW s \in Stops, StopCommit(r, s) PROVE UNCHANGED <<delivery, dline>>
  BY <1>4 DEF StopCommit
<1>5. ASSUME NEW r \in Requests, NEW e \in Entries, LoadCommit(r, e) PROVE WithinLines'
  <2>1. PICK s \in Stops, k \in Keys, q \in Nat \ {0} : ClaimEffect(e, s, k, q)
    BY <1>5, LoadDoes DEF Settings
  <2> QED
    BY <2>1, ClaimFits
<1>6. ASSUME NEW r \in Requests, NEW e \in Entries, NEW k \in Keys, WholeCommit(r, e, k)
      PROVE  WithinLines'
  <2>1. PICK s \in Stops, q \in Nat \ {0} : ClaimEffect(e, s, k, q)
    BY <1>6, WholeDoes DEF Settings
  <2> QED
    BY <2>1, ClaimFits
<1>7. ASSUME NEW r \in Requests, NEW given \in [txn[r].arg.aboard -> Nat], CloseCommit(r, given)
      PROVE  WithinLines'
  <2>1. PICK s, S, settled, born, parent : Closing(s, S, given, settled, born, parent)
    BY <1>7, CloseReads DEF Settings
  <2> QED
    BY <2>1, CloseFits
<1>8. CASE Writes
  BY <1>2, <1>3, <1>4, <1>5, <1>6, <1>7, <1>8, CreateFits, EditFits, ConfirmFits, StepFits,
     PickupFits, AdjustFits, ReleaseFits, DepartFits, SameFits DEF Writes
<1> QED
  BY <1>1, <1>8, EveryStep, SameFits

\* A step that puts nothing new aboard.
NothingLoaded ==
    \A e \in Entries : e \in Held' => /\ e \in Held /\ entry'[e].key = entry[e].key
                                      /\ entry'[e].stop = entry[e].stop

LEMMA TogetherKept ==
    ASSUME Together, NothingLoaded
    PROVE  Together'
BY HeldIs DEF Together, NothingLoaded

LEMMA SameAboard ==
    ASSUME UNCHANGED <<stop, entry>>
    PROVE  NothingLoaded
BY HeldIs DEF NothingLoaded

LEMMA StopAboard ==
    ASSUME DeliveryInv, NEW r \in Requests, NEW s \in Stops, StopCommit(r, s)
    PROVE  NothingLoaded
<1>1. stop[s] = None /\ UNCHANGED entry
  BY DEF StopCommit, Fresh
<1>2. PICK row : stop' = [stop EXCEPT ![s] = row]
  BY DEF StopCommit
<1>3. \A q \in Stops : stop[q] # None => stop'[q] = stop[q]
  BY <1>1, <1>2 DEF DeliveryInv, Typed
<1>4. \A e \in Entries : entry[e] # None => entry[e].stop \in Stops /\ stop[entry[e].stop] # None
  BY EntryIsRooted
<1> QED
  BY <1>1, <1>3, <1>4, HeldIs DEF NothingLoaded

LEMMA AdjustAboard ==
    ASSUME DeliveryInv, NEW r \in Requests, AdjustCommit(r)
    PROVE  NothingLoaded
<1>1. PICK e \in Entries, q \in Nat \ {0} : AdjustEffect(e, q)
  BY AdjustDoes, Zenon
<1>2. /\ entry[e] # None /\ entry'[e] # None /\ entry'[e].stop = entry[e].stop
      /\ entry'[e].key = entry[e].key /\ UNCHANGED stop
      /\ \A o \in Entries : o # e => entry'[o] = entry[o]
  BY <1>1 DEF AdjustEffect, AdjustsLine
<1> QED
  BY <1>2, HeldIs DEF NothingLoaded

LEMMA ReleaseAboard ==
    ASSUME DeliveryInv, NEW r \in Requests, ReleaseCommit(r)
    PROVE  NothingLoaded
<1>1. PICK gone \in SUBSET Entries, stops \in SUBSET Stops, trips \in SUBSET Trips :
         ReleaseEffect(gone, stops, trips)
  BY ReleaseDoes
<1>2. /\ entry' = [e \in Entries |-> IF e \in gone THEN None ELSE entry[e]]
      /\ stop' = [s \in Stops |-> IF s \in stops THEN None ELSE stop[s]]
  BY <1>1 DEF ReleaseEffect
<1>3. ASSUME NEW e \in Entries, e \in Held'
      PROVE  e \in Held /\ entry'[e] = entry[e]
  <2>1. e \notin gone /\ entry'[e] = entry[e]
    BY <1>2, <1>3, HeldIs
  <2>2. PICK q : q = entry[e].stop
    OBVIOUS
  <2>3. q \in Stops /\ stop'[q] # None /\ stop'[q].outcome = "PENDING" /\ entry[e] # None
    BY <1>3, <2>1, <2>2, HeldIs
  <2>4. stop'[q] = stop[q]
    BY <1>2, <2>3
  <2> QED
    BY <2>1, <2>2, <2>3, <2>4, HeldIs
<1> QED
  BY <1>3 DEF NothingLoaded

LEMMA DepartAboard ==
    ASSUME DeliveryInv, NEW r \in Requests, DepartCommit(r)
    PROVE  NothingLoaded
<1>1. PICK p, S, sent : S \in SUBSET Entries /\ DepartEffect(p, S, sent)
  BY DepartDoes
<1>2. /\ UNCHANGED stop
      /\ \A e \in Entries :
            IF e \in S
            THEN entry'[e] # None /\ entry'[e].stop = entry[e].stop /\ entry'[e].key = entry[e].key
            ELSE entry'[e] = entry[e]
  BY <1>1 DEF DepartEffect
<1>3. \A e \in S : entry[e] # None
  BY <1>1, EntriesOfTrip DEF DepartEffect
<1> QED
  BY <1>2, <1>3, HeldIs DEF NothingLoaded

LEMMA CloseAboard ==
    ASSUME DeliveryInv, NEW s, NEW S, NEW accepted, NEW settled, NEW born, NEW parent,
           Closing(s, S, accepted, settled, born, parent)
    PROVE  NothingLoaded
<1>1. s \in Stops /\ stop[s] # None /\ \A e \in S : entry[e] # None
  BY ClosingFinds
<1>2. /\ \A e \in Entries :
            IF e \in S
            THEN entry'[e] # None /\ entry'[e].stop = entry[e].stop /\ entry'[e].key = entry[e].key
            ELSE entry'[e] = entry[e]
      /\ stop'[s].outcome # "PENDING" /\ \A q \in Stops : q # s => stop'[q] = stop[q]
  BY ClosingEntries, ClosingStops
<1> QED
  BY <1>1, <1>2, HeldIs DEF NothingLoaded

\* A line is loaded where its order already rides, if it does.
LEMMA ClaimTogether ==
    ASSUME ~ SplitLoads, DeliveryInv, Together, NEW e \in Entries, NEW s \in Stops,
           NEW k \in Keys, NEW q \in Nat, ClaimEffect(e, s, k, q)
    PROVE  Together'
<1>1. PICK row : row = NewEntry(s, k, q)
  OBVIOUS
<1>2. /\ entry' = [entry EXCEPT ![e] = row] /\ UNCHANGED stop /\ row.stop = s /\ row.key = k
      /\ Places(k[1], s)
  BY <1>1 DEF ClaimEffect, NewEntry
<1>3. entry'[e] = row /\ \A o \in Entries : o # e => entry'[o] = entry[o]
  BY <1>2 DEF DeliveryInv, Typed
<1>4. \A o \in Held : entry[o].key[1] = k[1] => entry[o].stop = s
  BY <1>2 DEF Places
<1>5. \A o \in Held' : o # e => o \in Held /\ entry'[o] = entry[o]
  BY <1>2, <1>3, HeldIs
<1>6. ASSUME NEW o \in Held', o # e PROVE entry'[o].key[1] = k[1] => entry'[o].stop = s
  BY <1>4, <1>5, <1>6
<1>7. ASSUME NEW o \in Held', NEW f \in Held', entry'[o].key[1] = entry'[f].key[1]
      PROVE  entry'[o].stop = entry'[f].stop
  <2>1. CASE o = e \/ f = e
    BY <1>2, <1>3, <1>6, <1>7, <2>1
  <2>2. CASE o # e /\ f # e
    BY <1>5, <1>7, <2>2 DEF Together
  <2> QED
    BY <2>1, <2>2
<1> QED
  BY <1>7 DEF Together

LEMMA StepsTogether ==
    ASSUME ~ SplitLoads, DeliveryInv, Together, [Next]_vars
    PROVE  Together'
<1>1. Leaves => NothingLoaded
  BY SameAboard DEF Leaves
<1>2. ASSUME NEW r \in Requests, NEW d \in Deliveries, CreateCommit(r, d) PROVE NothingLoaded
  BY <1>2, SameAboard, Zenon DEF CreateCommit
<1>3. ASSUME NEW r \in Requests, EditCommit(r) PROVE NothingLoaded
  BY <1>3, SameAboard, Zenon DEF EditCommit
<1>4. ASSUME NEW r \in Requests, ConfirmCommit(r) PROVE NothingLoaded
  BY <1>4, SameAboard DEF ConfirmCommit
<1>5. ASSUME NEW r \in Requests, StepCommit(r) PROVE NothingLoaded
  BY <1>5, SameAboard, Zenon DEF StepCommit
<1>6. ASSUME NEW r \in Requests, PickupCommit(r) PROVE NothingLoaded
  BY <1>6, SameAboard DEF PickupCommit
<1>7. ASSUME NEW r \in Requests, NEW t \in Trips, TripCommit(r, t) PROVE NothingLoaded
  BY <1>7, SameAboard DEF TripCommit
<1>8. ASSUME NEW t \in Trips, NEW v \in Vehicles, UpdateTrip(t, v) PROVE NothingLoaded
  BY <1>8, SameAboard DEF UpdateTrip
<1>9. ASSUME NEW r \in Requests, NEW e \in Entries, LoadCommit(r, e) PROVE Together'
  <2>1. PICK s \in Stops, k \in Keys, q \in Nat \ {0} : ClaimEffect(e, s, k, q)
    BY <1>9, LoadDoes
  <2> QED
    BY <2>1, ClaimTogether
<1>10. ASSUME NEW r \in Requests, NEW e \in Entries, NEW k \in Keys, WholeCommit(r, e, k)
       PROVE  Together'
  <2>1. PICK s \in Stops, q \in Nat \ {0} : ClaimEffect(e, s, k, q)
    BY <1>10, WholeDoes
  <2> QED
    BY <2>1, ClaimTogether
<1>11. ASSUME NEW r \in Requests, NEW given \in [txn[r].arg.aboard -> Nat], CloseCommit(r, given)
       PROVE  NothingLoaded
  <2>1. PICK s, S, settled, born, parent : Closing(s, S, given, settled, born, parent)
    BY <1>11, CloseReads
  <2> QED
    BY <2>1, CloseAboard
<1>12. CASE Writes
  BY <1>2, <1>3, <1>4, <1>5, <1>6, <1>7, <1>8, <1>9, <1>10, <1>11, <1>12, StopAboard,
     AdjustAboard, ReleaseAboard, DepartAboard, TogetherKept DEF Writes
<1> QED
  BY <1>1, <1>12, EveryStep, TogetherKept

\* What stays on the road stays on its way, in a step that settles no order.
LEMMA StillRiding ==
    ASSUME DeliveryInv, DeliveryInv', Riding, Ordinary, NEW e \in Aloft,
           entry'[e].key = entry[e].key, entry'[e].sent = entry[e].sent,
           entry'[e].committed = entry[e].committed
    PROVE  delivery'[entry'[e].key[1]].status = "IN_TRANSIT" /\ entry'[e].sent = entry'[e].committed
<1>1. PICK d : d = entry[e].key[1]
  OBVIOUS
<1>2. e \in Entries /\ entry[e] # None
  BY AloftIs
<1>3. d \in Deliveries /\ delivery[d] # None
  BY <1>1, <1>2, EntryIsRooted
<1>4. delivery[d].status = "IN_TRANSIT" /\ entry[e].sent = entry[e].committed
  BY <1>1 DEF Riding
<1>5. delivery'[d].status = "IN_TRANSIT"
  BY <1>3, <1>4, OrdinaryIs
<1> QED
  BY <1>1, <1>4, <1>5

LEMMA StillRides ==
    ASSUME DeliveryInv, DeliveryInv', Riding, Ordinary, GoodsStill
    PROVE  Riding'
<1>1. \A e \in Entries : e \in Aloft' => e \in Aloft
  BY DEF GoodsStill
<1>2. ASSUME NEW e \in Aloft'
      PROVE  delivery'[entry'[e].key[1]].status = "IN_TRANSIT" /\ entry'[e].sent = entry'[e].committed
  <2>1. e \in Aloft
    BY <1>1, AloftIs
  <2>2. /\ entry'[e].key = entry[e].key /\ entry'[e].sent = entry[e].sent
        /\ entry'[e].committed = entry[e].committed
    BY <2>1 DEF GoodsStill
  <2> QED
    BY <2>1, <2>2, StillRiding
<1> QED
  BY <1>2 DEF Riding

LEMMA PickupRides ==
    ASSUME DeliveryInv, DeliveryInv', Riding, Ordinary, NEW r \in Requests, PickupCommit(r)
    PROVE  Riding'
<1>1. UNCHANGED <<trip, stop, entry>>
  BY DEF PickupCommit
<1>2. \A e \in Aloft' : e \in Aloft /\ entry'[e] = entry[e]
  BY <1>1, AloftIs
<1> QED
  BY <1>2, StillRiding, Zenon DEF Riding

LEMMA DepartRides ==
    ASSUME DeliveryInv, DeliveryInv', Riding, Ordinary, NEW r \in Requests, DepartCommit(r)
    PROVE  Riding'
<1>1. PICK p, S, sent : p \in Trips /\ S \in SUBSET Entries /\ DepartEffect(p, S, sent)
  BY DepartDoes
<1>2. Typed'
  BY DEF DeliveryInv
<1>3. /\ \A e \in Entries : e \in Aloft' <=> e \in Aloft \/ e \in S
      /\ \A e \in Aloft : entry'[e] = entry[e]
  BY <1>1, <1>2, DepartSends
<1>4. ASSUME NEW e \in S
      PROVE  delivery'[entry'[e].key[1]].status = "IN_TRANSIT" /\ entry'[e].sent = entry'[e].committed
  <2>1. /\ sent = [f \in S |-> entry[f].committed]
        /\ \A f \in Entries : f \in S =>
              /\ entry'[f].sent = sent[f] /\ entry'[f].key = entry[f].key
              /\ entry'[f].committed = entry[f].committed
        /\ \A d \in Deliveries : d \in OrdersOf(S) => delivery'[d].status = "IN_TRANSIT"
    BY <1>1 DEF DepartEffect
  <2>2. /\ entry'[e].sent = entry'[e].committed /\ entry'[e].key = entry[e].key
    BY <1>1, <2>1
  <2>3. entry[e].key[1] \in OrdersOf(S)
    BY DEF OrdersOf
  <2>4. entry[e].key[1] \in Deliveries
    <3>1. e \in Entries /\ entry[e] # None
      BY <1>1, EntriesOfTrip DEF DepartEffect
    <3> QED
      BY <3>1, EntryIsRooted
  <2> QED
    BY <2>1, <2>2, <2>3, <2>4
<1>5. \A e \in Aloft' : e \in Aloft \/ e \in S
  BY <1>3, AloftIs
<1>6. ASSUME NEW e \in Aloft
      PROVE  delivery'[entry'[e].key[1]].status = "IN_TRANSIT" /\ entry'[e].sent = entry'[e].committed
  BY <1>3, StillRiding
<1> QED
  BY <1>4, <1>5, <1>6 DEF Riding

LEMMA CloseRides ==
    ASSUME DeliveryInv, Together, Riding, NEW s, NEW S, NEW accepted, NEW settled, NEW born,
           NEW parent, Closing(s, S, accepted, settled, born, parent)
    PROVE  Riding'
<1>1. /\ \A e \in Entries : e \in Aloft' <=> e \in Aloft /\ e \notin S
      /\ \A e \in Aloft : e \notin S => entry'[e] = entry[e]
  BY ClosingAirs
<1>2. ASSUME NEW e \in Aloft'
      PROVE  delivery'[entry'[e].key[1]].status = "IN_TRANSIT" /\ entry'[e].sent = entry'[e].committed
  <2>1. e \in Aloft /\ e \notin S /\ entry'[e] = entry[e] /\ e \in Entries /\ entry[e] # None
    BY <1>1, AloftIs
  <2>2. PICK d : d = entry[e].key[1]
    OBVIOUS
  <2>3. d \in Deliveries /\ delivery[d] # None
    BY <2>1, <2>2, EntryIsRooted
  <2>4. e \in Held
    BY <2>1, AloftIs, HeldIs
  <2>5. d \notin OrdersOf(S)
    BY <2>1, <2>2, <2>4, ClosingAloft
  <2>6. d \notin born
    BY <2>3, ClosingFinds
  <2>7. delivery'[d] = delivery[d]
    BY <2>3, <2>5, <2>6, ClosingElsewhere
  <2>8. delivery[d].status = "IN_TRANSIT" /\ entry[e].sent = entry[e].committed
    BY <2>1, <2>2 DEF Riding
  <2> QED
    BY <2>1, <2>2, <2>7, <2>8
<1> QED
  BY <1>2 DEF Riding

LEMMA StepsRide ==
    ASSUME DeliveryInv, DeliveryInv', Together, Riding, [Next]_vars
    PROVE  Riding'
<1>1. Typed'
  BY DEF DeliveryInv
<1>2. ASSUME NEW r \in Requests, NEW given \in [txn[r].arg.aboard -> Nat], CloseCommit(r, given)
      PROVE  Riding'
  <2>1. PICK s, S, settled, born, parent : Closing(s, S, given, settled, born, parent)
    BY <1>2, CloseReads
  <2> QED
    BY <2>1, CloseRides
<1>3. CASE Ordinary
  <2>1. \/ GoodsStill
        \/ \E r \in Requests : PickupCommit(r) \/ DepartCommit(r)
        \/ \E r \in Requests : \E given \in [txn[r].arg.aboard -> Nat] : CloseCommit(r, given)
    BY <1>1, StepsKeepGoods
  <2> QED
    BY <1>2, <1>3, <2>1, StillRides, PickupRides, DepartRides
<1> QED
  BY <1>2, <1>3, StepsAreOrdinary

LEMMA CloseGrows ==
    ASSUME DeliveryInv, Grown, NEW s, NEW S, NEW accepted, NEW settled, NEW born, NEW parent,
           Closing(s, S, accepted, settled, born, parent)
    PROVE  Grown'
<1>1. SUFFICES ASSUME NEW d \in Deliveries, delivery'[d] # None, delivery'[d].parent # None
               PROVE  delivery'[d].status \notin Early
  BY DEF Grown
<1>2. CASE d \in OrdersOf(S)
  <2>1. delivery'[d].status \in {"DELIVERED", "FAILED", "PARTIALLY_DELIVERED"}
    BY <1>2, ClosingOrders
  <2> QED
    BY <2>1 DEF Early
<1>3. CASE d \in born
  <2>1. delivery'[d].status = "IN_PREPARATION"
    BY <1>3, ClosingOrders
  <2> QED
    BY <2>1 DEF Early
<1>4. CASE d \notin OrdersOf(S) /\ d \notin born
  <2>1. delivery'[d] = delivery[d]
    BY <1>4, ClosingElsewhere
  <2> QED
    BY <1>1, <2>1 DEF Grown
<1> QED
  BY <1>2, <1>3, <1>4

LEMMA StepsGrow ==
    ASSUME DeliveryInv, DeliveryInv', Grown, [Next]_vars
    PROVE  Grown'
<1>1. ASSUME NEW r \in Requests, NEW given \in [txn[r].arg.aboard -> Nat], CloseCommit(r, given)
      PROVE  Grown'
  <2>1. PICK s, S, settled, born, parent : Closing(s, S, given, settled, born, parent)
    BY <1>1, CloseReads
  <2> QED
    BY <2>1, CloseGrows
<1>2. CASE Ordinary
  <2>1. ASSUME NEW d \in Deliveries, delivery'[d] # None, delivery'[d].parent # None
        PROVE  delivery'[d].status \notin Early
    <3>1. delivery[d] # None
      BY <1>2, <2>1, OrdinaryIs
    <3>2. /\ delivery'[d].parent = delivery[d].parent
          /\ delivery[d].status \notin Early => delivery'[d].status \notin Early
      BY <1>2, <3>1, OrdinaryIs
    <3> QED
      BY <2>1, <3>1, <3>2 DEF Grown
  <2> QED
    BY <2>1 DEF Grown
<1> QED
  BY <1>1, <1>2, StepsAreOrdinary

\* What an order owns of a line is a quantity, and at most the line's.
LEMMA OwnIsNat ==
    ASSUME DeliveryInv, ClaimsAgree, WithinLines, NEW d \in Deliveries, NEW l \in SaleLines
    PROVE  /\ Own(d, l) \in Nat
           /\ Live(d) /\ dline[d][l] # None => Own(d, l) <= dline[d][l].quantity
           /\ ~ Live(d) \/ dline[d][l] = None => Own(d, l) = 0
<1>1. CASE ~ Live(d) \/ dline[d][l] = None
  BY <1>1 DEF Own
<1>2. CASE Live(d) /\ dline[d][l] # None
  <2>1. PICK m, st : m = dline[d][l] /\ st = delivery[d].status
    OBVIOUS
  <2>2. m \in DeliveryLines /\ Fits(m, st) /\ st # "CANCELLED" /\ delivery[d] # None
    BY <1>2, <2>1, LineFits DEF Live, DeliveryInv, Typed
  <2>3. /\ m.quantity \in Nat /\ m.returned \in Nat /\ m.delivered \in Nat /\ m.committed \in Int
    BY <2>2 DEF DeliveryLines
  <2>4. Own(d, l) = IF st = "PARTIALLY_DELIVERED" THEN m.quantity - m.returned ELSE m.quantity
    BY <1>2, <2>1 DEF Own
  <2>5. m.committed >= 0
    <3>1. PICK k : k = <<d, l>>
      OBVIOUS
    <3>2. k \in Keys /\ k[1] = d /\ k[2] = l
      BY <3>1 DEF Keys
    <3>3. Booked(k) = Claims(k)
      BY <2>1, <2>2, <3>2, BooksAgree
    <3>4. Claims(k) \in Nat
      BY FiguresAreNat
    <3>5. Booked(k) = m.committed
      BY <1>2, <2>1, <3>2 DEF Booked
    <3> QED
      BY <3>3, <3>4, <3>5
  <2>6. m.returned <= m.quantity
    <3>1. m.committed + m.delivered + m.returned <= m.quantity
      BY <2>2 DEF Fits
    <3> QED
      BY <2>3, <2>5, <3>1
  <2> QED
    BY <1>2, <2>1, <2>3, <2>4, <2>6
<1> QED
  BY <1>1, <1>2

\* What orders own, as figures.
LEMMA OwedIs ==
    ASSUME DeliveryInv, DeliveryInv', ClaimsAgree, WithinLines, NEW l \in SaleLines
    PROVE  /\ IsFiniteSet(Deliveries)
           /\ \A d \in Deliveries : /\ OwnOf(l)[d] = Own(d, l) /\ OwnOf(l)[d] \in Nat
                                    /\ OwnOf(l)'[d] = Own(d, l)' /\ OwnOf(l)'[d] \in Int
           /\ Owed(l) = SumFunctionOnSet(OwnOf(l), Deliveries) /\ Owed(l) \in Nat
           /\ Owed(l)' = SumFunctionOnSet(OwnOf(l)', Deliveries) /\ Owed(l)' \in Int
<1>1. IsFiniteSet(Deliveries)
  BY DeliveryConstants
<1>2. \A d \in Deliveries : OwnOf(l)[d] = Own(d, l) /\ OwnOf(l)'[d] = Own(d, l)'
  BY DEF OwnOf
<1>3. ASSUME NEW d \in Deliveries PROVE Own(d, l)' \in Int
  <2>1. dline'[d][l] # None => dline'[d][l].quantity \in Nat /\ dline'[d][l].returned \in Nat
    BY DEF DeliveryInv, Typed, DeliveryLines
  <2>2. CASE Own(d, l)' = 0
    BY <2>2
  <2>3. CASE dline'[d][l] # None /\ Own(d, l)' = dline'[d][l].quantity - dline'[d][l].returned
    BY <2>1, <2>3
  <2>4. CASE dline'[d][l] # None /\ Own(d, l)' = dline'[d][l].quantity
    BY <2>1, <2>4
  <2> QED
    BY <2>2, <2>3, <2>4 DEF Own
<1>4. \A d \in Deliveries : OwnOf(l)[d] \in Nat /\ OwnOf(l)'[d] \in Int
  BY <1>2, <1>3, OwnIsNat
<1>5. /\ Owed(l) = SumFunctionOnSet(OwnOf(l), Deliveries)
      /\ Owed(l)' = SumFunctionOnSet(OwnOf(l)', Deliveries)
  BY DEF Owed
<1>6. PICK f, g : f = OwnOf(l) /\ g = OwnOf(l)'
  OBVIOUS
<1>7. SumFunctionOnSet(f, Deliveries) \in Nat /\ SumFunctionOnSet(g, Deliveries) \in Int
  BY <1>1, <1>4, <1>6, SumIsNat, SumIsInt
<1> QED
  BY <1>1, <1>2, <1>4, <1>5, <1>6, <1>7

\* No order comes to own more of a line.
LEMMA OwedShrinks ==
    ASSUME DeliveryInv, DeliveryInv', ClaimsAgree, WithinLines, NEW l \in SaleLines,
           \A d \in Deliveries : Own(d, l)' <= Own(d, l)
    PROVE  Owed(l)' <= Owed(l)
<1>1. PICK f, g : f = OwnOf(l) /\ g = OwnOf(l)'
  OBVIOUS
<1>2. IsFiniteSet(Deliveries) /\ \A d \in Deliveries : f[d] \in Int /\ g[d] \in Int /\ g[d] <= f[d]
  BY <1>1, OwedIs
<1>3. SumFunctionOnSet(g, Deliveries) <= SumFunctionOnSet(f, Deliveries)
  BY <1>2, SumAtMost
<1> QED
  BY <1>1, <1>3, OwedIs

\* One order comes to own something else of it.
LEMMA OwedChanges ==
    ASSUME DeliveryInv, DeliveryInv', ClaimsAgree, WithinLines, NEW l \in SaleLines,
           NEW d \in Deliveries, \A c \in Deliveries : c # d => Own(c, l)' = Own(c, l)
    PROVE  Owed(l)' = Owed(l) - Own(d, l) + Own(d, l)' /\ Own(d, l)' \in Int
<1>1. PICK f, g : f = OwnOf(l) /\ g = OwnOf(l)'
  OBVIOUS
<1>2. IsFiniteSet(Deliveries) /\ \A c \in Deliveries : f[c] \in Int /\ g[c] \in Int
  BY <1>1, OwedIs
<1>3. \A c \in Deliveries \ {d} : f[c] = g[c]
  BY <1>1, OwedIs
<1>4. SumFunctionOnSet(g, Deliveries) = SumFunctionOnSet(f, Deliveries) - f[d] + g[d]
  BY <1>2, <1>3, SumChanged
<1>5. f[d] = Own(d, l) /\ g[d] = Own(d, l)' /\ g[d] \in Int
  BY <1>1, OwedIs
<1> QED
  BY <1>1, <1>4, <1>5, OwedIs

\* What orders own is covered.
LEMMA OwedIsCovered ==
    ASSUME DeliveryInv, DeliveryInv', ClaimsAgree, WithinLines, NEW l \in SaleLines
    PROVE  Owed(l) <= Covered(l) /\ Covered(l) \in Nat
<1>1. PICK f : f = OwnOf(l)
  OBVIOUS
<1>2. PICK T : T = {d \in Deliveries : Live(d) /\ dline[d][l] # None}
  OBVIOUS
<1>3. PICK g : g = [d \in T |-> dline[d][l].quantity]
  OBVIOUS
<1>4. PICK h : h = [d \in Deliveries |-> IF d \in T THEN dline[d][l].quantity ELSE 0]
  OBVIOUS
<1>5. Covered(l) = SumFunctionOnSet(g, T) /\ IsFiniteSet(Deliveries) /\ T \in SUBSET Deliveries
  BY <1>2, <1>3, DeliveryConstants DEF Covered
<1>6. \A d \in T : dline[d][l].quantity \in Nat
  BY <1>2 DEF DeliveryInv, Typed, DeliveryLines
<1>7. (\A d \in T : g[d] = h[d] /\ g[d] \in Nat) /\ \A d \in Deliveries \ T : h[d] = 0
  BY <1>3, <1>4, <1>5, <1>6
<1>8. SumFunctionOnSet(g, T) = SumFunctionOnSet(h, Deliveries) /\ SumFunctionOnSet(g, T) \in Nat
  BY <1>5, <1>7, SumOverAll
<1>9. ASSUME NEW d \in Deliveries PROVE f[d] \in Int /\ h[d] \in Int /\ f[d] <= h[d]
  <2>1. f[d] = Own(d, l) /\ f[d] \in Nat
    BY <1>1, OwedIs
  <2>2. CASE d \in T
    <3>1. f[d] <= dline[d][l].quantity
      BY <1>2, <2>1, <2>2, OwnIsNat
    <3>2. h[d] = dline[d][l].quantity /\ h[d] \in Nat
      BY <1>4, <1>6, <2>2
    <3> QED
      BY <2>1, <3>1, <3>2
  <2>3. CASE d \notin T
    <3>1. f[d] = 0 /\ h[d] = 0
      BY <1>2, <1>4, <2>1, <2>3, OwnIsNat
    <3> QED
      BY <3>1
  <2> QED
    BY <2>2, <2>3
<1>10. SumFunctionOnSet(f, Deliveries) <= SumFunctionOnSet(h, Deliveries)
  BY <1>5, <1>9, SumAtMost
<1> QED
  BY <1>1, <1>5, <1>8, <1>10, OwedIs

\* An order whose lines keep their quantities, and what was given back of
\* them once it is partly delivered.
Stands(d) ==
    \A l \in SaleLines :
        /\ dline'[d][l] = None <=> dline[d][l] = None
        /\ dline[d][l] # None => dline'[d][l].quantity = dline[d][l].quantity
        /\ dline[d][l] # None /\ delivery[d] # None /\ delivery[d].status = "PARTIALLY_DELIVERED" =>
              dline'[d][l].returned = dline[d][l].returned
LinesStand == \A d \in Deliveries : Stands(d)

LEMMA OwnStands ==
    ASSUME DeliveryInv, DeliveryInv', ClaimsAgree, WithinLines, Ordinary,
           NEW d \in Deliveries, Stands(d), NEW l \in SaleLines
    PROVE  Own(d, l)' <= Own(d, l)
<1>1. Own(d, l) \in Nat
  BY OwnIsNat
<1>2. CASE ~ Live(d)' \/ dline'[d][l] = None
  <2>1. Own(d, l)' = 0
    BY <1>2 DEF Own
  <2> QED
    BY <1>1, <2>1
<1>3. CASE Live(d)' /\ dline'[d][l] # None
  <2>1. PICK m, n : m = dline[d][l] /\ n = dline'[d][l]
    OBVIOUS
  <2>2. /\ m # None /\ n.quantity = m.quantity
        /\ delivery[d] # None /\ delivery[d].status = "PARTIALLY_DELIVERED" => n.returned = m.returned
    BY <1>3, <2>1 DEF Stands
  <2>3. delivery[d] # None
    BY <2>1, <2>2 DEF DeliveryInv, Rooted
  <2>4. /\ delivery[d].status = "PARTIALLY_DELIVERED" <=> delivery'[d].status = "PARTIALLY_DELIVERED"
        /\ delivery[d].status = "CANCELLED" => delivery'[d].status = "CANCELLED"
    BY <2>3, OrdinaryIs
  <2>5. Live(d)
    BY <1>3, <2>3, <2>4 DEF Live
  <2>6. /\ Own(d, l) = IF delivery[d].status = "PARTIALLY_DELIVERED"
                       THEN m.quantity - m.returned ELSE m.quantity
        /\ Own(d, l)' = IF delivery'[d].status = "PARTIALLY_DELIVERED"
                        THEN n.quantity - n.returned ELSE n.quantity
    BY <1>3, <2>1, <2>2, <2>5 DEF Own
  <2>7. Own(d, l)' = Own(d, l)
    BY <2>2, <2>3, <2>4, <2>6
  <2> QED
    BY <1>1, <2>7
<1> QED
  BY <1>2, <1>3

LEMMA SaleStands ==
    ASSUME DeliveryInv, DeliveryInv', ClaimsAgree, WithinLines, WithinSale, Ordinary, LinesStand
    PROVE  WithinSale'
<1>1. ASSUME NEW l \in SaleLines PROVE Owed(l)' <= Sold[l]
  <2>1. Owed(l)' <= Owed(l)
    BY OwnStands, OwedShrinks DEF LinesStand
  <2>2. Owed(l) <= Sold[l]
    BY DEF WithinSale
  <2>3. Owed(l)' \in Int /\ Owed(l) \in Int /\ Sold[l] \in Int
    BY OwedIs, DeliveryConstants
  <2> QED
    BY <2>1, <2>2, <2>3
<1> QED
  BY <1>1 DEF WithinSale

LEMMA SameStands ==
    ASSUME UNCHANGED dline
    PROVE  LinesStand
BY DEF LinesStand, Stands

\* A step that changes what lines have committed and no more.
LEMMA CommittedStands ==
    ASSUME \A d \in Deliveries, l \in SaleLines :
              \/ dline'[d][l] = dline[d][l]
              \/ /\ dline[d][l] # None /\ dline'[d][l] # None
                 /\ dline'[d][l].quantity = dline[d][l].quantity
                 /\ dline'[d][l].returned = dline[d][l].returned
    PROVE  LinesStand
BY DEF LinesStand, Stands

LEMMA StepStands ==
    ASSUME DeliveryInv, NEW r \in Requests, StepCommit(r)
    PROVE  LinesStand
<1>1. PICK d \in Deliveries, step \in Steps :
         /\ AsksFor(step, d)
         /\ \A c \in Deliveries : c # d => dline'[c] = dline[c]
         /\ \A l \in SaleLines :
               IF dline[d][l] = None THEN dline'[d][l] = None
               ELSE /\ dline'[d][l] # None
                    /\ dline'[d][l].quantity = dline[d][l].quantity
                    /\ dline'[d][l].returned = IF step = "requeue" THEN 0
                                               ELSE dline[d][l].returned
  BY StepDoes
<1>2. delivery[d] # None /\ delivery[d].status # "PARTIALLY_DELIVERED"
  BY <1>1 DEF AsksFor, Allows, AssertLegal, TERMINAL
<1>3. Stands(d)
  BY <1>1, <1>2 DEF Stands
<1>4. \A c \in Deliveries : c # d => Stands(c)
  BY <1>1 DEF Stands
<1> QED
  BY <1>3, <1>4 DEF LinesStand

LEMMA PickupStands ==
    ASSUME DeliveryInv, NEW r \in Requests, PickupCommit(r)
    PROVE  LinesStand
<1>1. PICK d \in Deliveries : PickupEffect(d)
  BY PickupDoes
<1>2. /\ \A c \in Deliveries : c # d => dline'[c] = dline[c]
      /\ \A l \in SaleLines :
            IF dline[d][l] = None THEN dline'[d][l] = None
            ELSE /\ dline'[d][l] # None /\ dline'[d][l].quantity = dline[d][l].quantity
                 /\ dline'[d][l].returned = dline[d][l].returned
  BY <1>1 DEF PickupEffect
<1> QED
  BY <1>2 DEF LinesStand, Stands

LEMMA ClaimStands ==
    ASSUME NEW e, NEW s, NEW k, NEW q, ClaimEffect(e, s, k, q)
    PROVE  LinesStand
<1>1. /\ \A d \in Deliveries, l \in SaleLines : d # k[1] \/ l # k[2] => dline'[d][l] = dline[d][l]
      /\ dline[k[1]][k[2]] # None /\ dline'[k[1]][k[2]] # None
      /\ dline'[k[1]][k[2]].quantity = dline[k[1]][k[2]].quantity
      /\ dline'[k[1]][k[2]].returned = dline[k[1]][k[2]].returned
  BY DEF ClaimEffect, Loadable
<1> QED
  BY <1>1, CommittedStands

LEMMA AdjustStands ==
    ASSUME DeliveryInv, NEW r \in Requests, AdjustCommit(r)
    PROVE  LinesStand
<1>1. PICK e \in Entries, q \in Nat \ {0} : AdjustEffect(e, q)
  BY AdjustDoes
<1>2. PICK k : k = entry[e].key
  BY Zenon
<1>3. AdjustsLine(e, q, k) /\ entry[e] # None
  BY <1>1, <1>2 DEF AdjustEffect, AdjustsLine
<1>4. dline[k[1]][k[2]] # None
  BY <1>2, <1>3, EntryIsRooted
<1>5. /\ \A d \in Deliveries, l \in SaleLines : d # k[1] \/ l # k[2] => dline'[d][l] = dline[d][l]
      /\ dline'[k[1]][k[2]] # None
      /\ dline'[k[1]][k[2]].quantity = dline[k[1]][k[2]].quantity
      /\ dline'[k[1]][k[2]].returned = dline[k[1]][k[2]].returned
  BY <1>3 DEF AdjustsLine
<1> QED
  BY <1>4, <1>5, CommittedStands

LEMMA ReleaseStands ==
    ASSUME DeliveryInv, NEW r \in Requests, ReleaseCommit(r)
    PROVE  LinesStand
<1>1. PICK gone \in SUBSET Entries, stops \in SUBSET Stops, trips \in SUBSET Trips :
         ReleaseEffect(gone, stops, trips)
  BY ReleaseDoes
<1>2. \A d \in Deliveries, l \in SaleLines :
         IF dline[d][l] = None THEN dline'[d][l] = None
         ELSE /\ dline'[d][l] # None /\ dline'[d][l].quantity = dline[d][l].quantity
              /\ dline'[d][l].returned = dline[d][l].returned
  BY <1>1, Zenon DEF ReleaseEffect
<1> QED
  BY <1>2, CommittedStands

\* Every step leaves the shape of orders alone, but one that raises or edits a
\* draft, or settles orders.
LEMMA StepsStand ==
    ASSUME DeliveryInv, [Next]_vars
    PROVE  \/ LinesStand
           \/ \E r \in Requests, d \in Deliveries : CreateCommit(r, d)
           \/ \E r \in Requests : EditCommit(r)
           \/ \E r \in Requests : \E given \in [txn[r].arg.aboard -> Nat] : CloseCommit(r, given)
<1>1. Leaves => LinesStand
  BY SameStands DEF Leaves
<1>2. ASSUME NEW r \in Requests, ConfirmCommit(r) PROVE LinesStand
  BY <1>2, SameStands DEF ConfirmCommit
<1>3. ASSUME NEW r \in Requests, NEW t \in Trips, TripCommit(r, t) PROVE LinesStand
  BY <1>3, SameStands DEF TripCommit
<1>4. ASSUME NEW t \in Trips, NEW v \in Vehicles, UpdateTrip(t, v) PROVE LinesStand
  BY <1>4, SameStands DEF UpdateTrip
<1>5. ASSUME NEW r \in Requests, NEW s \in Stops, StopCommit(r, s) PROVE LinesStand
  BY <1>5, SameStands DEF StopCommit
<1>6. ASSUME NEW r \in Requests, NEW e \in Entries, LoadCommit(r, e) PROVE LinesStand
  <2>1. PICK s \in Stops, k \in Keys, q \in Nat \ {0} : ClaimEffect(e, s, k, q)
    BY <1>6, LoadDoes
  <2> QED
    BY <2>1, ClaimStands
<1>7. ASSUME NEW r \in Requests, NEW e \in Entries, NEW k \in Keys, WholeCommit(r, e, k)
      PROVE  LinesStand
  <2>1. PICK s \in Stops, q \in Nat \ {0} : ClaimEffect(e, s, k, q)
    BY <1>7, WholeDoes
  <2> QED
    BY <2>1, ClaimStands
<1>8. ASSUME NEW r \in Requests, DepartCommit(r) PROVE LinesStand
  BY <1>8, SameStands DEF DepartCommit
<1>9. CASE Writes
  BY <1>2, <1>3, <1>4, <1>5, <1>6, <1>7, <1>8, <1>9, StepStands, PickupStands, AdjustStands,
     ReleaseStands DEF Writes
<1> QED
  BY <1>1, <1>9, EveryStep

\* A draft is raised or edited, within what was sold.
LEMMA DraftWithin ==
    ASSUME DeliveryInv, DeliveryInv', ClaimsAgree, WithinLines, WithinSale, NEW d \in Deliveries,
           NEW l \in SaleLines, \A c \in Deliveries : c # d => Own(c, l)' = Own(c, l),
           \/ Own(d, l)' <= Own(d, l)
           \/ Covered(l) - Own(d, l) + Own(d, l)' <= Sold[l]
    PROVE  Owed(l)' <= Sold[l]
<1>1. PICK a, b : a = Own(d, l) /\ b = Own(d, l)'
  OBVIOUS
<1>2. Owed(l)' = Owed(l) - a + b /\ b \in Int
  BY <1>1, OwedChanges
<1>3. a \in Nat /\ Owed(l) \in Nat /\ Owed(l) <= Covered(l) /\ Covered(l) \in Nat /\ Sold[l] \in Nat
  BY <1>1, OwnIsNat, OwedIs, OwedIsCovered, DeliveryConstants
<1>4. Owed(l) <= Sold[l]
  BY DEF WithinSale
<1> QED
  BY <1>1, <1>2, <1>3, <1>4

LEMMA OwnSame ==
    ASSUME NEW d, NEW l, delivery'[d] = delivery[d], dline'[d][l] = dline[d][l]
    PROVE  Own(d, l)' = Own(d, l)
BY DEF Own, Live

LEMMA CreateWithin ==
    ASSUME DeliveryInv, DeliveryInv', ClaimsAgree, WithinLines, WithinSale, NEW r \in Requests,
           NEW d \in Deliveries, CreateCommit(r, d)
    PROVE  WithinSale'
<1>1. /\ delivery[d] = None /\ delivery'[d] # None /\ delivery'[d].status = "DRAFT"
      /\ \A c \in Deliveries : c # d => delivery'[c] = delivery[c] /\ dline'[c] = dline[c]
      /\ \A l \in SaleLines : dline'[d][l] # None => dline'[d][l].quantity <= Uncovered(l)
  BY CreateDoes
<1>2. ASSUME NEW l \in SaleLines PROVE Owed(l)' <= Sold[l]
  <2>1. \A c \in Deliveries : c # d => Own(c, l)' = Own(c, l)
    BY <1>1, OwnSame
  <2>2. Own(d, l) = 0
    BY <1>1 DEF Own, Live
  <2>3. CASE dline'[d][l] = None
    <3>1. Own(d, l)' = 0
      BY <2>3 DEF Own
    <3> QED
      BY <2>1, <2>2, <3>1, DraftWithin
  <2>4. CASE dline'[d][l] # None
    <3>1. PICK q : q = dline'[d][l].quantity
      OBVIOUS
    <3>2. q \in Nat /\ q <= Uncovered(l)
      BY <1>1, <2>4, <3>1 DEF DeliveryInv, Typed, DeliveryLines
    <3>3. Own(d, l)' = q
      BY <1>1, <2>4, <3>1 DEF Own, Live
    <3>4. Covered(l) \in Nat /\ Sold[l] \in Nat
      BY OwedIsCovered, DeliveryConstants
    <3>5. q <= 0 \/ Covered(l) - 0 + q <= Sold[l]
      BY <3>2, <3>4 DEF Uncovered
    <3> QED
      BY <2>1, <2>2, <3>3, <3>5, DraftWithin
  <2> QED
    BY <2>3, <2>4
<1> QED
  BY <1>2 DEF WithinSale

LEMMA EditWithin ==
    ASSUME DeliveryInv, DeliveryInv', ClaimsAgree, WithinLines, WithinSale, NEW r \in Requests,
           EditCommit(r)
    PROVE  WithinSale'
<1>1. PICK d \in Deliveries, j \in SaleLines, m \in DeliveryLines \cup {None} :
         /\ Editable(d) /\ UNCHANGED delivery /\ dline'[d][j] = m
         /\ \A c \in Deliveries, k \in SaleLines : c # d \/ k # j => dline'[c][k] = dline[c][k]
         /\ m # None => FitsSale(j, IF dline[d][j] = None THEN Covered(j)
                                    ELSE Covered(j) - dline[d][j].quantity, m.quantity)
  BY EditDoes
<1>2. delivery[d] # None /\ delivery[d].status = "DRAFT"
  BY <1>1 DEF Editable
<1>3. ASSUME NEW l \in SaleLines PROVE Owed(l)' <= Sold[l]
  <2>1. \A c \in Deliveries : c # d => Own(c, l)' = Own(c, l)
    BY <1>1, OwnSame
  <2>2. Own(d, l) \in Nat /\ Covered(l) \in Nat
    BY OwnIsNat, OwedIsCovered
  <2>3. CASE l # j
    <3>1. Own(d, l)' = Own(d, l)
      BY <1>1, <2>3, OwnSame
    <3> QED
      BY <2>1, <2>2, <3>1, DraftWithin
  <2>4. CASE l = j /\ m = None
    <3>1. Own(d, l)' = 0
      BY <1>1, <2>4 DEF Own
    <3> QED
      BY <2>1, <2>2, <3>1, DraftWithin
  <2>5. CASE l = j /\ m # None
    <3>1. Own(d, l)' = m.quantity /\ m.quantity \in Nat
      BY <1>1, <1>2, <2>5 DEF Own, Live, DeliveryLines
    <3>2. Own(d, l) = IF dline[d][l] = None THEN 0 ELSE dline[d][l].quantity
      BY <1>2 DEF Own, Live
    <3>3. Covered(l) - Own(d, l) + m.quantity <= Sold[l]
      BY <1>1, <2>2, <2>5, <3>1, <3>2 DEF FitsSale
    <3> QED
      BY <2>1, <3>1, <3>3, DraftWithin
  <2> QED
    BY <2>3, <2>4, <2>5
<1> QED
  BY <1>3 DEF WithinSale

\* The children of a closure, one of each order it splits.
LEMMA ClosingKin ==
    ASSUME DeliveryInv, NEW s, NEW S, NEW accepted, NEW settled, NEW born, NEW parent,
           Closing(s, S, accepted, settled, born, parent)
    PROVE  /\ born \in SUBSET Deliveries /\ IsFiniteSet(born)
           /\ parent \in [born -> SplitOf(settled)]
           /\ \A c, d \in born : parent[c] = parent[d] => c = d
           /\ \A d \in SplitOf(settled) : \E c \in born : parent[c] = d
           /\ \A d : d \in SplitOf(settled) <=>
                        d \in OrdersOf(S) /\ settled[d] = "PARTIALLY_DELIVERED"
           /\ \A c \in born : c \notin OrdersOf(S)
<1>1. parent \in Bijection(born, SplitOf(settled))
  BY Zenon DEF Closing
<1>2. /\ parent \in [born -> SplitOf(settled)]
      /\ \A c, d \in born : parent[c] = parent[d] => c = d
      /\ \A d \in SplitOf(settled) : \E c \in born : parent[c] = d
  BY <1>1 DEF Bijection, Injection, Surjection, IsInjective
<1>3. born \in SUBSET Deliveries /\ DOMAIN settled = OrdersOf(S)
  BY ClosingFinds
<1>4. IsFiniteSet(born)
  BY <1>3, DeliveryConstants, FS_Subset
<1>5. \A c \in born : c \notin OrdersOf(S)
  BY ClosingFinds
<1>6. \A d : d \in SplitOf(settled) <=> d \in OrdersOf(S) /\ settled[d] = "PARTIALLY_DELIVERED"
  BY <1>3 DEF SplitOf
<1> QED
  BY <1>2, <1>3, <1>4, <1>5, <1>6

\* What a closure makes each order own: a partly delivered one gives what came
\* back of it to its child.
LEMMA ClosingOwn ==
    ASSUME Settings, WithinLines, Together, Riding, NEW s, NEW S, NEW accepted, NEW settled,
           NEW born, NEW parent, Closing(s, S, accepted, settled, born, parent),
           NEW d \in Deliveries, NEW l \in SaleLines,
           NEW b, \A c \in Deliveries : b[c] = OfLine(BackOn(S, accepted), S, entry, <<c, l>>)
    PROVE  Own(d, l)' = Own(d, l) - (IF d \in SplitOf(settled) THEN b[d] ELSE 0)
                                  + (IF d \in born THEN b[parent[d]] ELSE 0)
<1> USE DEF Settings
<1>1. \A c \in Deliveries : b[c] \in Nat
  <2>1. \A c \in Deliveries : OfLine(BackOn(S, accepted), S, entry, <<c, l>>) \in Nat
    BY ClosingSplits, Zenon
  <2> QED
    BY <2>1
<1>2. Own(d, l) \in Nat
  BY OwnIsNat
<1>3. \A c \in born : parent[c] \in Deliveries
  BY ClosingFinds
<1>4. CASE d \in OrdersOf(S)
  <2>1. d \notin born /\ (d \in SplitOf(settled) <=> settled[d] = "PARTIALLY_DELIVERED")
    BY <1>4, ClosingKin
  <2>2. /\ delivery[d] # None /\ delivery[d].status = "IN_TRANSIT"
    BY <1>4, ClosingAloft
  <2>3. delivery'[d] # None /\ delivery'[d].status = settled[d]
    BY <1>4, ClosingOrders
  <2>4. settled[d] \in Settlements
    BY <1>4, ClosingSettles
  <2>5. /\ dline[d][l] = None => dline'[d][l] = None /\ b[d] = 0
        /\ dline[d][l] # None => /\ dline'[d][l] # None
                                 /\ dline'[d][l].quantity = dline[d][l].quantity
                                 /\ dline'[d][l].returned = b[d]
    <3>1. PICK a : a = OfLine(accepted, S, entry, <<d, l>>)
      OBVIOUS
    <3>2. b[d] = OfLine(BackOn(S, accepted), S, entry, <<d, l>>)
      OBVIOUS
    <3> QED
      BY <1>4, <3>1, <3>2, ClosingLine
  <2>6. CASE dline[d][l] = None
    BY <1>2, <2>1, <2>5, <2>6 DEF Own
  <2>7. CASE dline[d][l] # None
    <3>1. PICK q : q = dline[d][l].quantity
      OBVIOUS
    <3>2. Own(d, l) = q
      BY <2>2, <2>7, <3>1 DEF Own, Live
    <3>3. Live(d)'
      BY <2>3, <2>4 DEF Live, Settlements
    <3>4. Own(d, l)' = IF settled[d] = "PARTIALLY_DELIVERED" THEN q - b[d] ELSE q
      BY <2>3, <2>5, <2>7, <3>1, <3>3 DEF Own
    <3> QED
      BY <1>1, <1>2, <2>1, <3>2, <3>4
  <2> QED
    BY <2>6, <2>7
<1>5. CASE d \in born
  <2>1. d \notin SplitOf(settled)
    BY <1>5, ClosingKin
  <2>2. Own(d, l) = 0
    <3>1. delivery[d] = None
      BY <1>5, ClosingFinds
    <3> QED
      BY <3>1 DEF Own, Live
  <2>3. PICK q : q = b[parent[d]]
    OBVIOUS
  <2>4. dline'[d][l] = (IF q > 0 THEN NewLine(q) ELSE None) /\ q \in Nat
    <3>1. q = OfLine(BackOn(S, accepted), S, entry, <<parent[d], l>>)
      BY <1>5, <1>3, <2>3
    <3> QED
      BY <1>1, <1>5, <1>3, <2>3, <3>1, ClosingLines
  <2>5. delivery'[d] # None /\ delivery'[d].status = "IN_PREPARATION"
    BY <1>5, ClosingOrders
  <2>6. Own(d, l)' = q
    <3>1. CASE q > 0
      <4>1. dline'[d][l] = NewLine(q) /\ dline'[d][l] # None
        <5>1. NewLine(q) \in DeliveryLines
          BY <2>4 DEF NewLine, DeliveryLines
        <5> QED
          BY <2>4, <3>1, <5>1, NoneIsNoDeliveryRow
      <4> QED
        BY <2>5, <4>1 DEF Own, Live, NewLine
    <3>2. CASE ~ q > 0
      BY <2>4, <3>2 DEF Own
    <3> QED
      BY <3>1, <3>2
  <2> QED
    BY <1>5, <2>1, <2>2, <2>3, <2>4, <2>6
<1>6. CASE d \notin OrdersOf(S) /\ d \notin born
  <2>1. d \notin SplitOf(settled)
    BY <1>6, ClosingKin
  <2>2. Own(d, l)' = Own(d, l)
    BY <1>6, ClosingElsewhere, OwnSame
  <2> QED
    BY <1>2, <1>6, <2>1, <2>2
<1> QED
  BY <1>4, <1>5, <1>6

LEMMA CloseWithin ==
    ASSUME Settings, UnitsInv, NEW s, NEW S, NEW accepted, NEW settled, NEW born, NEW parent,
           Closing(s, S, accepted, settled, born, parent)
    PROVE  WithinSale'
<1> USE DEF Settings, UnitsInv
<1>1. ASSUME NEW l \in SaleLines PROVE Owed(l)' = Owed(l)
  <2>1. PICK K, P : K = Deliveries /\ P = SplitOf(settled)
    OBVIOUS
  <2>2. PICK b : b = [c \in K |-> OfLine(BackOn(S, accepted), S, entry, <<c, l>>)]
    OBVIOUS
  <2>3. /\ born \in SUBSET K /\ IsFiniteSet(born) /\ parent \in [born -> P] /\ IsFiniteSet(K)
        /\ \A c, d \in born : parent[c] = parent[d] => c = d
        /\ \A d \in P : \E c \in born : parent[c] = d
        /\ P \in SUBSET K
    <3>1. \A d \in OrdersOf(S) : d \in Deliveries
      BY ClosingFinds
    <3> QED
      BY <2>1, <3>1, ClosingKin, DeliveryConstants
  <2>4. \A c \in K : b[c] \in Nat
    BY <2>2, ClosingSplits
  <2>5. PICK up, plus, minus : /\ up = [c \in born |-> b[parent[c]]]
                               /\ plus = [c \in K |-> IF c \in born THEN b[parent[c]] ELSE 0]
                               /\ minus = [c \in K |-> IF c \in P THEN b[c] ELSE 0]
    OBVIOUS
  <2>6. \A c \in born : up[c] = b[parent[c]] /\ up[c] \in Nat /\ parent[c] \in P
    BY <2>3, <2>4, <2>5
  <2>7. SumFunctionOnSet(up, born) = SumFunctionOnSet(b, P)
    BY <2>3, <2>6, SumRenamed
  <2>8. SumFunctionOnSet(up, born) = SumFunctionOnSet(plus, K)
    <3>1. /\ \A c \in born : up[c] = plus[c] /\ up[c] \in Nat
          /\ \A c \in K \ born : plus[c] = 0
      BY <2>3, <2>5, <2>6
    <3> QED
      BY <2>3, <3>1, SumOverAll
  <2>9. SumFunctionOnSet(b, P) = SumFunctionOnSet(minus, K) /\ SumFunctionOnSet(b, P) \in Nat
    <3>1. /\ \A c \in P : b[c] = minus[c] /\ b[c] \in Nat
          /\ \A c \in K \ P : minus[c] = 0
      BY <2>3, <2>4, <2>5
    <3> QED
      BY <2>3, <3>1, SumOverAll
  <2>10. PICK f, g : f = OwnOf(l) /\ g = OwnOf(l)'
    OBVIOUS
  <2>11. ASSUME NEW c \in K
         PROVE  /\ f[c] \in Int /\ g[c] \in Int /\ plus[c] \in Int /\ minus[c] \in Int
                /\ g[c] - f[c] = plus[c] - minus[c]
    <3>1. f[c] = Own(c, l) /\ g[c] = Own(c, l)' /\ f[c] \in Int /\ g[c] \in Int
      BY <2>1, <2>10, OwedIs
    <3>2. plus[c] \in Int /\ minus[c] \in Int
      BY <2>3, <2>4, <2>5
    <3>3. g[c] = f[c] - minus[c] + plus[c]
      <4>1. \A x \in Deliveries : b[x] = OfLine(BackOn(S, accepted), S, entry, <<x, l>>)
        BY <2>1, <2>2
      <4>2. Own(c, l)' = Own(c, l) - (IF c \in SplitOf(settled) THEN b[c] ELSE 0)
                                  + (IF c \in born THEN b[parent[c]] ELSE 0)
        BY <2>1, <4>1, ClosingOwn
      <4> QED
        BY <2>1, <2>5, <3>1, <4>2
    <3> QED
      BY <3>1, <3>2, <3>3
  <2>12. PICK h : h = [c \in K |-> g[c] - f[c]]
    OBVIOUS
  <2>13. SumFunctionOnSet(h, K) = SumFunctionOnSet(g, K) - SumFunctionOnSet(f, K)
    BY <2>3, <2>11, <2>12, SumOfDifferences
  <2>14. SumFunctionOnSet(h, K) = SumFunctionOnSet(plus, K) - SumFunctionOnSet(minus, K)
    BY <2>3, <2>11, <2>12, SumOfDifferences
  <2>15. SumFunctionOnSet(g, K) = Owed(l)' /\ SumFunctionOnSet(f, K) = Owed(l)
    BY <2>1, <2>10, OwedIs
  <2>16. PICK x, y, n : /\ x = SumFunctionOnSet(g, K) /\ y = SumFunctionOnSet(f, K)
                        /\ n = SumFunctionOnSet(minus, K)
    OBVIOUS
  <2>17. x \in Int /\ y \in Int /\ x = Owed(l)' /\ y = Owed(l)
    BY <2>15, <2>16, OwedIs
  <2>18. n \in Int /\ SumFunctionOnSet(plus, K) = n
    <3>1. SumFunctionOnSet(plus, K) = SumFunctionOnSet(minus, K)
      BY <2>7, <2>8, <2>9, Zenon
    <3>2. SumFunctionOnSet(minus, K) \in Nat
      BY <2>9, Zenon
    <3> QED
      BY <2>16, <3>1, <3>2
  <2>19. x - y = n - n
    BY <2>13, <2>14, <2>16, <2>18
  <2> QED
    BY <2>17, <2>18, <2>19
<1> QED
  BY <1>1 DEF WithinSale
LEMMA StepsWithin ==
    ASSUME Settings, UnitsInv, [Next]_vars
    PROVE  WithinSale'
<1>1. /\ DeliveryInv /\ DeliveryInv' /\ ClaimsAgree
      /\ WithinLines /\ WithinSale
  BY DEF Settings, UnitsInv
<1>2. ASSUME NEW r \in Requests, NEW given \in [txn[r].arg.aboard -> Nat], CloseCommit(r, given)
      PROVE  WithinSale'
  <2>1. PICK s, S, settled, born, parent : Closing(s, S, given, settled, born, parent)
    BY <1>1, <1>2, CloseReads
  <2> QED
    BY <2>1, CloseWithin
<1>3. CASE Ordinary
  BY <1>1, <1>2, <1>3, StepsStand, SaleStands, CreateWithin, EditWithin
<1> QED
  BY <1>1, <1>2, <1>3, StepsAreOrdinary

LEMMA UnitsStep ==
    ASSUME Settings, ~ SplitLoads, UnitsInv, [Next]_vars
    PROVE  UnitsInv'
<1>1. DeliveryInv /\ DeliveryInv' /\ Together /\ Riding /\ Grown
  BY DEF Settings, UnitsInv
<1>2. WithinSale'
  BY StepsWithin
<1>3. WithinLines'
  BY StepsFit
<1>4. Together'
  BY <1>1, StepsTogether
<1>5. Riding' /\ Grown'
  BY <1>1, StepsRide, StepsGrow
<1> QED
  BY <1>2, <1>3, <1>4, <1>5 DEF UnitsInv

LEMMA UnitsInit ==
    ASSUME Init
    PROVE  UnitsInv
<1>1. \A d \in Deliveries : delivery[d] = None
  BY DEF Init
<1>2. \A e \in Entries : entry[e] = None
  BY DEF Init
<1>3. WithinSale
  <2>1. ASSUME NEW l \in SaleLines PROVE Owed(l) <= Sold[l]
    <3>1. \A d \in Deliveries : Own(d, l) = 0
      BY <1>1 DEF Own, Live
    <3>2. PICK f : f = OwnOf(l)
      OBVIOUS
    <3>3. \A d \in Deliveries : f[d] = 0
      BY <3>1, <3>2 DEF OwnOf
    <3>4. SumFunctionOnSet(f, Deliveries) = 0
      BY <3>3, SumOfZeros, DeliveryConstants
    <3>5. Owed(l) = 0
      BY <3>2, <3>4 DEF Owed
    <3>6. Sold[l] \in Nat \ {0}
      BY DeliveryConstants
    <3> QED
      BY <3>5, <3>6
  <2> QED
    BY <2>1 DEF WithinSale
<1>4. WithinLines /\ Grown
  BY <1>1 DEF WithinLines, Grown
<1>5. Together
  BY <1>2, HeldIs DEF Together
<1>6. Riding
  BY <1>2, AloftIs DEF Riding
<1> QED
  BY <1>3, <1>4, <1>5, <1>6 DEF UnitsInv

\* The children of an order, and what one takes on of it.
KidsOf(p) == {c \in Deliveries : delivery[c] # None /\ delivery[c].parent = p}
Partly(p) == delivery[p] # None /\ delivery[p].status = "PARTIALLY_DELIVERED"
Takes(c, p) ==
    /\ delivery[c].status # "DRAFT"
    /\ \A l \in SaleLines : dline[p][l] # None =>
          dline[p][l].returned = IF dline[c][l] = None THEN 0 ELSE dline[c][l].quantity

LEMMA SplitIs ==
    ASSUME NEW p \in Deliveries
    PROVE  /\ SplitOnce(p) <=> IF Partly(p)
                               THEN \E c \in Deliveries : KidsOf(p) = {c} /\ Takes(c, p)
                               ELSE KidsOf(p) = {}
           /\ SplitOnce(p)' <=> IF Partly(p)'
                                THEN \E c \in Deliveries : KidsOf(p)' = {c} /\ Takes(c, p)'
                                ELSE KidsOf(p)' = {}
BY Zenon DEF SplitOnce, Partly, KidsOf, Takes, LinesOf

\* A family a step leaves as it was.
LEMMA SplitKept ==
    ASSUME NEW p \in Deliveries, SplitOnce(p), Partly(p)' <=> Partly(p),
           \A c \in Deliveries : c \in KidsOf(p)' <=> c \in KidsOf(p),
           \A c \in KidsOf(p) : Partly(p) /\ Takes(c, p) => Takes(c, p)'
    PROVE  SplitOnce(p)'
<1>1. KidsOf(p)' = KidsOf(p)
  BY DEF KidsOf
<1>2. CASE Partly(p)
  <2>1. PICK c \in Deliveries : KidsOf(p) = {c} /\ Takes(c, p)
    BY <1>2, SplitIs
  <2>2. KidsOf(p)' = {c} /\ Takes(c, p)'
    BY <1>1, <1>2, <2>1
  <2>3. Partly(p)'
    BY <1>2
  <2> QED
    BY <2>2, <2>3, SplitIs
<1>3. CASE ~ Partly(p)
  BY <1>1, <1>3, SplitIs
<1> QED
  BY <1>2, <1>3

\* A step that settles no order, and changes only lines of drafts.
LEMMA OrdinarySplit ==
    ASSUME DeliveryInv, DeliveryInv', Grown, Ordinary, NEW p \in Deliveries, SplitOnce(p),
           \A d \in Deliveries :
              Stands(d) \/ delivery[d] = None \/ delivery[d].status = "DRAFT"
    PROVE  SplitOnce(p)'
<1>1. p # None
  BY DeliveryConstants
<1>2. \A c \in Deliveries : c \in KidsOf(p)' <=> c \in KidsOf(p)
  <2>1. \A c : /\ c \in KidsOf(p) <=> c \in Deliveries /\ delivery[c] # None /\ delivery[c].parent = p
               /\ c \in KidsOf(p)' <=> c \in Deliveries /\ delivery'[c] # None /\ delivery'[c].parent = p
    BY DEF KidsOf
  <2>2. \A c \in Deliveries :
           /\ delivery[c] # None => delivery'[c] # None /\ delivery'[c].parent = delivery[c].parent
           /\ delivery[c] = None /\ delivery'[c] # None => delivery'[c].parent = None
    BY OrdinaryIs
  <2> QED
    BY <1>1, <2>1, <2>2
<1>3. Partly(p)' <=> Partly(p)
  <2>1. /\ delivery[p] # None => delivery'[p] # None
        /\ delivery[p] # None => (delivery[p].status = "PARTIALLY_DELIVERED"
                                     <=> delivery'[p].status = "PARTIALLY_DELIVERED")
        /\ delivery[p] = None /\ delivery'[p] # None => delivery'[p].status = "DRAFT"
    BY OrdinaryIs
  <2> QED
    BY <2>1 DEF Partly
<1>4. ASSUME NEW c \in KidsOf(p), Partly(p), Takes(c, p) PROVE Takes(c, p)'
  <2>1. c \in Deliveries /\ delivery[c] # None /\ delivery[c].parent # None
    BY <1>1 DEF KidsOf
  <2>2. delivery[c].status \notin Early
    BY <2>1 DEF Grown
  <2>3. delivery'[c].status \notin Early
    BY <2>1, <2>2, OrdinaryIs
  <2>4. Stands(c) /\ Stands(p)
    BY <1>4, <2>1, <2>2 DEF Partly, Early
  <2>5. ASSUME NEW l \in SaleLines, dline'[p][l] # None
        PROVE  dline'[p][l].returned = IF dline'[c][l] = None THEN 0 ELSE dline'[c][l].quantity
    <3>1. dline[p][l] # None /\ dline'[p][l].returned = dline[p][l].returned
      BY <1>4, <2>4, <2>5 DEF Stands, Partly
    <3>2. dline[p][l].returned = IF dline[c][l] = None THEN 0 ELSE dline[c][l].quantity
      BY <1>4, <3>1 DEF Takes
    <3>3. /\ dline'[c][l] = None <=> dline[c][l] = None
          /\ dline[c][l] # None => dline'[c][l].quantity = dline[c][l].quantity
      BY <2>4 DEF Stands
    <3> QED
      BY <3>1, <3>2, <3>3
  <2> QED
    BY <2>3, <2>5 DEF Takes, Early
<1> QED
  BY <1>2, <1>3, <1>4, SplitKept

LEMMA CreateSplit ==
    ASSUME DeliveryInv, NEW r \in Requests, NEW d \in Deliveries, CreateCommit(r, d),
           NEW c \in Deliveries
    PROVE  Stands(c) \/ delivery[c] = None
<1>1. delivery[d] = None /\ (c # d => dline'[c] = dline[c])
  BY CreateDoes
<1> QED
  BY <1>1 DEF Stands

LEMMA EditSplit ==
    ASSUME DeliveryInv, NEW r \in Requests, EditCommit(r), NEW c \in Deliveries
    PROVE  Stands(c) \/ delivery[c].status = "DRAFT"
<1>1. PICK d \in Deliveries : /\ Editable(d)
                              /\ c # d => \A k \in SaleLines : dline'[c][k] = dline[c][k]
  BY EditDoes
<1> QED
  BY <1>1 DEF Stands, Editable

\* The orders a closure does not split keep their children.
LEMMA CloseKeepsKids ==
    ASSUME Settings, UnitsInv, NEW s, NEW S, NEW accepted, NEW settled, NEW born, NEW parent,
           Closing(s, S, accepted, settled, born, parent),
           NEW p \in Deliveries, p \notin SplitOf(settled), SplitOnce(p)
    PROVE  SplitOnce(p)'
<1> USE DEF Settings, UnitsInv
<1>1. \A c : /\ c \in KidsOf(p) <=> c \in Deliveries /\ delivery[c] # None /\ delivery[c].parent = p
             /\ c \in KidsOf(p)' <=> c \in Deliveries /\ delivery'[c] # None /\ delivery'[c].parent = p
  BY DEF KidsOf
<1>2. ASSUME NEW c \in Deliveries PROVE c \in KidsOf(p)' <=> c \in KidsOf(p)
  <2>1. CASE c \in OrdersOf(S)
    <3>1. delivery[c] # None
      BY <2>1, ClosingFinds
    <3>2. delivery'[c] # None /\ delivery'[c].parent = delivery[c].parent
      BY <2>1, ClosingOrders
    <3> QED
      BY <1>1, <3>1, <3>2
  <2>2. CASE c \in born
    <3>1. delivery[c] = None
      BY <2>2, ClosingFinds
    <3>2. delivery'[c].parent = parent[c]
      BY <2>2, ClosingOrders
    <3>3. parent[c] \in SplitOf(settled)
      BY <2>2, ClosingKin
    <3> QED
      BY <1>1, <3>1, <3>2, <3>3
  <2>3. CASE c \notin OrdersOf(S) /\ c \notin born
    <3>1. delivery'[c] = delivery[c]
      BY <2>3, ClosingElsewhere
    <3> QED
      BY <1>1, <3>1
  <2> QED
    BY <2>1, <2>2, <2>3
<1>3. Partly(p)' <=> Partly(p)
  <2>1. CASE p \in OrdersOf(S)
    <3>1. delivery[p].status = "IN_TRANSIT"
      BY <2>1, ClosingAloft
    <3>2. delivery'[p].status = settled[p]
      BY <2>1, ClosingOrders
    <3>3. settled[p] # "PARTIALLY_DELIVERED"
      BY <2>1, ClosingKin
    <3> QED
      BY <3>1, <3>2, <3>3 DEF Partly
  <2>2. CASE p \in born
    <3>1. delivery[p] = None
      BY <2>2, ClosingFinds
    <3>2. delivery'[p].status = "IN_PREPARATION"
      BY <2>2, ClosingOrders
    <3> QED
      BY <3>1, <3>2 DEF Partly
  <2>3. CASE p \notin OrdersOf(S) /\ p \notin born
    <3>1. delivery'[p] = delivery[p]
      BY <2>3, ClosingElsewhere
    <3> QED
      BY <3>1 DEF Partly
  <2> QED
    BY <2>1, <2>2, <2>3
<1>4. ASSUME NEW c \in KidsOf(p), Partly(p), Takes(c, p) PROVE Takes(c, p)'
  <2>1. c \in Deliveries /\ delivery[c] # None
    BY <1>1
  <2>2. c \notin born /\ p \notin born
    BY <1>4, <2>1, ClosingFinds DEF Partly
  <2>3. p \notin OrdersOf(S)
    BY <1>4, ClosingAloft DEF Partly
  <2>4. \A l \in SaleLines : dline'[p][l] = dline[p][l]
    BY <2>2, <2>3, ClosingElsewhere
  <2>5. CASE c \in OrdersOf(S)
    <3>1. delivery'[c].status = settled[c] /\ settled[c] \in Settlements
      <4>1. delivery'[c].status = settled[c]
        BY <2>5, ClosingOrders
      <4>2. \A l : settled[c] \in Settlements
        BY <2>5, ClosingSettles
      <4> QED
        BY <4>1, <4>2
    <3>2. ASSUME NEW l \in SaleLines
          PROVE  /\ dline'[c][l] = None <=> dline[c][l] = None
                 /\ dline[c][l] # None => dline'[c][l].quantity = dline[c][l].quantity
      <4>1. PICK a, b : /\ a = OfLine(accepted, S, entry, <<c, l>>)
                        /\ b = OfLine(BackOn(S, accepted), S, entry, <<c, l>>)
        OBVIOUS
      <4>2. /\ dline[c][l] = None => dline'[c][l] = None
            /\ dline[c][l] # None => /\ dline'[c][l] # None
                                     /\ dline'[c][l].quantity = dline[c][l].quantity
        BY <2>5, <4>1, ClosingLine
      <4> QED
        BY <4>2
    <3>3. ASSUME NEW l \in SaleLines, dline'[p][l] # None
          PROVE  dline'[p][l].returned = IF dline'[c][l] = None THEN 0 ELSE dline'[c][l].quantity
      <4>1. dline[p][l].returned = IF dline[c][l] = None THEN 0 ELSE dline[c][l].quantity
        BY <1>4, <2>4, <3>3 DEF Takes
      <4> QED
        BY <2>4, <3>2, <4>1
    <3>4. delivery'[c].status # "DRAFT"
      BY <3>1 DEF Settlements
    <3> QED
      BY <3>3, <3>4 DEF Takes
  <2>6. CASE c \notin OrdersOf(S)
    <3>1. delivery'[c] = delivery[c] /\ \A l \in SaleLines : dline'[c][l] = dline[c][l]
      BY <2>1, <2>2, <2>6, ClosingElsewhere
    <3> QED
      BY <1>4, <2>4, <3>1 DEF Takes
  <2> QED
    BY <2>5, <2>6
<1> QED
  BY <1>2, <1>3, <1>4, SplitKept

\* An order a closure splits had no child, and has one.
LEMMA CloseSplits ==
    ASSUME Settings, UnitsInv, NEW s, NEW S, NEW accepted, NEW settled, NEW born, NEW parent,
           Closing(s, S, accepted, settled, born, parent),
           NEW p \in SplitOf(settled), SplitOnce(p)
    PROVE  SplitOnce(p)'
<1> USE DEF Settings, UnitsInv
<1>1. p \in OrdersOf(S) /\ settled[p] = "PARTIALLY_DELIVERED"
  BY ClosingKin
<1>2. p \in Deliveries /\ delivery[p].status = "IN_TRANSIT"
  BY <1>1, ClosingAloft
<1>3. KidsOf(p) = {}
  <2>1. ~ Partly(p)
    BY <1>2 DEF Partly
  <2> QED
    BY <1>2, <2>1, SplitIs
<1>4. Partly(p)'
  BY <1>1, ClosingOrders DEF Partly
<1>5. PICK c \in born : parent[c] = p
  BY ClosingKin
<1>6. c \in Deliveries /\ \A b \in born : parent[b] = p => b = c
  BY <1>5, ClosingKin
<1>7. KidsOf(p)' = {c}
  <2>1. \A d : /\ d \in KidsOf(p) <=> d \in Deliveries /\ delivery[d] # None /\ delivery[d].parent = p
               /\ d \in KidsOf(p)' <=> d \in Deliveries /\ delivery'[d] # None /\ delivery'[d].parent = p
    BY DEF KidsOf
  <2>2. c \in KidsOf(p)'
    BY <1>5, <1>6, <2>1, ClosingOrders
  <2>3. ASSUME NEW d \in KidsOf(p)' PROVE d = c
    <3>1. d \in Deliveries /\ delivery'[d] # None /\ delivery'[d].parent = p
      BY <2>1, <2>3
    <3>2. CASE d \in OrdersOf(S)
      <4>1. delivery[d] # None
        BY <3>2, ClosingFinds
      <4>2. delivery'[d].parent = delivery[d].parent
        BY <3>2, ClosingOrders
      <4> QED
        BY <1>3, <2>1, <3>1, <4>1, <4>2
    <3>3. CASE d \in born
      BY <1>6, <3>1, <3>3, ClosingOrders
    <3>4. CASE d \notin OrdersOf(S) /\ d \notin born
      <4>1. delivery'[d] = delivery[d]
        BY <3>1, <3>4, ClosingElsewhere
      <4> QED
        BY <1>3, <2>1, <3>1, <4>1
    <3> QED
      BY <3>2, <3>3, <3>4
  <2> QED
    BY <2>2, <2>3
<1>8. Takes(c, p)'
  <2>1. delivery'[c].status # "DRAFT"
    BY <1>5, ClosingOrders
  <2>2. ASSUME NEW l \in SaleLines, dline'[p][l] # None
        PROVE  dline'[p][l].returned = IF dline'[c][l] = None THEN 0 ELSE dline'[c][l].quantity
    <3>1. PICK a, b : /\ a = OfLine(accepted, S, entry, <<p, l>>)
                      /\ b = OfLine(BackOn(S, accepted), S, entry, <<p, l>>)
      OBVIOUS
    <3>2. dline'[p][l].returned = b /\ b \in Nat
      BY <1>1, <2>2, <3>1, ClosingLine
    <3>3. b = OfLine(BackOn(S, accepted), S, entry, <<parent[c], l>>)
      BY <1>5, <3>1
    <3>4. dline'[c][l] = IF b > 0 THEN NewLine(b) ELSE None
      BY <1>5, <3>3, ClosingLines
    <3>5. CASE b > 0
      <4>1. NewLine(b) \in DeliveryLines /\ NewLine(b).quantity = b
        BY <3>2 DEF NewLine, DeliveryLines
      <4>2. NewLine(b) # None
        BY <4>1, NoneIsNoDeliveryRow
      <4> QED
        BY <3>2, <3>4, <3>5, <4>1, <4>2
    <3>6. CASE ~ b > 0
      BY <3>2, <3>4, <3>6
    <3> QED
      BY <3>5, <3>6
  <2> QED
    BY <2>1, <2>2 DEF Takes
<1> QED
  BY <1>2, <1>4, <1>6, <1>7, <1>8, SplitIs

LEMMA StepsSplit ==
    ASSUME Settings, UnitsInv, [Next]_vars, \A p \in Deliveries : SplitOnce(p)
    PROVE  \A p \in Deliveries : SplitOnce(p)'
<1>1. DeliveryInv /\ DeliveryInv' /\ Grown
  BY DEF Settings, UnitsInv
<1>2. ASSUME NEW r \in Requests, NEW given \in [txn[r].arg.aboard -> Nat], CloseCommit(r, given)
      PROVE  \A p \in Deliveries : SplitOnce(p)'
  <2>1. PICK s, S, settled, born, parent : Closing(s, S, given, settled, born, parent)
    BY <1>1, <1>2, CloseReads
  <2> QED
    BY <2>1, CloseKeepsKids, CloseSplits
<1>3. CASE Ordinary
  <2>1. CASE \A d \in Deliveries : Stands(d) \/ delivery[d] = None \/ delivery[d].status = "DRAFT"
    BY <1>1, <1>3, <2>1, OrdinarySplit
  <2>2. LinesStand => \A d \in Deliveries : Stands(d)
    BY DEF LinesStand
  <2> QED
    BY <1>1, <1>2, <2>1, <2>2, StepsStand, CreateSplit, EditSplit
<1> QED
  BY <1>1, <1>2, <1>3, StepsAreOrdinary

\* What entries of a set carry of a line of an order.
SentOf(k) == {e \in Aloft : entry[e].key = k}

LEMMA SentOfIs ==
    ASSUME DeliveryInv', Riding', NEW k \in Keys
    PROVE  /\ \A e : e \in SentOf(k)' <=> e \in Aloft' /\ entry'[e].key = k
           /\ IsFiniteSet(SentOf(k)') /\ SentOf(k)' \in SUBSET (HeldOf(k)')
           /\ \A e \in SentOf(k)' : /\ entry'[e] # None /\ entry'[e].sent \in Nat
                                    /\ SentFigures'[e] = entry'[e].sent
                                    /\ Figures'[e] = SentFigures'[e]
                                    /\ delivery'[k[1]] # None /\ dline'[k[1]][k[2]] # None
                                    /\ delivery'[k[1]].status = "IN_TRANSIT"
<1>1. \A e : e \in SentOf(k)' <=> e \in Aloft' /\ entry'[e].key = k
  BY DEF SentOf
<1>2. \A e \in Aloft' : e \in Held' /\ e \in Entries /\ entry'[e] # None
  BY AloftIs, HeldIs
<1>3. \A e : e \in HeldOf(k)' <=> e \in Held' /\ entry'[e].key = k
  BY DEF HeldOf
<1>4. SentOf(k)' \in SUBSET (HeldOf(k)')
  BY <1>1, <1>2, <1>3
<1>5. IsFiniteSet(SentOf(k)')
  <2>1. SentOf(k)' \in SUBSET Entries
    BY <1>1, <1>2
  <2> QED
    BY <2>1, EntriesAreFinite
<1>6. ASSUME NEW e \in SentOf(k)'
      PROVE  /\ entry'[e] # None /\ entry'[e].sent \in Nat
             /\ SentFigures'[e] = entry'[e].sent /\ Figures'[e] = SentFigures'[e]
             /\ delivery'[k[1]] # None /\ dline'[k[1]][k[2]] # None
             /\ delivery'[k[1]].status = "IN_TRANSIT"
  <2>1. e \in Aloft' /\ entry'[e].key = k /\ e \in Entries /\ entry'[e] # None
    BY <1>1, <1>2
  <2>2. entry'[e] \in EntryRows
    BY <2>1 DEF DeliveryInv, Typed
  <2>3. SentFigures'[e] = entry'[e].sent /\ Figures'[e] = entry'[e].committed
    BY <2>1 DEF SentFigures, Figures
  <2>4. delivery'[k[1]].status = "IN_TRANSIT" /\ entry'[e].sent = entry'[e].committed
    BY <2>1 DEF Riding
  <2>5. delivery'[k[1]] # None /\ dline'[k[1]][k[2]] # None
    BY <2>1 DEF DeliveryInv, Rooted
  <2> QED
    BY <2>1, <2>2, <2>3, <2>4, <2>5 DEF EntryRows
<1> QED
  BY <1>1, <1>4, <1>5, <1>6

\* What is on the road of an order's line, and what it has delivered, it owns.
LEMMA OwnCarries ==
    ASSUME Settings, UnitsInv', NEW d \in Deliveries, NEW l \in SaleLines,
           NEW m, m = SumFunctionOnSet(SentFigures', SentOf(<<d, l>>)')
    PROVE  m \in Nat /\ m + DeliveredBy(l)'[d] <= Own(d, l)'
<1> USE DEF Settings, UnitsInv
<1>1. PICK k \in Keys : k = <<d, l>> /\ k[1] = d /\ k[2] = l
  BY DEF Keys
<1>2. PICK S : S = SentOf(k)'
  OBVIOUS
<1>3. IsFiniteSet(S) /\ \A e \in S : SentFigures'[e] \in Nat
  BY <1>2, SentOfIs
<1>4. m = SumFunctionOnSet(SentFigures', S)
  BY <1>1, <1>2
<1>5. m \in Nat
  BY <1>3, <1>4, SumIsNat
<1>6. S = {} => m = 0
  BY <1>4, SumOfNone
<1>7. CASE dline'[d][l] = None
  <2>1. S = {}
    BY <1>1, <1>2, <1>7, SentOfIs
  <2>2. DeliveredBy(l)'[d] = 0 /\ Own(d, l)' = 0
    BY <1>7 DEF DeliveredBy, Own
  <2> QED
    BY <1>6, <2>1, <2>2
<1>8. CASE dline'[d][l] # None
  <2>1. PICK row : row = dline'[d][l]
    OBVIOUS
  <2>2. row \in DeliveryLines /\ delivery'[d] # None
    BY <1>8, <2>1 DEF DeliveryInv, Typed, Rooted
  <2>3. DeliveredBy(l)'[d] = row.delivered
    BY <1>8, <2>1 DEF DeliveredBy
  <2>4. PICK status : status = delivery'[d].status
    OBVIOUS
  <2>5. Fits(row, status)
    BY <1>8, <2>1, <2>2, <2>4 DEF WithinLines
  <2>6. CASE status = "CANCELLED"
    <3>1. S = {}
      BY <1>1, <1>2, <2>4, <2>6, SentOfIs
    <3>2. row.delivered = 0
      BY <2>5, <2>6 DEF Fits
    <3>3. Own(d, l)' = 0
      BY <2>4, <2>6 DEF Own, Live
    <3> QED
      BY <1>6, <2>3, <3>1, <3>2, <3>3
  <2>7. CASE status # "CANCELLED"
    <3>1. Live(d)'
      BY <2>2, <2>4, <2>7 DEF Live
    <3>2. row.committed = Claims(k)'
      <4>1. dline'[k[1]][k[2]].committed = ClaimedBy(Held', entry', k)
        BY <1>1, <1>8, <3>1 DEF ClaimsAgree
      <4> QED
        BY <1>1, <2>1, <4>1 DEF Claims
    <3>3. m <= Claims(k)'
      <4>1. PICK H : H = HeldOf(k)'
        OBVIOUS
      <4>2. Claims(k)' = SumFunctionOnSet(Figures', H) /\ IsFiniteSet(H)
        BY <4>1, ClaimsAre
      <4>3. S \in SUBSET H
        BY <1>2, <4>1, SentOfIs
      <4>4. \A e \in H : Figures'[e] \in Nat
        <5>1. \A e \in H : e \in Entries /\ entry'[e] # None
          BY <4>1, HeldIs DEF HeldOf
        <5>2. \A e \in H : entry'[e] \in EntryRows
          BY <5>1 DEF DeliveryInv, Typed
        <5> QED
          BY <5>1, <5>2 DEF Figures, EntryRows
      <4>5. SumFunctionOnSet(Figures', S) <= SumFunctionOnSet(Figures', H)
        BY <4>2, <4>3, <4>4, SumOfSome
      <4>6. SumFunctionOnSet(Figures', S) = SumFunctionOnSet(SentFigures', S)
        <5>1. \A e \in S : Figures'[e] = SentFigures'[e]
          BY <1>2, SentOfIs
        <5> QED
          BY <1>3, <5>1, SumOfEqual
      <4> QED
        BY <1>4, <4>2, <4>5, <4>6
    <3>4. Own(d, l)' = IF status = "PARTIALLY_DELIVERED" THEN row.quantity - row.returned
                       ELSE row.quantity
      BY <1>8, <2>1, <2>4, <3>1 DEF Own
    <3>5. row.committed + row.delivered + row.returned <= row.quantity
      BY <2>5, <2>7 DEF Fits
    <3>6. PICK c : c = row.committed
      OBVIOUS
    <3>7. m <= c /\ c \in Int /\ c + row.delivered + row.returned <= row.quantity
      BY <2>2, <3>2, <3>3, <3>5, <3>6 DEF DeliveryLines
    <3>8. row.delivered \in Nat /\ row.returned \in Nat /\ row.quantity \in Nat
      BY <2>2 DEF DeliveryLines
    <3>9. m + row.delivered <= Own(d, l)'
      BY <1>5, <3>4, <3>7, <3>8
    <3> QED
      BY <1>5, <2>3, <3>9
  <2> QED
    BY <1>5, <2>6, <2>7
<1> QED
  BY <1>5, <1>7, <1>8

\* What is on the road of a line and with the customer is no more than was sold.
LEMMA Roomy ==
    ASSUME Settings, UnitsInv, UnitsInv', NEW l \in Stocked
    PROVE  Sent({l})' + Delivered(l)' <= Sold[l]
<1> USE DEF Settings, UnitsInv
<1>1. l \in SaleLines
  BY DeliveryConstants
<1>2. PICK K, S : K = Deliveries /\ S = AloftOf({l})'
  OBVIOUS
<1>3. PICK f, key : f = SentFigures' /\ key = [e \in S |-> entry'[e].key[1]]
  OBVIOUS
<1>4. PICK part, m : /\ part = [d \in K |-> SentOf(<<d, l>>)']
                     /\ m = [d \in K |-> SumFunctionOnSet(f, SentOf(<<d, l>>)')]
  OBVIOUS
<1>5. /\ \A e \in S : /\ e \in Aloft' /\ e \in Entries /\ entry'[e] # None /\ entry'[e].key[2] = l
                      /\ entry'[e].key \in Keys /\ entry'[e].key[1] \in K
                      /\ f[e] \in Int /\ key[e] \in K
      /\ \A e \in Aloft' : entry'[e].key[2] = l => e \in S
  <2>1. \A e : e \in S <=> e \in Aloft' /\ entry'[e].key[2] \in Stocked \cap {l}
    BY <1>2 DEF AloftOf
  <2>2. \A e \in S : e \in Aloft' /\ e \in Entries /\ entry'[e] # None /\ entry'[e].key[2] = l
    BY <2>1, AloftIs
  <2>3. \A e \in S : entry'[e] \in EntryRows
    BY <2>2 DEF DeliveryInv, Typed
  <2>4. \A e \in S : /\ entry'[e].key \in Keys /\ entry'[e].key[1] \in K /\ entry'[e].sent \in Nat
    BY <1>2, <2>3 DEF EntryRows, Keys
  <2>5. \A e \in S : f[e] = entry'[e].sent
    BY <1>3, <2>2 DEF SentFigures
  <2> QED
    BY <1>3, <2>1, <2>2, <2>4, <2>5
<1>6. \A d \in K : \A e : e \in part[d] <=> e \in S /\ key[e] = d
  <2>1. ASSUME NEW d \in K, NEW e PROVE e \in SentOf(<<d, l>>)' <=> e \in S /\ key[e] = d
    <3>1. e \in SentOf(<<d, l>>)' <=> e \in Aloft' /\ entry'[e].key = <<d, l>>
      BY DEF SentOf
    <3>2. e \in S => (entry'[e].key = <<d, l>> <=> entry'[e].key[1] = d)
      BY <1>5 DEF Keys
    <3>3. e \in S => key[e] = entry'[e].key[1]
      BY <1>3
    <3> QED
      BY <1>5, <3>1, <3>2, <3>3
  <2> QED
    BY <1>4, <2>1
<1>7. \A d \in K : m[d] = SumFunctionOnSet(f, part[d])
  BY <1>4
<1>8. IsFiniteSet(S) /\ IsFiniteSet(K) /\ Sent({l})' = SumFunctionOnSet(f, S)
  BY <1>2, <1>3, SentIs, DeliveryConstants
<1>9. Sent({l})' = SumFunctionOnSet(m, K)
  <2>1. (\A e \in S : f[e] \in Int) /\ (\A e \in S : key[e] \in K)
    BY <1>5
  <2>2. SumFunctionOnSet(f, S) = SumFunctionOnSet(m, K)
    BY <1>6, <1>7, <1>8, <2>1, SumGrouped
  <2> QED
    BY <1>8, <2>2
<1>10. PICK g, o : g = DeliveredBy(l)' /\ o = OwnOf(l)'
  OBVIOUS
<1>11. Typed /\ Typed'
  BY DEF DeliveryInv
<1>12. /\ \A d \in K : g[d] \in Nat /\ Delivered(l)' \in Nat
       /\ Delivered(l)' = SumFunctionOnSet(g, K)
  BY <1>1, <1>2, <1>10, <1>11, DeliveredIs
<1>13. /\ \A d \in K : o[d] = Own(d, l)' /\ o[d] \in Int
       /\ Owed(l)' = SumFunctionOnSet(o, K) /\ Owed(l)' \in Int
  BY <1>1, <1>2, <1>10, OwedIs
<1>14. ASSUME NEW d \in K PROVE m[d] \in Int /\ m[d] <= o[d] - g[d]
  <2>1. m[d] = SumFunctionOnSet(SentFigures', SentOf(<<d, l>>)') /\ d \in Deliveries
    BY <1>2, <1>3, <1>4
  <2>2. m[d] \in Nat /\ m[d] + DeliveredBy(l)'[d] <= Own(d, l)'
    BY <1>1, <2>1, OwnCarries
  <2>3. m[d] + g[d] <= o[d]
    BY <1>10, <1>13, <2>2
  <2> QED
    BY <1>12, <1>13, <2>2, <2>3
<1>15. PICK h : h = [d \in K |-> o[d] - g[d]]
  OBVIOUS
<1>16. SumFunctionOnSet(h, K) = SumFunctionOnSet(o, K) - SumFunctionOnSet(g, K)
  <2>1. \A d \in K : o[d] \in Int /\ g[d] \in Int /\ h[d] = o[d] - g[d]
    BY <1>12, <1>13, <1>15
  <2> QED
    BY <1>8, <2>1, SumOfDifferences
<1>17. SumFunctionOnSet(m, K) <= SumFunctionOnSet(h, K)
  <2>1. \A d \in K : m[d] \in Int /\ h[d] \in Int /\ m[d] <= h[d]
    BY <1>12, <1>13, <1>14, <1>15
  <2> QED
    BY <1>8, <2>1, SumAtMost
<1>18. Owed(l)' <= Sold[l]
  BY <1>1 DEF WithinSale
<1>19. Sent({l})' \in Nat /\ Sold[l] \in Nat /\ Delivered(l)' \in Nat
  BY <1>1, <1>11, SentIsNat, DeliveredIs, DeliveryConstants
<1>20. PICK x, y, z : x = Sent({l})' /\ y = Delivered(l)' /\ z = Owed(l)'
  OBVIOUS
<1>21. x <= z - y
  BY <1>9, <1>12, <1>13, <1>16, <1>17, <1>20
<1>22. x \in Nat /\ y \in Nat /\ z \in Int /\ z <= Sold[l] /\ Sold[l] \in Nat
  BY <1>13, <1>18, <1>19, <1>20
<1>23. x + y <= Sold[l]
  BY <1>21, <1>22
<1> QED
  BY <1>20, <1>23

\* The units of a sale line: what its claim holds, what is on the road and
\* what customers have.
Units == \A l \in Stocked : claim[l] + Sent({l}) + Delivered(l) = Sold[l]

LEMMA UnitsAreInt ==
    ASSUME Typed, Typed', NEW l \in Stocked
    PROVE  /\ l \in SaleLines /\ Sold[l] \in Nat /\ claim[l] \in Int
           /\ Sent({l}) \in Nat /\ Sent({l})' \in Nat
           /\ Delivered(l) \in Nat /\ Delivered(l)' \in Nat
<1>1. l \in SaleLines /\ Sold[l] \in Nat
  BY DeliveryConstants
<1>2. claim[l] \in Int
  BY <1>1 DEF Typed
<1> QED
  BY <1>1, <1>2, SentIsNat, DeliveredIs

\* A claim that covers what is consumed of it.
LEMMA ReleasedIs ==
    ASSUME NEW c \in Int, NEW q \in Nat, q <= c
    PROVE  Released(c, q) = c - q
BY DEF Released

LEMMA PickupUnits ==
    ASSUME Settings, UnitsInv, UnitsInv', Units, NEW r \in Requests, PickupCommit(r)
    PROVE  Units'
<1>1. DeliveryInv /\ Typed /\ Typed'
  BY DEF Settings, DeliveryInv
<1>2. PICK d \in Deliveries : PickupEffect(d)
  BY <1>1, PickupDoes
<1>3. claim' = [l \in SaleLines |->
                    IF l \in LinesOf(d) \cap Stocked
                    THEN Released(claim[l], dline[d][l].quantity) ELSE claim[l]]
  BY <1>2 DEF PickupEffect
<1>4. ASSUME NEW l \in Stocked PROVE claim'[l] + Sent({l})' + Delivered(l)' = Sold[l]
  <2>1. /\ l \in SaleLines /\ Sold[l] \in Nat /\ claim[l] \in Int
        /\ Sent({l}) \in Nat /\ Delivered(l) \in Nat /\ Delivered(l)' \in Nat
    BY <1>1, UnitsAreInt
  <2>2. PICK q : q = IF dline[d][l] = None THEN 0 ELSE dline[d][l].quantity
    OBVIOUS
  <2>3. q \in Nat /\ Delivered(l)' - Delivered(l) = q /\ Sent({l})' = Sent({l})
    BY <1>1, <1>2, <2>1, <2>2, PickupHands
  <2>4. PICK c, x, y, z : c = claim[l] /\ x = Sent({l}) /\ y = Delivered(l) /\ z = Delivered(l)'
    OBVIOUS
  <2>5. c + x + y = Sold[l]
    BY <2>4 DEF Units
  <2>6. x + z <= Sold[l]
    BY <2>3, <2>4, Roomy
  <2>7. z = y + q /\ q <= c
    BY <2>1, <2>3, <2>4, <2>5, <2>6
  <2>8. claim'[l] = c - q
    <3>1. CASE dline[d][l] = None
      <4>1. l \notin LinesOf(d)
        BY <3>1 DEF LinesOf
      <4> QED
        BY <1>3, <2>1, <2>2, <2>4, <3>1, <4>1
    <3>2. CASE dline[d][l] # None
      <4>1. l \in LinesOf(d)
        BY <2>1, <3>2 DEF LinesOf
      <4>2. claim'[l] = Released(c, q)
        BY <1>3, <2>1, <2>2, <2>4, <3>2, <4>1
      <4> QED
        BY <2>1, <2>3, <2>4, <2>7, <4>2, ReleasedIs
    <3> QED
      BY <3>1, <3>2
  <2> QED
    BY <2>1, <2>3, <2>4, <2>5, <2>7, <2>8
<1> QED
  BY <1>4 DEF Units

LEMMA DepartUnits ==
    ASSUME Settings, UnitsInv, UnitsInv', Units, NEW r \in Requests, DepartCommit(r)
    PROVE  Units'
<1>1. DeliveryInv /\ Typed /\ Typed'
  BY DEF Settings, DeliveryInv
<1>2. PICK p, S, sent : p \in Trips /\ S \in SUBSET Entries /\ DepartEffect(p, S, sent)
  BY <1>1, DepartDoes
<1>3. /\ UNCHANGED dline
      /\ claim' = [l \in SaleLines |->
                    IF GoodsOf(sent, S, entry, {l}) = 0 THEN claim[l]
                    ELSE Released(claim[l], GoodsOf(sent, S, entry, {l}))]
  BY <1>2 DEF DepartEffect
<1>4. \A lines : /\ Sent(lines)' = Sent(lines) + GoodsOf(sent, S, entry, lines)
                  /\ GoodsOf(sent, S, entry, lines) \in Nat
  BY <1>1, <1>2, DepartSends
<1>5. ASSUME NEW l \in Stocked PROVE claim'[l] + Sent({l})' + Delivered(l)' = Sold[l]
  <2>1. /\ l \in SaleLines /\ Sold[l] \in Nat /\ claim[l] \in Int
        /\ Sent({l}) \in Nat /\ Sent({l})' \in Nat /\ Delivered(l) \in Nat
    BY <1>1, UnitsAreInt
  <2>2. PICK q : q = GoodsOf(sent, S, entry, {l})
    OBVIOUS
  <2>3. q \in Nat /\ Sent({l})' = Sent({l}) + q
    BY <2>2, <1>4
  <2>4. Delivered(l)' = Delivered(l)
    BY <1>1, <1>3, <2>1, LinesSame, DeliveredKept
  <2>5. PICK c, x, y, z : c = claim[l] /\ x = Sent({l}) /\ y = Delivered(l) /\ z = Sent({l})'
    OBVIOUS
  <2>6. c + x + y = Sold[l]
    BY <2>5 DEF Units
  <2>7. z + y <= Sold[l]
    BY <2>4, <2>5, Roomy
  <2>8. z = x + q /\ q <= c
    BY <2>1, <2>3, <2>5, <2>6, <2>7
  <2>9. claim'[l] = c - q
    <3>1. claim'[l] = IF q = 0 THEN c ELSE Released(c, q)
      BY <1>3, <2>1, <2>2, <2>5
    <3> QED
      <4>1. c \in Int /\ c - 0 = c
        BY <2>1, <2>5
      <4>2. Released(c, q) = c - q
        BY <2>3, <2>8, <4>1, ReleasedIs
      <4> QED
        BY <3>1, <4>1, <4>2
  <2> QED
    BY <2>1, <2>3, <2>4, <2>5, <2>6, <2>8, <2>9
<1> QED
  BY <1>5 DEF Units

LEMMA CloseUnits ==
    ASSUME Settings, Units, NEW s, NEW S, NEW accepted, NEW settled, NEW born, NEW parent,
           Closing(s, S, accepted, settled, born, parent)
    PROVE  Units'
<1>1. DeliveryInv /\ Typed /\ Typed'
  BY DEF Settings, DeliveryInv
<1>2. claim' = [l \in SaleLines |-> claim[l] + GoodsOf(BackOn(S, accepted), S, entry, {l})]
  BY Zenon DEF Closing, CloseWrites
<1>3. ASSUME NEW l \in Stocked PROVE claim'[l] + Sent({l})' + Delivered(l)' = Sold[l]
  <2>1. /\ l \in SaleLines /\ Sold[l] \in Nat /\ claim[l] \in Int
        /\ Sent({l}) \in Nat /\ Sent({l})' \in Nat /\ Delivered(l) \in Nat /\ Delivered(l)' \in Nat
    BY <1>1, UnitsAreInt
  <2>2. PICK a, b, n : /\ a = GoodsOf(accepted, S, entry, {l})
                       /\ b = GoodsOf(BackOn(S, accepted), S, entry, {l})
                       /\ n = GoodsOf(SentOn(S), S, entry, {l})
    OBVIOUS
  <2>3. b = n - a /\ a \in Nat
    BY <1>1, <2>2, ClosingBack
  <2>4. Sent({l}) = Sent({l})' + n /\ n \in Nat
    BY <1>1, <2>2, ClosingLands
  <2>5. Delivered(l)' - Delivered(l) = a
    <3>1. {e \in S : entry[e].key[2] \in Stocked \cap {l}} = {e \in S : entry[e].key[2] = l}
      OBVIOUS
    <3>2. a = SumFunctionOnSet(accepted, {e \in S : entry[e].key[2] = l})
      BY <2>2, <3>1 DEF GoodsOf
    <3> QED
      BY <1>1, <2>1, <3>2, ClosingDelivers
  <2>6. claim'[l] = claim[l] + b
    BY <1>2, <2>1, <2>2
  <2>7. claim[l] + Sent({l}) + Delivered(l) = Sold[l]
    BY DEF Units
  <2>8. PICK c, d, v, w, x, y : /\ c = claim[l] /\ d = claim'[l] /\ v = Sent({l}) /\ w = Sent({l})'
                                /\ x = Delivered(l) /\ y = Delivered(l)'
    OBVIOUS
  <2>9. /\ c \in Int /\ v \in Nat /\ w \in Nat /\ x \in Nat /\ y \in Nat /\ Sold[l] \in Nat
        /\ d = c + (n - a) /\ v = w + n /\ y - x = a /\ c + v + x = Sold[l]
    BY <2>1, <2>3, <2>4, <2>5, <2>6, <2>7, <2>8
  <2>10. d + w + y = Sold[l]
    BY <2>3, <2>4, <2>9
  <2> QED
    BY <2>8, <2>10
<1> QED
  BY <1>3 DEF Units

LEMMA StepsKeepUnits ==
    ASSUME Settings, UnitsInv, UnitsInv', Units, [Next]_vars
    PROVE  Units'
<1>1. DeliveryInv /\ Typed /\ Typed'
  BY DEF Settings, DeliveryInv
<1>2. ASSUME NEW r \in Requests, NEW given \in [txn[r].arg.aboard -> Nat], CloseCommit(r, given)
      PROVE  Units'
  <2>1. PICK s, S, settled, born, parent : Closing(s, S, given, settled, born, parent)
    BY <1>1, <1>2, CloseReads
  <2> QED
    BY <2>1, CloseUnits
<1>3. CASE GoodsStill
  <2>1. ASSUME NEW l \in Stocked PROVE claim'[l] + Sent({l})' + Delivered(l)' = Sold[l]
    <3>1. l \in SaleLines
      BY DeliveryConstants
    <3>2. claim'[l] = claim[l] /\ Delivered(l)' = Delivered(l) /\ Sent({l})' = Sent({l})
      BY <1>1, <1>3, <3>1, GoodsStay
    <3> QED
      BY <3>2 DEF Units
  <2> QED
    BY <2>1 DEF Units
<1> QED
  BY <1>1, <1>2, <1>3, StepsKeepGoods, PickupUnits, DepartUnits

LEMMA UnitsStart ==
    ASSUME Init
    PROVE  EveryUnitOnce
<1>1. Aloft = {}
  BY DEF Init, Aloft, OnTheRoad
<1>2. ASSUME NEW l \in Stocked PROVE claim[l] + Sent({l}) + Delivered(l) = Sold[l]
  <2>1. l \in SaleLines /\ Sold[l] \in Nat
    BY DeliveryConstants
  <2>2. claim[l] = Sold[l]
    BY <2>1 DEF Init
  <2>3. Sent({l}) = 0
    <3>1. AloftOf({l}) = {}
      BY <1>1 DEF AloftOf
    <3>2. Sent({l}) = SumFunctionOnSet(SentFigures, AloftOf({l}))
      BY SentIs
    <3> QED
      BY <3>1, <3>2, SumOfNone
  <2>4. Delivered(l) = 0
    <3>1. {d \in Deliveries : dline[d][l] # None} = {}
      BY <2>1 DEF Init
    <3> QED
      BY <3>1, SumOfNone DEF Delivered
  <2> QED
    BY <2>1, <2>2, <2>3, <2>4
<1>3. \A p \in Deliveries : SplitOnce(p)
  BY DEF Init, SplitOnce
<1> QED
  BY <1>2, <1>3 DEF EveryUnitOnce

(***************************************************************************)
(* A unit of a sale is claimed, on the road or with the customer, and      *)
(* never two of these; and what a customer sent back of a delivery is in   *)
(* exactly one other order, however many closures and loadings are in      *)
(* flight.  An order is loaded for one unresolved stop at a time, which    *)
(* the code leaves to the dispatcher.                                      *)
(***************************************************************************)
THEOREM EachUnitIsInOnePlace ==
    ASSUME OneAtATime, ~ SplitLoads
    PROVE  Spec => []EveryUnitOnce
<1>1. Spec => []DeliveryInv
  BY DeliveryInvariant
<1>2. Spec => []ClaimsAgree
  BY TwoBooksOfAClaim
<1>3. ASSUME Init PROVE UnitsInv /\ EveryUnitOnce
  BY <1>3, UnitsInit, UnitsStart
<1>4. ASSUME DeliveryInv, DeliveryInv', ClaimsAgree, ClaimsAgree', UnitsInv, EveryUnitOnce,
             [Next]_vars
      PROVE  UnitsInv' /\ EveryUnitOnce'
  <2>1. Settings
    BY <1>4 DEF Settings
  <2>2. UnitsInv'
    BY <1>4, <2>1, UnitsStep
  <2>3. Units /\ \A p \in Deliveries : SplitOnce(p)
    BY <1>4 DEF EveryUnitOnce, Units
  <2>4. Units'
    BY <1>4, <2>1, <2>2, <2>3, StepsKeepUnits
  <2>5. \A p \in Deliveries : SplitOnce(p)'
    BY <1>4, <2>1, <2>3, StepsSplit
  <2> QED
    BY <2>2, <2>4, <2>5 DEF EveryUnitOnce, Units
<1> QED
  BY <1>1, <1>2, <1>3, <1>4, PTL DEF Spec

=============================================================================
