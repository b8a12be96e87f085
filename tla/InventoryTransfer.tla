--------------------------- MODULE InventoryTransfer ---------------------------
(***************************************************************************)
(* inventory_transfer_service: transfers in two steps, through the transit *)
(* warehouse of the origin's facility, over the mechanics they share with  *)
(* receipts, issues and counts.                                            *)
(***************************************************************************)
EXTENDS InventoryDocument

\* _outstanding of a line in transit (a line with no received quantity, of
\* the time of one-step transfers, owes nothing).
Outstanding(d, p) ==
    IF line[d][p].received = None THEN 0 ELSE Quantity(d, p) - line[d][p].received

Owing(d) == {p \in Lines(d) : Outstanding(d, p) > 0}

\* _move: what leaves `source` enters `target`.
Move(moved, source, target) ==
    [k \in {source, target} \X DOMAIN moved |->
        IF k[1] = source THEN - moved[k[2]] ELSE moved[k[2]]]

Transit(d) == TransitOf[doc[d].facility]

\* dispatch
Dispatch(r) ==
    LET d == txn[r].arg.doc
        moved == [p \in Lines(d) |-> Quantity(d, p)]
    IN  /\ Locked(r, "dispatch")
        /\ Confirmable(r, d)
        /\ Covered(d)
        /\ Decides(r, Move(moved, doc[d].warehouse, Transit(d)),
                   [Numbered(d) EXCEPT !.in_transit = TRUE],
                   [p \in Products |-> IF p \in Lines(d) THEN [line[d][p] EXCEPT !.received = 0]
                                       ELSE None])

\* apply_receipt: some lines, each within what it owes (all of it included).
ApplyReceipt(d) ==
    {received \in UNION {[S -> 1..MaxLine] : S \in SUBSET Lines(d) \ {{}}} :
        \A p \in DOMAIN received : received[p] <= Outstanding(d, p)}

\* receive: the transfer stays in transit while a line owes.
Receive(r) ==
    LET d == txn[r].arg.doc
        after(received) ==
            [p \in Products |-> IF p \in DOMAIN received
                                THEN [line[d][p] EXCEPT !.received = @ + received[p]]
                                ELSE line[d][p]]
        owes(received) ==
            \E p \in Lines(d) : after(received)[p].received < Quantity(d, p)
    IN  /\ Locked(r, "receive")
        /\ ActsFor(r, {FacilityOf[doc[d].to]})
        /\ doc[d].in_transit
        /\ \E received \in ApplyReceipt(d) :
              Decides(r, Move(received, Transit(d), doc[d].to),
                      [doc[d] EXCEPT !.in_transit = owes(received)], after(received))

Returned_Whole(d) == [p \in Lines(d) |-> Quantity(d, p)]

\* What close_remainder returns to the origin.
Returned(d) == [p \in Owing(d) |-> Outstanding(d, p)]

CloseRemainder(r) ==
    LET d == txn[r].arg.doc
    IN  /\ Locked(r, "close")
        /\ ActsFor(r, {doc[d].facility, FacilityOf[doc[d].to]})
        /\ doc[d].in_transit
        /\ Decides(r, Move(Returned(d), Transit(d), doc[d].warehouse),
                   [doc[d] EXCEPT !.in_transit = FALSE], line[d])

\* add_sales_order_items: a confirmed order's products, except those already
\* on the transfer.
AddSalesOrderItems(d, items) ==
    /\ doc[d] # None /\ doc[d].kind = "transfer"
    /\ EditsLines(d, [p \in Products |-> IF p \in DOMAIN items /\ p \notin Lines(d)
                                         THEN Line(items[p]) ELSE line[d][p]])

-----------------------------------------------------------------------------
InventoryInit ==
    /\ doc = [d \in Docs |-> None]
    /\ line = [d \in Docs |-> NoLines]
    /\ ledger = [d \in Docs |-> NoEntries]
    /\ onHand = Opening
    /\ claims = [k \in Keys |-> 0]
    /\ txn = [r \in Requests |-> Idle]

Batches == UNION {[S -> Quantities \cup {0}] : S \in SUBSET Products \ {{}}}
OrderItems == UNION {[S -> Quantities] : S \in SUBSET Products \ {{}}}

Drafting ==
    \E d \in Docs :
        \/ \E h \in Headers : CreateDraft(d, h[1], h[2], h[3])
        \/ \E h \in Headers : doc[d] # None /\ doc[d].kind = h[1] /\ UpdateHeader(d, h[2], h[3])
        \/ \E p \in Products, q \in Quantities : AddLine(d, p, q)
        \/ \E p \in Products, q \in Quantities \cup {0} : UpdateLine(d, p, q)
        \/ \E p \in Products : RemoveLine(d, p)
        \/ \E batch \in Batches : SetLines(d, batch)
        \/ \E items \in OrderItems : AddSalesOrderItems(d, items)

\* Which steps a kind of document has, beside cancel.
StepsOf(kind) ==
    IF kind = "transfer" THEN {"dispatch", "receive", "close"} ELSE {"confirm"}

Moving(r) ==
    \/ \E d \in Docs : doc[d] # None /\ \E op \in StepsOf(doc[d].kind) : StockBegin(r, d, op)
    \/ \E d \in Docs : CancelBegin(r, d)
    \/ CancelLocks(r)
    \/ LockWarehouse(r)
    \/ ConfirmSimple(r)
    \/ \E include_uncounted \in BOOLEAN : ConfirmCount(r, include_uncounted)
    \/ Dispatch(r)
    \/ Receive(r)
    \/ CloseRemainder(r)
    \/ Cancel(r)
    \/ Write(r)
    \/ Rollback(r)

Selling == \E k \in Sold : Claim(k) \/ Unclaim(k)

InventoryNext ==
    \/ Drafting
    \/ \E r \in Requests : Moving(r)
    \/ Selling

InventorySpec == InventoryInit /\ [][InventoryNext]_vars

-----------------------------------------------------------------------------
(***************************************************************************)
(* Properties.                                                             *)
(***************************************************************************)
DocumentRows ==
    [kind : Kinds, facility : Facilities, warehouse : Sellable, to : Sellable \cup {None},
     completed : BOOLEAN, cancelled : BOOLEAN, in_transit : BOOLEAN, serial : Nat]
LineRows == [quantity : Nat, received : Nat \cup {None}, found : Int \cup {None}]

ASSUME NoneIsNoInventoryRow == None \notin DocumentRows \cup LineRows

\* The tables keep their shape, and no row is held by two requests.
InventoryTypeOK ==
    /\ doc \in [Docs -> DocumentRows \cup {None}]
    /\ line \in [Docs -> [Products -> LineRows \cup {None}]]
    /\ \A d \in Docs : DOMAIN ledger[d] \subseteq Keys /\ \A k \in DOMAIN ledger[d] : ledger[d][k] \in Int
    /\ onHand \in [Keys -> Int]
    /\ claims \in [Keys -> Nat]
    /\ \A r \in Requests : Free(r, Holds(r))

\* What a standing document of this header and these lines has done to
\* product p in warehouse w.
Effect(header, lines, w, p) ==
    LET at(place, quantity) == IF w = place THEN quantity ELSE 0
        owed == IF header.in_transit THEN lines[p].quantity - lines[p].received ELSE 0
    IN  IF ~ header.completed \/ header.cancelled \/ lines[p] = None THEN 0
        ELSE CASE header.kind = "receipt" -> at(header.warehouse, lines[p].quantity)
               [] header.kind = "issue" -> at(header.warehouse, - lines[p].quantity)
               [] header.kind = "count" -> at(header.warehouse, lines[p].quantity - lines[p].found)
               [] header.kind = "transfer" ->
                     at(header.to, lines[p].received)
                     + at(TransitOf[header.facility], owed)
                     + at(header.warehouse, - (lines[p].received + owed))

\* However dispatches, partial receipts, closes and cancellations interleave,
\* a document's entries are its effect: what left a transfer's origin is at
\* the destination, in transit or back, and a cancelled document, or a draft,
\* has moved nothing (FR-008, FR-041 to FR-044).
GoodsAccountedFor ==
    \A d \in Docs : doc[d] # None =>
        \A k \in Keys : EntryOf(ledger[d], k) = Effect(doc[d], line[d], k[1], k[2])

\* A transfer never receives more than it sent, whoever receives at once, and
\* while it is in transit it stands and some line still owes (FR-042, FR-044a).
ReceivedWithinSent ==
    \A d \in Docs : (doc[d] # None /\ doc[d].kind = "transfer" /\ doc[d].completed) =>
        /\ \A p \in Lines(d) : line[d][p].received \in 0..Quantity(d, p)
        /\ doc[d].in_transit => ~ doc[d].cancelled /\ Owing(d) # {}

\* A completed document's places, lines and serial never change; it is not
\* reopened; a transfer that is no longer in transit receives nothing more.
CompletedDocumentIsFrozen ==
    [][\A d \in Docs : (doc[d] # None /\ doc[d].completed) =>
          /\ doc'[d] = [doc[d] EXCEPT !.cancelled = doc'[d].cancelled, !.in_transit = doc'[d].in_transit]
          /\ doc[d].cancelled => doc'[d].cancelled
          /\ Lines(d)' = Lines(d) /\ \A p \in Lines(d) : Quantity(d, p)' = Quantity(d, p)
          /\ ~ doc[d].in_transit => ~ doc'[d].in_transit /\ line'[d] = line[d]]_vars

\* A count's confirmation leaves on hand what was counted: nothing is posted
\* to its warehouse between its read of on hand and its commit (FR-004).
CountSetsStock ==
    [][\A d \in Docs :
          (doc[d] # None /\ doc[d].kind = "count" /\ ~ doc[d].completed /\ doc'[d].completed) =>
             \A p \in Lines(d)' : onHand'[<<doc[d].warehouse, p>>] = Quantity(d, p)']_vars

\* Every entry about to be written is of a warehouse the request holds,
\* although a cancellation pre-reads the ledger before it locks anything (R2).
PostsUnderLocks ==
    \A r \in Requests : txn[r].op = "write" =>
        \A k \in DOMAIN txn[r].arg.posting : PlaceRow(k[1]) \in txn[r].rows

\* No two requests wait for each other's rows (lock_warehouses: ascending).
NoCrossedTransfers == \A r, q \in Requests : r # q => ~ Crossed(r, q)

Book == INSTANCE StockBook WITH
            claimed <- claims,
            counts <- Cardinality({d \in Docs : doc[d] # None /\ doc[d].kind = "count"
                                                /\ doc[d].completed})

\* The ledger is a stock book: no document takes out what is claimed or not
\* there, whatever it raced; only a count may.
LedgerIsABook == Book!BookSpec
=============================================================================
