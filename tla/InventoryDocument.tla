--------------------------- MODULE InventoryDocument ---------------------------
(***************************************************************************)
(* inventory_documents and inventory_count_service: the mechanics that     *)
(* receipts, issues, transfers and counts share.                           *)
(*                                                                         *)
(* An edit of a draft locks the document, re-reads it and commits: one     *)
(* step.  A step that moves stock runs begin_locked: a pre-read, a commit, *)
(* the document's row, then warehouses ascending, one lock at a time; then *)
(* it decides in one snapshot and writes at its commit (Write).            *)
(*                                                                         *)
(* A document has one line per product: add_line merges (older drafts that *)
(* repeat a product are not modelled), so a line is named by its product.  *)
(* Receipts of purchase orders, which also average costs, and products     *)
(* that are not stockable are not modelled.                                *)
(***************************************************************************)
EXTENDS OrderedLocks, FiniteSetsExt

CONSTANTS
    Docs,           \* documents of the four kinds
    Products,       \* stockable products
    Places,         \* warehouses, transit ones included; ids
    Facilities,
    FacilityOf,     \* the facility of a warehouse
    TransitOf,      \* the in-transit warehouse of a facility (spec 013: fixed rows)
    Opening,        \* on hand of a product in a warehouse at the start
    Scope,          \* the facilities a request's user acts for (an administrator: all)
    Headers,        \* what users create: a kind, its place, a transfer's destination
    Quantities,     \* quantities users enter
    Sold,           \* what sales orders claim
    MaxLine,        \* bound: a line's quantity
    MaxClaims,      \* bound: what sales orders claim of a product in a warehouse
    None

Sellable == Places \ {TransitOf[f] : f \in Facilities}
Keys == Places \X Products
Kinds == {"receipt", "issue", "transfer", "count"}

ASSUME InventoryConstants ==
    /\ IsFiniteSet(Docs)
    /\ Places \subseteq Nat /\ IsFiniteSet(Places)
    /\ FacilityOf \in [Places -> Facilities]
    /\ TransitOf \in [Facilities -> Places]
    /\ \A f \in Facilities : FacilityOf[TransitOf[f]] = f
    /\ Opening \in [Keys -> Nat]
    /\ \A f \in Facilities, p \in Products : Opening[<<TransitOf[f], p>>] = 0
    /\ Scope \in [Requests -> SUBSET Facilities]
    /\ Headers \subseteq Kinds \X Sellable \X (Sellable \cup {None})
    /\ Sold \subseteq Sellable \X Products
    /\ Quantities \subseteq Nat \ {0}
    /\ MaxLine \in Nat /\ MaxClaims \in Nat
    /\ None \notin Nat

VARIABLES
    doc,        \* inventory_receipt, _issue, _transfer and _count
    line,       \* their lines, by product
    ledger,     \* lot_serial_tracking: what a document posted, by warehouse and product
    onHand,     \* and what all of them have, over the opening balance
    claims      \* what confirmed sales orders claim (lot_serial_rqmt), by the same

tables == <<doc, line, ledger, onHand, claims>>
vars == <<tables, txn>>

DocRow(d) == <<"document", d>>
PlaceRow(w) == <<"warehouse", w>>

-----------------------------------------------------------------------------
(***************************************************************************)
(* Figures and rules.                                                      *)
(***************************************************************************)
NoEntries == [k \in {} |-> 0]
NoLines == [p \in Products |-> None]

Lines(d) == {p \in Products : line[d][p] # None}
Quantity(d, p) == line[d][p].quantity

\* stock_ledger.available
Available(k) == onHand[k] - claims[k]

Editable_IgnoresCompleted(d) == doc[d] # None /\ ~ doc[d].cancelled

\* documents.assert_editable
Editable(d) == doc[d] # None /\ ~ doc[d].completed /\ ~ doc[d].cancelled

\* assert_facility
ActsFor(r, places) == Scope[r] \cap places # {}

\* next_serial: MAX + 1 of the facility's documents of the kind.
NextSerial(kind, f) ==
    Max({doc[d].serial : d \in {e \in Docs : /\ doc[e] # None
                                             /\ doc[e].kind = kind
                                             /\ doc[e].facility = f}} \cup {0}) + 1

Numbered(d) == [doc[d] EXCEPT !.serial = NextSerial(doc[d].kind, doc[d].facility), !.completed = TRUE]

\* The header's warehouses: the origin, and a transfer's destination.
HeaderPlaces(d) == {doc[d].warehouse, doc[d].to} \ {None}

\* warehouses_to_lock, from the locked row: the facility's transit is also
\* what its numbering queues on.
WarehousesToLock(d, ledgerPlaces) ==
    {TransitOf[doc[d].facility]} \cup HeaderPlaces(d) \cup ledgerPlaces

\* lock_warehouses, for document d
Ascending(places, d) == [k \in 1..Cardinality(places) |-> PlaceRow(Nth(places, k))]

-----------------------------------------------------------------------------
(***************************************************************************)
(* Drafts.                                                                 *)
(***************************************************************************)
\* The document's row is not locked by another transaction.
Unlocked(d) == \A r \in Requests : DocRow(d) \notin Holds(r)

\* A line as it is entered: nothing received, nothing counted against.
Line(q) == [quantity |-> q, received |-> None, found |-> None]

\* _usable_warehouse and _assert_distinct: only a transfer has a destination,
\* another warehouse than its origin.
Usable(kind, w, to) ==
    /\ w \in Sellable
    /\ IF kind = "transfer" THEN to \in Sellable \ {w} ELSE to = None

\* create_draft
CreateDraft(d, kind, w, to) ==
    /\ doc[d] = None
    /\ Usable(kind, w, to)
    /\ doc' = [doc EXCEPT ![d] =
                  [kind |-> kind, facility |-> FacilityOf[w], warehouse |-> w, to |-> to,
                   completed |-> FALSE, cancelled |-> FALSE, in_transit |-> FALSE, serial |-> 0]]
    /\ UNCHANGED <<line, ledger, onHand, claims, txn>>

\* update_header: the facility moves with the origin.
UpdateHeader(d, w, to) ==
    /\ Unlocked(d) /\ Editable(d)
    /\ Usable(doc[d].kind, w, to)
    /\ doc' = [doc EXCEPT ![d].facility = FacilityOf[w], ![d].warehouse = w, ![d].to = to]
    /\ UNCHANGED <<line, ledger, onHand, claims, txn>>

\* An edit of the lines of a draft.
EditsLines(d, lines) ==
    /\ Unlocked(d) /\ Editable(d)
    /\ line' = [line EXCEPT ![d] = lines]
    /\ UNCHANGED <<doc, ledger, onHand, claims, txn>>

\* add_line adds to the product's line, or starts one.
AddLine(d, p, q) ==
    LET total == q + (IF p \in Lines(d) THEN Quantity(d, p) ELSE 0)
    IN  /\ doc[d] # None /\ doc[d].kind # "count"
        /\ total <= MaxLine
        /\ EditsLines(d, [line[d] EXCEPT ![p] = Line(total)])

\* update_line; a count may be of none.
UpdateLine(d, p, q) ==
    /\ p \in Lines(d)
    /\ q = 0 => doc[d].kind = "count"
    /\ EditsLines(d, [line[d] EXCEPT ![p].quantity = q])

RemoveLine(d, p) ==
    /\ p \in Lines(d)
    /\ EditsLines(d, [line[d] EXCEPT ![p] = None])

\* set_lines of a count: each product of the batch is set, never added to.
SetLines(d, batch) ==
    /\ doc[d] # None /\ doc[d].kind = "count"
    /\ EditsLines(d, [p \in Products |-> IF p \in DOMAIN batch THEN Line(batch[p]) ELSE line[d][p]])

-----------------------------------------------------------------------------
(***************************************************************************)
(* Steps that move stock.                                                  *)
(***************************************************************************)
\* _ledger_warehouses, for a cancellation only.
LedgerPlaces(d) == {k[1] : k \in DOMAIN ledger[d]}

\* begin_locked: the document's row is locked, and the warehouses to lock
\* are worked out from it.  A request that waits for the row holds nothing.
LocksDocument(r, d, op, ledgerPlaces) ==
    /\ Free(r, {DocRow(d)})
    /\ txn' = [txn EXCEPT ![r] =
                  Request(op, [doc |-> d], {DocRow(d)}, Ascending(WarehousesToLock(d, ledgerPlaces), d))]
    /\ UNCHANGED tables

StockBegin(r, d, op) ==
    /\ txn[r] = Idle
    /\ doc[d] # None
    /\ LocksDocument(r, d, op, {})

\* A cancellation first reads, and commits, where the document has posted.
CancelBegin(r, d) ==
    /\ doc[d] # None
    /\ Begins(r, "cancel_locks", [doc |-> d, ledger |-> LedgerPlaces(d)], <<DocRow(d)>>)
    /\ UNCHANGED tables

CancelLocks(r) ==
    /\ txn[r].op = "cancel_locks"
    /\ LocksDocument(r, txn[r].arg.doc, "cancel", txn[r].arg.ledger)

LockWarehouse(r) ==
    /\ txn[r].op # "cancel_locks"
    /\ LocksNext(r)
    /\ UNCHANGED tables

\* Every row is held: the first ordinary read opens the snapshot.
Locked(r, op) ==
    /\ txn[r].op = op
    /\ txn[r].want = << >>

\* What the step will write: ledger entries, the header, the lines.
Decides(r, posting, header, lines) ==
    /\ txn' = [txn EXCEPT ![r] =
                  Request("write", [doc |-> @.arg.doc, posting |-> posting,
                                    header |-> header, lines |-> lines], @.rows, << >>)]
    /\ UNCHANGED tables

EntryOf(entries, k) == IF k \in DOMAIN entries THEN entries[k] ELSE 0

\* post_movement, entry by entry.
Added(entries, posting) ==
    [k \in DOMAIN entries \cup DOMAIN posting |-> EntryOf(entries, k) + EntryOf(posting, k)]

Write(r) ==
    LET w == txn[r].arg
    IN  /\ txn[r].op = "write"
        /\ doc' = [doc EXCEPT ![w.doc] = w.header]
        /\ line' = [line EXCEPT ![w.doc] = w.lines]
        /\ ledger' = [ledger EXCEPT ![w.doc] = Added(@, w.posting)]
        /\ onHand' = Added(onHand, w.posting)
        /\ Ends(r)
        /\ UNCHANGED claims

\* The checks a confirmation and a dispatch begin with.
Confirmable(r, d) ==
    /\ ActsFor(r, {doc[d].facility})
    /\ Editable(d)
    /\ Lines(d) # {}
    /\ \A p \in Lines(d) : Quantity(d, p) > 0

\* assert_available over the lines of a document that takes them out.
Covered(d) == \A p \in Lines(d) : Quantity(d, p) <= Available(<<doc[d].warehouse, p>>)

\* confirm_simple of a receipt or an issue.
ConfirmSimple(r) ==
    LET d == txn[r].arg.doc
        sign == IF doc[d].kind = "issue" THEN -1 ELSE 1
    IN  /\ Locked(r, "confirm")
        /\ doc[d].kind \in {"receipt", "issue"}
        /\ Confirmable(r, d)
        /\ doc[d].kind = "issue" => Covered(d)
        /\ Decides(r, [k \in {doc[d].warehouse} \X Lines(d) |-> sign * Quantity(d, k[2])],
                   Numbered(d), line[d])

\* confirm of a count: every product counted is set to its count, and those
\* not counted to none if the caller says so.  A difference of zero posts
\* nothing.
ConfirmCount(r, include_uncounted) ==
    LET d == txn[r].arg.doc
        found(p) == onHand[<<doc[d].warehouse, p>>]
        uncounted == {p \in Products \ Lines(d) : include_uncounted /\ found(p) # 0}
        counted(p) == IF p \in uncounted THEN 0 ELSE Quantity(d, p)
        moved == {p \in Lines(d) \cup uncounted : counted(p) # found(p)}
    IN  /\ Locked(r, "confirm")
        /\ doc[d].kind = "count"
        /\ ActsFor(r, {doc[d].facility})
        /\ Editable(d)
        /\ Lines(d) \cup uncounted # {}
        /\ Decides(r, [k \in {doc[d].warehouse} \X moved |-> counted(k[2]) - found(k[2])],
                   Numbered(d),
                   [p \in Products |-> IF p \in Lines(d) \cup uncounted
                                       THEN [Line(counted(p)) EXCEPT !.found = found(p)]
                                       ELSE None])

\* reversal_entries
Reversal(d) == [k \in DOMAIN ledger[d] |-> - ledger[d][k]]

NetOutboundCovered_Transit(d) ==
    \A k \in DOMAIN ledger[d] : k[1] \notin Sellable => ledger[d][k] <= Available(k)

\* What the reversal takes out, net_outbound, is available.
NetOutboundCovered(d) == \A k \in DOMAIN ledger[d] : ledger[d][k] > 0 => ledger[d][k] <= Available(k)

\* cancel: a draft is retired, a confirmed document reversed; a confirmed
\* count is final.
Cancel(r) ==
    LET d == txn[r].arg.doc
    IN  /\ Locked(r, "cancel")
        /\ ActsFor(r, {doc[d].facility})
        /\ doc[d].completed => doc[d].kind # "count"
        /\ ~ doc[d].cancelled
        /\ doc[d].completed => NetOutboundCovered(d)
        /\ Decides(r, IF doc[d].completed THEN Reversal(d) ELSE NoEntries,
                   [doc[d] EXCEPT !.cancelled = TRUE, !.in_transit = FALSE], line[d])

\* A refusal after the locks, a lock wait that times out, a deadlock's victim.
Rollback(r) ==
    /\ txn[r] # Idle
    /\ Ends(r)
    /\ UNCHANGED tables

-----------------------------------------------------------------------------
(***************************************************************************)
(* Sales orders: a confirmation claims what is available under the         *)
(* warehouse's lock; a cancellation gives it back under none.              *)
(***************************************************************************)
Claim(k) ==
    /\ \A r \in Requests : PlaceRow(k[1]) \notin Holds(r)
    /\ Available(k) > 0 /\ claims[k] < MaxClaims
    /\ claims' = [claims EXCEPT ![k] = @ + 1]
    /\ UNCHANGED <<doc, line, ledger, onHand, txn>>

Unclaim(k) ==
    /\ claims[k] > 0
    /\ claims' = [claims EXCEPT ![k] = @ - 1]
    /\ UNCHANGED <<doc, line, ledger, onHand, txn>>
=============================================================================
