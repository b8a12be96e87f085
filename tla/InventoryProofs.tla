---------------------------- MODULE InventoryProofs ----------------------------
(***************************************************************************)
(* What InventoryDocument and InventoryTransfer guarantee, and StockQuery  *)
(* shows, for every number of documents, products, warehouses, facilities  *)
(* and requests.                                                           *)
(***************************************************************************)
EXTENDS StockQuery, NumberSets

-----------------------------------------------------------------------------
(***************************************************************************)
(* What the helpers compute.                                               *)
(***************************************************************************)
\* Warehouses are numbers; a facility's transit is one that nobody names.
LEMMA PlacesAreApart ==
    /\ \A w \in Sellable : w \in Places /\ FacilityOf[w] \in Facilities
    /\ \A w \in Places : w \in Nat /\ w # None
    /\ \A f \in Facilities : TransitOf[f] \in Places \ Sellable
BY InventoryConstants DEF InventoryConstants, Sellable

\* Nth counts the ids of a finite set of numbers, in ascending order.
LEMMA NthAscends ==
    ASSUME NEW S \in SUBSET Nat, IsFiniteSet(S)
    PROVE  /\ Cardinality(S) \in Nat
           /\ \A k \in 1..Cardinality(S) : Nth(S, k) \in S
           /\ \A i, j \in 1..Cardinality(S) : i < j => Nth(S, i) < Nth(S, j)
           /\ \A w \in S : \E k \in 1..Cardinality(S) : Nth(S, k) = w
<1> DEFINE n == Cardinality(S)
           nth == [k \in 1..n |-> Nth(S, k)]
<1>1. \A k \in 1..n : nth[k] = CHOOSE o \in S : Cardinality({p \in S : p < o}) = k - 1
  BY DEF Nth
<1>2. \A k \in 1..n : nth[k] = Nth(S, k)
  OBVIOUS
<1> HIDE DEF nth
<1>3. /\ n \in Nat
      /\ \A k \in 1..n : nth[k] \in S
      /\ \A i, j \in 1..n : i < j => nth[i] < nth[j]
      /\ \A w \in S : \E k \in 1..n : nth[k] = w
  BY <1>1, CountedInOrder
<1> QED BY <1>2, <1>3

\* The rows of S, every one, in order.
RowsInOrder(want, S) ==
    /\ want \in Seq({PlaceRow(w) : w \in S})
    /\ \A w \in S : \E i \in DOMAIN want : want[i] = PlaceRow(w)
    /\ \A i, j \in DOMAIN want : \A v, w \in Places :
          i < j /\ want[i] = PlaceRow(v) /\ want[j] = PlaceRow(w) => v < w

\* The warehouses are locked one after another, every one, in order.
LEMMA AscendingLocksAll ==
    ASSUME NEW S \in SUBSET Places, NEW d
    PROVE  RowsInOrder(Ascending(S, d), S)
<1>1. S \in SUBSET Nat /\ IsFiniteSet(S)
  BY InventoryConstants, FS_Subset DEF InventoryConstants
<1> DEFINE n == Cardinality(S)
           rows == {PlaceRow(w) : w \in S}
<1>2. /\ n \in Nat
      /\ \A k \in 1..n : Nth(S, k) \in S
      /\ \A i, j \in 1..n : i < j => Nth(S, i) < Nth(S, j)
      /\ \A w \in S : \E k \in 1..n : Nth(S, k) = w
  BY <1>1, NthAscends
<1>3. Ascending(S, d) = [k \in 1..n |-> PlaceRow(Nth(S, k))]
  BY DEF Ascending
<1> HIDE DEF n
<1>4. Ascending(S, d) \in [1..n -> rows]
  BY <1>2, <1>3
<1>5. Ascending(S, d) \in Seq(rows)
  <2> HIDE DEF rows
  <2> QED BY <1>2, <1>4
<1>6. ASSUME NEW w \in S PROVE \E i \in DOMAIN Ascending(S, d) : Ascending(S, d)[i] = PlaceRow(w)
  BY <1>2, <1>3
<1>7. ASSUME NEW i \in 1..n, NEW j \in 1..n, NEW v \in Places, NEW w \in Places, i < j,
             Ascending(S, d)[i] = PlaceRow(v), Ascending(S, d)[j] = PlaceRow(w)
      PROVE  v < w
  <2>1. v = Nth(S, i) /\ w = Nth(S, j)
    BY <1>3, <1>7 DEF PlaceRow
  <2> QED BY <1>2, <1>7, <2>1
<1> QED BY <1>3, <1>5, <1>6, <1>7 DEF RowsInOrder

\* The next serial of a facility is a positive number.
LEMMA SerialType ==
    ASSUME NEW kind, NEW f, \A e \in Docs : doc[e] # None => doc[e].serial \in Nat
    PROVE  NextSerial(kind, f) \in Nat
<1> DEFINE D == {e \in Docs : doc[e] # None /\ doc[e].kind = kind /\ doc[e].facility = f}
           S == {doc[e].serial : e \in D}
           g == [e \in D |-> doc[e].serial]
<1>1. IsFiniteSet(D)
  BY InventoryConstants, FS_Subset DEF InventoryConstants
<1>2. g \in Surjection(D, S)
  BY DEF Surjection
<1>3. IsFiniteSet(S)
  BY <1>1, <1>2, FS_Surjection
<1>4. S \in SUBSET Nat
  OBVIOUS
<1> DEFINE T == S \cup {0}
<1>5. IsFiniteSet(T) /\ T \in SUBSET Nat /\ T # {}
  BY <1>3, <1>4, FS_AddElement
<1>6. Max(T) \in Nat
  BY <1>5, MaxIsGreatest
<1>7. NextSerial(kind, f) = Max(T) + 1
  BY DEF NextSerial
<1> HIDE DEF T
<1> QED BY <1>6, <1>7

-----------------------------------------------------------------------------
(***************************************************************************)
(* The inductive invariant.                                                *)
(***************************************************************************)
StockOps == {"confirm", "dispatch", "receive", "close", "cancel"}

\* Every line of a completed document knows what its posting was worked out
\* from, and what is in transit still owes.
LinesSound(header, lines) ==
    \A p \in Products : lines[p] # None =>
        /\ header.completed /\ header.kind = "transfer" =>
              lines[p].received \in 0..lines[p].quantity
        /\ header.completed /\ header.kind = "count" => lines[p].found \in Int

HeaderSound(header, lines) ==
    /\ header \in DocumentRows
    /\ IF header.kind = "transfer" THEN header.to \in Sellable \ {header.warehouse}
       ELSE header.to = None
    /\ header.in_transit =>
          /\ header.kind = "transfer" /\ header.completed /\ ~ header.cancelled
          /\ \E p \in Products : lines[p] # None /\ lines[p].received < lines[p].quantity

PlacesOf(header) == {header.warehouse, header.to, TransitOf[header.facility]}

\* A draft has posted nothing; the rest its effect, in its own places.
EntriesSound(header, lines, entries) ==
    /\ DOMAIN entries \subseteq Keys
    /\ \A k \in DOMAIN entries : entries[k] \in Int /\ k[1] \in PlacesOf(header)
    /\ ~ header.completed => DOMAIN entries = {}
    /\ \A k \in Keys : EntryOf(entries, k) = Effect(header, lines, k[1], k[2])

DocumentSound(header, lines, entries) ==
    /\ HeaderSound(header, lines)
    /\ lines \in [Products -> LineRows \cup {None}]
    /\ LinesSound(header, lines)
    /\ EntriesSound(header, lines, entries)

\* What may follow a completed header and its lines.
Follows(header, lines, header2, lines2) ==
    header.completed =>
        /\ header2 = [header EXCEPT !.cancelled = header2.cancelled, !.in_transit = header2.in_transit]
        /\ header.cancelled => header2.cancelled
        /\ \A p \in Products :
              /\ lines[p] = None <=> lines2[p] = None
              /\ lines[p] # None => lines2[p].quantity = lines[p].quantity
        /\ ~ header.in_transit => ~ header2.in_transit /\ lines2 = lines

\* A count about to be confirmed will leave what it counted.
CountSound(r) ==
    LET w == txn[r].arg
    IN  (doc[w.doc].kind = "count" /\ ~ doc[w.doc].completed /\ w.header.completed) =>
          /\ PlaceRow(doc[w.doc].warehouse) \in txn[r].rows
          /\ \A p \in Products : w.lines[p] # None =>
                onHand[<<doc[w.doc].warehouse, p>>] + EntryOf(w.posting, <<doc[w.doc].warehouse, p>>)
                   = w.lines[p].quantity

\* What a request is about to write is a sound document, follows the one
\* that stands, and posts where it holds the warehouse.
WriteSound(r) ==
    LET w == txn[r].arg
    IN  /\ DocumentSound(w.header, w.lines, Added(ledger[w.doc], w.posting))
        /\ Follows(doc[w.doc], line[w.doc], w.header, w.lines)
        /\ DOMAIN w.posting \subseteq Keys
        /\ \A k \in DOMAIN w.posting : w.posting[k] \in Int /\ PlaceRow(k[1]) \in txn[r].rows
        /\ CountSound(r)

\* The rows a request holds or will lock before it decides.
LocksAhead(r) ==
    /\ \E rows : txn[r].want \in Seq(rows)
    /\ \A w \in WarehousesToLock(txn[r].arg.doc, {}) :
          \/ PlaceRow(w) \in txn[r].rows
          \/ \E i \in DOMAIN txn[r].want : txn[r].want[i] = PlaceRow(w)

\* Warehouses come in order: the next ones are above those it holds.
LocksAscend(r) ==
    LET want == txn[r].want
    IN  /\ \A i \in DOMAIN want : \E w \in Places : want[i] = PlaceRow(w)
        /\ \A i, j \in DOMAIN want : \A v, w \in Places :
              i < j /\ want[i] = PlaceRow(v) /\ want[j] = PlaceRow(w) => v < w
        /\ \A i \in DOMAIN want : \A v, w \in Places :
              PlaceRow(v) \in txn[r].rows /\ want[i] = PlaceRow(w) => v < w

RequestSound(r) ==
    /\ txn[r].op \in {"idle", "cancel_locks", "write"} \cup StockOps
    /\ txn[r].op # "idle" => txn[r].arg.doc \in Docs /\ doc[txn[r].arg.doc] # None
    /\ txn[r].op \in StockOps \cup {"write"} => DocRow(txn[r].arg.doc) \in txn[r].rows
    /\ txn[r].op \in StockOps => LocksAhead(r) /\ LocksAscend(r)
    /\ txn[r].op = "dispatch" => doc[txn[r].arg.doc].kind = "transfer"
    /\ txn[r].op = "cancel_locks" => txn[r].rows = {} /\ txn[r].arg.ledger \in SUBSET Places
    /\ txn[r].op = "write" => txn[r].want = << >> /\ WriteSound(r)

TablesSound ==
    /\ doc \in [Docs -> DocumentRows \cup {None}]
    /\ line \in [Docs -> [Products -> LineRows \cup {None}]]
    /\ DOMAIN ledger = Docs
    /\ onHand \in [Keys -> Int]
    /\ claims \in [Keys -> Nat]
    /\ \A d \in Docs : IF doc[d] = None THEN line[d] = NoLines /\ ledger[d] = NoEntries
                        ELSE DocumentSound(doc[d], line[d], ledger[d])

InventoryInv ==
    /\ TablesSound
    /\ DOMAIN txn = Requests
    /\ \A r \in Requests : Free(r, Holds(r))
    /\ \A r \in Requests : RequestSound(r)

-----------------------------------------------------------------------------
(***************************************************************************)
(* Steps of one request, and edits of one draft.                           *)
(***************************************************************************)
\* What a request knows stays true while its document and the stock of the
\* warehouses it holds stay as they are.
LEMMA OthersSound ==
    ASSUME NEW q \in Requests, RequestSound(q), TablesSound, txn'[q] = txn[q],
           \A e \in Docs : doc[e] # None => doc'[e] # None,
           txn[q].op \in StockOps \cup {"write"} =>
               /\ doc'[txn[q].arg.doc] = doc[txn[q].arg.doc]
               /\ line'[txn[q].arg.doc] = line[txn[q].arg.doc]
               /\ ledger'[txn[q].arg.doc] = ledger[txn[q].arg.doc],
           txn[q].op = "write" =>
               \A w \in Places, p \in Products :
                  PlaceRow(w) \in txn[q].rows => onHand'[<<w, p>>] = onHand[<<w, p>>]
    PROVE  RequestSound(q)'
<1>1. ASSUME txn[q].op = "write" PROVE WriteSound(q)'
  <2>1. WriteSound(q)
    BY <1>1 DEF RequestSound
  <2>2. CountSound(q)'
    <3>1. CountSound(q)
      BY <2>1 DEF WriteSound
    <3> SUFFICES ASSUME doc[txn[q].arg.doc].kind = "count", ~ doc[txn[q].arg.doc].completed,
                        txn[q].arg.header.completed
                 PROVE  CountSound(q)'
      BY <1>1 DEF CountSound
    <3> DEFINE w == doc[txn[q].arg.doc].warehouse
    <3>2. PlaceRow(w) \in txn[q].rows
      BY <3>1 DEF CountSound
    <3>3. txn[q].arg.doc \in Docs /\ doc[txn[q].arg.doc] # None
      BY <1>1 DEF RequestSound
    <3>4. doc[txn[q].arg.doc] \in DocumentRows
      BY <3>3 DEF TablesSound
    <3>5. w \in Places
      BY <3>4, PlacesAreApart DEF DocumentRows
    <3>6. \A p \in Products : onHand'[<<w, p>>] = onHand[<<w, p>>]
      BY <1>1, <3>2, <3>5
    <3>7. doc'[txn[q].arg.doc] = doc[txn[q].arg.doc]
      BY <1>1
    <3>8. \A p \in Products : txn[q].arg.lines[p] # None =>
             onHand[<<w, p>>] + EntryOf(txn[q].arg.posting, <<w, p>>) = txn[q].arg.lines[p].quantity
      BY <3>1 DEF CountSound
    <3>9. \A p \in Products : txn[q].arg.lines[p] # None =>
             onHand'[<<w, p>>] + EntryOf(txn[q].arg.posting, <<w, p>>) = txn[q].arg.lines[p].quantity
      BY <3>6, <3>8
    <3> QED BY <3>2, <3>7, <3>9 DEF CountSound
  <2> QED BY <1>1, <2>1, <2>2 DEF WriteSound
<1>2. ASSUME txn[q].op \in StockOps PROVE LocksAhead(q)' /\ LocksAscend(q)'
  <2>1. LocksAhead(q)'
    BY <1>2 DEF RequestSound, LocksAhead, WarehousesToLock, HeaderPlaces
  <2>2. LocksAscend(q)'
    BY <1>2 DEF RequestSound, LocksAscend
  <2> QED BY <2>1, <2>2
<1> QED BY <1>1, <1>2 DEF RequestSound

\* A step of one request that writes nothing.
LEMMA StepOfOne ==
    ASSUME InventoryInv, NEW r \in Requests, NEW x, txn' = [txn EXCEPT ![r] = x],
           UNCHANGED tables, x.op # "idle" => Free(r, x.rows), RequestSound(r)'
    PROVE  InventoryInv'
<1>1. TablesSound'
  BY DEF InventoryInv, TablesSound, tables
<1>2. DOMAIN txn' = Requests
  BY DEF InventoryInv
<1>3. txn'[r] = x /\ \A q \in Requests : q # r => txn'[q] = txn[q]
  BY DEF InventoryInv
<1>4. ASSUME NEW q \in Requests PROVE Free(q, Holds(q))'
  BY <1>3 DEF InventoryInv, Free, Holds
<1>5. ASSUME NEW q \in Requests PROVE RequestSound(q)'
  <2>1. CASE q = r BY <2>1
  <2>2. CASE q # r
    BY <1>3, <2>2, OthersSound DEF InventoryInv, tables
  <2> QED BY <2>1, <2>2
<1> QED BY <1>1, <1>2, <1>4, <1>5 DEF InventoryInv

\* No request is about to move the stock of d.
Quiet(d) ==
    \A q \in Requests : txn[q].op \in StockOps \cup {"write"} => txn[q].arg.doc # d

\* An edit of d alone.
LEMMA EditOfOne ==
    ASSUME InventoryInv, NEW d \in Docs, Quiet(d), TablesSound', doc'[d] # None,
           \A e \in Docs : e # d => doc'[e] = doc[e] /\ line'[e] = line[e],
           ledger' = ledger, onHand' = onHand, txn' = txn
    PROVE  InventoryInv'
<1>1. ASSUME NEW q \in Requests PROVE Free(q, Holds(q))'
  BY DEF InventoryInv, Free, Holds
<1>2. ASSUME NEW q \in Requests PROVE RequestSound(q)'
  <2>1. RequestSound(q)
    BY DEF InventoryInv
  <2>2. txn[q].op \in StockOps \cup {"write"} => txn[q].arg.doc \in Docs /\ txn[q].arg.doc # d
    BY <2>1 DEF Quiet, RequestSound, StockOps
  <2>3. TablesSound
    BY DEF InventoryInv
  <2> QED BY <2>1, <2>2, <2>3, OthersSound
<1> QED BY <1>1, <1>2 DEF InventoryInv

\* A document whose row nobody holds is quiet, and one that is not there yet.
LEMMA UnlockedIsQuiet ==
    ASSUME InventoryInv, NEW d \in Docs, Unlocked(d) \/ doc[d] = None
    PROVE  Quiet(d)
<1> SUFFICES ASSUME NEW q \in Requests, txn[q].op \in StockOps \cup {"write"}
             PROVE  txn[q].arg.doc # d
  BY DEF Quiet
<1>1. RequestSound(q) /\ txn[q].op # "idle"
  BY DEF InventoryInv, StockOps
<1>2. DocRow(txn[q].arg.doc) \in Holds(q) /\ doc[txn[q].arg.doc] # None
  BY <1>1 DEF RequestSound, Holds
<1> QED BY <1>2 DEF Unlocked

\* A draft has had no effect.
LEMMA DraftIsSound ==
    ASSUME NEW header \in DocumentRows, ~ header.completed, ~ header.in_transit,
           IF header.kind = "transfer" THEN header.to \in Sellable \ {header.warehouse}
           ELSE header.to = None,
           NEW lines \in [Products -> LineRows \cup {None}], NEW entries, DOMAIN entries = {}
    PROVE  DocumentSound(header, lines, entries)
<1>1. \A k \in Keys : EntryOf(entries, k) = 0 /\ Effect(header, lines, k[1], k[2]) = 0
  BY DEF EntryOf, Effect
<1>2. EntriesSound(header, lines, entries)
  BY <1>1 DEF EntriesSound
<1>3. LinesSound(header, lines)
  BY DEF LinesSound
<1>4. HeaderSound(header, lines)
  BY DEF HeaderSound
<1> QED BY <1>2, <1>3, <1>4 DEF DocumentSound

\* A sound draft is not in transit and has posted nothing.
LEMMA DraftFacts ==
    ASSUME InventoryInv, NEW d \in Docs, Editable(d)
    PROVE  /\ doc[d] # None /\ doc[d] \in DocumentRows
           /\ ~ doc[d].completed /\ ~ doc[d].in_transit /\ ~ doc[d].cancelled
           /\ line[d] \in [Products -> LineRows \cup {None}]
           /\ DOMAIN ledger[d] = {}
           /\ IF doc[d].kind = "transfer" THEN doc[d].to \in Sellable \ {doc[d].warehouse}
              ELSE doc[d].to = None
BY DEF InventoryInv, TablesSound, Editable, DocumentSound, HeaderSound, EntriesSound

-----------------------------------------------------------------------------
(***************************************************************************)
(* Drafts.                                                                 *)
(***************************************************************************)
\* A new draft is sound: it has posted nothing.
LEMMA CreateDraftKeeps ==
    ASSUME InventoryInv, NEW d \in Docs, NEW h \in Headers, CreateDraft(d, h[1], h[2], h[3])
    PROVE  InventoryInv'
<1> DEFINE header == [kind |-> h[1], facility |-> FacilityOf[h[2]], warehouse |-> h[2], to |-> h[3],
                      completed |-> FALSE, cancelled |-> FALSE, in_transit |-> FALSE, serial |-> 0]
<1>1. h[1] \in Kinds /\ h[2] \in Sellable /\ h[3] \in Sellable \cup {None}
  BY InventoryConstants DEF InventoryConstants
<1>2. header \in DocumentRows
  BY <1>1, PlacesAreApart DEF DocumentRows
<1>3. doc[d] = None /\ doc' = [doc EXCEPT ![d] = header] /\ UNCHANGED <<line, ledger, onHand, claims, txn>>
  BY DEF CreateDraft
<1>4. line[d] = NoLines /\ ledger[d] = NoEntries
  BY <1>3 DEF InventoryInv, TablesSound
<1>5. NoLines \in [Products -> LineRows \cup {None}] /\ DOMAIN NoEntries = {}
  BY DEF NoLines, NoEntries
<1>6. IF header.kind = "transfer" THEN header.to \in Sellable \ {header.warehouse} ELSE header.to = None
  BY DEF CreateDraft, Usable
<1>7. ~ header.completed /\ ~ header.in_transit
  OBVIOUS
<1> HIDE DEF header
<1>8. DocumentSound(header, line[d], ledger[d])
  BY <1>2, <1>4, <1>5, <1>6, <1>7, DraftIsSound
<1>9. header # None
  BY <1>2, NoneIsNoInventoryRow DEF NoneIsNoInventoryRow
<1>10. doc'[d] = header /\ \A e \in Docs : e # d => doc'[e] = doc[e]
  BY <1>3 DEF InventoryInv, TablesSound
<1>11. doc' \in [Docs -> DocumentRows \cup {None}]
  BY <1>2, <1>3 DEF InventoryInv, TablesSound
<1>12. TablesSound'
  BY <1>3, <1>8, <1>9, <1>10, <1>11 DEF InventoryInv, TablesSound
<1> QED BY <1>3, <1>9, <1>10, <1>12, UnlockedIsQuiet, EditOfOne

\* An edit of a draft's places leaves a sound draft.
LEMMA UpdateHeaderKeeps ==
    ASSUME InventoryInv, NEW d \in Docs, NEW h \in Headers, UpdateHeader(d, h[2], h[3])
    PROVE  InventoryInv'
<1> DEFINE header == [doc[d] EXCEPT !.facility = FacilityOf[h[2]], !.warehouse = h[2], !.to = h[3]]
<1>1. h[2] \in Sellable /\ h[3] \in Sellable \cup {None}
  BY InventoryConstants DEF InventoryConstants
<1>2. Editable(d) /\ Unlocked(d) /\ UNCHANGED <<line, ledger, onHand, claims, txn>>
  BY DEF UpdateHeader
<1>3. header \in DocumentRows
  <2>1. doc[d] \in DocumentRows /\ FacilityOf[h[2]] \in Facilities
    BY <1>1, <1>2, DraftFacts, PlacesAreApart
  <2> QED BY <1>1, <2>1 DEF DocumentRows
<1>4. /\ ~ header.completed /\ ~ header.in_transit
      /\ IF header.kind = "transfer" THEN header.to \in Sellable \ {header.warehouse} ELSE header.to = None
  BY <1>1, <1>2, DraftFacts DEF DocumentRows, UpdateHeader, Usable
<1>5. doc' = [doc EXCEPT ![d] = header]
  BY DEF UpdateHeader, InventoryInv, TablesSound
<1> HIDE DEF header
<1>6. DocumentSound(header, line[d], ledger[d])
  BY <1>2, <1>3, <1>4, DraftFacts, DraftIsSound
<1>7. header # None
  BY <1>3, NoneIsNoInventoryRow DEF NoneIsNoInventoryRow
<1>8. doc'[d] = header /\ \A e \in Docs : e # d => doc'[e] = doc[e]
  BY <1>5 DEF InventoryInv, TablesSound
<1>9. doc' \in [Docs -> DocumentRows \cup {None}]
  BY <1>3, <1>5 DEF InventoryInv, TablesSound
<1>10. TablesSound'
  BY <1>2, <1>6, <1>7, <1>8, <1>9 DEF InventoryInv, TablesSound
<1> QED BY <1>2, <1>7, <1>8, <1>10, UnlockedIsQuiet, EditOfOne

\* Any edit of a draft's lines.
LEMMA EditsLinesKeeps ==
    ASSUME InventoryInv, NEW d \in Docs, NEW lines \in [Products -> LineRows \cup {None}],
           EditsLines(d, lines)
    PROVE  InventoryInv'
<1>1. /\ Editable(d) /\ Unlocked(d) /\ line' = [line EXCEPT ![d] = lines]
      /\ UNCHANGED <<doc, ledger, onHand, claims, txn>>
  BY DEF EditsLines
<1>2. DocumentSound(doc[d], lines, ledger[d])
  BY <1>1, DraftFacts, DraftIsSound
<1>3. doc[d] # None
  BY <1>1, DraftFacts
<1>4. line'[d] = lines /\ \A e \in Docs : e # d => line'[e] = line[e]
  BY <1>1 DEF InventoryInv, TablesSound
<1>5. line' \in [Docs -> [Products -> LineRows \cup {None}]]
  BY <1>1 DEF InventoryInv, TablesSound
<1>6. TablesSound'
  BY <1>1, <1>2, <1>3, <1>4, <1>5 DEF InventoryInv, TablesSound
<1> QED BY <1>1, <1>3, <1>4, <1>6, UnlockedIsQuiet, EditOfOne

\* So does every way to edit a draft.
LEMMA DraftingKeeps == InventoryInv /\ Drafting => InventoryInv'
<1> SUFFICES ASSUME InventoryInv, Drafting PROVE InventoryInv'
  OBVIOUS
<1> USE DEF LineRows
<1>1. ASSUME NEW d \in Docs PROVE line[d] \in [Products -> LineRows \cup {None}]
  BY DEF InventoryInv, TablesSound
<1>2. ASSUME NEW q \in Nat PROVE Line(q) \in LineRows
  BY DEF Line
<1>3. Quantities \subseteq Nat \ {0}
  BY InventoryConstants DEF InventoryConstants
<1>4. ASSUME NEW d \in Docs, NEW p \in Lines(d)
      PROVE  p \in Products /\ line[d][p] \in LineRows /\ Quantity(d, p) \in Nat
  BY <1>1 DEF Lines, Quantity
<1>5. ASSUME NEW d \in Docs, NEW p \in Products, NEW q \in Quantities, AddLine(d, p, q)
      PROVE  InventoryInv'
  <2> DEFINE total == q + (IF p \in Lines(d) THEN Quantity(d, p) ELSE 0)
  <2>1. total \in Nat
    BY <1>3, <1>4
  <2>2. [line[d] EXCEPT ![p] = Line(total)] \in [Products -> LineRows \cup {None}]
    <3> HIDE DEF total
    <3> QED BY <1>1, <1>2, <2>1
  <2>3. EditsLines(d, [line[d] EXCEPT ![p] = Line(total)])
    BY <1>5 DEF AddLine
  <2> QED BY <2>2, <2>3, EditsLinesKeeps
<1>6. ASSUME NEW d \in Docs, NEW p \in Products, NEW q \in Quantities \cup {0}, UpdateLine(d, p, q)
      PROVE  InventoryInv'
  <2>1. p \in Lines(d)
    BY <1>6 DEF UpdateLine
  <2>2. [line[d][p] EXCEPT !.quantity = q] \in LineRows
    BY <1>3, <1>4, <2>1
  <2>3. [line[d] EXCEPT ![p] = [line[d][p] EXCEPT !.quantity = q]] \in [Products -> LineRows \cup {None}]
    BY <1>1, <2>2
  <2>4. [line[d] EXCEPT ![p].quantity = q] = [line[d] EXCEPT ![p] = [line[d][p] EXCEPT !.quantity = q]]
    OBVIOUS
  <2> QED BY <1>6, <2>3, <2>4, EditsLinesKeeps DEF UpdateLine
<1>7. ASSUME NEW d \in Docs, NEW p \in Products, RemoveLine(d, p) PROVE InventoryInv'
  <2>1. [line[d] EXCEPT ![p] = None] \in [Products -> LineRows \cup {None}]
    BY <1>1
  <2> QED BY <1>7, <2>1, EditsLinesKeeps DEF RemoveLine
<1>8. ASSUME NEW d \in Docs, NEW batch \in Batches, SetLines(d, batch) PROVE InventoryInv'
  <2>1. \A p \in DOMAIN batch : batch[p] \in Nat
    <3>1. PICK S \in SUBSET Products : batch \in [S -> Quantities \cup {0}]
      BY DEF Batches
    <3>2. \A q \in Quantities \cup {0} : q \in Nat
      BY <1>3
    <3> QED BY <3>1, <3>2
  <2>2. [p \in Products |-> IF p \in DOMAIN batch THEN Line(batch[p]) ELSE line[d][p]]
           \in [Products -> LineRows \cup {None}]
    BY <1>1, <1>2, <2>1
  <2> QED BY <1>8, <2>2, EditsLinesKeeps DEF SetLines
<1>9. ASSUME NEW d \in Docs, NEW items \in OrderItems, AddSalesOrderItems(d, items) PROVE InventoryInv'
  <2>1. \A p \in DOMAIN items : items[p] \in Nat
    BY <1>3, ZenonT(40) DEF OrderItems
  <2>2. [p \in Products |-> IF p \in DOMAIN items /\ p \notin Lines(d) THEN Line(items[p]) ELSE line[d][p]]
           \in [Products -> LineRows \cup {None}]
    BY <1>1, <1>2, <2>1
  <2> QED BY <1>9, <2>2, EditsLinesKeeps DEF AddSalesOrderItems
<1> QED BY <1>5, <1>6, <1>7, <1>8, <1>9, CreateDraftKeeps, UpdateHeaderKeeps DEF Drafting

-----------------------------------------------------------------------------
(***************************************************************************)
(* Locks.                                                                  *)
(***************************************************************************)
\* The warehouses of a sound document are places.
LEMMA PlacesToLock ==
    ASSUME InventoryInv, NEW d \in Docs, doc[d] # None, NEW places \in SUBSET Places
    PROVE  /\ WarehousesToLock(d, places) \in SUBSET Places
           /\ WarehousesToLock(d, {}) \subseteq WarehousesToLock(d, places)
<1>1. doc[d] \in DocumentRows
  BY DEF InventoryInv, TablesSound
<1> QED BY <1>1, PlacesAreApart DEF WarehousesToLock, HeaderPlaces, DocumentRows

\* A request that locks a document's row knows which warehouses come next.
LEMMA LocksDocumentKeeps ==
    ASSUME InventoryInv, NEW r \in Requests, NEW d \in Docs, doc[d] # None,
           NEW op \in StockOps, op = "dispatch" => doc[d].kind = "transfer",
           NEW places \in SUBSET Places, LocksDocument(r, d, op, places)
    PROVE  InventoryInv'
<1> DEFINE S == WarehousesToLock(d, places)
           want == Ascending(S, d)
           x == Request(op, [doc |-> d], {DocRow(d)}, want)
<1>1. S \in SUBSET Places /\ WarehousesToLock(d, {}) \subseteq S
  BY PlacesToLock
<1>2. /\ want \in Seq({PlaceRow(w) : w \in S})
      /\ \A w \in S : \E i \in DOMAIN want : want[i] = PlaceRow(w)
      /\ \A i, j \in DOMAIN want : \A v, w \in Places :
            i < j /\ want[i] = PlaceRow(v) /\ want[j] = PlaceRow(w) => v < w
  <2>1. RowsInOrder(want, S)
    BY <1>1, AscendingLocksAll
  <2> HIDE DEF S, want
  <2> QED BY <2>1 DEF RowsInOrder
<1>3. txn' = [txn EXCEPT ![r] = x] /\ UNCHANGED tables /\ Free(r, {DocRow(d)})
  BY DEF LocksDocument
<1>4. txn'[r] = x
  BY <1>3 DEF InventoryInv
<1> HIDE DEF S, want
<1>5. x.op = op /\ x.rows = {DocRow(d)} /\ x.arg.doc = d /\ x.want = want
  BY DEF Request
<1>6. \A i \in DOMAIN want : \E w \in S : want[i] = PlaceRow(w)
  BY <1>2
<1> HIDE DEF x
<1>7. LocksAhead(r)'
  <2>1. WarehousesToLock(d, {})' = WarehousesToLock(d, {})
    BY <1>3 DEF WarehousesToLock, HeaderPlaces, tables
  <2>2. \A w \in WarehousesToLock(d, {}) : \E i \in DOMAIN want : want[i] = PlaceRow(w)
    BY <1>1, <1>2
  <2>3. \E rows : want \in Seq(rows)
    BY <1>2
  <2> QED BY <1>4, <1>5, <2>1, <2>2, <2>3 DEF LocksAhead
<1>8. LocksAscend(r)'
  <2>1. \A v \in Places : PlaceRow(v) \notin x.rows
    BY <1>5 DEF PlaceRow, DocRow
  <2> QED BY <1>1, <1>2, <1>4, <1>5, <1>6, <2>1 DEF LocksAscend
<1>9. RequestSound(r)'
  BY <1>3, <1>4, <1>5, <1>7, <1>8 DEF RequestSound, StockOps, tables
<1> QED BY <1>3, <1>5, <1>9, StepOfOne

\* A step begins with the row of its document.
LEMMA StockBeginKeeps ==
    ASSUME InventoryInv, NEW r \in Requests, NEW d \in Docs, doc[d] # None,
           NEW op \in StepsOf(doc[d].kind), StockBegin(r, d, op)
    PROVE  InventoryInv'
<1>1. op \in StockOps /\ (op = "dispatch" => doc[d].kind = "transfer")
  BY DEF StepsOf, StockOps
<1> QED BY <1>1, LocksDocumentKeeps DEF StockBegin

\* A cancellation begins with a read of where the document has posted.
LEMMA CancelBeginKeeps ==
    ASSUME InventoryInv, NEW r \in Requests, NEW d \in Docs, CancelBegin(r, d)
    PROVE  InventoryInv'
<1> DEFINE x == Request("cancel_locks", [doc |-> d, ledger |-> LedgerPlaces(d)], {}, <<DocRow(d)>>)
<1>1. txn' = [txn EXCEPT ![r] = x] /\ UNCHANGED tables /\ doc[d] # None
  BY DEF CancelBegin, Begins
<1>2. x.op = "cancel_locks" /\ x.rows = {} /\ x.arg.doc = d /\ x.arg.ledger = LedgerPlaces(d)
  BY DEF Request
<1> HIDE DEF x
<1>6. LedgerPlaces(d) \in SUBSET Places
  <2>1. DOMAIN ledger[d] \subseteq Places \X Products
    BY <1>1 DEF InventoryInv, TablesSound, DocumentSound, EntriesSound, Keys
  <2> QED BY <2>1 DEF LedgerPlaces
<1>3. txn'[r] = x
  BY <1>1 DEF InventoryInv
<1>4. RequestSound(r)'
  BY <1>1, <1>2, <1>3, <1>6 DEF RequestSound, StockOps, tables
<1>5. Free(r, x.rows)
  BY <1>2 DEF Free
<1> QED BY <1>1, <1>4, <1>5, StepOfOne

\* The warehouses a pre-read found are places: the ledger has no others.
LEMMA CancelLocksKeeps ==
    ASSUME InventoryInv, NEW r \in Requests, CancelLocks(r)
    PROVE  InventoryInv'
<1>1. txn[r].arg.doc \in Docs /\ doc[txn[r].arg.doc] # None /\ txn[r].arg.ledger \in SUBSET Places
  BY DEF CancelLocks, InventoryInv, RequestSound, StockOps
<1>2. "cancel" \in StockOps /\ "cancel" # "dispatch"
  BY DEF StockOps
<1> QED BY <1>1, <1>2, LocksDocumentKeeps DEF CancelLocks

\* The next warehouse is above those held, and no other transaction holds it.
LEMMA LockWarehouseKeeps ==
    ASSUME InventoryInv, NEW r \in Requests, LockWarehouse(r)
    PROVE  InventoryInv'
<1> DEFINE t == txn[r]
           x == Request(t.op, t.arg, t.rows \cup {Head(t.want)}, Tail(t.want))
<1>1. /\ t.op # "idle" /\ t.op # "cancel_locks" /\ t.want # << >> /\ Free(r, {Head(t.want)})
      /\ txn' = [txn EXCEPT ![r] = x] /\ UNCHANGED tables
  BY DEF LockWarehouse, LocksNext, InventoryInv
<1>2. RequestSound(r)
  BY DEF InventoryInv
<1>3. t.op \in StockOps /\ LocksAhead(r) /\ LocksAscend(r)
  BY <1>1, <1>2 DEF RequestSound
<1>4. PICK rows : t.want \in Seq(rows)
  BY <1>3 DEF LocksAhead
<1>5. /\ Len(t.want) \in Nat /\ Len(t.want) >= 1 /\ DOMAIN t.want = 1..Len(t.want)
      /\ Head(t.want) = t.want[1]
      /\ Tail(t.want) \in Seq(rows) /\ DOMAIN Tail(t.want) = 1..(Len(t.want) - 1)
      /\ \A i \in 1..(Len(t.want) - 1) : Tail(t.want)[i] = t.want[i + 1]
  <2> HIDE DEF t
  <2> QED BY <1>1, <1>4
<1>6. txn'[r] = x
  BY <1>1 DEF InventoryInv
<1>7. /\ x.op = t.op /\ x.arg = t.arg /\ x.rows = t.rows \cup {t.want[1]} /\ x.want = Tail(t.want)
  BY <1>5 DEF Request
<1> HIDE DEF x
<1>8. LocksAhead(r)'
  <2>1. WarehousesToLock(t.arg.doc, {})' = WarehousesToLock(t.arg.doc, {})
    BY <1>1, <1>6, <1>7 DEF WarehousesToLock, HeaderPlaces, tables
  <2>2. ASSUME NEW w \in WarehousesToLock(t.arg.doc, {})
        PROVE  \/ PlaceRow(w) \in x.rows
               \/ \E i \in DOMAIN x.want : x.want[i] = PlaceRow(w)
    <3>1. CASE PlaceRow(w) \in t.rows
      BY <1>7, <3>1
    <3>2. CASE \E i \in DOMAIN t.want : t.want[i] = PlaceRow(w)
      <4>1. PICK i \in 1..Len(t.want) : t.want[i] = PlaceRow(w)
        BY <1>5, <3>2
      <4>2. CASE i = 1
        BY <1>7, <4>1, <4>2
      <4>3. CASE i # 1
        <5>1. i - 1 \in 1..(Len(t.want) - 1) /\ (i - 1) + 1 = i
          BY <1>5, <4>1, <4>3
        <5>2. Tail(t.want)[i - 1] = PlaceRow(w)
          BY <1>5, <4>1, <5>1
        <5> QED BY <1>5, <1>7, <5>1, <5>2
      <4> QED BY <4>2, <4>3
    <3> QED BY <1>3, <3>1, <3>2 DEF LocksAhead
  <2> QED BY <1>5, <1>6, <1>7, <2>1, <2>2 DEF LocksAhead
<1>9. LocksAscend(r)'
  <2>1. \A i \in DOMAIN x.want : \E w \in Places : x.want[i] = PlaceRow(w)
    BY <1>3, <1>5, <1>7 DEF LocksAscend
  <2>2. ASSUME NEW i \in DOMAIN x.want, NEW j \in DOMAIN x.want, NEW v \in Places, NEW w \in Places,
               i < j, x.want[i] = PlaceRow(v), x.want[j] = PlaceRow(w)
        PROVE  v < w
    <3>1. /\ i + 1 \in DOMAIN t.want /\ j + 1 \in DOMAIN t.want /\ i + 1 < j + 1
          /\ t.want[i + 1] = PlaceRow(v) /\ t.want[j + 1] = PlaceRow(w)
      BY <1>5, <1>7, <2>2
    <3> QED BY <1>3, <3>1 DEF LocksAscend
  <2>3. ASSUME NEW i \in DOMAIN x.want, NEW v \in Places, NEW w \in Places,
               PlaceRow(v) \in x.rows, x.want[i] = PlaceRow(w)
        PROVE  v < w
    <3>1. i + 1 \in DOMAIN t.want /\ 1 \in DOMAIN t.want /\ 1 < i + 1 /\ t.want[i + 1] = PlaceRow(w)
      BY <1>5, <1>7, <2>3
    <3>2. PlaceRow(v) \in t.rows \/ PlaceRow(v) = t.want[1]
      BY <1>7, <2>3
    <3> QED BY <1>3, <3>1, <3>2 DEF LocksAscend
  <2> QED BY <1>6, <1>7, <2>1, <2>2, <2>3 DEF LocksAscend
<1>10. RequestSound(r)'
  BY <1>1, <1>2, <1>3, <1>6, <1>7, <1>8, <1>9 DEF RequestSound, StockOps, tables
<1>11. Free(r, x.rows)
  <2>1. Free(r, t.rows)
    BY <1>1 DEF InventoryInv, Holds
  <2> QED BY <1>1, <1>5, <1>7, <2>1 DEF Free
<1> QED BY <1>1, <1>10, <1>11, StepOfOne

\* A request that has all its locks holds its document's warehouses.
LEMMA LockedHolds ==
    ASSUME InventoryInv, NEW r \in Requests, NEW op \in StockOps, Locked(r, op)
    PROVE  /\ txn[r].arg.doc \in Docs /\ doc[txn[r].arg.doc] # None
           /\ DocRow(txn[r].arg.doc) \in txn[r].rows
           /\ \A w \in PlacesOf(doc[txn[r].arg.doc]) \ {None} : PlaceRow(w) \in txn[r].rows
           /\ DocumentSound(doc[txn[r].arg.doc], line[txn[r].arg.doc], ledger[txn[r].arg.doc])
<1>1. RequestSound(r) /\ txn[r].op \in StockOps /\ txn[r].want = << >>
  BY DEF InventoryInv, Locked
<1>2. txn[r].arg.doc \in Docs /\ doc[txn[r].arg.doc] # None /\ DocRow(txn[r].arg.doc) \in txn[r].rows
  BY <1>1 DEF RequestSound, StockOps
<1>3. \A w \in WarehousesToLock(txn[r].arg.doc, {}) : PlaceRow(w) \in txn[r].rows
  BY <1>1 DEF RequestSound, LocksAhead
<1>4. doc[txn[r].arg.doc] \in DocumentRows
  BY <1>2 DEF InventoryInv, TablesSound
<1>5. PlacesOf(doc[txn[r].arg.doc]) \ {None} \subseteq WarehousesToLock(txn[r].arg.doc, {})
  BY DEF PlacesOf, WarehousesToLock, HeaderPlaces
<1> QED BY <1>2, <1>3, <1>5 DEF InventoryInv, TablesSound

\* A refusal releases what was locked, and changes nothing.
LEMMA RollbackKeeps ==
    ASSUME InventoryInv, NEW r \in Requests, Rollback(r)
    PROVE  InventoryInv'
<1>1. txn' = [txn EXCEPT ![r] = Idle] /\ UNCHANGED tables
  BY DEF Rollback, Ends
<1>2. Idle.op = "idle"
  BY DEF Idle
<1>3. txn'[r] = Idle
  BY <1>1 DEF InventoryInv
<1>4. RequestSound(r)'
  BY <1>2, <1>3 DEF RequestSound, StockOps
<1> QED BY <1>1, <1>2, <1>4, StepOfOne

-----------------------------------------------------------------------------
(***************************************************************************)
(* Decisions.                                                              *)
(***************************************************************************)
\* Postings add up, entry by entry.
LEMMA EntryOfAdded ==
    ASSUME NEW entries, NEW posting, NEW k,
           \A j \in DOMAIN entries : entries[j] \in Int,
           \A j \in DOMAIN posting : posting[j] \in Int
    PROVE  /\ EntryOf(entries, k) \in Int /\ EntryOf(posting, k) \in Int
           /\ EntryOf(Added(entries, posting), k) = EntryOf(entries, k) + EntryOf(posting, k)
<1>1. EntryOf(entries, k) \in Int /\ EntryOf(posting, k) \in Int
  BY DEF EntryOf
<1>2. CASE k \in DOMAIN entries \cup DOMAIN posting
  <2>1. EntryOf(Added(entries, posting), k) = EntryOf(entries, k) + EntryOf(posting, k)
    <3>1. Added(entries, posting)[k] = EntryOf(entries, k) + EntryOf(posting, k)
      BY <1>2 DEF Added
    <3>2. k \in DOMAIN Added(entries, posting)
      BY <1>2 DEF Added
    <3>3. EntryOf(Added(entries, posting), k) = Added(entries, posting)[k]
      BY <3>2 DEF EntryOf
    <3> QED BY <3>1, <3>3
  <2> QED BY <1>1, <2>1
<1>3. CASE k \notin DOMAIN entries \cup DOMAIN posting
  <2>1. k \notin DOMAIN Added(entries, posting)
    BY <1>3 DEF Added
  <2> QED BY <1>1, <1>3, <2>1 DEF EntryOf
<1> QED BY <1>2, <1>3

\* A posting of whole numbers within a document's own places.
PostingSound(header, posting) ==
    /\ DOMAIN posting \subseteq Keys
    /\ \A k \in DOMAIN posting : posting[k] \in Int /\ k[1] \in PlacesOf(header) \ {None}

\* The entries of a completed document with one more posting.
LEMMA PostedIsSound ==
    ASSUME NEW header, NEW lines, NEW entries, EntriesSound(header, lines, entries),
           NEW posting, PostingSound(header, posting),
           NEW header2, NEW lines2, header2.completed, PlacesOf(header2) = PlacesOf(header),
           \A w \in Places, p \in Products :
              EntryOf(entries, <<w, p>>) + EntryOf(posting, <<w, p>>) = Effect(header2, lines2, w, p)
    PROVE  EntriesSound(header2, lines2, Added(entries, posting))
<1>1. /\ \A k \in DOMAIN entries : entries[k] \in Int /\ k[1] \in PlacesOf(header)
      /\ DOMAIN entries \subseteq Keys
  BY DEF EntriesSound
<1>2. DOMAIN Added(entries, posting) = DOMAIN entries \cup DOMAIN posting
  BY DEF Added
<1>3. \A k \in DOMAIN Added(entries, posting) :
         Added(entries, posting)[k] = EntryOf(entries, k) + EntryOf(posting, k)
  BY DEF Added
<1>4. ASSUME NEW k \in DOMAIN Added(entries, posting)
      PROVE  Added(entries, posting)[k] \in Int /\ k[1] \in PlacesOf(header2)
  <2>1. EntryOf(entries, k) \in Int /\ EntryOf(posting, k) \in Int
    BY <1>1, EntryOfAdded DEF PostingSound
  <2>2. k[1] \in PlacesOf(header)
    BY <1>1, <1>2, <1>4 DEF PostingSound
  <2> QED BY <1>3, <2>1, <2>2
<1>5. ASSUME NEW k \in Keys
      PROVE  EntryOf(Added(entries, posting), k) = Effect(header2, lines2, k[1], k[2])
  <2>1. PICK w \in Places, p \in Products : k = <<w, p>>
    BY DEF Keys
  <2>2. EntryOf(Added(entries, posting), k) = EntryOf(entries, k) + EntryOf(posting, k)
    BY <1>1, EntryOfAdded DEF PostingSound
  <2> QED BY <2>1, <2>2
<1> QED BY <1>1, <1>2, <1>4, <1>5 DEF EntriesSound, PostingSound

\* What a decision must establish.
LEMMA DecidesKeeps ==
    ASSUME InventoryInv, NEW r \in Requests, NEW op \in StockOps, Locked(r, op),
           NEW d, d = txn[r].arg.doc, NEW posting, NEW header, NEW lines,
           Decides(r, posting, header, lines),
           PostingSound(doc[d], posting),
           DocumentSound(header, lines, Added(ledger[d], posting)),
           Follows(doc[d], line[d], header, lines),
           doc[d].kind = "count" /\ ~ doc[d].completed /\ header.completed =>
              \A p \in Products : lines[p] # None =>
                 onHand[<<doc[d].warehouse, p>>] + EntryOf(posting, <<doc[d].warehouse, p>>)
                    = lines[p].quantity
    PROVE  InventoryInv'
<1> DEFINE x == Request("write", [doc |-> txn[r].arg.doc, posting |-> posting,
                                  header |-> header, lines |-> lines], txn[r].rows, << >>)
<1>1. txn' = [txn EXCEPT ![r] = x] /\ UNCHANGED tables
  BY DEF Decides, InventoryInv
<1>2. /\ x.op = "write" /\ x.rows = txn[r].rows /\ x.want = << >>
      /\ x.arg.doc = d /\ x.arg.posting = posting /\ x.arg.header = header /\ x.arg.lines = lines
  BY DEF Request
<1> HIDE DEF x
<1>3. txn'[r] = x
  BY <1>1 DEF InventoryInv
<1>4. /\ d \in Docs /\ doc[d] # None /\ DocRow(d) \in txn[r].rows
      /\ \A w \in PlacesOf(doc[d]) \ {None} : PlaceRow(w) \in txn[r].rows
  BY LockedHolds
<1>5. doc' = doc /\ line' = line /\ ledger' = ledger /\ onHand' = onHand
  BY <1>1 DEF tables
<1>6. doc[d].warehouse \in PlacesOf(doc[d]) \ {None}
  <2>1. doc[d] \in DocumentRows
    BY <1>4 DEF InventoryInv, TablesSound
  <2> QED BY <2>1, PlacesAreApart DEF DocumentRows, PlacesOf
<1>7. CountSound(r)'
  BY <1>2, <1>3, <1>4, <1>5, <1>6 DEF CountSound
<1>8. WriteSound(r)'
  BY <1>2, <1>3, <1>4, <1>5, <1>7 DEF WriteSound, PostingSound
<1>9. RequestSound(r)'
  BY <1>2, <1>3, <1>4, <1>5, <1>8 DEF RequestSound, StockOps
<1>10. Free(r, x.rows)
  BY <1>2 DEF InventoryInv, Free, Holds, Locked, StockOps
<1> QED BY <1>1, <1>9, <1>10, StepOfOne

\* The rows of a document that is there, and its number once confirmed.
LEMMA NumberedSound ==
    ASSUME InventoryInv, NEW d \in Docs, doc[d] # None
    PROVE  /\ doc[d] \in DocumentRows
           /\ Numbered(d) \in DocumentRows
           /\ Numbered(d) = [doc[d] EXCEPT !.serial = Numbered(d).serial, !.completed = TRUE]
<1>1. doc[d] \in DocumentRows
  BY DEF InventoryInv, TablesSound
<1>2. \A e \in Docs : doc[e] # None => doc[e].serial \in Nat
  BY DEF InventoryInv, TablesSound, DocumentRows
<1>3. NextSerial(doc[d].kind, doc[d].facility) \in Nat
  BY <1>2, SerialType
<1> QED BY <1>1, <1>3 DEF Numbered, DocumentRows

\* Lines and quantities of a document.
LEMMA LineFacts ==
    ASSUME InventoryInv, NEW d \in Docs
    PROVE  /\ line[d] \in [Products -> LineRows \cup {None}]
           /\ Lines(d) = {p \in Products : line[d][p] # None}
           /\ \A p \in Lines(d) : /\ line[d][p] \in LineRows
                                  /\ Quantity(d, p) = line[d][p].quantity
                                  /\ Quantity(d, p) \in Nat
<1>1. line[d] \in [Products -> LineRows \cup {None}]
  BY DEF InventoryInv, TablesSound
<1> QED BY <1>1 DEF Lines, Quantity, LineRows

\* A receipt or an issue posts its lines.
LEMMA ConfirmSimpleKeeps ==
    ASSUME InventoryInv, NEW r \in Requests, ConfirmSimple(r)
    PROVE  InventoryInv'
<1> DEFINE d == txn[r].arg.doc
           sign == IF doc[d].kind = "issue" THEN -1 ELSE 1
           posting == [k \in {doc[d].warehouse} \X Lines(d) |-> sign * Quantity(d, k[2])]
           header == Numbered(d)
<1>1. /\ Locked(r, "confirm") /\ doc[d].kind \in {"receipt", "issue"} /\ Editable(d)
      /\ Decides(r, posting, header, line[d])
  BY DEF ConfirmSimple, Confirmable
<1>2. "confirm" \in StockOps
  BY DEF StockOps
<1>3. d \in Docs /\ DocumentSound(doc[d], line[d], ledger[d])
  BY <1>1, <1>2, LockedHolds, SMTT(40)
<1>4. /\ doc[d] # None /\ doc[d] \in DocumentRows /\ ~ doc[d].completed /\ ~ doc[d].in_transit
      /\ ~ doc[d].cancelled /\ DOMAIN ledger[d] = {} /\ doc[d].to = None
  BY <1>1, <1>3, DraftFacts, SMTT(40)
<1>5. /\ header \in DocumentRows
      /\ header = [doc[d] EXCEPT !.serial = header.serial, !.completed = TRUE]
  BY <1>3, <1>4, NumberedSound
<1> HIDE DEF header
<1>6. /\ line[d] \in [Products -> LineRows \cup {None}]
      /\ Lines(d) = {p \in Products : line[d][p] # None}
      /\ \A p \in Lines(d) : /\ line[d][p] \in LineRows /\ Quantity(d, p) \in Nat
                             /\ Quantity(d, p) = line[d][p].quantity
  BY <1>3, LineFacts
<1>7. /\ header.kind = doc[d].kind /\ header.completed /\ ~ header.cancelled /\ ~ header.in_transit
      /\ header.warehouse = doc[d].warehouse /\ header.to = None /\ header.facility = doc[d].facility
  BY <1>4, <1>5 DEF DocumentRows
<1>8. doc[d].warehouse \in Places \ {None}
  BY <1>4, PlacesAreApart DEF DocumentRows
<1>9. PostingSound(doc[d], posting)
  <2>1. DOMAIN posting = {doc[d].warehouse} \X Lines(d)
    OBVIOUS
  <2>2. \A k \in {doc[d].warehouse} \X Lines(d) : k[1] = doc[d].warehouse /\ k[2] \in Lines(d)
    BY SMTT(40)
  <2>3. \A k \in {doc[d].warehouse} \X Lines(d) : posting[k] \in Int
    BY <1>6, <2>2
  <2>4. DOMAIN posting \subseteq Keys
    BY <1>6, <1>8, <2>1 DEF Keys
  <2> HIDE DEF posting
  <2> QED BY <1>8, <2>1, <2>2, <2>3, <2>4 DEF PostingSound, PlacesOf
<1>10. ASSUME NEW w \in Places, NEW p \in Products
       PROVE  EntryOf(ledger[d], <<w, p>>) + EntryOf(posting, <<w, p>>) = Effect(header, line[d], w, p)
  <2>1. EntryOf(ledger[d], <<w, p>>) = 0
    BY <1>4 DEF EntryOf
  <2>2. <<w, p>> \in DOMAIN posting <=> (w = doc[d].warehouse /\ p \in Lines(d))
    OBVIOUS
  <2>3. <<w, p>> \in DOMAIN posting => posting[<<w, p>>] = sign * Quantity(d, p)
    OBVIOUS
  <2>4. EntryOf(posting, <<w, p>>) =
           IF w = doc[d].warehouse /\ p \in Lines(d) THEN sign * Quantity(d, p) ELSE 0
    <3> HIDE DEF posting
    <3> QED BY <2>2, <2>3 DEF EntryOf
  <2>5. p \notin Lines(d) => Effect(header, line[d], w, p) = 0
    BY <1>6 DEF Effect
  <2>6. p \in Lines(d) => Effect(header, line[d], w, p) =
                            IF w = doc[d].warehouse THEN sign * Quantity(d, p) ELSE 0
    <3>1. CASE doc[d].kind = "receipt"
      BY <1>6, <1>7, <3>1 DEF Effect
    <3>2. CASE doc[d].kind = "issue"
      BY <1>6, <1>7, <3>2 DEF Effect
    <3> QED BY <1>1, <3>1, <3>2
  <2> HIDE DEF posting
  <2>7. CASE p \notin Lines(d)
    BY <2>1, <2>4, <2>5, <2>7
  <2>8. CASE p \in Lines(d)
    <3>1. sign * Quantity(d, p) \in Int
      <4>1. Quantity(d, p) \in Nat
        BY <1>6, <2>8
      <4> QED BY <4>1
    <3> QED BY <2>1, <2>4, <2>6, <2>8, <3>1
  <2> QED BY <2>7, <2>8
<1> HIDE DEF posting
<1>11. EntriesSound(header, line[d], Added(ledger[d], posting))
  <2>1. PlacesOf(header) = PlacesOf(doc[d])
    BY <1>4, <1>7 DEF PlacesOf
  <2> QED BY <1>3, <1>7, <1>9, <1>10, <2>1, PostedIsSound DEF DocumentSound
<1>12. DocumentSound(header, line[d], Added(ledger[d], posting))
  <2>1. HeaderSound(header, line[d])
    BY <1>1, <1>5, <1>7 DEF HeaderSound
  <2>2. LinesSound(header, line[d])
    BY <1>1, <1>7 DEF LinesSound
  <2> QED BY <1>6, <1>11, <2>1, <2>2, SMTT(40) DEF DocumentSound
<1>13. Follows(doc[d], line[d], header, line[d]) /\ doc[d].kind # "count"
  BY <1>1, <1>4 DEF Follows
<1> QED BY <1>1, <1>2, <1>9, <1>12, <1>13, DecidesKeeps

\* A count posts the differences it found under the lock of its warehouse.
LEMMA ConfirmCountKeeps ==
    ASSUME InventoryInv, NEW r \in Requests, NEW include_uncounted \in BOOLEAN,
           ConfirmCount(r, include_uncounted)
    PROVE  InventoryInv'
<1> DEFINE d == txn[r].arg.doc
           found(p) == onHand[<<doc[d].warehouse, p>>]
           uncounted == {p \in Products \ Lines(d) : include_uncounted /\ found(p) # 0}
           counted(p) == IF p \in uncounted THEN 0 ELSE Quantity(d, p)
           all == Lines(d) \cup uncounted
           moved == {p \in all : counted(p) # found(p)}
           posting == [k \in {doc[d].warehouse} \X moved |-> counted(k[2]) - found(k[2])]
           header == Numbered(d)
           lines == [p \in Products |-> IF p \in all THEN [Line(counted(p)) EXCEPT !.found = found(p)]
                                        ELSE None]
<1>1. /\ Locked(r, "confirm") /\ doc[d].kind = "count" /\ Editable(d)
      /\ Decides(r, posting, header, lines)
  BY Zenon DEF ConfirmCount
<1>2. "confirm" \in StockOps
  BY SMTT(40) DEF StockOps
<1>3. d \in Docs /\ DocumentSound(doc[d], line[d], ledger[d])
  BY <1>1, <1>2, LockedHolds, ZenonT(40)
<1>4. /\ doc[d] # None /\ doc[d] \in DocumentRows /\ ~ doc[d].completed /\ ~ doc[d].in_transit
      /\ ~ doc[d].cancelled /\ DOMAIN ledger[d] = {} /\ doc[d].to = None
  BY <1>1, <1>3, DraftFacts, ZenonT(40)
<1>5. /\ header \in DocumentRows
      /\ header = [doc[d] EXCEPT !.serial = header.serial, !.completed = TRUE]
  BY <1>3, <1>4, NumberedSound, ZenonT(40)
<1> HIDE DEF header
<1>6. /\ header.kind = "count" /\ header.completed /\ ~ header.cancelled /\ ~ header.in_transit
      /\ header.warehouse = doc[d].warehouse /\ header.to = None /\ header.facility = doc[d].facility
  BY <1>1, <1>4, <1>5, Zenon DEF DocumentRows
<1>7. doc[d].warehouse \in Places \ {None}
  BY <1>4, PlacesAreApart DEF DocumentRows
<1>8. ASSUME NEW p \in Products PROVE found(p) \in Int
  BY <1>7 DEF InventoryInv, TablesSound, Keys
<1>9. /\ Lines(d) = {p \in Products : line[d][p] # None}
      /\ \A p \in Lines(d) : Quantity(d, p) \in Nat
  BY <1>3, LineFacts
<1>10. ASSUME NEW p \in all PROVE p \in Products /\ counted(p) \in Nat
  BY <1>9
<1>11. ASSUME NEW p \in Products
       PROVE  lines[p] = IF p \in all
                         THEN [quantity |-> counted(p), received |-> None, found |-> found(p)]
                         ELSE None
  BY DEF Line
<1>12. \A p \in all : lines[p] # None /\ lines[p].quantity = counted(p) /\ lines[p].found = found(p)
  <2>1. \A p \in all : [quantity |-> counted(p), received |-> None, found |-> found(p)] \in LineRows
    BY <1>8, <1>10, SMTT(40) DEF LineRows
  <2> SUFFICES ASSUME NEW p \in all
               PROVE  lines[p] # None /\ lines[p].quantity = counted(p) /\ lines[p].found = found(p)
    BY Zenon
  <2>2. lines[p] = [quantity |-> counted(p), received |-> None, found |-> found(p)]
    <3>1. p \in Products
      BY <1>10
    <3> HIDE DEF all, lines, counted, found
    <3> QED BY <1>11, <3>1
  <2> HIDE DEF all, lines, counted, found
  <2> QED BY <2>1, <2>2, NoneIsNoInventoryRow DEF NoneIsNoInventoryRow
<1>13. \A p \in Products : p \notin all => lines[p] = None
  OBVIOUS
<1>14. ASSUME NEW w \in Places, NEW p \in Products
       PROVE  EntryOf(posting, <<w, p>>) =
                 IF w = doc[d].warehouse /\ p \in all THEN counted(p) - found(p) ELSE 0
  <2>1. <<w, p>> \in DOMAIN posting <=> (w = doc[d].warehouse /\ p \in moved)
    BY SMTT(40)
  <2>2. <<w, p>> \in DOMAIN posting => posting[<<w, p>>] = counted(p) - found(p)
    BY Zenon
  <2>3. p \in moved <=> p \in all /\ counted(p) # found(p)
    OBVIOUS
  <2>4. p \in all => counted(p) \in Int /\ found(p) \in Int
    BY <1>8, <1>10, SMTT(40)
  <2> HIDE DEF posting, all, moved, counted, found
  <2> QED BY <2>1, <2>2, <2>3, <2>4 DEF EntryOf
<1>15. PostingSound(doc[d], posting)
  <2>1. DOMAIN posting = {doc[d].warehouse} \X moved
    BY SMTT(40)
  <2>2. \A k \in {doc[d].warehouse} \X moved : k[1] = doc[d].warehouse /\ k[2] \in moved
    BY ZenonT(40)
  <2>3. \A p \in moved : p \in Products /\ counted(p) - found(p) \in Int
    BY <1>8, <1>10
  <2>4. \A k \in {doc[d].warehouse} \X moved : posting[k] \in Int
    <3>1. \A k \in {doc[d].warehouse} \X moved : posting[k] = counted(k[2]) - found(k[2])
      BY Zenon
    <3> HIDE DEF posting, moved, counted, found
    <3> QED BY <2>2, <2>3, <3>1, SMTT(40)
  <2>5. DOMAIN posting \subseteq Keys
    <3> HIDE DEF posting, moved
    <3> QED BY <1>7, <2>1, <2>3 DEF Keys
  <2> HIDE DEF posting, moved
  <2> QED BY <1>7, <2>1, <2>2, <2>4, <2>5 DEF PostingSound, PlacesOf
<1>16. lines \in [Products -> LineRows \cup {None}]
  <2>1. ASSUME NEW p \in Products PROVE lines[p] \in LineRows \cup {None}
    <3>1. p \in all =>
             [quantity |-> counted(p), received |-> None, found |-> found(p)] \in LineRows
      BY <1>8, <1>10 DEF LineRows
    <3> HIDE DEF all, lines, counted, found
    <3> QED BY <1>11, <3>1
  <2>2. lines = [p \in Products |-> lines[p]]
    <3> HIDE DEF all, counted, found
    <3> QED OBVIOUS
  <2> HIDE DEF lines
  <2> QED BY <2>1, <2>2
<1> HIDE DEF posting, lines, all
<1>17. \A p \in all : p \in Products /\ counted(p) \in Nat /\ found(p) \in Int
  BY <1>8, <1>10
<1> HIDE DEF counted
<1>18. ASSUME NEW w \in Places, NEW p \in Products
       PROVE  EntryOf(ledger[d], <<w, p>>) + EntryOf(posting, <<w, p>>) = Effect(header, lines, w, p)
  <2>1. EntryOf(ledger[d], <<w, p>>) = 0
    BY <1>4 DEF EntryOf
  <2>2. p \notin all => Effect(header, lines, w, p) = 0
    BY <1>13 DEF Effect
  <2>3. p \in all => Effect(header, lines, w, p) =
                       IF w = doc[d].warehouse THEN counted(p) - found(p) ELSE 0
    BY <1>6, <1>12 DEF Effect
  <2> HIDE DEF found
  <2> QED BY <1>14, <1>17, <2>1, <2>2, <2>3
<1>19. EntriesSound(header, lines, Added(ledger[d], posting))
  <2>1. PlacesOf(header) = PlacesOf(doc[d])
    BY <1>4, <1>6 DEF PlacesOf
  <2> QED BY <1>3, <1>6, <1>15, <1>18, <2>1, PostedIsSound DEF DocumentSound
<1>20. DocumentSound(header, lines, Added(ledger[d], posting))
  <2>1. HeaderSound(header, lines)
    BY <1>5, <1>6 DEF HeaderSound
  <2>2. LinesSound(header, lines)
    BY <1>6, <1>12, <1>13, <1>17 DEF LinesSound
  <2> QED BY <1>16, <1>19, <2>1, <2>2 DEF DocumentSound
<1>21. Follows(doc[d], line[d], header, lines)
  BY <1>4 DEF Follows
<1>22. \A p \in Products : lines[p] # None =>
          onHand[<<doc[d].warehouse, p>>] + EntryOf(posting, <<doc[d].warehouse, p>>) = lines[p].quantity
  <2> SUFFICES ASSUME NEW p \in Products, lines[p] # None
               PROVE  found(p) + EntryOf(posting, <<doc[d].warehouse, p>>) = lines[p].quantity
    OBVIOUS
  <2>1. p \in all
    BY <1>13
  <2>2. EntryOf(posting, <<doc[d].warehouse, p>>) = counted(p) - found(p)
    BY <1>7, <1>14, <2>1
  <2>3. lines[p].quantity = counted(p) /\ counted(p) \in Nat /\ found(p) \in Int
    BY <1>12, <1>17, <2>1
  <2> HIDE DEF found
  <2> QED BY <2>2, <2>3
<1> QED BY <1>1, <1>2, <1>15, <1>20, <1>21, <1>22, DecidesKeeps, SMTT(40)

\* A transfer's origin, destination and transit are three warehouses.
LEMMA TransferPlaces ==
    ASSUME NEW header, NEW lines, HeaderSound(header, lines), header.kind = "transfer"
    PROVE  /\ header.warehouse \in Places \ {None} /\ header.to \in Places \ {None}
           /\ TransitOf[header.facility] \in Places \ {None}
           /\ header.warehouse # header.to
           /\ TransitOf[header.facility] \notin {header.warehouse, header.to}
           /\ {header.warehouse, header.to, TransitOf[header.facility]} \subseteq PlacesOf(header) \ {None}
<1>1. /\ header.warehouse \in Sellable /\ header.to \in Sellable \ {header.warehouse}
      /\ header.facility \in Facilities
  BY DEF HeaderSound, DocumentRows
<1> QED BY <1>1, PlacesAreApart DEF PlacesOf

\* What a move posts, product by product.
LEMMA MovePosts ==
    ASSUME NEW moved, NEW source \in Places, NEW target \in Places,
           NEW w \in Places, NEW p \in Products
    PROVE  EntryOf(Move(moved, source, target), <<w, p>>) =
              IF p \notin DOMAIN moved \/ w \notin {source, target} THEN 0
              ELSE IF w = source THEN - moved[p] ELSE moved[p]
<1> DEFINE m == Move(moved, source, target)
<1>1. m = [k \in {source, target} \X DOMAIN moved |->
              IF k[1] = source THEN - moved[k[2]] ELSE moved[k[2]]]
  BY DEF Move
<1>2. <<w, p>> \in DOMAIN m <=> (w \in {source, target} /\ p \in DOMAIN moved)
  BY <1>1
<1>3. <<w, p>> \in DOMAIN m => m[<<w, p>>] = IF w = source THEN - moved[p] ELSE moved[p]
  BY <1>1
<1> HIDE DEF m
<1>4. EntryOf(m, <<w, p>>) = IF p \notin DOMAIN moved \/ w \notin {source, target} THEN 0
                            ELSE IF w = source THEN - moved[p] ELSE moved[p]
  BY <1>2, <1>3 DEF EntryOf
<1> QED BY <1>4 DEF m

\* A move between two places of a document is a posting of that document.
LEMMA MoveIsPosting ==
    ASSUME NEW header, NEW moved, DOMAIN moved \in SUBSET Products,
           \A p \in DOMAIN moved : moved[p] \in Nat,
           NEW source \in Places, NEW target \in Places,
           {source, target} \subseteq PlacesOf(header) \ {None}
    PROVE  PostingSound(header, Move(moved, source, target))
<1> DEFINE m == Move(moved, source, target)
           S == DOMAIN moved
<1>1. m = [k \in {source, target} \X S |-> IF k[1] = source THEN - moved[k[2]] ELSE moved[k[2]]]
  BY DEF Move
<1> HIDE DEF S
<1>2. DOMAIN m = {source, target} \X S
  BY <1>1
<1>3. \A k \in {source, target} \X S :
         /\ k[1] \in {source, target} /\ k[2] \in S
         /\ m[k] = IF k[1] = source THEN - moved[k[2]] ELSE moved[k[2]]
  BY <1>1
<1> HIDE DEF m
<1>4. \A k \in {source, target} \X S : m[k] \in Int
  BY <1>3 DEF S
<1>5. DOMAIN m \subseteq Keys
  BY <1>2 DEF Keys, S
<1>6. PostingSound(header, m)
  BY <1>2, <1>3, <1>4, <1>5 DEF PostingSound
<1> QED BY <1>6 DEF m

\* What a transfer's header and lines say it has done, place by place.
LEMMA TransferEffect ==
    ASSUME NEW header, NEW lines, HeaderSound(header, lines), header.kind = "transfer",
           header.completed, ~ header.cancelled, NEW w \in Places, NEW p \in Products,
           lines[p] # None, lines[p].quantity \in Nat, lines[p].received \in Nat,
           NEW owed \in Int,
           header.in_transit => owed = lines[p].quantity - lines[p].received,
           ~ header.in_transit => owed = 0
    PROVE  Effect(header, lines, w, p) =
              IF w = header.to THEN lines[p].received
              ELSE IF w = TransitOf[header.facility] THEN owed
              ELSE IF w = header.warehouse THEN - (lines[p].received + owed)
              ELSE 0
<1>1. header.warehouse # header.to /\ TransitOf[header.facility] \notin {header.warehouse, header.to}
  BY TransferPlaces
<1>2. Effect(header, lines, w, p) =
         (IF w = header.to THEN lines[p].received ELSE 0)
         + (IF w = TransitOf[header.facility] THEN owed ELSE 0)
         + (IF w = header.warehouse THEN - (lines[p].received + owed) ELSE 0)
  BY DEF Effect
<1> QED BY <1>1, <1>2

\* A product without a line, or a document that does not stand, has no effect.
LEMMA NoEffect ==
    ASSUME NEW header, NEW lines, NEW w, NEW p,
           ~ header.completed \/ header.cancelled \/ lines[p] = None
    PROVE  Effect(header, lines, w, p) = 0
BY DEF Effect

\* A dispatch posts its lines from the origin into transit.
LEMMA DispatchKeeps ==
    ASSUME InventoryInv, NEW r \in Requests, Dispatch(r)
    PROVE  InventoryInv'
<1> DEFINE d == txn[r].arg.doc
           moved == [p \in Lines(d) |-> Quantity(d, p)]
           posting == Move(moved, doc[d].warehouse, Transit(d))
           header == [Numbered(d) EXCEPT !.in_transit = TRUE]
           lines == [p \in Products |-> IF p \in Lines(d) THEN [line[d][p] EXCEPT !.received = 0] ELSE None]
<1>1. /\ Locked(r, "dispatch") /\ Editable(d) /\ Lines(d) # {} /\ \A p \in Lines(d) : Quantity(d, p) > 0
      /\ Decides(r, posting, header, lines)
  BY DEF Dispatch, Confirmable
<1>2. "dispatch" \in StockOps
  BY SMTT(40) DEF StockOps
<1>3. d \in Docs /\ DocumentSound(doc[d], line[d], ledger[d]) /\ doc[d].kind = "transfer"
  <2>1. RequestSound(r) /\ txn[r].op = "dispatch"
    BY <1>1, ZenonT(40) DEF InventoryInv, Locked
  <2> QED BY <1>1, <1>2, <2>1, LockedHolds DEF RequestSound
<1>4. /\ doc[d] # None /\ doc[d] \in DocumentRows /\ ~ doc[d].completed /\ ~ doc[d].in_transit
      /\ ~ doc[d].cancelled /\ DOMAIN ledger[d] = {} /\ doc[d].to \in Sellable \ {doc[d].warehouse}
  BY <1>1, <1>3, DraftFacts, ZenonT(40)
<1>5. /\ header \in DocumentRows
      /\ header.kind = "transfer" /\ header.completed /\ ~ header.cancelled /\ header.in_transit
      /\ header.warehouse = doc[d].warehouse /\ header.to = doc[d].to /\ header.facility = doc[d].facility
  <2>1. /\ Numbered(d) \in DocumentRows
        /\ Numbered(d) = [doc[d] EXCEPT !.serial = Numbered(d).serial, !.completed = TRUE]
    BY <1>3, <1>4, NumberedSound
  <2> QED BY <1>3, <1>4, <2>1 DEF DocumentRows
<1>6. /\ line[d] \in [Products -> LineRows \cup {None}]
      /\ Lines(d) = {p \in Products : line[d][p] # None}
      /\ \A p \in Lines(d) : /\ line[d][p] \in LineRows /\ Quantity(d, p) \in Nat
                             /\ Quantity(d, p) = line[d][p].quantity
  BY <1>3, LineFacts
<1>7. \A p \in Lines(d) : /\ lines[p] \in LineRows
                          /\ lines[p].quantity = Quantity(d, p) /\ lines[p].received = 0
  BY <1>6 DEF LineRows
<1>8. \A p \in Products : p \notin Lines(d) => lines[p] = None
  OBVIOUS
<1>9. lines \in [Products -> LineRows \cup {None}]
  <2>1. lines = [p \in Products |-> lines[p]]
    OBVIOUS
  <2> HIDE DEF lines
  <2> QED BY <1>7, <1>8, <2>1
<1> HIDE DEF header, lines
<1>10. \A p \in Products : lines[p] # None <=> p \in Lines(d)
  BY <1>7, <1>8, NoneIsNoInventoryRow DEF NoneIsNoInventoryRow
<1>11. HeaderSound(header, lines)
  <2>1. PICK p \in Lines(d) : TRUE
    BY <1>1, SMTT(40)
  <2>2. p \in Products /\ lines[p] # None /\ lines[p].received < lines[p].quantity
    BY <1>1, <1>6, <1>7, <1>10
  <2> QED BY <1>4, <1>5, <2>2 DEF HeaderSound
<1>12. /\ Lines(d) \in SUBSET Products /\ DOMAIN moved = Lines(d)
       /\ \A p \in Lines(d) : moved[p] \in Nat
       /\ \A p \in Lines(d) : moved[p] = Quantity(d, p)
  BY <1>6, SMTT(40)
<1>13. /\ doc[d].warehouse \in Places /\ Transit(d) \in Places /\ doc[d].warehouse # Transit(d)
       /\ Transit(d) # doc[d].to /\ doc[d].warehouse # doc[d].to
       /\ {doc[d].warehouse, Transit(d)} \subseteq PlacesOf(doc[d]) \ {None}
       /\ Transit(d) = TransitOf[header.facility]
  <2>1. HeaderSound(doc[d], line[d])
    BY <1>3 DEF DocumentSound
  <2> QED BY <1>3, <1>5, <2>1, TransferPlaces DEF Transit
<1> HIDE DEF moved
<1>14. PostingSound(doc[d], posting)
  BY <1>12, <1>13, MoveIsPosting
<1>15. ASSUME NEW w \in Places, NEW p \in Products
       PROVE  EntryOf(posting, <<w, p>>) =
                 IF p \notin Lines(d) \/ w \notin {doc[d].warehouse, Transit(d)} THEN 0
                 ELSE IF w = doc[d].warehouse THEN - moved[p] ELSE moved[p]
  BY <1>12, <1>13, MovePosts
<1> HIDE DEF posting
<1>16. ASSUME NEW w \in Places, NEW p \in Products
       PROVE  EntryOf(ledger[d], <<w, p>>) + EntryOf(posting, <<w, p>>) = Effect(header, lines, w, p)
  <2>1. EntryOf(ledger[d], <<w, p>>) = 0
    BY <1>4 DEF EntryOf
  <2>2. CASE p \notin Lines(d)
    <3>1. Effect(header, lines, w, p) = 0
      BY <1>8, <2>2, NoEffect
    <3> QED BY <1>15, <2>1, <2>2, <3>1
  <2>3. CASE p \in Lines(d)
    <3>1. /\ lines[p] # None /\ lines[p].quantity \in Nat /\ lines[p].received \in Nat
          /\ lines[p].quantity = moved[p] /\ lines[p].received = 0 /\ moved[p] \in Nat
      BY <1>7, <1>10, <1>12, <2>3
    <3>2. Effect(header, lines, w, p) =
             IF w = header.to THEN 0
             ELSE IF w = TransitOf[header.facility] THEN moved[p]
             ELSE IF w = header.warehouse THEN - moved[p]
             ELSE 0
      <4>1. moved[p] \in Int /\ moved[p] = lines[p].quantity - lines[p].received
        BY <3>1
      <4>2. header.kind = "transfer" /\ header.completed /\ ~ header.cancelled /\ header.in_transit
        BY <1>5
      <4>3. Effect(header, lines, w, p) =
               IF w = header.to THEN lines[p].received
               ELSE IF w = TransitOf[header.facility] THEN moved[p]
               ELSE IF w = header.warehouse THEN - (lines[p].received + moved[p])
               ELSE 0
        BY <1>11, <3>1, <4>1, <4>2, TransferEffect
      <4> QED BY <3>1, <4>3
    <3>3. EntryOf(posting, <<w, p>>) =
             IF w \notin {doc[d].warehouse, Transit(d)} THEN 0
             ELSE IF w = doc[d].warehouse THEN - moved[p] ELSE moved[p]
      BY <1>15, <2>3, SMTT(40)
    <3> QED BY <1>5, <1>13, <2>1, <3>1, <3>2, <3>3
  <2> QED BY <2>2, <2>3
<1>17. EntriesSound(header, lines, Added(ledger[d], posting))
  <2>1. PlacesOf(header) = PlacesOf(doc[d])
    BY <1>5 DEF PlacesOf
  <2> QED BY <1>3, <1>5, <1>14, <1>16, <2>1, PostedIsSound DEF DocumentSound
<1>18. DocumentSound(header, lines, Added(ledger[d], posting))
  <2>1. LinesSound(header, lines)
    BY <1>5, <1>7, <1>10, <1>12 DEF LinesSound
  <2> QED BY <1>9, <1>11, <1>17, <2>1 DEF DocumentSound
<1>19. Follows(doc[d], line[d], header, lines) /\ doc[d].kind # "count"
  BY <1>3, <1>4 DEF Follows
<1> QED BY <1>1, <1>2, <1>14, <1>18, <1>19, DecidesKeeps

\* A transfer in transit, as its receipt and its closing find it.
LEMMA InTransitFacts ==
    ASSUME InventoryInv, NEW d \in Docs, doc[d] # None, doc[d].in_transit
    PROVE  /\ doc[d] \in DocumentRows /\ doc[d].kind = "transfer" /\ doc[d].completed
           /\ ~ doc[d].cancelled /\ doc[d].to \in Sellable \ {doc[d].warehouse}
           /\ HeaderSound(doc[d], line[d]) /\ EntriesSound(doc[d], line[d], ledger[d])
           /\ line[d] \in [Products -> LineRows \cup {None}]
           /\ Lines(d) = {p \in Products : line[d][p] # None}
           /\ \A p \in Lines(d) : /\ line[d][p] \in LineRows /\ line[d][p].quantity \in Nat
                                  /\ line[d][p].received \in 0..line[d][p].quantity
                                  /\ Quantity(d, p) = line[d][p].quantity
                                  /\ Outstanding(d, p) = line[d][p].quantity - line[d][p].received
           /\ {doc[d].warehouse, doc[d].to, Transit(d)} \subseteq Places
           /\ {doc[d].warehouse, doc[d].to, Transit(d)} \subseteq PlacesOf(doc[d]) \ {None}
           /\ Transit(d) \notin {doc[d].warehouse, doc[d].to} /\ doc[d].warehouse # doc[d].to
<1>1. DocumentSound(doc[d], line[d], ledger[d])
  BY DEF InventoryInv, TablesSound
<1>2. /\ HeaderSound(doc[d], line[d]) /\ LinesSound(doc[d], line[d])
      /\ EntriesSound(doc[d], line[d], ledger[d])
  BY <1>1 DEF DocumentSound
<1>3. /\ doc[d] \in DocumentRows /\ doc[d].kind = "transfer" /\ doc[d].completed
      /\ ~ doc[d].cancelled /\ doc[d].to \in Sellable \ {doc[d].warehouse}
  BY <1>2 DEF HeaderSound
<1>4. /\ line[d] \in [Products -> LineRows \cup {None}]
      /\ Lines(d) = {p \in Products : line[d][p] # None}
      /\ \A p \in Lines(d) : /\ line[d][p] \in LineRows
                             /\ Quantity(d, p) = line[d][p].quantity
                             /\ Quantity(d, p) \in Nat
  BY LineFacts
<1>5. \A p \in Lines(d) : line[d][p].received \in 0..line[d][p].quantity
  BY <1>2, <1>3, <1>4 DEF LinesSound
<1>6. \A p \in Lines(d) : line[d][p].received # None
  BY <1>5, InventoryConstants DEF InventoryConstants
<1>7. \A p \in Lines(d) : Outstanding(d, p) = line[d][p].quantity - line[d][p].received
  BY <1>4, <1>6 DEF Outstanding
<1>8. /\ {doc[d].warehouse, doc[d].to, Transit(d)} \subseteq Places
      /\ {doc[d].warehouse, doc[d].to, Transit(d)} \subseteq PlacesOf(doc[d]) \ {None}
      /\ Transit(d) \notin {doc[d].warehouse, doc[d].to} /\ doc[d].warehouse # doc[d].to
  BY <1>2, <1>3, TransferPlaces, SMTT(40) DEF Transit
<1> QED BY <1>2, <1>3, <1>4, <1>5, <1>7, <1>8

\* A receipt posts what it received from transit to the destination.
LEMMA ReceiveKeeps ==
    ASSUME InventoryInv, NEW r \in Requests, Receive(r)
    PROVE  InventoryInv'
<1> DEFINE d == txn[r].arg.doc
           after(received) ==
               [p \in Products |-> IF p \in DOMAIN received
                                   THEN [line[d][p] EXCEPT !.received = @ + received[p]]
                                   ELSE line[d][p]]
           owes(received) == \E p \in Lines(d) : after(received)[p].received < Quantity(d, p)
<1>1. /\ Locked(r, "receive") /\ doc[d].in_transit
      /\ \E received \in ApplyReceipt(d) :
            Decides(r, Move(received, Transit(d), doc[d].to),
                    [doc[d] EXCEPT !.in_transit = owes(received)], after(received))
  BY ZenonT(40) DEF Receive
<1>2. PICK received \in ApplyReceipt(d) :
         Decides(r, Move(received, Transit(d), doc[d].to),
                 [doc[d] EXCEPT !.in_transit = owes(received)], after(received))
  BY <1>1, Zenon
<1>3. "receive" \in StockOps
  BY SMTT(40) DEF StockOps
<1>4. d \in Docs /\ doc[d] # None
  BY <1>1, <1>3, LockedHolds, ZenonT(40)
<1>5. /\ doc[d] \in DocumentRows /\ doc[d].kind = "transfer" /\ doc[d].completed
      /\ ~ doc[d].cancelled /\ doc[d].to \in Sellable \ {doc[d].warehouse}
      /\ HeaderSound(doc[d], line[d]) /\ EntriesSound(doc[d], line[d], ledger[d])
      /\ doc[d].in_transit
  BY <1>1, <1>4, InTransitFacts, ZenonT(40)
<1>6. /\ line[d] \in [Products -> LineRows \cup {None}]
      /\ Lines(d) = {p \in Products : line[d][p] # None}
      /\ \A p \in Lines(d) : /\ line[d][p] \in LineRows /\ line[d][p].quantity \in Nat
                             /\ line[d][p].received \in 0..line[d][p].quantity
                             /\ Quantity(d, p) = line[d][p].quantity
                             /\ Outstanding(d, p) = line[d][p].quantity - line[d][p].received
  BY <1>1, <1>4, InTransitFacts, ZenonT(40)
<1>7. /\ {doc[d].warehouse, doc[d].to, Transit(d)} \subseteq Places
      /\ {doc[d].warehouse, doc[d].to, Transit(d)} \subseteq PlacesOf(doc[d]) \ {None}
      /\ Transit(d) \notin {doc[d].warehouse, doc[d].to} /\ doc[d].warehouse # doc[d].to
  BY <1>1, <1>4, InTransitFacts, Zenon
<1>8. /\ DOMAIN received \in SUBSET Lines(d)
      /\ \A p \in DOMAIN received : received[p] \in Nat
      /\ \A p \in DOMAIN received : received[p] <= Outstanding(d, p)
  <2>1. received \in UNION {[S -> 1..MaxLine] : S \in SUBSET Lines(d) \ {{}}}
    BY DEF ApplyReceipt
  <2>2. PICK S \in SUBSET Lines(d) : received \in [S -> 1..MaxLine]
    BY <2>1
  <2>3. \A n \in 1..MaxLine : n \in Nat
    BY InventoryConstants DEF InventoryConstants
  <2>4. DOMAIN received \in SUBSET Lines(d) /\ \A p \in DOMAIN received : received[p] \in Nat
    BY <2>2, <2>3
  <2>5. \A p \in DOMAIN received : received[p] <= Outstanding(d, p)
    BY DEF ApplyReceipt
  <2> QED BY <2>4, <2>5
<1> DEFINE lines == after(received)
           owing == owes(received)
           header == [doc[d] EXCEPT !.in_transit = owing]
           posting == Move(received, Transit(d), doc[d].to)
           got(p) == IF p \in DOMAIN received THEN received[p] ELSE 0
<1>9. \A p \in Lines(d) : got(p) \in Nat /\ got(p) <= line[d][p].quantity - line[d][p].received
  BY <1>6, <1>8, SMTT(40)
<1>10. ASSUME NEW p \in Lines(d)
       PROVE  /\ lines[p] \in LineRows /\ lines[p].quantity = line[d][p].quantity
              /\ lines[p].received = line[d][p].received + got(p)
              /\ lines[p].received \in 0..lines[p].quantity
  <2>1. /\ p \in Products /\ line[d][p] \in LineRows /\ line[d][p].quantity \in Nat
        /\ line[d][p].received \in Nat
        /\ got(p) \in Nat /\ got(p) <= line[d][p].quantity - line[d][p].received
    BY <1>6, <1>9, SMTT(40)
  <2>2. CASE p \in DOMAIN received
    <3>1. lines[p] = [line[d][p] EXCEPT !.received = line[d][p].received + received[p]]
      BY <2>1, <2>2
    <3>2. got(p) = received[p]
      BY <2>2
    <3> HIDE DEF lines, got
    <3> QED BY <2>1, <3>1, <3>2 DEF LineRows
  <2>3. CASE p \notin DOMAIN received
    <3>1. lines[p] = line[d][p] /\ got(p) = 0
      BY <2>1, <2>3, SMTT(40)
    <3> HIDE DEF lines, got
    <3> QED BY <2>1, <3>1
  <2> QED BY <2>2, <2>3, ZenonT(40)
<1>11. \A p \in Products : p \notin Lines(d) => lines[p] = None /\ line[d][p] = None
  BY <1>6, <1>8
<1>12. lines \in [Products -> LineRows \cup {None}]
  <2>1. lines = [p \in Products |-> lines[p]]
    OBVIOUS
  <2> HIDE DEF lines
  <2> QED BY <1>10, <1>11, <2>1
<1>13. owing \in BOOLEAN /\ (owing <=> \E p \in Lines(d) : lines[p].received < lines[p].quantity)
  <2>1. owing <=> \E p \in Lines(d) : lines[p].received < Quantity(d, p)
    BY SMTT(40)
  <2>2. \A p \in Lines(d) : lines[p].quantity = Quantity(d, p)
    BY <1>6, <1>10, Zenon
  <2>3. owing \in BOOLEAN
    BY SMTT(40)
  <2> HIDE DEF owing, lines
  <2> QED BY <2>1, <2>2, <2>3
<1> HIDE DEF lines, owing
<1>14. /\ header \in DocumentRows
       /\ header.kind = "transfer" /\ header.completed /\ ~ header.cancelled
       /\ header.in_transit = owing
       /\ header.warehouse = doc[d].warehouse /\ header.to = doc[d].to /\ header.facility = doc[d].facility
       /\ header = [doc[d] EXCEPT !.cancelled = header.cancelled, !.in_transit = header.in_transit]
  BY <1>5, <1>13, Zenon DEF DocumentRows
<1> HIDE DEF header
<1>15. \A p \in Products : lines[p] # None <=> p \in Lines(d)
  BY <1>10, <1>11, NoneIsNoInventoryRow, SMTT(40) DEF NoneIsNoInventoryRow
<1>16. HeaderSound(header, lines)
  BY <1>5, <1>6, <1>13, <1>14, <1>15, Zenon DEF HeaderSound
<1>17. PostingSound(doc[d], posting)
  <2>1. DOMAIN received \in SUBSET Products
    BY <1>6, <1>8
  <2> QED BY <1>7, <1>8, <2>1, MoveIsPosting
<1>18. ASSUME NEW w \in Places, NEW p \in Products
       PROVE  EntryOf(posting, <<w, p>>) =
                 IF w = Transit(d) THEN - got(p) ELSE IF w = doc[d].to THEN got(p) ELSE 0
  <2>1. EntryOf(posting, <<w, p>>) =
           IF p \notin DOMAIN received \/ w \notin {Transit(d), doc[d].to} THEN 0
           ELSE IF w = Transit(d) THEN - received[p] ELSE received[p]
    BY <1>7, MovePosts, SMTT(40)
  <2> HIDE DEF posting
  <2> QED BY <2>1
<1> HIDE DEF posting
<1>19. ASSUME NEW w \in Places, NEW p \in Products
       PROVE  EntryOf(ledger[d], <<w, p>>) + EntryOf(posting, <<w, p>>) = Effect(header, lines, w, p)
  <2>1. EntryOf(ledger[d], <<w, p>>) = Effect(doc[d], line[d], w, p)
    BY <1>5 DEF EntriesSound, Keys
  <2>2. CASE p \notin Lines(d)
    <3>1. Effect(header, lines, w, p) = 0 /\ Effect(doc[d], line[d], w, p) = 0
      BY <1>11, <2>2, NoEffect
    <3>2. got(p) = 0
      BY <1>8, <2>2
    <3> QED BY <1>18, <2>1, <3>1, <3>2
  <2>3. CASE p \in Lines(d)
    <3> DEFINE q == line[d][p].quantity
               had == line[d][p].received
               g == got(p)
               owed == IF owing THEN q - (had + g) ELSE 0
    <3>1. q \in Nat /\ had \in Nat /\ g \in Nat /\ line[d][p] # None
      BY <1>6, <1>9, <2>3
    <3>2. /\ lines[p] # None /\ lines[p].quantity = q /\ lines[p].received = had + g
      BY <1>10, <1>15, <2>3
    <3>3. owed = q - (had + g)
      <4>1. CASE owing
        BY <4>1
      <4>2. CASE ~ owing
        <5>1. ~ (had + g < q) /\ had + g \in 0..q
          BY <1>10, <1>13, <2>3, <3>2, <4>2, SMTT(40)
        <5> HIDE DEF q, had, g
        <5> QED BY <3>1, <4>2, <5>1
      <4> QED BY <4>1, <4>2
    <3> HIDE DEF q, had, g
    <3>4. Effect(doc[d], line[d], w, p) =
             IF w = doc[d].to THEN had
             ELSE IF w = Transit(d) THEN q - had
             ELSE IF w = doc[d].warehouse THEN - (had + (q - had))
             ELSE 0
      <4>1. q - had \in Int
        BY <3>1
      <4>2. /\ HeaderSound(doc[d], line[d]) /\ doc[d].kind = "transfer" /\ doc[d].completed
            /\ ~ doc[d].cancelled /\ doc[d].in_transit
        BY <1>5
      <4> QED BY <3>1, <4>1, <4>2, TransferEffect DEF Transit, q, had
    <3>5. Effect(header, lines, w, p) =
             IF w = doc[d].to THEN had + g
             ELSE IF w = Transit(d) THEN owed
             ELSE IF w = doc[d].warehouse THEN - ((had + g) + owed)
             ELSE 0
      <4>1. owed \in Int
        BY <3>1
      <4>2. (owing => owed = q - (had + g)) /\ (~ owing => owed = 0)
        OBVIOUS
      <4> HIDE DEF owed
      <4>3. /\ header.kind = "transfer" /\ header.completed /\ ~ header.cancelled
            /\ header.to = doc[d].to /\ header.warehouse = doc[d].warehouse
            /\ TransitOf[header.facility] = Transit(d) /\ (header.in_transit <=> owing)
        BY <1>14 DEF Transit
      <4>4. /\ lines[p].quantity \in Nat /\ lines[p].received \in Nat
            /\ header.in_transit => owed = lines[p].quantity - lines[p].received
            /\ ~ header.in_transit => owed = 0
        BY <3>1, <3>2, <4>2, <4>3
      <4>5. Effect(header, lines, w, p) =
               IF w = header.to THEN lines[p].received
               ELSE IF w = TransitOf[header.facility] THEN owed
               ELSE IF w = header.warehouse THEN - (lines[p].received + owed)
               ELSE 0
        BY <1>16, <3>2, <4>1, <4>3, <4>4, TransferEffect
      <4> QED BY <3>2, <4>3, <4>5
    <3> HIDE DEF owed
    <3>6. EntryOf(posting, <<w, p>>) =
                 IF w = Transit(d) THEN - g ELSE IF w = doc[d].to THEN g ELSE 0
      BY <1>18, SMTT(40) DEF g
    <3> QED BY <1>7, <2>1, <3>1, <3>3, <3>4, <3>5, <3>6
  <2> QED BY <2>2, <2>3
<1>20. EntriesSound(header, lines, Added(ledger[d], posting))
  <2>1. PlacesOf(header) = PlacesOf(doc[d])
    BY <1>14 DEF PlacesOf
  <2> QED BY <1>5, <1>14, <1>17, <1>19, <2>1, PostedIsSound, Zenon
<1>21. DocumentSound(header, lines, Added(ledger[d], posting))
  <2>1. LinesSound(header, lines)
    BY <1>10, <1>14, <1>15 DEF LinesSound
  <2> QED BY <1>12, <1>16, <1>20, <2>1 DEF DocumentSound
<1>22. Follows(doc[d], line[d], header, lines)
  <2>1. \A p \in Products : /\ line[d][p] = None <=> lines[p] = None
                            /\ line[d][p] # None => lines[p].quantity = line[d][p].quantity
    BY <1>6, <1>10, <1>15, SMTT(40)
  <2>2. /\ doc[d].in_transit /\ ~ doc[d].cancelled
        /\ header = [doc[d] EXCEPT !.cancelled = header.cancelled, !.in_transit = header.in_transit]
    BY <1>5, <1>14
  <2>3. doc[d].cancelled => header.cancelled
    BY <2>2
  <2>4. ~ doc[d].in_transit => ~ header.in_transit /\ lines = line[d]
    BY <2>2, SMTT(40)
  <2> QED BY <2>1, <2>2, <2>3, <2>4 DEF Follows
<1>23. Decides(r, posting, header, lines)
  BY <1>2, ZenonT(40) DEF posting, header, lines, owing
<1> QED BY <1>1, <1>3, <1>5, <1>17, <1>21, <1>22, <1>23, DecidesKeeps, ZenonT(40)

\* Closing a transfer posts what it owes from transit back to the origin.
LEMMA CloseRemainderKeeps ==
    ASSUME InventoryInv, NEW r \in Requests, CloseRemainder(r)
    PROVE  InventoryInv'
<1> DEFINE d == txn[r].arg.doc
           posting == Move(Returned(d), Transit(d), doc[d].warehouse)
           header == [doc[d] EXCEPT !.in_transit = FALSE]
<1>1. Locked(r, "close") /\ doc[d].in_transit /\ Decides(r, posting, header, line[d])
  BY DEF CloseRemainder
<1>2. "close" \in StockOps
  BY DEF StockOps
<1>3. d \in Docs /\ doc[d] # None
  BY <1>1, <1>2, LockedHolds
<1>4. /\ doc[d] \in DocumentRows /\ doc[d].kind = "transfer" /\ doc[d].completed
      /\ ~ doc[d].cancelled /\ doc[d].to \in Sellable \ {doc[d].warehouse}
      /\ HeaderSound(doc[d], line[d]) /\ EntriesSound(doc[d], line[d], ledger[d])
      /\ doc[d].in_transit
  BY <1>1, <1>3, InTransitFacts, SMTT(40)
<1>5. /\ line[d] \in [Products -> LineRows \cup {None}]
      /\ Lines(d) = {p \in Products : line[d][p] # None}
      /\ \A p \in Lines(d) : /\ line[d][p].quantity \in Nat
                             /\ line[d][p].received \in 0..line[d][p].quantity
                             /\ Outstanding(d, p) = line[d][p].quantity - line[d][p].received
  BY <1>1, <1>3, InTransitFacts, ZenonT(40)
<1>6. /\ {doc[d].warehouse, doc[d].to, Transit(d)} \subseteq Places
      /\ {doc[d].warehouse, doc[d].to, Transit(d)} \subseteq PlacesOf(doc[d]) \ {None}
      /\ Transit(d) \notin {doc[d].warehouse, doc[d].to} /\ doc[d].warehouse # doc[d].to
  BY <1>1, <1>3, InTransitFacts, SMTT(40)
<1>7. /\ header \in DocumentRows
      /\ header.kind = "transfer" /\ header.completed /\ ~ header.cancelled /\ ~ header.in_transit
      /\ header.warehouse = doc[d].warehouse /\ header.to = doc[d].to /\ header.facility = doc[d].facility
      /\ header = [doc[d] EXCEPT !.cancelled = header.cancelled, !.in_transit = header.in_transit]
  BY <1>4, ZenonT(40) DEF DocumentRows
<1> HIDE DEF header
<1>8. HeaderSound(header, line[d])
  BY <1>4, <1>7, Zenon DEF HeaderSound
<1>9. /\ DOMAIN Returned(d) = Owing(d) /\ Owing(d) \in SUBSET Products
      /\ \A p \in Owing(d) : Returned(d)[p] \in Nat
  <2>1. \A p \in Owing(d) : p \in Lines(d) /\ Outstanding(d, p) > 0
    BY DEF Owing
  <2>2. \A p \in Owing(d) : Outstanding(d, p) \in Nat
    BY <1>5, <2>1
  <2>3. \A p \in Owing(d) : p \in Products
    BY <1>5, <2>1
  <2> QED BY <2>2, <2>3 DEF Returned
<1>10. PostingSound(doc[d], posting)
  BY <1>6, <1>9, MoveIsPosting
<1>11. ASSUME NEW w \in Places, NEW p \in Lines(d)
       PROVE  EntryOf(posting, <<w, p>>) =
                 IF w = Transit(d) THEN 0 - Outstanding(d, p)
                 ELSE IF w = doc[d].warehouse THEN Outstanding(d, p) ELSE 0
  <2>1. p \in Products /\ Outstanding(d, p) \in Nat
    BY <1>5
  <2>2. EntryOf(posting, <<w, p>>) =
           IF p \notin Owing(d) \/ w \notin {Transit(d), doc[d].warehouse} THEN 0
           ELSE IF w = Transit(d) THEN - Returned(d)[p] ELSE Returned(d)[p]
    BY <1>6, <1>9, <2>1, MovePosts
  <2>3. CASE p \in Owing(d)
    <3>1. Returned(d)[p] = Outstanding(d, p)
      BY <2>3 DEF Returned
    <3> HIDE DEF posting
    <3> QED BY <2>1, <2>2, <2>3, <3>1
  <2>4. CASE p \notin Owing(d)
    <3>1. Outstanding(d, p) = 0
      BY <2>1, <2>4 DEF Owing
    <3> HIDE DEF posting
    <3>2. EntryOf(posting, <<w, p>>) = 0
      BY <2>2, <2>4
    <3> QED BY <3>1, <3>2
  <2> QED BY <2>3, <2>4
<1>12. ASSUME NEW w \in Places, NEW p \in Products, p \notin Lines(d)
       PROVE  EntryOf(posting, <<w, p>>) = 0
  <2>1. p \notin Owing(d)
    BY <1>12 DEF Owing
  <2> QED BY <1>6, <1>9, <2>1, MovePosts
<1> HIDE DEF posting
<1>13. ASSUME NEW w \in Places, NEW p \in Products
       PROVE  EntryOf(ledger[d], <<w, p>>) + EntryOf(posting, <<w, p>>) = Effect(header, line[d], w, p)
  <2>1. EntryOf(ledger[d], <<w, p>>) = Effect(doc[d], line[d], w, p)
    BY <1>4 DEF EntriesSound, Keys
  <2>2. CASE p \notin Lines(d)
    <3>1. Effect(header, line[d], w, p) = 0 /\ Effect(doc[d], line[d], w, p) = 0
      BY <1>5, <2>2, NoEffect
    <3> QED BY <1>12, <2>1, <2>2, <3>1
  <2>3. CASE p \in Lines(d)
    <3> DEFINE q == line[d][p].quantity
               had == line[d][p].received
    <3>1. q \in Nat /\ had \in Nat /\ q - had \in Int /\ line[d][p] # None
      BY <1>5, <2>3
    <3>2. EntryOf(posting, <<w, p>>) =
                 IF w = Transit(d) THEN 0 - (q - had) ELSE IF w = doc[d].warehouse THEN q - had ELSE 0
      BY <1>5, <1>11, <2>3, SMTT(40)
    <3>3. Effect(doc[d], line[d], w, p) =
             IF w = doc[d].to THEN had
             ELSE IF w = Transit(d) THEN q - had
             ELSE IF w = doc[d].warehouse THEN - (had + (q - had))
             ELSE 0
      <4>1. /\ HeaderSound(doc[d], line[d]) /\ doc[d].kind = "transfer" /\ doc[d].completed
            /\ ~ doc[d].cancelled /\ doc[d].in_transit
        BY <1>4, SMTT(40)
      <4> QED BY <3>1, <4>1, TransferEffect DEF Transit
    <3>4. Effect(header, line[d], w, p) =
             IF w = doc[d].to THEN had
             ELSE IF w = Transit(d) THEN 0
             ELSE IF w = doc[d].warehouse THEN - (had + 0)
             ELSE 0
      <4>1. 0 \in Int
        OBVIOUS
      <4> QED BY <1>7, <1>8, <3>1, <4>1, TransferEffect, SMTT(40) DEF Transit
    <3> HIDE DEF q, had
    <3> QED BY <1>6, <2>1, <3>1, <3>2, <3>3, <3>4
  <2> QED BY <2>2, <2>3
<1>14. EntriesSound(header, line[d], Added(ledger[d], posting))
  <2>1. PlacesOf(header) = PlacesOf(doc[d])
    BY <1>7, SMTT(40) DEF PlacesOf
  <2> QED BY <1>4, <1>7, <1>10, <1>13, <2>1, PostedIsSound, Zenon
<1>15. DocumentSound(header, line[d], Added(ledger[d], posting))
  <2>1. LinesSound(header, line[d])
    BY <1>5, <1>7, Zenon DEF LinesSound
  <2> QED BY <1>5, <1>8, <1>14, <2>1, SMTT(40) DEF DocumentSound
<1>16. Follows(doc[d], line[d], header, line[d])
  <2>1. doc[d].cancelled => header.cancelled
    BY <1>4
  <2>2. ~ header.in_transit
    BY <1>7
  <2>3. header = [doc[d] EXCEPT !.cancelled = header.cancelled, !.in_transit = header.in_transit]
    BY <1>7
  <2> QED BY <2>1, <2>2, <2>3 DEF Follows
<1> QED BY <1>1, <1>2, <1>4, <1>10, <1>15, <1>16, DecidesKeeps, ZenonT(40)

\* A cancellation leaves entries that add up to nothing.
LEMMA CancelKeeps ==
    ASSUME InventoryInv, NEW r \in Requests, Cancel(r)
    PROVE  InventoryInv'
<1> DEFINE d == txn[r].arg.doc
           posting == IF doc[d].completed THEN Reversal(d) ELSE NoEntries
           header == [doc[d] EXCEPT !.cancelled = TRUE, !.in_transit = FALSE]
<1>1. /\ Locked(r, "cancel") /\ (doc[d].completed => doc[d].kind # "count") /\ ~ doc[d].cancelled
      /\ Decides(r, posting, header, line[d])
  BY DEF Cancel
<1>2. "cancel" \in StockOps
  BY DEF StockOps
<1>3. d \in Docs /\ doc[d] # None /\ DocumentSound(doc[d], line[d], ledger[d])
  BY <1>1, <1>2, LockedHolds
<1>4. /\ HeaderSound(doc[d], line[d]) /\ EntriesSound(doc[d], line[d], ledger[d])
      /\ LinesSound(doc[d], line[d]) /\ line[d] \in [Products -> LineRows \cup {None}]
  BY <1>3 DEF DocumentSound
<1>5. doc[d] \in DocumentRows
  BY <1>4 DEF HeaderSound
<1>6. /\ header \in DocumentRows
      /\ header.cancelled /\ ~ header.in_transit /\ header.completed = doc[d].completed
      /\ header.kind = doc[d].kind /\ header.warehouse = doc[d].warehouse
      /\ header.to = doc[d].to /\ header.facility = doc[d].facility
      /\ header = [doc[d] EXCEPT !.cancelled = header.cancelled, !.in_transit = header.in_transit]
  BY <1>5, ZenonT(40) DEF DocumentRows
<1> HIDE DEF header
<1>7. HeaderSound(header, line[d])
  BY <1>4, <1>6, Zenon DEF HeaderSound
<1>8. LinesSound(header, line[d])
  BY <1>4, <1>6, Zenon DEF LinesSound
<1>9. Follows(doc[d], line[d], header, line[d])
  <2>1. header.cancelled /\ ~ header.in_transit
    BY <1>6
  <2>2. header = [doc[d] EXCEPT !.cancelled = header.cancelled, !.in_transit = header.in_transit]
    BY <1>6
  <2> QED BY <2>1, <2>2 DEF Follows
<1>10. doc[d].kind = "count" /\ ~ doc[d].completed => ~ header.completed
  BY <1>6
<1>11. CASE doc[d].completed
  <2>1. posting = Reversal(d)
    BY <1>11
  <2> HIDE DEF posting
  <2>2. /\ DOMAIN ledger[d] \subseteq Keys
        /\ \A k \in DOMAIN ledger[d] : ledger[d][k] \in Int /\ k[1] \in PlacesOf(doc[d]) /\ k[1] \in Places
    BY <1>4 DEF EntriesSound, Keys
  <2>3. DOMAIN posting = DOMAIN ledger[d] /\ \A k \in DOMAIN ledger[d] : posting[k] = - ledger[d][k]
    BY <2>1 DEF Reversal
  <2>4. PostingSound(doc[d], posting)
    BY <2>2, <2>3, PlacesAreApart DEF PostingSound
  <2>5. ASSUME NEW w \in Places, NEW p \in Products
        PROVE  EntryOf(ledger[d], <<w, p>>) + EntryOf(posting, <<w, p>>) = Effect(header, line[d], w, p)
    <3>1. Effect(header, line[d], w, p) = 0
      BY <1>6, NoEffect
    <3>2. EntryOf(ledger[d], <<w, p>>) + EntryOf(posting, <<w, p>>) = 0
      BY <2>2, <2>3, SMTT(40) DEF EntryOf
    <3> QED BY <3>1, <3>2
  <2>6. EntriesSound(header, line[d], Added(ledger[d], posting))
    <3>1. PlacesOf(header) = PlacesOf(doc[d])
      BY <1>6 DEF PlacesOf
    <3> QED BY <1>4, <1>6, <1>11, <2>4, <2>5, <3>1, PostedIsSound, Zenon
  <2>7. DocumentSound(header, line[d], Added(ledger[d], posting))
    BY <1>4, <1>7, <1>8, <2>6 DEF DocumentSound
  <2> QED BY <1>1, <1>2, <1>9, <1>11, <2>4, <2>7, DecidesKeeps
<1>12. CASE ~ doc[d].completed
  <2>1. posting = NoEntries
    BY <1>12
  <2> HIDE DEF posting
  <2>2. DOMAIN posting = {} /\ DOMAIN ledger[d] = {}
    BY <1>4, <1>12, <2>1 DEF NoEntries, EntriesSound
  <2>3. DOMAIN Added(ledger[d], posting) = {}
    BY <2>2 DEF Added
  <2>4. PostingSound(doc[d], posting)
    BY <2>2, SMTT(40) DEF PostingSound
  <2>5. DocumentSound(header, line[d], Added(ledger[d], posting))
    <3>1. IF header.kind = "transfer" THEN header.to \in Sellable \ {header.warehouse} ELSE header.to = None
      BY <1>7 DEF HeaderSound
    <3> QED BY <1>4, <1>6, <1>12, <2>3, <3>1, DraftIsSound, Zenon
  <2> QED BY <1>1, <1>2, <1>9, <1>10, <2>4, <2>5, DecidesKeeps
<1> QED BY <1>11, <1>12, SMTT(40)

-----------------------------------------------------------------------------
(***************************************************************************)
(* The commit.                                                             *)
(***************************************************************************)
\* What a write does to the tables, as long as it is sound.
LEMMA WriteFacts ==
    ASSUME InventoryInv, NEW r \in Requests, Write(r)
    PROVE  LET w == txn[r].arg
           IN  /\ txn[r].op = "write" /\ txn' = [txn EXCEPT ![r] = Idle] /\ claims' = claims
               /\ w.doc \in Docs /\ doc[w.doc] # None /\ DocRow(w.doc) \in txn[r].rows
               /\ WriteSound(r)
               /\ w.header \in DocumentRows /\ w.lines \in [Products -> LineRows \cup {None}]
               /\ doc'[w.doc] = w.header /\ line'[w.doc] = w.lines
               /\ ledger'[w.doc] = Added(ledger[w.doc], w.posting)
               /\ doc' = [doc EXCEPT ![w.doc] = w.header]
               /\ line' = [line EXCEPT ![w.doc] = w.lines]
               /\ DOMAIN ledger' = Docs
               /\ \A e \in Docs : e # w.doc =>
                     doc'[e] = doc[e] /\ line'[e] = line[e] /\ ledger'[e] = ledger[e]
               /\ DOMAIN onHand' = Keys
               /\ \A k \in Keys : onHand'[k] \in Int /\ onHand'[k] = onHand[k] + EntryOf(w.posting, k)
<1> DEFINE w == txn[r].arg
<1>1. /\ txn[r].op = "write" /\ txn' = [txn EXCEPT ![r] = Idle] /\ claims' = claims
      /\ doc' = [doc EXCEPT ![w.doc] = w.header] /\ line' = [line EXCEPT ![w.doc] = w.lines]
      /\ ledger' = [ledger EXCEPT ![w.doc] = Added(@, w.posting)]
      /\ onHand' = Added(onHand, w.posting)
  BY DEF Write, Ends
<1>2. w.doc \in Docs /\ doc[w.doc] # None /\ DocRow(w.doc) \in txn[r].rows /\ WriteSound(r)
  BY <1>1 DEF InventoryInv, RequestSound, StockOps
<1>3. w.header \in DocumentRows /\ w.lines \in [Products -> LineRows \cup {None}]
  BY <1>2 DEF WriteSound, DocumentSound, HeaderSound
<1>4. /\ doc'[w.doc] = w.header /\ line'[w.doc] = w.lines
      /\ ledger'[w.doc] = Added(ledger[w.doc], w.posting)
      /\ DOMAIN ledger' = Docs
      /\ \A e \in Docs : e # w.doc =>
            doc'[e] = doc[e] /\ line'[e] = line[e] /\ ledger'[e] = ledger[e]
  BY <1>1, <1>2 DEF InventoryInv, TablesSound
<1>5. /\ onHand \in [Keys -> Int] /\ DOMAIN w.posting \subseteq Keys
      /\ \A k \in DOMAIN w.posting : w.posting[k] \in Int
  BY <1>2 DEF InventoryInv, TablesSound, WriteSound
<1>6. DOMAIN onHand' = Keys
  BY <1>1, <1>5 DEF Added
<1>7. ASSUME NEW k \in Keys
      PROVE  onHand'[k] \in Int /\ onHand'[k] = onHand[k] + EntryOf(w.posting, k)
  <2>1. onHand'[k] = EntryOf(onHand, k) + EntryOf(w.posting, k)
    BY <1>1, <1>5 DEF Added
  <2>2. EntryOf(onHand, k) = onHand[k] /\ onHand[k] \in Int
    BY <1>5 DEF EntryOf
  <2>3. EntryOf(w.posting, k) \in Int
    BY <1>5 DEF EntryOf
  <2> QED BY <2>1, <2>2, <2>3
<1> QED BY <1>1, <1>2, <1>3, <1>4, <1>6, <1>7

\* No other request holds what the writer holds, so nothing another one
\* knows has changed.
LEMMA WriteKeeps ==
    ASSUME InventoryInv, NEW r \in Requests, Write(r)
    PROVE  InventoryInv'
<1> DEFINE w == txn[r].arg
<1>1. /\ txn[r].op = "write" /\ txn' = [txn EXCEPT ![r] = Idle] /\ claims' = claims
      /\ w.doc \in Docs /\ doc[w.doc] # None /\ DocRow(w.doc) \in txn[r].rows
      /\ WriteSound(r)
      /\ w.header \in DocumentRows /\ w.lines \in [Products -> LineRows \cup {None}]
  BY WriteFacts
<1>2. /\ doc'[w.doc] = w.header /\ line'[w.doc] = w.lines
      /\ ledger'[w.doc] = Added(ledger[w.doc], w.posting)
      /\ \A e \in Docs : e # w.doc =>
            doc'[e] = doc[e] /\ line'[e] = line[e] /\ ledger'[e] = ledger[e]
      /\ DOMAIN ledger' = Docs
  BY WriteFacts
<1>3. DOMAIN onHand' = Keys /\ \A k \in Keys : onHand'[k] \in Int
  BY WriteFacts
<1>4. w.header # None
  BY <1>1, NoneIsNoInventoryRow DEF NoneIsNoInventoryRow
<1>5. TablesSound'
  <2>1. doc' \in [Docs -> DocumentRows \cup {None}]
    <3>1. doc' = [doc EXCEPT ![w.doc] = w.header]
      BY WriteFacts
    <3> QED BY <1>1, <3>1 DEF InventoryInv, TablesSound
  <2>2. line' \in [Docs -> [Products -> LineRows \cup {None}]]
    <3>1. line' = [line EXCEPT ![w.doc] = w.lines]
      BY WriteFacts
    <3> QED BY <1>1, <3>1 DEF InventoryInv, TablesSound
  <2>3. onHand' \in [Keys -> Int]
    <3>1. onHand' = Added(onHand, w.posting)
      BY DEF Write
    <3>2. onHand' = [k \in DOMAIN onHand' |-> onHand'[k]]
      BY <3>1 DEF Added
    <3> QED BY <1>3, <3>2
  <2>4. claims' \in [Keys -> Nat]
    BY <1>1 DEF InventoryInv, TablesSound
  <2>5. ASSUME NEW e \in Docs
        PROVE  IF doc'[e] = None THEN line'[e] = NoLines /\ ledger'[e] = NoEntries
               ELSE DocumentSound(doc'[e], line'[e], ledger'[e])
    <3>1. CASE e = w.doc
      <4>1. DocumentSound(w.header, w.lines, Added(ledger[w.doc], w.posting))
        BY <1>1 DEF WriteSound
      <4> QED BY <1>2, <1>4, <3>1, <4>1
    <3>2. CASE e # w.doc
      BY <1>2, <3>2 DEF InventoryInv, TablesSound
    <3> QED BY <3>1, <3>2
  <2> QED BY <1>2, <2>1, <2>2, <2>3, <2>4, <2>5 DEF TablesSound, DocumentSound, HeaderSound,
                LinesSound, EntriesSound, EntryOf, Effect, NoLines, NoEntries
<1>6. DOMAIN txn' = Requests /\ txn'[r] = Idle /\ \A q \in Requests : q # r => txn'[q] = txn[q]
  BY <1>1 DEF InventoryInv
<1>7. ASSUME NEW q \in Requests PROVE Free(q, Holds(q))'
  <2>1. \A s \in Requests : Holds(s)' = IF s = r THEN {} ELSE Holds(s)
    BY <1>6 DEF Holds, Idle
  <2> QED BY <2>1 DEF InventoryInv, Free
<1>8. RequestSound(r)'
  BY <1>6 DEF RequestSound, StockOps, Idle
<1>9. ASSUME NEW q \in Requests, q # r PROVE RequestSound(q)'
  <2>1. RequestSound(q) /\ TablesSound /\ txn'[q] = txn[q]
    BY <1>6, <1>9 DEF InventoryInv
  <2>2. \A e \in Docs : doc[e] # None => doc'[e] # None
    BY <1>2, <1>4
  <2>3. txn[r] # Idle /\ Holds(r) = txn[r].rows
    BY <1>1 DEF Idle, Holds
  <2>4. ASSUME txn[q].op \in StockOps \cup {"write"}
        PROVE  /\ Holds(q) = txn[q].rows /\ txn[q].rows \cap txn[r].rows = {}
               /\ txn[q].arg.doc \in Docs /\ txn[q].arg.doc # w.doc
    <3>1. txn[q].op # "idle" /\ txn[q] # Idle
      BY <2>4 DEF StockOps, Idle
    <3>2. Holds(q) = txn[q].rows
      BY <3>1 DEF Holds
    <3>3. Holds(q) \cap Holds(r) = {}
      BY <1>9 DEF InventoryInv, Free
    <3>4. DocRow(txn[q].arg.doc) \in txn[q].rows /\ txn[q].arg.doc \in Docs
      BY <2>1, <2>4, <3>1 DEF RequestSound
    <3> QED BY <1>1, <2>3, <3>2, <3>3, <3>4
  <2>5. txn[q].op \in StockOps \cup {"write"} =>
               /\ doc'[txn[q].arg.doc] = doc[txn[q].arg.doc]
               /\ line'[txn[q].arg.doc] = line[txn[q].arg.doc]
               /\ ledger'[txn[q].arg.doc] = ledger[txn[q].arg.doc]
    BY <1>2, <2>4
  <2>6. ASSUME txn[q].op = "write", NEW v \in Places, NEW p \in Products, PlaceRow(v) \in txn[q].rows
        PROVE  onHand'[<<v, p>>] = onHand[<<v, p>>]
    <3>1. PlaceRow(v) \notin txn[r].rows
      BY <2>4, <2>6
    <3>2. <<v, p>> \notin DOMAIN w.posting
      <4>1. \A k \in DOMAIN w.posting : PlaceRow(k[1]) \in txn[r].rows
        BY <1>1 DEF WriteSound
      <4> QED BY <3>1, <4>1
    <3>3. EntryOf(w.posting, <<v, p>>) = 0
      BY <3>2 DEF EntryOf
    <3>4. <<v, p>> \in Keys
      BY DEF Keys
    <3>5. onHand[<<v, p>>] \in Int
      BY <3>4 DEF InventoryInv, TablesSound
    <3>6. onHand'[<<v, p>>] = onHand[<<v, p>>] + EntryOf(w.posting, <<v, p>>)
      BY <3>4, WriteFacts
    <3> QED BY <3>3, <3>5, <3>6
  <2> QED BY <2>1, <2>2, <2>5, <2>6, OthersSound
<1> QED BY <1>5, <1>6, <1>7, <1>8, <1>9 DEF InventoryInv

\* Sales claim and give back; the stock and the documents stay as they are.
LEMMA SellingKeeps == InventoryInv /\ Selling => InventoryInv'
<1> SUFFICES ASSUME InventoryInv, NEW k \in Sold, Claim(k) \/ Unclaim(k) PROVE InventoryInv'
  BY DEF Selling
<1>1. UNCHANGED <<doc, line, ledger, onHand, txn>>
  BY DEF Claim, Unclaim
<1>2. k \in Keys
  BY InventoryConstants DEF InventoryConstants, Keys, Sellable
<1>3. claims' \in [Keys -> Nat]
  <2>1. claims \in [Keys -> Nat]
    BY DEF InventoryInv, TablesSound
  <2>2. CASE Claim(k)
    BY <1>2, <2>1, <2>2 DEF Claim
  <2>3. CASE Unclaim(k)
    BY <1>2, <2>1, <2>3 DEF Unclaim
  <2> QED BY <2>2, <2>3
<1>4. TablesSound'
  BY <1>1, <1>3 DEF InventoryInv, TablesSound
<1>5. ASSUME NEW q \in Requests PROVE RequestSound(q)' /\ Free(q, Holds(q))'
  <2>1. RequestSound(q) /\ TablesSound
    BY DEF InventoryInv
  <2>2. RequestSound(q)'
    BY <1>1, <2>1, OthersSound
  <2>3. Free(q, Holds(q))'
    BY <1>1 DEF InventoryInv, Free, Holds
  <2> QED BY <2>2, <2>3
<1> QED BY <1>1, <1>4, <1>5 DEF InventoryInv

\* Every step of a request preserves the invariant.
LEMMA MovingKeeps ==
    ASSUME InventoryInv, NEW r \in Requests, Moving(r)
    PROVE  InventoryInv'
<1>1. ASSUME NEW d \in Docs, doc[d] # None, NEW op \in StepsOf(doc[d].kind), StockBegin(r, d, op)
      PROVE  InventoryInv'
  BY <1>1, StockBeginKeeps
<1>2. ASSUME NEW d \in Docs, CancelBegin(r, d) PROVE InventoryInv'
  BY <1>2, CancelBeginKeeps
<1>3. CASE CancelLocks(r) \/ LockWarehouse(r) \/ Rollback(r)
  BY <1>3, CancelLocksKeeps, LockWarehouseKeeps, RollbackKeeps
<1>4. ASSUME NEW include_uncounted \in BOOLEAN, ConfirmCount(r, include_uncounted) PROVE InventoryInv'
  BY <1>4, ConfirmCountKeeps
<1>5. CASE ConfirmSimple(r) \/ Dispatch(r) \/ Receive(r) \/ CloseRemainder(r) \/ Cancel(r)
  BY <1>5, ConfirmSimpleKeeps, DispatchKeeps, ReceiveKeeps, CloseRemainderKeeps, CancelKeeps
<1>6. CASE Write(r)
  BY <1>6, WriteKeeps
<1> QED BY <1>1, <1>2, <1>3, <1>4, <1>5, <1>6 DEF Moving

\* It holds when there are no documents,
LEMMA InventoryInitInv == InventoryInit => InventoryInv
<1> SUFFICES ASSUME InventoryInit PROVE InventoryInv
  OBVIOUS
<1>1. \A d \in Docs : doc[d] = None /\ line[d] = NoLines /\ ledger[d] = NoEntries
  BY DEF InventoryInit
<1>2. NoLines \in [Products -> LineRows \cup {None}]
  BY DEF NoLines
<1>3. onHand \in [Keys -> Int]
  <2>1. Opening \in [Keys -> Nat]
    BY InventoryConstants DEF InventoryConstants
  <2> QED BY <2>1 DEF InventoryInit
<1>4. TablesSound
  BY <1>1, <1>2, <1>3 DEF InventoryInit, TablesSound
<1>5. \A r \in Requests : txn[r] = Idle
  BY DEF InventoryInit
<1>6. \A r \in Requests : Free(r, Holds(r))
  BY <1>5 DEF Free, Holds, Idle
<1>7. \A r \in Requests : RequestSound(r)
  BY <1>5 DEF RequestSound, StockOps, Idle
<1> QED BY <1>4, <1>6, <1>7 DEF InventoryInit, InventoryInv

\* and every step preserves it.
LEMMA InventoryNextInv == InventoryInv /\ [InventoryNext]_vars => InventoryInv'
<1>1. ASSUME InventoryInv, UNCHANGED vars PROVE InventoryInv'
  <2>1. UNCHANGED <<doc, line, ledger, onHand, claims, txn>>
    BY <1>1 DEF vars, tables
  <2>2. TablesSound'
    BY <1>1, <2>1 DEF InventoryInv, TablesSound
  <2>3. ASSUME NEW q \in Requests PROVE RequestSound(q)' /\ Free(q, Holds(q))'
    <3>1. RequestSound(q) /\ TablesSound
      BY <1>1 DEF InventoryInv
    <3>2. RequestSound(q)'
      BY <2>1, <3>1, OthersSound
    <3>3. Free(q, Holds(q))'
      BY <1>1, <2>1 DEF InventoryInv, Free, Holds
    <3> QED BY <3>2, <3>3
  <2> QED BY <1>1, <2>1, <2>2, <2>3 DEF InventoryInv
<1>2. InventoryInv /\ InventoryNext => InventoryInv'
  BY DraftingKeeps, MovingKeeps, SellingKeeps DEF InventoryNext
<1> QED BY <1>1, <1>2

\* The invariant holds in every reachable state.
THEOREM InventoryInvariance == InventorySpec => []InventoryInv
<1> QED BY InventoryInitInv, InventoryNextInv, PTL DEF InventorySpec

-----------------------------------------------------------------------------
(***************************************************************************)
(* What follows.                                                           *)
(***************************************************************************)
\* The tables keep their shape, and no row has two holders.
THEOREM InventoryTypeCorrect == InventorySpec => []InventoryTypeOK
<1>1. InventoryInv => InventoryTypeOK
  <2> SUFFICES ASSUME InventoryInv PROVE InventoryTypeOK
    OBVIOUS
  <2>1. ASSUME NEW d \in Docs
        PROVE  DOMAIN ledger[d] \subseteq Keys /\ \A k \in DOMAIN ledger[d] : ledger[d][k] \in Int
    BY DEF InventoryInv, TablesSound, NoEntries, DocumentSound, EntriesSound
  <2> QED BY <2>1 DEF InventoryInv, TablesSound, InventoryTypeOK
<1> QED BY <1>1, InventoryInvariance, PTL

\* A document's entries are its effect: nothing that left a place is lost,
\* and a cancelled document has moved nothing.
THEOREM GoodsAreAccountedFor == InventorySpec => []GoodsAccountedFor
<1>1. InventoryInv => GoodsAccountedFor
  BY DEF InventoryInv, TablesSound, DocumentSound, EntriesSound, GoodsAccountedFor
<1> QED BY <1>1, InventoryInvariance, PTL

\* No transfer receives more than it sent, and one in transit owes.
THEOREM ReceiptsStayWithinSent == InventorySpec => []ReceivedWithinSent
<1>1. InventoryInv => ReceivedWithinSent
  <2> SUFFICES ASSUME InventoryInv, NEW d \in Docs, doc[d] # None, doc[d].kind = "transfer",
                      doc[d].completed
               PROVE  /\ \A p \in Lines(d) : line[d][p].received \in 0..Quantity(d, p)
                      /\ doc[d].in_transit => ~ doc[d].cancelled /\ Owing(d) # {}
    BY DEF ReceivedWithinSent
  <2>1. DocumentSound(doc[d], line[d], ledger[d])
    BY DEF InventoryInv, TablesSound
  <2>2. \A p \in Lines(d) : line[d][p].received \in 0..Quantity(d, p)
    BY <2>1 DEF DocumentSound, LinesSound, Lines, Quantity
  <2>3. ASSUME doc[d].in_transit PROVE ~ doc[d].cancelled /\ Owing(d) # {}
    <3>1. /\ ~ doc[d].cancelled
          /\ \E p \in Products : line[d][p] # None /\ line[d][p].received < line[d][p].quantity
      BY <2>1, <2>3 DEF DocumentSound, HeaderSound
    <3>2. PICK p \in Lines(d) : line[d][p].received < line[d][p].quantity
      BY <3>1 DEF Lines
    <3>3. Outstanding(d, p) = line[d][p].quantity - line[d][p].received
      BY <2>3, InTransitFacts
    <3>4. line[d][p].quantity \in Nat /\ line[d][p].received \in 0..line[d][p].quantity
      BY <2>3, InTransitFacts
    <3>5. p \in Owing(d)
      BY <3>2, <3>3, <3>4 DEF Owing
    <3> QED BY <3>1, <3>5
  <2> QED BY <2>2, <2>3
<1> QED BY <1>1, InventoryInvariance, PTL

\* A cancellation that read the ledger before it locked anything still posts
\* only where it holds the warehouse.
THEOREM PostingsAreLocked == InventorySpec => []PostsUnderLocks
<1>1. InventoryInv => PostsUnderLocks
  BY DEF InventoryInv, RequestSound, WriteSound, PostsUnderLocks
<1> QED BY <1>1, InventoryInvariance, PTL

\* Requests that lock in ascending order never wait for each other.
THEOREM TransfersDoNotCross == InventorySpec => []NoCrossedTransfers
<1>1. InventoryInv => NoCrossedTransfers
  <2> SUFFICES ASSUME InventoryInv, NEW r \in Requests, NEW q \in Requests, Crossed(r, q)
               PROVE  FALSE
    BY DEF NoCrossedTransfers
  <2>1. ASSUME NEW s \in Requests, NEW t \in Requests, WaitsFor(s) # {}, WaitsFor(t) \cap Holds(s) # {}
        PROVE  /\ LocksAscend(s) /\ Holds(s) = txn[s].rows
               /\ WaitsFor(s) = {txn[s].want[1]} /\ 1 \in DOMAIN txn[s].want
    <3>1. RequestSound(s) /\ txn[s] # Idle /\ txn[s].want # << >> /\ WaitsFor(s) = {Head(txn[s].want)}
      BY <2>1 DEF InventoryInv, WaitsFor
    <3>2. txn[s].op # "idle" /\ Holds(s) = txn[s].rows /\ txn[s].rows # {}
      BY <2>1 DEF Holds
    <3>3. txn[s].op \in StockOps
      BY <3>1, <3>2 DEF RequestSound
    <3>4. PICK rows : txn[s].want \in Seq(rows)
      BY <3>1, <3>3 DEF RequestSound, LocksAhead
    <3>5. Head(txn[s].want) = txn[s].want[1] /\ 1 \in DOMAIN txn[s].want
      BY <3>1, <3>4
    <3> QED BY <3>1, <3>2, <3>3, <3>5 DEF RequestSound
  <2>2. /\ WaitsFor(r) # {} /\ WaitsFor(q) # {}
        /\ WaitsFor(q) \cap Holds(r) # {} /\ WaitsFor(r) \cap Holds(q) # {}
    BY DEF Crossed
  <2>3. /\ LocksAscend(r) /\ Holds(r) = txn[r].rows
        /\ WaitsFor(r) = {txn[r].want[1]} /\ 1 \in DOMAIN txn[r].want
    BY <2>1, <2>2
  <2>4. /\ LocksAscend(q) /\ Holds(q) = txn[q].rows
        /\ WaitsFor(q) = {txn[q].want[1]} /\ 1 \in DOMAIN txn[q].want
    BY <2>1, <2>2
  <2>5. txn[r].want[1] \in txn[q].rows /\ txn[q].want[1] \in txn[r].rows
    BY <2>2, <2>3, <2>4
  <2>6. PICK v \in Places : txn[r].want[1] = PlaceRow(v)
    BY <2>3 DEF LocksAscend
  <2>7. PICK u \in Places : txn[q].want[1] = PlaceRow(u)
    BY <2>4 DEF LocksAscend
  <2>8. u < v
    BY <2>3, <2>5, <2>6, <2>7 DEF LocksAscend
  <2>9. v < u
    BY <2>4, <2>5, <2>6, <2>7 DEF LocksAscend
  <2>10. u \in Nat /\ v \in Nat
    BY PlacesAreApart
  <2> QED BY <2>8, <2>9, <2>10
<1> QED BY <1>1, InventoryInvariance, PTL

\* Beside a commit, only drafts change, and only their places and lines.
LEMMA OnlyWritesMove ==
    ASSUME InventoryInv, [InventoryNext]_vars, NEW d \in Docs, doc[d] # None,
           ~ \E r \in Requests : Write(r) /\ txn[r].arg.doc = d
    PROVE  \/ doc'[d] = doc[d] /\ line'[d] = line[d]
           \/ ~ doc[d].completed /\ ~ doc'[d].completed
<1>1. ASSUME NEW e \in Docs, NEW h \in Headers, CreateDraft(e, h[1], h[2], h[3])
      PROVE  doc'[d] = doc[d] /\ line'[d] = line[d]
  BY <1>1 DEF CreateDraft, InventoryInv, TablesSound
<1>2. ASSUME NEW e \in Docs, NEW h \in Headers, UpdateHeader(e, h[2], h[3])
      PROVE  \/ doc'[d] = doc[d] /\ line'[d] = line[d]
             \/ ~ doc[d].completed /\ ~ doc'[d].completed
  <2>1. CASE e # d
    BY <1>2, <2>1 DEF UpdateHeader, InventoryInv, TablesSound
  <2>2. CASE e = d
    <3>1. doc[d] \in DocumentRows /\ ~ doc[d].completed
      BY <1>2, <2>2 DEF UpdateHeader, Editable, InventoryInv, TablesSound
    <3>2. doc'[d] = [doc[d] EXCEPT !.facility = FacilityOf[h[2]], !.warehouse = h[2], !.to = h[3]]
      BY <1>2, <2>2 DEF UpdateHeader, InventoryInv, TablesSound
    <3>3. ~ doc'[d].completed
      BY <3>1, <3>2 DEF DocumentRows
    <3> QED BY <3>1, <3>3
  <2> QED BY <2>1, <2>2
<1>3. ASSUME NEW e \in Docs, NEW lines, EditsLines(e, lines)
      PROVE  \/ doc'[d] = doc[d] /\ line'[d] = line[d]
             \/ ~ doc[d].completed /\ ~ doc'[d].completed
  <2>1. CASE e # d
    BY <1>3, <2>1 DEF EditsLines, InventoryInv, TablesSound
  <2>2. CASE e = d
    BY <1>3, <2>2 DEF EditsLines, Editable
  <2> QED BY <2>1, <2>2
<1>4. ASSUME Drafting
      PROVE  \/ doc'[d] = doc[d] /\ line'[d] = line[d]
             \/ ~ doc[d].completed /\ ~ doc'[d].completed
  BY <1>1, <1>2, <1>3, <1>4 DEF Drafting, AddLine, UpdateLine, RemoveLine, SetLines, AddSalesOrderItems
<1>5. ASSUME NEW r \in Requests, Moving(r) PROVE doc'[d] = doc[d] /\ line'[d] = line[d]
  <2>1. CASE Write(r)
    <3>1. txn[r].arg.doc # d
      BY <2>1
    <3> QED BY <2>1, <3>1, WriteFacts
  <2>2. CASE ~ Write(r)
    <3>1. UNCHANGED tables
      BY <1>5, <2>2, Zenon DEF Moving, StockBegin, LocksDocument, CancelBegin, CancelLocks, LockWarehouse,
            ConfirmSimple, ConfirmCount, Dispatch, Receive, CloseRemainder, Cancel, Rollback, Decides
    <3> QED BY <3>1, SMTT(40) DEF tables
  <2> QED BY <2>1, <2>2
<1>6. ASSUME Selling \/ UNCHANGED vars PROVE doc'[d] = doc[d] /\ line'[d] = line[d]
  BY <1>6 DEF Selling, Claim, Unclaim, vars, tables
<1> QED BY <1>4, <1>5, <1>6 DEF InventoryNext

\* What a completed document says it moved is never edited.
THEOREM CompletedDocumentsAreFrozen == InventorySpec => CompletedDocumentIsFrozen
<1> DEFINE Frozen(d) ==
             /\ doc'[d] = [doc[d] EXCEPT !.cancelled = doc'[d].cancelled, !.in_transit = doc'[d].in_transit]
             /\ doc[d].cancelled => doc'[d].cancelled
             /\ Lines(d)' = Lines(d) /\ \A p \in Lines(d) : Quantity(d, p)' = Quantity(d, p)
             /\ ~ doc[d].in_transit => ~ doc'[d].in_transit /\ line'[d] = line[d]
<1>1. ASSUME InventoryInv, [InventoryNext]_vars, NEW d \in Docs, doc[d] # None, doc[d].completed
      PROVE  Frozen(d)
  <2>1. CASE \E r \in Requests : Write(r) /\ txn[r].arg.doc = d
    <3>1. PICK r \in Requests : Write(r) /\ txn[r].arg.doc = d
      BY <2>1
    <3> DEFINE w == txn[r].arg
    <3>2. WriteSound(r) /\ doc'[d] = w.header /\ line'[d] = w.lines
      BY <1>1, <3>1, WriteFacts
    <3>3. Follows(doc[d], line[d], doc'[d], line'[d])
      BY <3>1, <3>2 DEF WriteSound
    <3>4. /\ doc'[d] = [doc[d] EXCEPT !.cancelled = doc'[d].cancelled, !.in_transit = doc'[d].in_transit]
          /\ doc[d].cancelled => doc'[d].cancelled
          /\ \A p \in Products : line[d][p] = None <=> line'[d][p] = None
          /\ \A p \in Products : line[d][p] # None => line'[d][p].quantity = line[d][p].quantity
          /\ ~ doc[d].in_transit => ~ doc'[d].in_transit /\ line'[d] = line[d]
      BY <1>1, <3>3 DEF Follows
    <3>5. Lines(d)' = Lines(d) /\ \A p \in Lines(d) : Quantity(d, p)' = Quantity(d, p)
      BY <3>4 DEF Lines, Quantity
    <3> QED BY <3>4, <3>5
  <2>2. CASE ~ \E r \in Requests : Write(r) /\ txn[r].arg.doc = d
    <3>1. doc'[d] = doc[d] /\ line'[d] = line[d]
      BY <1>1, <2>2, OnlyWritesMove
    <3>2. doc[d] \in DocumentRows
      BY <1>1 DEF InventoryInv, TablesSound
    <3>3. doc'[d] = [doc[d] EXCEPT !.cancelled = doc'[d].cancelled, !.in_transit = doc'[d].in_transit]
      BY <3>1, <3>2 DEF DocumentRows
    <3> QED BY <3>1, <3>3 DEF Lines, Quantity
  <2> QED BY <2>1, <2>2
<1>2. InventoryInv /\ [InventoryNext]_vars =>
         [\A d \in Docs : (doc[d] # None /\ doc[d].completed) => Frozen(d)]_vars
  BY <1>1
<1> QED BY <1>2, InventoryInvariance, PTL DEF InventorySpec, CompletedDocumentIsFrozen

\* Whatever races it, a count leaves on hand what was counted.
THEOREM CountsSetStock == InventorySpec => CountSetsStock
<1> DEFINE Confirmed(d) ==
             doc[d] # None /\ doc[d].kind = "count" /\ ~ doc[d].completed /\ doc'[d].completed
           Set(d) == \A p \in Lines(d)' : onHand'[<<doc[d].warehouse, p>>] = Quantity(d, p)'
<1>1. ASSUME InventoryInv, [InventoryNext]_vars, NEW d \in Docs, Confirmed(d)
      PROVE  Set(d)
  <2>1. PICK r \in Requests : Write(r) /\ txn[r].arg.doc = d
    <3>1. doc'[d] # doc[d]
      BY <1>1
    <3> QED BY <1>1, <3>1, OnlyWritesMove
  <2> DEFINE w == txn[r].arg
  <2>2. /\ WriteSound(r) /\ doc'[d] = w.header /\ line'[d] = w.lines
        /\ \A k \in Keys : onHand'[k] = onHand[k] + EntryOf(w.posting, k)
    BY <1>1, <2>1, WriteFacts
  <2>3. \A p \in Products : w.lines[p] # None =>
           onHand[<<doc[d].warehouse, p>>] + EntryOf(w.posting, <<doc[d].warehouse, p>>) = w.lines[p].quantity
    BY <1>1, <2>1, <2>2 DEF WriteSound, CountSound
  <2>4. doc[d].warehouse \in Places
    BY <1>1, PlacesAreApart DEF InventoryInv, TablesSound, DocumentRows
  <2>5. ASSUME NEW p \in Products, line'[d][p] # None
        PROVE  onHand'[<<doc[d].warehouse, p>>] = line'[d][p].quantity
    <3>1. <<doc[d].warehouse, p>> \in Keys
      BY <2>4 DEF Keys
    <3> QED BY <2>2, <2>3, <2>5, <3>1
  <2> QED BY <2>5 DEF Lines, Quantity
<1>2. InventoryInv /\ [InventoryNext]_vars => [\A d \in Docs : Confirmed(d) => Set(d)]_vars
  BY <1>1
<1> QED BY <1>2, InventoryInvariance, PTL DEF InventorySpec, CountSetsStock

-----------------------------------------------------------------------------
(***************************************************************************)
(* The books: what is on hand is what was there plus what every document   *)
(* posted, so a transit warehouse holds what its transfers owe, and every  *)
(* posting that takes something out found it unclaimed.                    *)
(***************************************************************************)
\* A document is its origin's facility's.
AtHome(header) == header.facility = FacilityOf[header.warehouse]

\* The confirmation of a count.
Counts(w) == doc[w.doc].kind = "count" /\ ~ doc[w.doc].completed /\ w.header.completed

\* What is about to be written is booked: a count leaves what it counted, and
\* anything else takes out only what nobody claims.
Booked(w) ==
    /\ w.header.kind = doc[w.doc].kind
    /\ AtHome(w.header)
    /\ \A k \in DOMAIN w.posting :
          IF Counts(w) THEN onHand[k] + w.posting[k] \in Nat
          ELSE w.posting[k] < 0 => claims[k] <= onHand[k] + w.posting[k]

Entries(k) == [d \in Docs |-> EntryOf(ledger[d], k)]

OnHandAddsUp == \A k \in Keys : onHand[k] = Opening[k] + SumFunctionOnSet(Entries(k), Docs)

BooksInv ==
    /\ \A d \in Docs : doc[d] # None => AtHome(doc[d])
    /\ OnHandAddsUp
    /\ \A k \in Keys : onHand[k] \in Nat
    /\ \A k \in Keys \ Sold : claims[k] = 0
    /\ \A r \in Requests : txn[r].op = "write" => Booked(txn[r].arg)

\* What a document's entries do to a transit warehouse is what it still owes.
LEMMA EffectInTransit ==
    ASSUME NEW header, NEW lines, HeaderSound(header, lines), LinesSound(header, lines),
           lines \in [Products -> LineRows \cup {None}],
           NEW f \in Facilities, NEW p \in Products
    PROVE  Effect(header, lines, TransitOf[f], p) =
              IF header.in_transit /\ header.facility = f /\ lines[p] # None
              THEN lines[p].quantity - lines[p].received ELSE 0
<1>1. /\ header \in DocumentRows
      /\ header.warehouse \in Sellable /\ header.to \in Sellable \cup {None}
      /\ header.facility \in Facilities /\ header.kind \in Kinds
  BY DEF HeaderSound, DocumentRows
<1>2. TransitOf[f] \notin Sellable /\ TransitOf[f] # None
  BY PlacesAreApart
<1>3. header.warehouse # TransitOf[f] /\ header.to # TransitOf[f]
  BY <1>1, <1>2
<1>4. TransitOf[header.facility] = TransitOf[f] <=> header.facility = f
  BY <1>1, InventoryConstants DEF InventoryConstants
<1>5. CASE ~ header.completed \/ header.cancelled \/ lines[p] = None
  BY <1>5 DEF Effect, HeaderSound
<1>6. CASE header.completed /\ ~ header.cancelled /\ lines[p] # None
  <2>1. CASE header.kind # "transfer"
    <3>1. ~ header.in_transit BY <2>1 DEF HeaderSound
    <3>2. header.kind \in {"receipt", "issue", "count"} BY <1>1, <2>1 DEF Kinds
    <3> QED BY <1>3, <1>6, <3>1, <3>2 DEF Effect
  <2>2. CASE header.kind = "transfer"
    <3>1. lines[p] \in LineRows BY <1>6
    <3>2. lines[p].quantity \in Nat /\ lines[p].received \in 0..lines[p].quantity
      BY <1>6, <2>2, <3>1 DEF LinesSound, LineRows
    <3>3. CASE header.in_transit /\ header.facility = f
      <4>1. TransitOf[header.facility] = TransitOf[f] BY <1>4, <3>3
      <4> QED BY <1>3, <1>6, <2>2, <3>2, <3>3, <4>1 DEF Effect
    <3>4. CASE ~ header.in_transit
      BY <1>3, <1>6, <2>2, <3>2, <3>4 DEF Effect
    <3>5. CASE header.facility # f
      <4>1. TransitOf[header.facility] # TransitOf[f] BY <1>4, <3>5
      <4> QED BY <1>3, <1>6, <2>2, <3>2, <3>5, <4>1 DEF Effect
    <3> QED BY <3>3, <3>4, <3>5
  <2> QED BY <2>1, <2>2
<1> QED BY <1>5, <1>6

\* What a document owes from a facility.
OwedFrom(f, p) ==
    [d \in Docs |-> IF doc[d] # None /\ doc[d].in_transit /\ doc[d].facility = f /\ p \in Lines(d)
                    THEN Outstanding(d, p) ELSE 0]

\* A transit warehouse holds what the facility's transfers owe.
LEMMA TransitHolds ==
    ASSUME InventoryInv, BooksInv, NEW f \in Facilities, NEW p \in Products
    PROVE  /\ \A d \in Docs : OwedFrom(f, p)[d] \in Nat
           /\ onHand[<<TransitOf[f], p>>] = SumFunctionOnSet(OwedFrom(f, p), Docs)
<1> DEFINE k == <<TransitOf[f], p>>
           g == Entries(k)
           h == OwedFrom(f, p)
<1>1. k \in Keys /\ Opening[k] = 0
  BY InventoryConstants, PlacesAreApart DEF InventoryConstants, Keys
<1>2. ASSUME NEW d \in Docs PROVE h[d] \in Nat /\ g[d] = h[d]
  <2>0. h[d] = IF doc[d] # None /\ doc[d].in_transit /\ doc[d].facility = f /\ p \in Lines(d)
               THEN Outstanding(d, p) ELSE 0
    BY DEF OwedFrom
  <2>1. CASE doc[d] = None
    <3>1. ledger[d] = NoEntries BY <2>1 DEF InventoryInv, TablesSound
    <3>2. EntryOf(ledger[d], k) = 0 BY <3>1 DEF NoEntries, EntryOf
    <3> QED BY <2>0, <2>1, <3>2 DEF Entries
  <2>2. CASE doc[d] # None
    <3>1. DocumentSound(doc[d], line[d], ledger[d]) BY <2>2 DEF InventoryInv, TablesSound
    <3>2. g[d] = Effect(doc[d], line[d], TransitOf[f], p)
      <4>1. EntryOf(ledger[d], k) = Effect(doc[d], line[d], k[1], k[2])
        BY <1>1, <3>1 DEF DocumentSound, EntriesSound
      <4> QED BY <4>1 DEF Entries
    <3>3. Effect(doc[d], line[d], TransitOf[f], p) =
             IF doc[d].in_transit /\ doc[d].facility = f /\ line[d][p] # None
             THEN line[d][p].quantity - line[d][p].received ELSE 0
      BY <3>1, EffectInTransit DEF DocumentSound
    <3>4. p \in Lines(d) <=> line[d][p] # None BY DEF Lines
    <3>5. CASE doc[d].in_transit /\ doc[d].facility = f /\ p \in Lines(d)
      <4>1. /\ Outstanding(d, p) = line[d][p].quantity - line[d][p].received
            /\ line[d][p].quantity \in Nat /\ line[d][p].received \in 0..line[d][p].quantity
        BY <2>2, <3>5, InTransitFacts
      <4> QED BY <2>0, <2>2, <3>2, <3>3, <3>4, <3>5, <4>1
    <3>6. CASE ~ (doc[d].in_transit /\ doc[d].facility = f /\ p \in Lines(d))
      BY <2>0, <3>2, <3>3, <3>4, <3>6
    <3> QED BY <3>5, <3>6
  <2> QED BY <2>1, <2>2
<1>3. IsFiniteSet(Docs) BY InventoryConstants DEF InventoryConstants
<1>4. \A d \in Docs : h[d] \in Nat /\ g[d] = h[d] BY <1>2
<1>5. onHand[k] = Opening[k] + SumFunctionOnSet(g, Docs) BY <1>1 DEF BooksInv, OnHandAddsUp
<1> HIDE DEF g, h
<1>6. SumFunctionOnSet(g, Docs) = SumFunctionOnSet(h, Docs) BY <1>3, <1>4, SumOfEqual
<1>7. SumFunctionOnSet(h, Docs) \in Nat BY <1>3, <1>4, SumIsNat
<1>8. onHand[k] = SumFunctionOnSet(h, Docs) BY <1>1, <1>5, <1>6, <1>7
<1> QED BY <1>4, <1>8 DEF h

\* So what one transfer owes is there, and no sales order claims it.
LEMMA TransitCovers ==
    ASSUME InventoryInv, BooksInv, NEW d \in Docs, doc[d] # None, doc[d].in_transit,
           NEW p \in Lines(d)
    PROVE  /\ Outstanding(d, p) \in Nat
           /\ Outstanding(d, p) <= onHand[<<Transit(d), p>>]
           /\ claims[<<Transit(d), p>>] = 0
<1>1. p \in Products /\ doc[d].facility \in Facilities
  BY InTransitFacts DEF Lines, DocumentRows
<1> DEFINE f == doc[d].facility
           h == OwedFrom(f, p)
<1>2. h[d] = Outstanding(d, p) BY DEF OwedFrom
<1>3. \A e \in Docs : h[e] \in Nat BY <1>1, TransitHolds
<1>4. onHand[<<Transit(d), p>>] = SumFunctionOnSet(h, Docs)
  BY <1>1, TransitHolds DEF Transit
<1>5. IsFiniteSet(Docs) /\ IsFiniteSet(Docs \ {d})
  BY InventoryConstants, FS_RemoveElement DEF InventoryConstants
<1>6. <<Transit(d), p>> \in Keys \ Sold
  <2>1. Transit(d) \in Places \ Sellable BY <1>1, PlacesAreApart DEF Transit
  <2> QED BY <1>1, <2>1, InventoryConstants DEF InventoryConstants, Keys
<1>7. claims[<<Transit(d), p>>] = 0 BY <1>6 DEF BooksInv
<1> HIDE DEF h
<1>8. SumFunctionOnSet(h, Docs) = h[d] + SumFunctionOnSet(h, Docs \ {d})
  BY <1>3, <1>5, SumWithout
<1>9. SumFunctionOnSet(h, Docs \ {d}) \in Nat BY <1>3, <1>5, SumIsNat
<1> QED BY <1>2, <1>3, <1>4, <1>7, <1>8, <1>9

\* What is booked stays booked while nobody posts there or claims more.
LEMMA BookedStays ==
    ASSUME InventoryInv, NEW q \in Requests, txn[q].op = "write", Booked(txn[q].arg),
           txn'[q] = txn[q], doc'[txn[q].arg.doc] = doc[txn[q].arg.doc],
           \A k \in DOMAIN txn[q].arg.posting : onHand'[k] = onHand[k] /\ claims'[k] <= claims[k],
           claims' \in [Keys -> Nat]
    PROVE  Booked(txn[q].arg)'
<1>1. PICK w : w = txn[q].arg
  OBVIOUS
<1>2. w = txn'[q].arg
  BY <1>1
<1>3. WriteSound(q) /\ w.header.kind = doc[w.doc].kind /\ AtHome(w.header)
  BY <1>1 DEF InventoryInv, RequestSound, Booked
<1>4. DOMAIN w.posting \subseteq Keys /\ \A k \in DOMAIN w.posting : w.posting[k] \in Int
  BY <1>1, <1>3 DEF WriteSound
<1>5. Counts(w)' <=> Counts(w)
  BY <1>1, <1>2 DEF Counts
<1>6. ASSUME NEW k \in DOMAIN w.posting
      PROVE  IF Counts(w)' THEN onHand'[k] + w.posting[k] \in Nat
             ELSE w.posting[k] < 0 => claims'[k] <= onHand'[k] + w.posting[k]
  <2>1. IF Counts(w) THEN onHand[k] + w.posting[k] \in Nat
        ELSE w.posting[k] < 0 => claims[k] <= onHand[k] + w.posting[k]
    BY <1>1, <1>6 DEF Booked
  <2>2. onHand'[k] = onHand[k] /\ claims'[k] <= claims[k]
    BY <1>1, <1>6
  <2>3. /\ onHand[k] \in Int /\ claims[k] \in Nat /\ claims'[k] \in Nat /\ w.posting[k] \in Int
    BY <1>4, <1>6 DEF InventoryInv, TablesSound
  <2> QED BY <1>5, <2>1, <2>2, <2>3
<1>7. doc'[w.doc] = doc[w.doc]
  BY <1>1
<1>8. Booked(w)'
  BY <1>3, <1>6, <1>7 DEF Booked, AtHome
<1> QED BY <1>1, <1>2, <1>8

\* A step of one request that writes nothing.
LEMMA BooksOfOne ==
    ASSUME InventoryInv, BooksInv, NEW r \in Requests, NEW x, txn' = [txn EXCEPT ![r] = x],
           UNCHANGED tables, x.op = "write" => Booked(x.arg)
    PROVE  BooksInv'
<1>1. doc' = doc /\ ledger' = ledger /\ onHand' = onHand /\ claims' = claims
  BY DEF tables
<1>2. txn'[r] = x /\ \A q \in Requests : q # r => txn'[q] = txn[q]
  BY DEF InventoryInv
<1>3. OnHandAddsUp'
  BY <1>1 DEF BooksInv, OnHandAddsUp, Entries
<1>4. ASSUME NEW q \in Requests, txn'[q].op = "write" PROVE Booked(txn[q].arg)'
  <2>1. PICK w : w = txn'[q].arg
    OBVIOUS
  <2>2. Booked(w)
    <3>1. CASE q = r
      BY <1>2, <1>4, <2>1, <3>1
    <3>2. CASE q # r
      BY <1>2, <1>4, <2>1, <3>2 DEF BooksInv
    <3> QED BY <3>1, <3>2
  <2>3. Booked(w)'
    BY <1>1, <2>2 DEF Booked, Counts, AtHome
  <2> QED BY <2>1, <2>3
<1> QED BY <1>1, <1>3, <1>4 DEF BooksInv, AtHome

\* An edit of d alone.
LEMMA BooksOfDraft ==
    ASSUME InventoryInv, BooksInv, NEW d \in Docs, Quiet(d),
           doc'[d] # None => AtHome(doc'[d]), \A e \in Docs : e # d => doc'[e] = doc[e],
           ledger' = ledger, onHand' = onHand, claims' = claims, txn' = txn
    PROVE  BooksInv'
<1>1. \A e \in Docs : doc'[e] # None => AtHome(doc'[e])
  BY DEF BooksInv
<1>2. OnHandAddsUp'
  BY DEF BooksInv, OnHandAddsUp, Entries
<1>3. ASSUME NEW q \in Requests, txn'[q].op = "write" PROVE Booked(txn[q].arg)'
  <2>1. RequestSound(q) /\ txn[q].op = "write" /\ Booked(txn[q].arg)
    BY <1>3 DEF InventoryInv, BooksInv
  <2>2. txn[q].arg.doc \in Docs /\ txn[q].arg.doc # d /\ WriteSound(q)
    BY <2>1 DEF RequestSound, Quiet, StockOps
  <2>3. doc'[txn[q].arg.doc] = doc[txn[q].arg.doc]
    BY <2>2
  <2>4. claims' \in [Keys -> Nat] /\ \A k \in DOMAIN txn[q].arg.posting : claims[k] \in Nat
    BY <2>2 DEF InventoryInv, TablesSound, WriteSound
  <2>5. \A k \in DOMAIN txn[q].arg.posting : onHand'[k] = onHand[k] /\ claims'[k] <= claims[k]
    BY <2>4
  <2> QED BY <2>1, <2>3, <2>4, <2>5, BookedStays
<1> QED BY <1>1, <1>2, <1>3 DEF BooksInv, AtHome

LEMMA DraftingBooks == InventoryInv /\ BooksInv /\ Drafting => BooksInv'
<1> SUFFICES ASSUME InventoryInv, BooksInv, NEW d \in Docs PROVE
       /\ \A h \in Headers : CreateDraft(d, h[1], h[2], h[3]) => BooksInv'
       /\ \A h \in Headers : UpdateHeader(d, h[2], h[3]) => BooksInv'
       /\ \A lines : EditsLines(d, lines) => BooksInv'
  BY DEF Drafting, AddLine, UpdateLine, RemoveLine, SetLines, AddSalesOrderItems
<1>1. ASSUME NEW h \in Headers, CreateDraft(d, h[1], h[2], h[3]) PROVE BooksInv'
  <2>1. doc'[d].facility = FacilityOf[h[2]] /\ doc'[d].warehouse = h[2]
    BY <1>1 DEF CreateDraft, InventoryInv, TablesSound
  <2>2. \A e \in Docs : e # d => doc'[e] = doc[e]
    BY <1>1 DEF CreateDraft, InventoryInv, TablesSound
  <2>3. Quiet(d)
    BY <1>1, UnlockedIsQuiet DEF CreateDraft
  <2>4. ledger' = ledger /\ onHand' = onHand /\ claims' = claims /\ txn' = txn
    BY <1>1 DEF CreateDraft
  <2> QED BY <2>1, <2>2, <2>3, <2>4, BooksOfDraft DEF AtHome
<1>2. ASSUME NEW h \in Headers, UpdateHeader(d, h[2], h[3]) PROVE BooksInv'
  <2>1. doc'[d] = [doc[d] EXCEPT !.facility = FacilityOf[h[2]], !.warehouse = h[2], !.to = h[3]]
    BY <1>2 DEF UpdateHeader, InventoryInv, TablesSound
  <2>2. doc[d] \in DocumentRows
    BY <1>2 DEF UpdateHeader, Editable, InventoryInv, TablesSound
  <2>3. AtHome(doc'[d])
    BY <2>1, <2>2 DEF AtHome, DocumentRows
  <2>4. \A e \in Docs : e # d => doc'[e] = doc[e]
    BY <1>2 DEF UpdateHeader, InventoryInv, TablesSound
  <2>5. Quiet(d)
    BY <1>2, UnlockedIsQuiet DEF UpdateHeader
  <2>6. ledger' = ledger /\ onHand' = onHand /\ claims' = claims /\ txn' = txn
    BY <1>2 DEF UpdateHeader
  <2> QED BY <2>3, <2>4, <2>5, <2>6, BooksOfDraft
<1>3. ASSUME NEW lines, EditsLines(d, lines) PROVE BooksInv'
  <2>1. Quiet(d)
    BY <1>3, UnlockedIsQuiet DEF EditsLines
  <2>2. doc' = doc /\ ledger' = ledger /\ onHand' = onHand /\ claims' = claims /\ txn' = txn
    BY <1>3 DEF EditsLines
  <2> QED BY <2>1, <2>2, BooksOfDraft DEF BooksInv
<1> QED BY <1>1, <1>2, <1>3

\* What a decision must have checked.
LEMMA BooksOfDecision ==
    ASSUME InventoryInv, BooksInv, NEW r \in Requests, NEW d, d = txn[r].arg.doc,
           NEW posting, NEW header, NEW lines, Decides(r, posting, header, lines),
           header.kind = doc[d].kind, AtHome(header),
           \A k \in DOMAIN posting :
              IF doc[d].kind = "count" /\ ~ doc[d].completed /\ header.completed
              THEN onHand[k] + posting[k] \in Nat
              ELSE posting[k] < 0 => claims[k] <= onHand[k] + posting[k]
    PROVE  BooksInv'
<1> DEFINE w == [doc |-> txn[r].arg.doc, posting |-> posting, header |-> header, lines |-> lines]
           x == Request("write", w, txn[r].rows, << >>)
<1>1. txn' = [txn EXCEPT ![r] = x] /\ UNCHANGED tables
  BY DEF Decides, InventoryInv
<1>2. w.doc = d /\ w.posting = posting /\ w.header = header
  OBVIOUS
<1> HIDE DEF w
<1>3. Booked(w)
  BY <1>2 DEF Booked, Counts
<1>4. x.arg = w
  BY DEF Request
<1> HIDE DEF x
<1> QED BY <1>1, <1>3, <1>4, BooksOfOne

\* A document that takes its lines out of its warehouse.
LEMMA CoveredFacts ==
    ASSUME InventoryInv, NEW d \in Docs, doc[d] # None, Covered(d), NEW p \in Lines(d)
    PROVE  /\ Quantity(d, p) \in Nat
           /\ claims[<<doc[d].warehouse, p>>] <= onHand[<<doc[d].warehouse, p>>] + (- Quantity(d, p))
<1>1. doc[d] \in DocumentRows
  BY DEF InventoryInv, TablesSound
<1>2. <<doc[d].warehouse, p>> \in Keys
  BY <1>1, PlacesAreApart DEF DocumentRows, Keys, Lines
<1>3. /\ onHand[<<doc[d].warehouse, p>>] \in Int /\ claims[<<doc[d].warehouse, p>>] \in Nat
      /\ Quantity(d, p) \in Nat
  BY <1>2, LineFacts DEF InventoryInv, TablesSound
<1>4. Quantity(d, p) <= onHand[<<doc[d].warehouse, p>>] - claims[<<doc[d].warehouse, p>>]
  BY DEF Covered, Available
<1> QED BY <1>3, <1>4

LEMMA ConfirmSimpleBooks ==
    ASSUME InventoryInv, BooksInv, NEW r \in Requests, ConfirmSimple(r)
    PROVE  BooksInv'
<1>1. PICK d : d = txn[r].arg.doc
  OBVIOUS
<1> DEFINE sign == IF doc[d].kind = "issue" THEN -1 ELSE 1
           posting == [k \in {doc[d].warehouse} \X Lines(d) |-> sign * Quantity(d, k[2])]
           header == Numbered(d)
<1>2. /\ Locked(r, "confirm") /\ doc[d].kind \in {"receipt", "issue"} /\ doc[d] # None
      /\ doc[d].kind = "issue" => Covered(d)
      /\ Decides(r, posting, header, line[d])
  BY <1>1 DEF ConfirmSimple, Confirmable, Editable
<1>3. d \in Docs
  BY <1>1, <1>2, LockedHolds DEF StockOps
<1>4. /\ doc[d] \in DocumentRows
      /\ header = [doc[d] EXCEPT !.serial = header.serial, !.completed = TRUE]
  BY <1>2, <1>3, NumberedSound
<1> HIDE DEF header
<1>5. header.kind = doc[d].kind /\ header.facility = doc[d].facility /\ header.warehouse = doc[d].warehouse
  BY <1>4 DEF DocumentRows
<1>6. AtHome(header)
  BY <1>2, <1>3, <1>5 DEF BooksInv, AtHome
<1>7. ASSUME NEW k \in DOMAIN posting
      PROVE  posting[k] < 0 => claims[k] <= onHand[k] + posting[k]
  <2>1. PICK p \in Lines(d) : k = <<doc[d].warehouse, p>>
    BY <1>7
  <2>2. posting[k] = sign * Quantity(d, p)
    BY <1>7, <2>1
  <2>3. Quantity(d, p) \in Nat
    BY <1>3, LineFacts
  <2>4. CASE doc[d].kind = "issue"
    <3>1. sign = -1
      BY <2>4
    <3>2. posting[k] = - Quantity(d, p)
      BY <2>2, <2>3, <3>1
    <3>3. claims[k] <= onHand[k] + (- Quantity(d, p))
      BY <1>2, <1>3, <2>1, <2>4, CoveredFacts
    <3> HIDE DEF posting, sign
    <3> QED BY <3>2, <3>3
  <2>5. CASE doc[d].kind # "issue"
    <3>1. sign = 1
      BY <2>5
    <3>2. posting[k] = Quantity(d, p)
      BY <2>2, <2>3, <3>1
    <3> HIDE DEF posting, sign
    <3> QED BY <2>3, <3>2
  <2> QED BY <2>4, <2>5
<1>8. doc[d].kind # "count"
  BY <1>2
<1> HIDE DEF posting
<1> QED BY <1>1, <1>2, <1>5, <1>6, <1>7, <1>8, BooksOfDecision

LEMMA ConfirmCountBooks ==
    ASSUME InventoryInv, BooksInv, NEW r \in Requests, NEW include_uncounted \in BOOLEAN,
           ConfirmCount(r, include_uncounted)
    PROVE  BooksInv'
<1>1. PICK d : d = txn[r].arg.doc
  OBVIOUS
<1> DEFINE found(p) == onHand[<<doc[d].warehouse, p>>]
           uncounted == {p \in Products \ Lines(d) : include_uncounted /\ found(p) # 0}
           counted(p) == IF p \in uncounted THEN 0 ELSE Quantity(d, p)
           all == Lines(d) \cup uncounted
           moved == {p \in all : counted(p) # found(p)}
           posting == [k \in {doc[d].warehouse} \X moved |-> counted(k[2]) - found(k[2])]
           header == Numbered(d)
           lines == [p \in Products |-> IF p \in all THEN [Line(counted(p)) EXCEPT !.found = found(p)]
                                        ELSE None]
<1>2. /\ Locked(r, "confirm") /\ doc[d].kind = "count" /\ Editable(d)
      /\ Decides(r, posting, header, lines)
  BY <1>1, Zenon DEF ConfirmCount
<1>3. d \in Docs /\ doc[d] # None /\ ~ doc[d].completed
  BY <1>1, <1>2, LockedHolds DEF StockOps, Editable
<1>4. /\ doc[d] \in DocumentRows
      /\ header = [doc[d] EXCEPT !.serial = header.serial, !.completed = TRUE]
  BY <1>3, NumberedSound
<1> HIDE DEF header
<1>5. /\ header.kind = doc[d].kind /\ header.facility = doc[d].facility
      /\ header.warehouse = doc[d].warehouse /\ header.completed
  BY <1>4 DEF DocumentRows
<1>6. AtHome(header)
  BY <1>3, <1>5 DEF BooksInv, AtHome
<1>7. ASSUME NEW p \in all PROVE p \in Products /\ counted(p) \in Nat
  <2>1. \A q \in Lines(d) : q \in Products /\ Quantity(d, q) \in Nat
    BY <1>3, LineFacts DEF Lines
  <2> QED BY <1>7, <2>1
<1>8. doc[d].warehouse \in Places
  BY <1>4, PlacesAreApart DEF DocumentRows
<1>9. ASSUME NEW k \in DOMAIN posting PROVE onHand[k] + posting[k] \in Nat
  <2>1. PICK p \in moved : k = <<doc[d].warehouse, p>>
    BY <1>9
  <2>2. posting[k] = counted(p) - found(p)
    BY <1>9, <2>1
  <2>3. p \in Products /\ counted(p) \in Nat
    BY <1>7
  <2>4. found(p) \in Int
    BY <1>8, <2>3 DEF InventoryInv, TablesSound, Keys
  <2>5. onHand[k] = found(p)
    BY <2>1
  <2> HIDE DEF posting, found, counted
  <2> QED BY <2>2, <2>3, <2>4, <2>5
<1> HIDE DEF posting, lines
<1> QED BY <1>1, <1>2, <1>3, <1>5, <1>6, <1>9, BooksOfDecision

LEMMA DispatchBooks ==
    ASSUME InventoryInv, BooksInv, NEW r \in Requests, Dispatch(r)
    PROVE  BooksInv'
<1>1. PICK d : d = txn[r].arg.doc
  OBVIOUS
<1> DEFINE moved == [p \in Lines(d) |-> Quantity(d, p)]
           posting == Move(moved, doc[d].warehouse, Transit(d))
           header == [Numbered(d) EXCEPT !.in_transit = TRUE]
           lines == [p \in Products |-> IF p \in Lines(d) THEN [line[d][p] EXCEPT !.received = 0] ELSE None]
<1>2. /\ Locked(r, "dispatch") /\ doc[d] # None /\ Covered(d)
      /\ Decides(r, posting, header, lines)
  BY <1>1 DEF Dispatch, Confirmable, Editable
<1>3. d \in Docs
  BY <1>1, <1>2, LockedHolds DEF StockOps
<1>4. RequestSound(r) /\ txn[r].op = "dispatch"
  BY <1>2, ZenonT(40) DEF InventoryInv, Locked
<1>5. doc[d].kind = "transfer"
  BY <1>1, <1>4 DEF RequestSound
<1>6. /\ doc[d] \in DocumentRows /\ Numbered(d) \in DocumentRows
      /\ Numbered(d) = [doc[d] EXCEPT !.serial = Numbered(d).serial, !.completed = TRUE]
  BY <1>2, <1>3, NumberedSound
<1>7. header.kind = doc[d].kind /\ header.facility = doc[d].facility /\ header.warehouse = doc[d].warehouse
  BY <1>6 DEF DocumentRows
<1> HIDE DEF header
<1>8. AtHome(header)
  BY <1>2, <1>3, <1>7 DEF BooksInv, AtHome
<1>9. ASSUME NEW k \in DOMAIN posting
      PROVE  posting[k] < 0 => claims[k] <= onHand[k] + posting[k]
  <2>1. PICK w \in {doc[d].warehouse, Transit(d)}, p \in Lines(d) : k = <<w, p>>
    BY <1>9 DEF Move
  <2>2. posting[k] = IF w = doc[d].warehouse THEN - Quantity(d, p) ELSE Quantity(d, p)
    BY <1>9, <2>1 DEF Move
  <2>3. /\ Quantity(d, p) \in Nat
        /\ claims[<<doc[d].warehouse, p>>] <= onHand[<<doc[d].warehouse, p>>] + (- Quantity(d, p))
    BY <1>2, <1>3, CoveredFacts
  <2> HIDE DEF posting
  <2> QED BY <2>1, <2>2, <2>3
<1>10. doc[d].kind # "count"
  BY <1>5
<1> HIDE DEF posting, lines
<1> QED BY <1>1, <1>2, <1>7, <1>8, <1>9, <1>10, BooksOfDecision

\* What leaves transit was owed from there.
LEMMA TransitGives ==
    ASSUME InventoryInv, BooksInv, NEW d \in Docs, doc[d] # None, doc[d].in_transit,
           NEW moved, DOMAIN moved \in SUBSET Lines(d),
           \A p \in DOMAIN moved : moved[p] \in Nat /\ moved[p] <= Outstanding(d, p),
           NEW target \in Places,
           NEW k \in DOMAIN Move(moved, Transit(d), target), Move(moved, Transit(d), target)[k] < 0
    PROVE  claims[k] <= onHand[k] + Move(moved, Transit(d), target)[k]
<1> DEFINE posting == Move(moved, Transit(d), target)
<1>1. PICK w \in {Transit(d), target}, p \in DOMAIN moved : k = <<w, p>>
  BY DEF Move
<1>2. posting[k] = IF w = Transit(d) THEN - moved[p] ELSE moved[p]
  BY <1>1 DEF Move
<1>3. moved[p] \in Nat /\ moved[p] <= Outstanding(d, p) /\ p \in Lines(d)
  BY <1>1
<1>4. /\ Outstanding(d, p) \in Nat /\ Outstanding(d, p) <= onHand[<<Transit(d), p>>]
      /\ claims[<<Transit(d), p>>] = 0
  BY <1>3, TransitCovers
<1>5. onHand[<<Transit(d), p>>] \in Nat
  <2>1. Transit(d) \in Places
    BY InTransitFacts
  <2> QED BY <1>3, <2>1 DEF BooksInv, Keys, Lines
<1>6. posting[k] < 0
  OBVIOUS
<1> HIDE DEF posting
<1>7. w = Transit(d) /\ posting[k] = - moved[p]
  BY <1>2, <1>3, <1>6
<1>8. claims[k] <= onHand[k] + posting[k]
  BY <1>1, <1>3, <1>4, <1>5, <1>7
<1> QED BY <1>8 DEF posting

LEMMA ReceiveBooks ==
    ASSUME InventoryInv, BooksInv, NEW r \in Requests, Receive(r)
    PROVE  BooksInv'
<1>1. PICK d : d = txn[r].arg.doc
  OBVIOUS
<1>2. /\ Locked(r, "receive") /\ doc[d].in_transit
      /\ \E received \in ApplyReceipt(d) : \E owing, lines :
            Decides(r, Move(received, Transit(d), doc[d].to), [doc[d] EXCEPT !.in_transit = owing], lines)
  BY <1>1, ZenonT(40) DEF Receive
<1>0. PICK received \in ApplyReceipt(d) : \E owing, lines :
         Decides(r, Move(received, Transit(d), doc[d].to), [doc[d] EXCEPT !.in_transit = owing], lines)
  BY <1>2
<1>3. PICK owing, lines :
         Decides(r, Move(received, Transit(d), doc[d].to), [doc[d] EXCEPT !.in_transit = owing], lines)
  BY <1>0
<1>4. d \in Docs /\ doc[d] # None
  BY <1>1, <1>2, LockedHolds DEF StockOps
<1>5. /\ doc[d] \in DocumentRows /\ doc[d].kind = "transfer" /\ doc[d].completed
      /\ doc[d].to \in Places
  BY <1>2, <1>4, InTransitFacts
<1>6. /\ DOMAIN received \in SUBSET Lines(d)
      /\ \A p \in DOMAIN received : received[p] \in Nat /\ received[p] <= Outstanding(d, p)
  <2>1. received \in UNION {[S -> 1..MaxLine] : S \in SUBSET Lines(d) \ {{}}}
    BY DEF ApplyReceipt
  <2>2. PICK S \in SUBSET Lines(d) : received \in [S -> 1..MaxLine]
    BY <2>1
  <2>3. \A n \in 1..MaxLine : n \in Nat
    BY InventoryConstants DEF InventoryConstants
  <2>4. DOMAIN received \in SUBSET Lines(d) /\ \A p \in DOMAIN received : received[p] \in Nat
    BY <2>2, <2>3
  <2>5. \A p \in DOMAIN received : received[p] <= Outstanding(d, p)
    BY DEF ApplyReceipt
  <2> QED BY <2>4, <2>5
<1> DEFINE header == [doc[d] EXCEPT !.in_transit = owing]
           posting == Move(received, Transit(d), doc[d].to)
<1>7. header.kind = doc[d].kind /\ header.facility = doc[d].facility /\ header.warehouse = doc[d].warehouse
  BY <1>5 DEF DocumentRows
<1> HIDE DEF header
<1>8. AtHome(header)
  BY <1>4, <1>7 DEF BooksInv, AtHome
<1>9. \A k \in DOMAIN posting : posting[k] < 0 => claims[k] <= onHand[k] + posting[k]
  BY <1>2, <1>4, <1>5, <1>6, TransitGives
<1> HIDE DEF posting
<1>10. Decides(r, posting, header, lines)
  BY <1>3 DEF posting, header
<1> QED BY <1>1, <1>5, <1>7, <1>8, <1>9, <1>10, BooksOfDecision

LEMMA CloseRemainderBooks ==
    ASSUME InventoryInv, BooksInv, NEW r \in Requests, CloseRemainder(r)
    PROVE  BooksInv'
<1>1. PICK d : d = txn[r].arg.doc
  OBVIOUS
<1> DEFINE header == [doc[d] EXCEPT !.in_transit = FALSE]
           posting == Move(Returned(d), Transit(d), doc[d].warehouse)
<1>2. Locked(r, "close") /\ doc[d].in_transit /\ Decides(r, posting, header, line[d])
  BY <1>1 DEF CloseRemainder
<1>3. d \in Docs /\ doc[d] # None
  BY <1>1, <1>2, LockedHolds DEF StockOps
<1>4. /\ doc[d] \in DocumentRows /\ doc[d].kind = "transfer" /\ doc[d].completed
      /\ doc[d].warehouse \in Places
  BY <1>2, <1>3, InTransitFacts
<1>5. /\ DOMAIN Returned(d) \in SUBSET Lines(d)
      /\ \A p \in DOMAIN Returned(d) : Returned(d)[p] \in Nat /\ Returned(d)[p] <= Outstanding(d, p)
  <2>1. \A p \in Owing(d) : p \in Lines(d) /\ Returned(d)[p] = Outstanding(d, p)
    BY DEF Owing, Returned
  <2>2. \A p \in Lines(d) : Outstanding(d, p) \in Nat
    BY <1>2, <1>3, TransitCovers
  <2>3. DOMAIN Returned(d) = Owing(d)
    BY DEF Returned
  <2> QED BY <2>1, <2>2, <2>3
<1>6. header.kind = doc[d].kind /\ header.facility = doc[d].facility /\ header.warehouse = doc[d].warehouse
  BY <1>4 DEF DocumentRows
<1> HIDE DEF header
<1>7. AtHome(header)
  BY <1>3, <1>6 DEF BooksInv, AtHome
<1>8. \A k \in DOMAIN posting : posting[k] < 0 => claims[k] <= onHand[k] + posting[k]
  BY <1>2, <1>3, <1>4, <1>5, TransitGives
<1> HIDE DEF posting
<1> QED BY <1>1, <1>2, <1>4, <1>6, <1>7, <1>8, BooksOfDecision

LEMMA CancelBooks ==
    ASSUME InventoryInv, BooksInv, NEW r \in Requests, Cancel(r)
    PROVE  BooksInv'
<1>1. PICK d : d = txn[r].arg.doc
  OBVIOUS
<1> DEFINE posting == IF doc[d].completed THEN Reversal(d) ELSE NoEntries
           header == [doc[d] EXCEPT !.cancelled = TRUE, !.in_transit = FALSE]
<1>2. /\ Locked(r, "cancel") /\ (doc[d].completed => doc[d].kind # "count")
      /\ doc[d].completed => NetOutboundCovered(d)
      /\ Decides(r, posting, header, line[d])
  BY <1>1 DEF Cancel
<1>3. d \in Docs /\ doc[d] # None /\ DocumentSound(doc[d], line[d], ledger[d])
  BY <1>1, <1>2, LockedHolds DEF StockOps
<1>4. doc[d] \in DocumentRows /\ EntriesSound(doc[d], line[d], ledger[d])
  BY <1>3 DEF DocumentSound, HeaderSound
<1>5. /\ header.kind = doc[d].kind /\ header.facility = doc[d].facility
      /\ header.warehouse = doc[d].warehouse /\ header.completed = doc[d].completed
  BY <1>4 DEF DocumentRows
<1> HIDE DEF header
<1>6. AtHome(header)
  BY <1>3, <1>5 DEF BooksInv, AtHome
<1>7. ASSUME NEW k \in DOMAIN posting
      PROVE  doc[d].completed /\ (posting[k] < 0 => claims[k] <= onHand[k] + posting[k])
  <2>1. doc[d].completed /\ posting = Reversal(d)
    BY <1>7 DEF NoEntries
  <2>2. k \in DOMAIN ledger[d] /\ posting[k] = - ledger[d][k]
    BY <1>7, <2>1 DEF Reversal
  <2>3. ledger[d][k] \in Int /\ k \in Keys
    BY <1>4, <2>2 DEF EntriesSound
  <2>4. onHand[k] \in Int /\ claims[k] \in Nat
    BY <2>3 DEF InventoryInv, TablesSound
  <2>5. ledger[d][k] > 0 => ledger[d][k] <= onHand[k] - claims[k]
    BY <1>2, <2>1, <2>2 DEF NetOutboundCovered, Available
  <2> HIDE DEF posting
  <2> QED BY <2>1, <2>2, <2>3, <2>4, <2>5
<1> HIDE DEF posting
<1>8. \A k \in DOMAIN posting :
         /\ ~ (doc[d].kind = "count" /\ ~ doc[d].completed /\ header.completed)
         /\ posting[k] < 0 => claims[k] <= onHand[k] + posting[k]
  BY <1>7
<1> QED BY <1>1, <1>2, <1>5, <1>6, <1>8, BooksOfDecision

\* A commit adds its posting to the document's entries and to what is on hand.
LEMMA WriteAddsUp ==
    ASSUME InventoryInv, BooksInv, NEW r \in Requests, Write(r), NEW k \in Keys
    PROVE  onHand'[k] = Opening[k] + SumFunctionOnSet(Entries(k)', Docs)
<1>1. PICK w : w = txn[r].arg
  OBVIOUS
<1>2. /\ w.doc \in Docs /\ WriteSound(r)
      /\ ledger'[w.doc] = Added(ledger[w.doc], w.posting)
      /\ \A e \in Docs : e # w.doc => ledger'[e] = ledger[e]
      /\ onHand'[k] = onHand[k] + EntryOf(w.posting, k)
  BY <1>1, WriteFacts
<1>3. PICK f : f = Entries(k)
  OBVIOUS
<1>4. PICK g : g = Entries(k)'
  OBVIOUS
<1>5. ASSUME NEW d \in Docs PROVE \A j \in DOMAIN ledger[d] : ledger[d][j] \in Int
  BY DEF InventoryInv, TablesSound, NoEntries, DocumentSound, EntriesSound
<1>6. ASSUME NEW d \in Docs PROVE f[d] \in Int /\ f[d] = EntryOf(ledger[d], k)
  BY <1>3, <1>5 DEF Entries, EntryOf
<1>7. \A j \in DOMAIN w.posting : w.posting[j] \in Int
  BY <1>1, <1>2 DEF WriteSound
<1>8. /\ EntryOf(w.posting, k) \in Int
      /\ EntryOf(Added(ledger[w.doc], w.posting), k) = EntryOf(ledger[w.doc], k) + EntryOf(w.posting, k)
  BY <1>2, <1>5, <1>7, EntryOfAdded
<1>9. ASSUME NEW d \in Docs
      PROVE  g[d] \in Int /\ g[d] = IF d = w.doc THEN f[d] + EntryOf(w.posting, k) ELSE f[d]
  <2>1. g[d] = EntryOf(ledger'[d], k)
    BY <1>4 DEF Entries
  <2>2. g[w.doc] = f[w.doc] + EntryOf(w.posting, k)
    BY <1>2, <1>4, <1>6, <1>8 DEF Entries
  <2> QED BY <1>2, <1>6, <1>8, <2>1, <2>2
<1>10. IsFiniteSet(Docs)
  BY InventoryConstants DEF InventoryConstants
<1>11. SumFunctionOnSet(g, Docs) = SumFunctionOnSet(f, Docs) - f[w.doc] + g[w.doc]
  BY <1>2, <1>6, <1>9, <1>10, SumChanged
<1>12. onHand[k] = Opening[k] + SumFunctionOnSet(f, Docs)
  BY <1>3 DEF BooksInv, OnHandAddsUp
<1>13. SumFunctionOnSet(f, Docs) \in Int
  BY <1>6, <1>10, SumIsInt
<1>14. Opening[k] \in Nat
  BY InventoryConstants DEF InventoryConstants
<1>15. onHand'[k] = Opening[k] + SumFunctionOnSet(g, Docs)
  BY <1>2, <1>6, <1>8, <1>9, <1>11, <1>12, <1>13, <1>14
<1> QED BY <1>4, <1>15

\* What is on hand after a commit: nothing claimed was taken out, but by a
\* count.
LEMMA WriteLeaves ==
    ASSUME InventoryInv, BooksInv, NEW r \in Requests, Write(r), NEW k \in Keys
    PROVE  /\ onHand'[k] \in Nat
           /\ ~ Counts(txn[r].arg) => (onHand'[k] < onHand[k] => claims[k] <= onHand'[k])
<1>1. PICK w : w = txn[r].arg
  OBVIOUS
<1>2. txn[r].op = "write" /\ WriteSound(r) /\ onHand'[k] = onHand[k] + EntryOf(w.posting, k)
  BY <1>1, WriteFacts
<1>3. Booked(w)
  BY <1>1, <1>2 DEF BooksInv
<1>4. onHand[k] \in Nat /\ claims[k] \in Nat
  BY DEF BooksInv, InventoryInv, TablesSound
<1>5. CASE k \notin DOMAIN w.posting
  <2>1. onHand'[k] = onHand[k]
    BY <1>2, <1>4, <1>5 DEF EntryOf
  <2> QED BY <1>4, <2>1
<1>6. CASE k \in DOMAIN w.posting
  <2>1. w.posting[k] \in Int
    BY <1>1, <1>2, <1>6 DEF WriteSound
  <2>2. onHand'[k] = onHand[k] + w.posting[k]
    BY <1>2, <1>6 DEF EntryOf
  <2>3. IF Counts(w) THEN onHand[k] + w.posting[k] \in Nat
        ELSE w.posting[k] < 0 => claims[k] <= onHand[k] + w.posting[k]
    BY <1>3, <1>6 DEF Booked
  <2> QED BY <1>1, <1>4, <2>1, <2>2, <2>3
<1> QED BY <1>5, <1>6

LEMMA WriteBooks ==
    ASSUME InventoryInv, BooksInv, NEW r \in Requests, Write(r)
    PROVE  BooksInv'
<1>1. PICK w : w = txn[r].arg
  OBVIOUS
<1>2. /\ txn[r].op = "write" /\ txn' = [txn EXCEPT ![r] = Idle] /\ claims' = claims
      /\ w.doc \in Docs /\ DocRow(w.doc) \in txn[r].rows /\ WriteSound(r)
      /\ doc'[w.doc] = w.header
      /\ \A e \in Docs : e # w.doc => doc'[e] = doc[e]
      /\ \A k \in Keys : onHand[k] \in Int /\ onHand'[k] = onHand[k] + EntryOf(w.posting, k)
  BY <1>1, WriteFacts DEF InventoryInv, TablesSound
<1>3. \A d \in Docs : doc'[d] # None => AtHome(doc'[d])
  <2>1. AtHome(w.header)
    BY <1>1, <1>2 DEF BooksInv, Booked
  <2> QED BY <1>2, <2>1 DEF BooksInv
<1>4. OnHandAddsUp'
  BY WriteAddsUp DEF OnHandAddsUp
<1>5. \A k \in Keys : onHand'[k] \in Nat
  BY WriteLeaves
<1>6. ASSUME NEW q \in Requests, txn'[q].op = "write" PROVE Booked(txn[q].arg)' 
  <2>1. q # r /\ txn'[q] = txn[q]
    BY <1>2, <1>6 DEF InventoryInv, Idle
  <2>2. txn[q].op = "write" /\ RequestSound(q) /\ WriteSound(q) /\ Booked(txn[q].arg)
    BY <1>6, <2>1 DEF InventoryInv, RequestSound, BooksInv
  <2>3. txn[q].rows \cap txn[r].rows = {}
    BY <1>2, <2>1, <2>2 DEF InventoryInv, Free, Holds
  <2>4. txn[q].arg.doc \in Docs /\ txn[q].arg.doc # w.doc
    BY <1>2, <2>2, <2>3 DEF RequestSound
  <2>5. doc'[txn[q].arg.doc] = doc[txn[q].arg.doc]
    BY <1>2, <2>4
  <2>6. ASSUME NEW k \in DOMAIN txn[q].arg.posting
        PROVE  onHand'[k] = onHand[k] /\ claims'[k] <= claims[k]
    <3>1. k \in Keys /\ PlaceRow(k[1]) \in txn[q].rows
      BY <2>2 DEF WriteSound
    <3>2. k \notin DOMAIN w.posting
      BY <1>1, <1>2, <2>3, <3>1 DEF WriteSound
    <3>3. onHand'[k] = onHand[k]
      BY <1>2, <3>1, <3>2 DEF EntryOf
    <3>4. claims'[k] = claims[k] /\ claims[k] \in Nat
      BY <1>2, <3>1 DEF InventoryInv, TablesSound
    <3> QED BY <3>3, <3>4
  <2>7. claims' \in [Keys -> Nat]
    BY <1>2 DEF InventoryInv, TablesSound
  <2> QED BY <2>1, <2>2, <2>5, <2>6, <2>7, BookedStays
<1>7. \A k \in Keys \ Sold : claims'[k] = 0
  BY <1>2 DEF BooksInv
<1> QED BY <1>3, <1>4, <1>5, <1>6, <1>7 DEF BooksInv, AtHome

\* Sales claim where nobody holds the warehouse, and give back.
LEMMA SellingBooks == InventoryInv /\ BooksInv /\ Selling => BooksInv'
<1> SUFFICES ASSUME InventoryInv, BooksInv, NEW k \in Sold, Claim(k) \/ Unclaim(k) PROVE BooksInv'
  BY DEF Selling
<1>1. UNCHANGED <<doc, line, ledger, onHand, txn>>
  BY DEF Claim, Unclaim
<1>2. claims' \in [Keys -> Nat]
  <2>1. InventoryInv'
    BY SellingKeeps DEF Selling
  <2> QED BY <2>1 DEF InventoryInv, TablesSound
<1>3. claims \in [Keys -> Nat] /\ k \in Keys
  BY InventoryConstants DEF InventoryInv, TablesSound, InventoryConstants, Keys, Sellable
<1>4. \A j \in Keys : j # k => claims'[j] = claims[j]
  BY <1>3 DEF Claim, Unclaim
<1>5. Claim(k) \/ claims'[k] <= claims[k]
  BY <1>3 DEF Unclaim
<1>6. ASSUME NEW q \in Requests, txn'[q].op = "write" PROVE Booked(txn[q].arg)'
  <2>1. txn[q].op = "write" /\ WriteSound(q) /\ Booked(txn[q].arg) /\ txn'[q] = txn[q]
    BY <1>1, <1>6 DEF InventoryInv, RequestSound, BooksInv
  <2>2. ASSUME NEW j \in DOMAIN txn[q].arg.posting
        PROVE  onHand'[j] = onHand[j] /\ claims'[j] <= claims[j]
    <3>1. j \in Keys /\ PlaceRow(j[1]) \in txn[q].rows
      BY <2>1 DEF WriteSound
    <3>2. j = k => ~ Claim(k)
      BY <2>1, <3>1 DEF Claim, Holds
    <3>3. claims[j] \in Nat
      BY <1>3, <3>1
    <3> QED BY <1>1, <1>4, <1>5, <3>1, <3>2, <3>3
  <2>3. doc'[txn[q].arg.doc] = doc[txn[q].arg.doc]
    BY <1>1
  <2> QED BY <1>2, <2>1, <2>2, <2>3, BookedStays
<1>7. OnHandAddsUp'
  BY <1>1 DEF BooksInv, OnHandAddsUp, Entries
<1>8. \A j \in Keys \ Sold : claims'[j] = 0
  BY <1>4 DEF BooksInv
<1>9. \A j \in Keys : onHand'[j] \in Nat
  BY <1>1 DEF BooksInv
<1> QED BY <1>1, <1>6, <1>7, <1>8, <1>9 DEF BooksInv, AtHome

\* Every step of a request keeps the books.
LEMMA MovingBooks ==
    ASSUME InventoryInv, BooksInv, NEW r \in Requests, Moving(r)
    PROVE  BooksInv'
<1>1. ASSUME NEW d \in Docs, NEW op \in StockOps \cup {"cancel"}, NEW places, LocksDocument(r, d, op, places)
      PROVE  BooksInv'
  <2> DEFINE x == Request(op, [doc |-> d], {DocRow(d)}, Ascending(WarehousesToLock(d, places), d))
  <2>1. x.op # "write"
    BY DEF Request, StockOps
  <2>2. txn' = [txn EXCEPT ![r] = x] /\ UNCHANGED tables
    BY <1>1 DEF LocksDocument
  <2> HIDE DEF x
  <2> QED BY <2>1, <2>2, BooksOfOne
<1>2. ASSUME NEW d \in Docs, doc[d] # None, NEW op \in StepsOf(doc[d].kind), StockBegin(r, d, op)
      PROVE  BooksInv'
  BY <1>1, <1>2 DEF StockBegin, StepsOf, StockOps
<1>3. ASSUME NEW d \in Docs, CancelBegin(r, d) PROVE BooksInv'
  <2> DEFINE x == Request("cancel_locks", [doc |-> d, ledger |-> LedgerPlaces(d)], {}, <<DocRow(d)>>)
  <2>1. x.op # "write"
    BY DEF Request
  <2>2. txn' = [txn EXCEPT ![r] = x] /\ UNCHANGED tables
    BY <1>3 DEF CancelBegin, Begins
  <2> HIDE DEF x
  <2> QED BY <2>1, <2>2, BooksOfOne
<1>4. CASE CancelLocks(r)
  <2>1. txn[r].op = "cancel_locks" /\ LocksDocument(r, txn[r].arg.doc, "cancel", txn[r].arg.ledger)
    BY <1>4 DEF CancelLocks
  <2>2. txn[r].arg.doc \in Docs
    BY <2>1 DEF InventoryInv, RequestSound
  <2> QED BY <1>1, <2>1, <2>2
<1>5. CASE LockWarehouse(r)
  <2>1. PICK x : txn' = [txn EXCEPT ![r] = x] /\ x.op = txn[r].op /\ txn[r].want # << >>
    BY <1>5 DEF LockWarehouse, LocksNext, Request
  <2>2. txn[r].op # "write"
    BY <2>1 DEF InventoryInv, RequestSound
  <2>3. UNCHANGED tables
    BY <1>5 DEF LockWarehouse
  <2> QED BY <2>1, <2>2, <2>3, BooksOfOne
<1>6. CASE Rollback(r)
  <2>1. txn' = [txn EXCEPT ![r] = Idle] /\ UNCHANGED tables
    BY <1>6 DEF Rollback, Ends
  <2>2. Idle.op # "write"
    BY DEF Idle
  <2> QED BY <2>1, <2>2, BooksOfOne
<1>7. ASSUME NEW include_uncounted \in BOOLEAN, ConfirmCount(r, include_uncounted) PROVE BooksInv'
  BY <1>7, ConfirmCountBooks
<1>8. CASE ConfirmSimple(r) \/ Dispatch(r) \/ Receive(r) \/ CloseRemainder(r) \/ Cancel(r)
  BY <1>8, ConfirmSimpleBooks, DispatchBooks, ReceiveBooks, CloseRemainderBooks, CancelBooks
<1>9. CASE Write(r)
  BY <1>9, WriteBooks
<1> QED BY <1>2, <1>3, <1>4, <1>5, <1>6, <1>7, <1>8, <1>9 DEF Moving

LEMMA BooksInit == InventoryInit => BooksInv
<1> SUFFICES ASSUME InventoryInit PROVE BooksInv
  OBVIOUS
<1>1. IsFiniteSet(Docs) /\ Opening \in [Keys -> Nat]
  BY InventoryConstants DEF InventoryConstants
<1>2. ASSUME NEW k \in Keys PROVE onHand[k] = Opening[k] + SumFunctionOnSet(Entries(k), Docs)
  <2>1. PICK f : f = Entries(k)
    OBVIOUS
  <2>2. \A d \in Docs : f[d] = 0
    BY <2>1 DEF Entries, EntryOf, NoEntries, InventoryInit
  <2>3. SumFunctionOnSet(f, Docs) = 0
    BY <1>1, <2>2, SumOfZeros
  <2> QED BY <1>1, <2>1, <2>3 DEF InventoryInit
<1>3. \A r \in Requests : txn[r].op # "write"
  BY DEF InventoryInit, Idle
<1>4. \A d \in Docs : doc[d] = None
  BY DEF InventoryInit
<1> QED BY <1>1, <1>2, <1>3, <1>4 DEF BooksInv, OnHandAddsUp, InventoryInit

LEMMA BooksNext == InventoryInv /\ BooksInv /\ [InventoryNext]_vars => BooksInv'
<1>1. ASSUME InventoryInv, BooksInv, UNCHANGED vars PROVE BooksInv'
  <2>1. UNCHANGED <<doc, line, ledger, onHand, claims, txn>>
    BY <1>1 DEF vars, tables
  <2> QED BY <1>1, <2>1 DEF BooksInv, AtHome, OnHandAddsUp, Entries, Booked, Counts
<1> QED BY <1>1, DraftingBooks, MovingBooks, SellingBooks DEF InventoryNext

\* The books balance in every reachable state.
THEOREM BooksBalance == InventorySpec => []BooksInv
<1> QED BY InventoryInvariance, InventoryInitInv, InventoryNextInv, BooksInit, BooksNext, PTL DEF InventorySpec

-----------------------------------------------------------------------------
(***************************************************************************)
(* The ledger implements the stock book.                                   *)
(***************************************************************************)
CountsDone == {d \in Docs : doc[d] # None /\ doc[d].kind = "count" /\ doc[d].completed}

\* A commit confirms one count or none.
LEMMA WriteCounts ==
    ASSUME InventoryInv, BooksInv, NEW r \in Requests, Write(r)
    PROVE  IF Counts(txn[r].arg)
           THEN txn[r].arg.doc \notin CountsDone /\ CountsDone' = CountsDone \cup {txn[r].arg.doc}
           ELSE CountsDone' = CountsDone
<1>1. PICK w : w = txn[r].arg
  OBVIOUS
<1>2. /\ txn[r].op = "write" /\ w.doc \in Docs /\ doc[w.doc] # None /\ WriteSound(r)
      /\ w.header \in DocumentRows /\ doc'[w.doc] = w.header
      /\ \A e \in Docs : e # w.doc => doc'[e] = doc[e]
  BY <1>1, WriteFacts
<1>3. w.header.kind = doc[w.doc].kind
  BY <1>1, <1>2 DEF BooksInv, Booked
<1>4. w.header # None
  BY <1>2, NoneIsNoInventoryRow DEF NoneIsNoInventoryRow
<1>5. doc[w.doc] \in DocumentRows
  BY <1>2 DEF InventoryInv, TablesSound
<1>6. doc[w.doc].completed => w.header.completed
  <2>1. Follows(doc[w.doc], line[w.doc], w.header, w.lines)
    BY <1>1, <1>2 DEF WriteSound
  <2> SUFFICES ASSUME doc[w.doc].completed PROVE w.header.completed
    OBVIOUS
  <2>2. w.header = [doc[w.doc] EXCEPT !.cancelled = w.header.cancelled, !.in_transit = w.header.in_transit]
    BY <2>1 DEF Follows
  <2> QED BY <1>5, <2>2 DEF DocumentRows
<1>7. \A e \in Docs : e # w.doc => (e \in CountsDone' <=> e \in CountsDone)
  BY <1>2 DEF CountsDone
<1>8. w.doc \in CountsDone' <=> (doc[w.doc].kind = "count" /\ w.header.completed)
  BY <1>2, <1>3, <1>4 DEF CountsDone
<1>9. w.doc \in CountsDone <=> (doc[w.doc].kind = "count" /\ doc[w.doc].completed)
  BY <1>2 DEF CountsDone
<1>10. CountsDone \subseteq Docs /\ CountsDone' \subseteq Docs
  BY DEF CountsDone
<1> QED BY <1>1, <1>2, <1>6, <1>7, <1>8, <1>9, <1>10 DEF Counts

\* No other step does, or moves stock.
LEMMA OthersCount ==
    ASSUME InventoryInv, [InventoryNext]_vars, ~ \E r \in Requests : Write(r)
    PROVE  /\ CountsDone' = CountsDone /\ onHand' = onHand
           /\ Selling \/ claims' = claims
<1>1. ASSUME NEW d \in Docs, doc[d] = None PROVE doc'[d] = None \/ ~ doc'[d].completed
  <2>1. ASSUME NEW e \in Docs, NEW h \in Headers, CreateDraft(e, h[1], h[2], h[3])
        PROVE  doc'[d] = None \/ ~ doc'[d].completed
    <3>1. doc' = [doc EXCEPT ![e] = [kind |-> h[1], facility |-> FacilityOf[h[2]], warehouse |-> h[2],
                                     to |-> h[3], completed |-> FALSE, cancelled |-> FALSE,
                                     in_transit |-> FALSE, serial |-> 0]]
      BY <2>1 DEF CreateDraft
    <3>2. DOMAIN doc = Docs
      BY DEF InventoryInv, TablesSound
    <3>3. CASE e = d
      BY <3>1, <3>2, <3>3
    <3>4. CASE e # d
      BY <1>1, <3>1, <3>2, <3>4
    <3> QED BY <3>3, <3>4
  <2>2. ASSUME NEW e \in Docs, NEW h \in Headers, UpdateHeader(e, h[2], h[3])
        PROVE  doc'[d] = None
    BY <1>1, <2>2 DEF UpdateHeader, Editable, InventoryInv, TablesSound
  <2>3. ASSUME NEW e \in Docs, NEW lines, EditsLines(e, lines) PROVE doc'[d] = None
    BY <1>1, <2>3 DEF EditsLines
  <2>4. ASSUME Drafting PROVE doc'[d] = None \/ ~ doc'[d].completed
    BY <2>1, <2>2, <2>3, <2>4 DEF Drafting, AddLine, UpdateLine, RemoveLine, SetLines, AddSalesOrderItems
  <2>5. ASSUME NEW r \in Requests, Moving(r) PROVE doc' = doc
    <3>1. UNCHANGED tables
      BY <2>5, Zenon DEF Moving, StockBegin, LocksDocument, CancelBegin, CancelLocks, LockWarehouse,
            ConfirmSimple, ConfirmCount, Dispatch, Receive, CloseRemainder, Cancel, Rollback, Decides
    <3> QED BY <3>1 DEF tables
  <2>6. ASSUME Selling \/ UNCHANGED vars PROVE doc' = doc
    BY <2>6 DEF Selling, Claim, Unclaim, vars, tables
  <2> QED BY <1>1, <2>4, <2>5, <2>6 DEF InventoryNext
<1>2. ASSUME NEW d \in Docs PROVE d \in CountsDone' <=> d \in CountsDone
  <2>1. CASE doc[d] = None
    BY <1>1, <2>1 DEF CountsDone
  <2>2. CASE doc[d] # None
    <3>1. doc'[d] = doc[d] \/ (~ doc[d].completed /\ ~ doc'[d].completed)
      BY <2>2, OnlyWritesMove
    <3> QED BY <2>2, <3>1 DEF CountsDone
  <2> QED BY <2>1, <2>2
<1>3. CountsDone' = CountsDone
  BY <1>2 DEF CountsDone
<1>4. ASSUME Drafting PROVE onHand' = onHand /\ claims' = claims
  BY <1>4 DEF Drafting, CreateDraft, UpdateHeader, EditsLines, AddLine, UpdateLine, RemoveLine, SetLines,
              AddSalesOrderItems
<1>5. ASSUME NEW r \in Requests, Moving(r) PROVE onHand' = onHand /\ claims' = claims
  <2>1. UNCHANGED tables
    BY <1>5, Zenon DEF Moving, StockBegin, LocksDocument, CancelBegin, CancelLocks, LockWarehouse,
          ConfirmSimple, ConfirmCount, Dispatch, Receive, CloseRemainder, Cancel, Rollback, Decides
  <2> QED BY <2>1 DEF tables
<1>6. ASSUME Selling PROVE onHand' = onHand
  BY <1>6 DEF Selling, Claim, Unclaim
<1>7. ASSUME UNCHANGED vars PROVE onHand' = onHand /\ claims' = claims
  BY <1>7 DEF vars, tables
<1> QED BY <1>3, <1>4, <1>5, <1>6, <1>7 DEF InventoryNext

\* Whatever documents and sales orders race, nothing is taken out, or
\* claimed, that is claimed already or not there; only a count leaves less.
THEOREM LedgerKeepsTheBook == InventorySpec => LedgerIsABook
<1>1. IsFiniteSet(CountsDone)
  BY InventoryConstants, FS_Subset DEF InventoryConstants, CountsDone
<1>2. InventoryInit => Book!BookInit
  <2> SUFFICES ASSUME InventoryInit PROVE Book!BookInit
    OBVIOUS
  <2>1. CountsDone = {}
    BY DEF InventoryInit, CountsDone
  <2>2. Cardinality(CountsDone) = 0
    BY <2>1, FS_EmptySet
  <2> QED BY <2>2 DEF Book!BookInit, InventoryInit, CountsDone
<1>3. ASSUME InventoryInv, BooksInv, [InventoryNext]_vars
      PROVE  [Book!Post \/ Book!Count \/ Book!Promise]_(Book!bookVars)
  <2>1. CASE \E r \in Requests : Write(r)
    <3>1. PICK r \in Requests : Write(r)
      BY <2>1
    <3>2. claims' = claims
      BY <3>1 DEF Write
    <3>3. \A k \in Keys : onHand'[k] \in Nat
      BY <1>3, <3>1, WriteLeaves
    <3>4. CASE Counts(txn[r].arg)
      <4>1. Cardinality(CountsDone') = Cardinality(CountsDone) + 1
        BY <1>1, <1>3, <3>1, <3>4, WriteCounts, FS_AddElement
      <4>2. Book!Count
        BY <3>2, <3>3, <4>1 DEF Book!Count, CountsDone
      <4> QED BY <4>2
    <3>5. CASE ~ Counts(txn[r].arg)
      <4>1. CountsDone' = CountsDone
        BY <1>3, <3>1, <3>5, WriteCounts
      <4>2. Cardinality(CountsDone') = Cardinality(CountsDone)
        BY <4>1
      <4>3. \A k \in Keys : onHand'[k] < onHand[k] => claims[k] <= onHand'[k]
        BY <1>3, <3>1, <3>5, WriteLeaves
      <4>4. Book!Post
        BY <3>2, <4>2, <4>3 DEF Book!Post, CountsDone
      <4> QED BY <4>4
    <3> QED BY <3>4, <3>5
  <2>2. CASE ~ \E r \in Requests : Write(r)
    <3>1. CountsDone' = CountsDone /\ onHand' = onHand /\ (Selling \/ claims' = claims)
      BY <1>3, <2>2, OthersCount
    <3>2. Cardinality(CountsDone') = Cardinality(CountsDone)
      BY <3>1
    <3>3. CASE claims' = claims
      BY <3>1, <3>2, <3>3 DEF Book!bookVars, CountsDone
    <3>4. CASE Selling
      <4>1. PICK k \in Sold : Claim(k) \/ Unclaim(k)
        BY <3>4 DEF Selling
      <4>2. claims \in [Keys -> Nat] /\ k \in Keys
        BY <1>3, InventoryConstants DEF InventoryInv, TablesSound, InventoryConstants, Keys, Sellable
      <4>3. \A j \in Keys : j # k => claims'[j] = claims[j]
        BY <4>1, <4>2 DEF Claim, Unclaim
      <4>4. onHand[k] \in Nat
        BY <1>3, <4>2 DEF BooksInv
      <4>5. CASE Claim(k)
        <5>1. claims'[k] = claims[k] + 1 /\ onHand[k] - claims[k] > 0
          BY <4>2, <4>5 DEF Claim, Available
        <5>2. /\ \A j \in Keys : claims'[j] \in Nat
              /\ \A j \in Keys : claims'[j] > claims[j] => claims'[j] <= onHand[j]
          BY <4>2, <4>3, <4>4, <5>1
        <5>3. Book!Promise
          BY <3>1, <3>2, <5>2 DEF Book!Promise, CountsDone
        <5> QED BY <5>3
      <4>6. CASE Unclaim(k)
        <5>1. claims'[k] = claims[k] - 1 /\ claims[k] > 0
          BY <4>2, <4>6 DEF Unclaim
        <5>2. /\ \A j \in Keys : claims'[j] \in Nat
              /\ \A j \in Keys : claims'[j] > claims[j] => claims'[j] <= onHand[j]
          BY <4>2, <4>3, <5>1
        <5>3. Book!Promise
          BY <3>1, <3>2, <5>2 DEF Book!Promise, CountsDone
        <5> QED BY <5>3
      <4> QED BY <4>1, <4>5, <4>6
    <3> QED BY <3>1, <3>3, <3>4
  <2> QED BY <2>1, <2>2
<1> QED BY <1>2, <1>3, InventoryInvariance, BooksBalance, PTL DEF InventorySpec, LedgerIsABook, Book!BookSpec

-----------------------------------------------------------------------------
(***************************************************************************)
(* What the stock screens show.                                            *)
(***************************************************************************)
\* The documents that owe a product, and what they owe.
OwingDocs(p) == {d \in Docs : doc[d] # None /\ doc[d].in_transit /\ p \in Lines(d)}
OwedBy(p) == [d \in OwingDocs(p) |-> Outstanding(d, p)]

LEMMA OwingFacts ==
    ASSUME InventoryInv, BooksInv, NEW p \in Products, NEW d \in OwingDocs(p)
    PROVE  /\ d \in Docs /\ doc[d] # None /\ doc[d].completed /\ ~ doc[d].cancelled
           /\ doc[d].to \in Sellable /\ doc[d].facility \in Facilities
           /\ FacilityOf[doc[d].warehouse] = doc[d].facility
           /\ Outstanding(d, p) \in Nat /\ OwedBy(p)[d] = Outstanding(d, p)
           /\ Owed(d, p) = Outstanding(d, p)
<1>1. d \in Docs /\ doc[d] # None /\ doc[d].in_transit /\ p \in Lines(d)
  BY DEF OwingDocs
<1>2. /\ doc[d] \in DocumentRows /\ doc[d].completed /\ ~ doc[d].cancelled /\ doc[d].to \in Sellable
      /\ line[d][p].quantity \in Nat /\ line[d][p].received \in 0..line[d][p].quantity
      /\ Quantity(d, p) = line[d][p].quantity
      /\ Outstanding(d, p) = line[d][p].quantity - line[d][p].received
  BY <1>1, InTransitFacts
<1>3. Outstanding(d, p) \in Nat
  BY <1>2
<1>4. line[d][p].received # None
  BY <1>2, InventoryConstants DEF InventoryConstants
<1>5. Owed(d, p) = Outstanding(d, p)
  BY <1>2, <1>4 DEF Owed
<1>6. FacilityOf[doc[d].warehouse] = doc[d].facility
  BY <1>1 DEF BooksInv, AtHome
<1> QED BY <1>1, <1>2, <1>3, <1>5, <1>6 DEF DocumentRows, OwedBy

\* What a transit warehouse holds is owed by the transfers that left its
\* facility.
LEMMA TransitOwes ==
    ASSUME InventoryInv, BooksInv, NEW f \in Facilities, NEW p \in Products,
           NEW D, D = {d \in OwingDocs(p) : doc[d].facility = f}
    PROVE  onHand[<<TransitOf[f], p>>] = SumFunctionOnSet(OwedBy(p), D)
<1>1. PICK g : g = OwedFrom(f, p)
  OBVIOUS
<1>2. PICK h : h = OwedBy(p)
  OBVIOUS
<1>3. IsFiniteSet(Docs) /\ D \in SUBSET Docs
  BY InventoryConstants DEF InventoryConstants, OwingDocs
<1>4. /\ \A d \in Docs : g[d] \in Nat
      /\ onHand[<<TransitOf[f], p>>] = SumFunctionOnSet(g, Docs)
  BY <1>1, TransitHolds
<1>5. \A d \in Docs \ D : g[d] = 0
  BY <1>1 DEF OwedFrom, OwingDocs
<1>6. SumFunctionOnSet(g, Docs) = SumFunctionOnSet(g, D)
  BY <1>3, <1>4, <1>5, SumOfPart
<1>7. \A d \in D : g[d] = h[d]
  BY <1>1, <1>2, <1>3 DEF OwedFrom, OwingDocs, OwedBy
<1>8. IsFiniteSet(D)
  BY <1>3, FS_Subset
<1>9. SumFunctionOnSet(g, D) = SumFunctionOnSet(h, D)
  BY <1>7, <1>8, SumOfEqual
<1> QED BY <1>2, <1>4, <1>6, <1>9

LEMMA FacilitiesAreFinite == IsFiniteSet(Facilities)
<1>1. TransitOf \in Injection(Facilities, Places)
  BY InventoryConstants DEF InventoryConstants, Injection, IsInjective
<1> QED BY <1>1, InventoryConstants, FS_Injection DEF InventoryConstants

\* What is shown coming, warehouse by warehouse, is what is owed.
LEMMA StockRowsShow ==
    ASSUME InventoryInv, BooksInv, NEW p \in Products
    PROVE  SumFunction([row \in StockRows(p) |-> row.incoming]) = SumFunctionOnSet(OwedBy(p), OwingDocs(p))
<1>1. PICK D : D = OwingDocs(p)
  OBVIOUS
<1>2. PICK h : h = OwedBy(p)
  OBVIOUS
<1>3. IsFiniteSet(D) /\ IsFiniteSet(Sellable)
  BY <1>1, FS_Subset, InventoryConstants DEF InventoryConstants, OwingDocs, Sellable
<1>4. \A d \in D : h[d] \in Nat /\ doc[d].to \in Sellable
  BY <1>1, <1>2, OwingFacts
<1> DEFINE key == [d \in D |-> doc[d].to]
           part == [w \in Sellable |-> {d \in D : doc[d].to = w}]
           e == [w \in Sellable |-> Incoming(w, p)]
<1>5. ASSUME NEW w \in Sellable PROVE Incoming(w, p) = SumFunctionOnSet(h, part[w])
  <2> DEFINE bound == {d \in InTransitTo(w) : p \in Lines(d)}
             g == [d \in bound |-> Owed(d, p)]
  <2>1. \A d \in D : /\ doc[d] # None /\ doc[d].completed /\ ~ doc[d].cancelled
                     /\ doc[d].in_transit /\ p \in Lines(d) /\ d \in Docs
    BY <1>1, OwingFacts DEF OwingDocs
  <2>2. bound = part[w]
    BY <1>1, <2>1 DEF InTransitTo, OwingDocs
  <2>3. Incoming(w, p) = SumFunction(g)
    BY DEF Incoming
  <2>4. SumFunction(g) = SumFunctionOnSet(g, bound)
    BY DEF SumFunction, SumFunctionOnSet, FoldFunction, g
  <2>5. \A d \in bound : g[d] = h[d]
    <3> SUFFICES ASSUME NEW d \in bound PROVE Owed(d, p) = h[d]
      OBVIOUS
    <3>1. d \in D
      BY <2>2
    <3> QED BY <1>1, <1>2, <3>1, OwingFacts
  <2>6. IsFiniteSet(bound)
    BY <1>3, <2>2, FS_Subset
  <2> HIDE DEF bound, g
  <2>7. SumFunctionOnSet(g, bound) = SumFunctionOnSet(h, bound)
    BY <2>5, <2>6, SumOfEqual
  <2> QED BY <2>2, <2>3, <2>4, <2>7
<1>6. SumFunctionOnSet(h, D) = SumFunctionOnSet(e, Sellable)
  <2>1. \A d \in D : h[d] \in Int /\ key[d] \in Sellable
    BY <1>4
  <2>2. \A w \in Sellable : \A d : d \in part[w] <=> d \in D /\ key[d] = w
    OBVIOUS
  <2>3. \A w \in Sellable : e[w] = SumFunctionOnSet(h, part[w])
    BY <1>5
  <2> HIDE DEF key, part, e
  <2> QED BY <1>3, <2>1, <2>2, <2>3, SumGrouped
<1>7. \A w \in Sellable : e[w] \in Int
  <2> SUFFICES ASSUME NEW w \in Sellable PROVE Incoming(w, p) \in Int
    OBVIOUS
  <2>1. part[w] \in SUBSET D
    OBVIOUS
  <2>2. IsFiniteSet(part[w])
    BY <1>3, <2>1, FS_Subset
  <2> HIDE DEF part
  <2> QED BY <1>4, <1>5, <2>1, <2>2, SumIsInt
<1> DEFINE R == StockRows(p)
           row == [w \in Sellable |-> Figures(w, p)]
           g == [r \in R |-> r.incoming]
<1>8. \A w \in Sellable : row[w].warehouse = w /\ row[w].incoming = e[w]
  BY DEF Figures
<1>9. \A w, v \in Sellable : row[w] = row[v] => w = v
  <2> HIDE DEF row
  <2> QED BY <1>8
<1>10. \A r \in R : \E w \in Sellable : row[w] = r
  BY DEF StockRows
<1>11. ASSUME NEW w \in Sellable
       PROVE  IF row[w] \in R THEN g[row[w]] = e[w] ELSE e[w] = 0
  <2>1. CASE row[w] \in R
    BY <1>8, <2>1
  <2>2. CASE row[w] \notin R
    <3>1. ~ KeepRow(row[w])
      BY <2>2 DEF StockRows
    <3> QED BY <1>8, <2>2, <3>1 DEF KeepRow
  <2> QED BY <2>1, <2>2
<1>12. SumFunction(g) = SumFunctionOnSet(g, R)
  BY DEF SumFunction, SumFunctionOnSet, FoldFunction, g
<1> HIDE DEF R, row, g, e, key, part
<1>13. SumFunctionOnSet(g, R) = SumFunctionOnSet(e, Sellable)
  BY <1>3, <1>7, <1>9, <1>10, <1>11, SumOfRows
<1>14. SumFunction(g) = SumFunctionOnSet(h, D)
  BY <1>6, <1>12, <1>13
<1> QED BY <1>1, <1>2, <1>14 DEF g, R

\* What is shown in transit, facility by facility, is what is owed.
LEMMA TransitRowsShow ==
    ASSUME InventoryInv, BooksInv, NEW p \in Products
    PROVE  SumFunction([row \in TransitRows(p) |-> row.on_hand]) = SumFunctionOnSet(OwedBy(p), OwingDocs(p))
<1>1. PICK D : D = OwingDocs(p)
  OBVIOUS
<1>2. PICK h : h = OwedBy(p)
  OBVIOUS
<1>3. IsFiniteSet(D) /\ IsFiniteSet(Facilities)
  BY <1>1, FS_Subset, FacilitiesAreFinite, InventoryConstants DEF InventoryConstants, OwingDocs
<1>4. \A d \in D : h[d] \in Nat /\ doc[d].facility \in Facilities
  BY <1>1, <1>2, OwingFacts
<1> DEFINE key == [d \in D |-> doc[d].facility]
           part == [f \in Facilities |-> {d \in D : doc[d].facility = f}]
           e == [f \in Facilities |-> onHand[<<TransitOf[f], p>>]]
<1>5. ASSUME NEW f \in Facilities PROVE e[f] = SumFunctionOnSet(h, part[f])
  <2> DEFINE G == {d \in OwingDocs(p) : doc[d].facility = f}
  <2>1. G = part[f]
    BY <1>1
  <2> HIDE DEF part
  <2>2. onHand[<<TransitOf[f], p>>] = SumFunctionOnSet(OwedBy(p), G)
    BY TransitOwes
  <2> QED BY <1>2, <2>1, <2>2
<1>6. SumFunctionOnSet(h, D) = SumFunctionOnSet(e, Facilities)
  <2>1. \A d \in D : h[d] \in Int /\ key[d] \in Facilities
    BY <1>4
  <2>2. \A f \in Facilities : \A d : d \in part[f] <=> d \in D /\ key[d] = f
    OBVIOUS
  <2> HIDE DEF key, part, e
  <2> QED BY <1>3, <1>5, <2>1, <2>2, SumGrouped
<1>7. \A f \in Facilities : e[f] \in Int
  <2> SUFFICES ASSUME NEW f \in Facilities PROVE onHand[<<TransitOf[f], p>>] \in Int
    OBVIOUS
  <2>1. <<TransitOf[f], p>> \in Keys
    BY PlacesAreApart DEF Keys
  <2> QED BY <2>1 DEF InventoryInv, TablesSound
<1> DEFINE R == TransitRows(p)
           row == [f \in Facilities |-> [facility |-> f, on_hand |-> onHand[<<TransitOf[f], p>>]]]
           g == [r \in R |-> r.on_hand]
<1>8. \A f \in Facilities : row[f].facility = f /\ row[f].on_hand = e[f]
  OBVIOUS
<1>9. \A f, v \in Facilities : row[f] = row[v] => f = v
  <2> HIDE DEF row
  <2> QED BY <1>8
<1>10. \A r \in R : \E f \in Facilities : row[f] = r
  BY DEF TransitRows
<1>11. ASSUME NEW f \in Facilities
       PROVE  IF row[f] \in R THEN g[row[f]] = e[f] ELSE e[f] = 0
  <2>1. CASE row[f] \in R
    BY <1>8, <2>1
  <2>2. CASE row[f] \notin R
    <3>1. row[f].on_hand = 0
      BY <2>2 DEF TransitRows
    <3> QED BY <1>8, <2>2, <3>1
  <2> QED BY <2>1, <2>2
<1>12. SumFunction(g) = SumFunctionOnSet(g, R)
  BY DEF SumFunction, SumFunctionOnSet, FoldFunction, g
<1> HIDE DEF R, row, g, e, key, part
<1>13. SumFunctionOnSet(g, R) = SumFunctionOnSet(e, Facilities)
  <2>1. \A c \in Facilities : IF row[c] \in R THEN g[row[c]] = e[c] ELSE e[c] = 0
    BY <1>11
  <2> QED BY <1>3, <1>7, <1>9, <1>10, <2>1, SumOfRows, SMTT(60)
<1>14. SumFunction(g) = SumFunctionOnSet(h, D)
  BY <1>6, <1>12, <1>13
<1> QED BY <1>1, <1>2, <1>14 DEF g, R

\* What a facility's transit view shows leaving it.
LEMMA LeavingShows ==
    ASSUME InventoryInv, BooksInv, NEW p \in Products, NEW f \in Facilities,
           NEW R, R = {l \in InTransitView(f) : /\ l.product = p
                                                /\ FacilityOf[doc[l.transfer].warehouse] = f}
    PROVE  SumFunction([l \in R |-> l.outstanding]) = onHand[<<TransitOf[f], p>>]
<1> DEFINE D == {d \in OwingDocs(p) : doc[d].facility = f}
           row == [d \in D |-> [transfer |-> d, product |-> p, outstanding |-> Outstanding(d, p)]]
           g == [l \in R |-> l.outstanding]
<1>1. PICK h : h = OwedBy(p)
  OBVIOUS
<1>2. onHand[<<TransitOf[f], p>>] = SumFunctionOnSet(h, D)
  <2> HIDE DEF row
  <2> QED BY <1>1, TransitOwes
<1>3. IsFiniteSet(D)
  BY FS_Subset, InventoryConstants DEF InventoryConstants, OwingDocs
<1>4. ASSUME NEW d \in D
      PROVE  /\ d \in Docs /\ doc[d] # None /\ doc[d].in_transit /\ ~ doc[d].cancelled /\ p \in Lines(d)
             /\ FacilityOf[doc[d].warehouse] = f
             /\ h[d] \in Nat /\ h[d] = Outstanding(d, p)
  BY <1>1, OwingFacts DEF OwingDocs
<1>5. \A d \in D : row[d].transfer = d /\ row[d].product = p /\ row[d].outstanding = Outstanding(d, p)
  OBVIOUS
<1>6. \A d, c \in D : row[d] = row[c] => d = c
  <2> HIDE DEF row, D
  <2> QED BY <1>5
<1>7. ASSUME NEW l \in R PROVE \E d \in D : row[d] = l
  <2>1. PICK d \in Docs, q \in Products :
           /\ doc[d] # None /\ doc[d].in_transit /\ ~ doc[d].cancelled
           /\ l = [transfer |-> d, product |-> q, outstanding |-> Outstanding(d, q)]
           /\ l.product \in Lines(l.transfer)
    BY <1>7 DEF InTransitView
  <2>2. l.product = p /\ FacilityOf[doc[l.transfer].warehouse] = f
    BY <1>7
  <2>3. q = p /\ l.transfer = d
    BY <2>1, <2>2
  <2>4. d \in OwingDocs(p)
    BY <2>1, <2>3 DEF OwingDocs
  <2>5. doc[d].facility = f
    BY <2>2, <2>3, <2>4, OwingFacts
  <2> QED BY <2>1, <2>3, <2>4, <2>5
<1>8. ASSUME NEW d \in D
      PROVE  IF row[d] \in R THEN g[row[d]] = h[d] ELSE h[d] = 0
  <2>1. CASE row[d] \in R
    BY <1>4, <1>5, <2>1
  <2>2. CASE row[d] \notin R
    <3>1. row[d].transfer = d /\ row[d].product = p /\ row[d].outstanding = Outstanding(d, p)
      BY <1>5
    <3>2. ~ (Outstanding(d, p) > 0)
      <4> SUFFICES ASSUME Outstanding(d, p) > 0 PROVE row[d] \in R
        BY <2>2
      <4>1. row[d] \in InTransitView(f)
        BY <1>4, <3>1 DEF InTransitView
      <4> QED BY <1>4, <3>1, <4>1
    <3> QED BY <1>4, <3>2
  <2> QED BY <2>1, <2>2
<1>9. SumFunction(g) = SumFunctionOnSet(g, R)
  BY DEF SumFunction, SumFunctionOnSet, FoldFunction, g
<1>10. \A d \in D : h[d] \in Int
  BY <1>4
<1> HIDE DEF D, row, g
<1>11. SumFunctionOnSet(g, R) = SumFunctionOnSet(h, D)
  <2>1. \A d \in D : IF row[d] \in R THEN g[row[d]] = h[d] ELSE h[d] = 0
    BY <1>8
  <2>2. \A l \in R : \E d \in D : row[d] = l
    BY <1>7
  <2> QED BY <1>3, <1>6, <1>10, <2>1, <2>2, SumOfRows, SMTT(60)
<1>12. SumFunction(g) = onHand[<<TransitOf[f], p>>]
  BY <1>2, <1>9, <1>11
<1> QED BY <1>12 DEF g

\* What the screens show coming is what the transit warehouses hold: nothing
\* is awaited that is not held, and nothing held that nobody awaits.
THEOREM ScreensAgreeOnTransit == InventorySpec => []TransitAgrees
<1>1. InventoryInv /\ BooksInv => TransitAgrees
  <2> SUFFICES ASSUME InventoryInv, BooksInv, NEW p \in Products
               PROVE  /\ SumFunction([row \in StockRows(p) |-> row.incoming])
                             = SumFunction([row \in TransitRows(p) |-> row.on_hand])
                      /\ \A f \in Facilities :
                            LET leaving == {l \in InTransitView(f) :
                                               /\ l.product = p
                                               /\ FacilityOf[doc[l.transfer].warehouse] = f}
                            IN  SumFunction([l \in leaving |-> l.outstanding]) = onHand[<<TransitOf[f], p>>]
    BY DEF TransitAgrees
  <2>1. SumFunction([row \in StockRows(p) |-> row.incoming])
           = SumFunction([row \in TransitRows(p) |-> row.on_hand])
    BY StockRowsShow, TransitRowsShow
  <2>2. ASSUME NEW f \in Facilities
        PROVE  LET leaving == {l \in InTransitView(f) : /\ l.product = p
                                                        /\ FacilityOf[doc[l.transfer].warehouse] = f}
               IN  SumFunction([l \in leaving |-> l.outstanding]) = onHand[<<TransitOf[f], p>>]
    BY LeavingShows
  <2> QED BY <2>1, <2>2
<1> QED BY <1>1, InventoryInvariance, BooksBalance, PTL
=============================================================================
