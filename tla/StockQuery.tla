------------------------------ MODULE StockQuery ------------------------------
(***************************************************************************)
(* stock_query_service: what the stock screens show of the ledger, of the  *)
(* claims on it and of the transfers under way.  Its three sums are plain  *)
(* reads of one snapshot, so a screen shows one committed state.  Search,  *)
(* labels and pages are left out.  With them, the transfers' own view of   *)
(* what is on its way.                                                     *)
(***************************************************************************)
EXTENDS InventoryTransfer

\* _in_transit_to, for transfers bound for w.
InTransitTo(w) ==
    {d \in Docs : /\ doc[d] # None /\ doc[d].completed /\ ~ doc[d].cancelled /\ doc[d].in_transit
                  /\ doc[d].to = w}

Owed_AsSent(d, p) == Quantity(d, p)

\* _outstanding; a line that never received counts zero.
Owed(d, p) == Quantity(d, p) - (IF line[d][p].received = None THEN 0 ELSE line[d][p].received)

Incoming(w, p) ==
    LET bound == {d \in InTransitTo(w) : p \in Lines(d)}
    IN  SumFunction([d \in bound |-> Owed(d, p)])

\* merge_stock: the figures of a product in a warehouse.
Figures(w, p) ==
    [warehouse |-> w, on_hand |-> onHand[<<w, p>>], reserved |-> claims[<<w, p>>],
     available |-> Available(<<w, p>>), incoming |-> Incoming(w, p)]

\* keep_row, without zeros.
KeepRow(row) == row.on_hand # 0 \/ row.reserved # 0 \/ row.incoming # 0

\* list_stock: a sellable warehouse's rows.
ListStock(w) == {row \in {Figures(w, p) : p \in Products} : KeepRow(row)}

\* product_stock's two lists, separated by split_transit.
StockRows(p) == {row \in {Figures(w, p) : w \in Sellable} : KeepRow(row)}
TransitRows(p) ==
    {row \in {[facility |-> f, on_hand |-> onHand[<<TransitOf[f], p>>]] : f \in Facilities} :
        row.on_hand # 0}

\* in_transit_view: a facility's outstanding lines, coming or going.
InTransitView(f) ==
    {l \in {[transfer |-> d, product |-> p, outstanding |-> Outstanding(d, p)] :
                d \in {e \in Docs : /\ doc[e] # None /\ doc[e].in_transit /\ ~ doc[e].cancelled
                                     /\ f \in {FacilityOf[doc[e].warehouse], FacilityOf[doc[e].to]}},
                p \in Products} :
        l.product \in Lines(l.transfer) /\ l.outstanding > 0}

-----------------------------------------------------------------------------
(***************************************************************************)
(* What a product's page shows coming to the warehouses, line by line of   *)
(* the transfers, is what it shows in the transit warehouses, entry by     *)
(* entry of the ledger; and a facility's transit warehouse holds what its  *)
(* transit view shows leaving it.  Whoever dispatches, receives a part,    *)
(* closes or cancels meanwhile, nothing is on its way that is not held,    *)
(* and nothing is held that nobody awaits.                                 *)
(***************************************************************************)
TransitAgrees ==
    \A p \in Products :
        /\ SumFunction([row \in StockRows(p) |-> row.incoming])
               = SumFunction([row \in TransitRows(p) |-> row.on_hand])
        /\ \A f \in Facilities :
              LET leaving == {l \in InTransitView(f) : /\ l.product = p
                                                      /\ FacilityOf[doc[l.transfer].warehouse] = f}
              IN  SumFunction([l \in leaving |-> l.outstanding]) = onHand[<<TransitOf[f], p>>]
=============================================================================
