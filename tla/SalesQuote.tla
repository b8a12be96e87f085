------------------------------ MODULE SalesQuote -------------------------------
(***************************************************************************)
(* sales_quote_service: a quote is drafted, confirmed, sent to the         *)
(* customer, copied, cancelled, and turned into an order of SalesOrder.    *)
(*                                                                         *)
(* Only a confirmation locks and re-reads.  An edit, a cancellation and a  *)
(* sending decide on the copy the route read, and an UPDATE that finds the *)
(* quote locked waits and then writes the columns it changed.  Copying and *)
(* converting write rows nobody else has seen, so they take effect at      *)
(* their reads.                                                            *)
(***************************************************************************)
EXTENDS SalesOrder

CONSTANTS
    Quotes,         \* ids sales quotes are created with
    QuoteMenu,      \* the lines requests ask for (price 0: left to the list)
    MaxSends        \* bound on the emails of one quote

ASSUME QuoteConstants ==
    /\ IsFiniteSet(Quotes)
    /\ QuoteMenu \subseteq [product : Products, quantity : Nat, price : Nat, adjustment : Int]
    /\ MaxSends \in Nat

VARIABLES
    quote,          \* sales_quote
    qline,          \* sales_quote_detail, per quote and line id
    source,         \* sales_order.sales_quote
    sent,           \* emails the mail server accepted, per quote
    recorded        \* incidences `Quote emailed', per quote

quoteVars == <<quote, qline, source, sent, recorded>>
allVars == <<vars, quoteVars>>

\* serial = 0 stands for NULL; lapsed: due_date has passed.
QuoteRows == [facility : Facilities, customer : Customers, payment_terms : Terms,
              completed : BOOLEAN, cancelled : BOOLEAN, lapsed : BOOLEAN, serial : Nat]

ASSUME NoneIsNoQuoteRow == None \notin QuoteRows

QuoteRow(q) == <<"quote", q>>

Raised(q) == quote[q] # None
FilledQ(q) == {l \in LineIds : qline[q][l] # None}

QuoteEditable_IgnoresCompleted(q) == Raised(q) /\ ~ quote[q].cancelled

\* documents.assert_editable, of the route's copy or of the locked row.
QuoteEditable(q) == Raised(q) /\ ~ quote[q].completed /\ ~ quote[q].cancelled

\* assert_convertible
Convertible(q) ==
    Raised(q) /\ quote[q].completed /\ ~ quote[q].cancelled /\ ~ quote[q].lapsed

\* A line as the customer's list prices it, when the request names no price.
PricedFor(c, m) ==
    IF m.price > 0 THEN m ELSE [m EXCEPT !.price = ListPrice[c][m.product]]

-----------------------------------------------------------------------------
(***************************************************************************)
(* Drafting.                                                               *)
(***************************************************************************)
\* create_quote: terms are the request's or follow the customer, unchecked.
CreateQuote(q, f, c, terms) ==
    /\ ~ Raised(q)
    /\ quote' = [quote EXCEPT ![q] =
          [facility |-> f, customer |-> c, completed |-> FALSE, cancelled |-> FALSE,
           payment_terms |-> CASE terms # None -> terms
                               [] terms = None /\ IsCreditCustomer(c) -> "NET_D"
                               [] OTHER -> "IMMEDIATE",
           lapsed |-> FALSE, serial |-> 0]]
    /\ UNCHANGED <<vars, qline, source, sent, recorded>>

\* update_quote moving the quote to customer c, with the terms the request names,
\* and a new due date: the columns it will write.
Header(q, c, terms) ==
    [customer |-> c,
     payment_terms |->
        CASE terms # None -> terms
          [] terms = None /\ c # quote[q].customer /\ IsCreditCustomer(c) -> "NET_D"
          [] OTHER -> quote[q].payment_terms,
     lapsed |-> FALSE]

\* The edits requests ask of q: a line to insert, change or delete, or the header.
Edits(q) ==
    LET priced == {PricedFor(quote[q].customer, m) : m \in QuoteMenu}
    IN  {[kind |-> "add", line |-> l, to |-> m] : l \in LineIds \ FilledQ(q), m \in priced}
        \cup {e \in [kind : {"update"}, line : FilledQ(q), to : priced] :
                 e.to.product = qline[q][e.line].product /\ e.to # qline[q][e.line]}
        \cup [kind : {"remove"}, line : FilledQ(q)]
        \cup {[kind |-> "header", to |-> Header(q, c, t)] : c \in Customers, t \in Terms \cup {None}}

\* update_quote, add_line, update_line and remove_line up to their commit.
EditRead(r, q) ==
    /\ txn[r] = Idle
    /\ QuoteEditable(q)
    /\ \E e \in Edits(q) :
          txn' = [txn EXCEPT ![r] = [op |-> "edit quote", quote |-> q, rows |-> {},
                                     completed |-> quote[q].completed, edit |-> e]]
    /\ UNCHANGED <<tables, elapsed, quoteVars>>

\* A row that is not as the edit found it (no line to change, or one in its
\* place) refuses the request.
Fits(q, e) ==
    CASE e.kind = "add" -> qline[q][e.line] = None
      [] e.kind \in {"update", "remove"} -> qline[q][e.line] # None
      [] OTHER -> TRUE

EditCommit(r) ==
    LET q == txn[r].quote
        e == txn[r].edit
    IN  /\ txn[r].op = "edit quote"
        /\ Free(r, {QuoteRow(q)})
        /\ Fits(q, e)
        /\ quote' = IF e.kind # "header" THEN quote
                    ELSE [quote EXCEPT ![q].customer = e.to.customer,
                                       ![q].payment_terms = e.to.payment_terms,
                                       ![q].lapsed = e.to.lapsed]
        /\ qline' = CASE e.kind = "header" -> qline
                      [] e.kind = "remove" -> [qline EXCEPT ![q][e.line] = None]
                      [] OTHER -> [qline EXCEPT ![q][e.line] = e.to]
        /\ Ends(r)
        /\ UNCHANGED <<tables, elapsed, source, sent, recorded>>

\* The offer runs out.
Lapse(q) ==
    /\ Raised(q) /\ ~ quote[q].lapsed
    /\ quote' = [quote EXCEPT ![q].lapsed = TRUE]
    /\ UNCHANGED <<vars, qline, source, sent, recorded>>

-----------------------------------------------------------------------------
(***************************************************************************)
(* Confirming and cancelling.                                              *)
(***************************************************************************)
QuoteSerials(f) == {quote[q].serial : q \in {p \in Quotes : Raised(p) /\ quote[p].facility = f}}

QuoteConfirmRows(q) == {QuoteRow(q), FacilityRow(quote[q].facility)}

\* confirm_quote: the quote is locked and read again, then its facility.
QuoteConfirmRead(r, q) ==
    /\ txn[r] = Idle
    /\ QuoteEditable(q)
    /\ Free(r, QuoteConfirmRows(q))
    /\ txn' = [txn EXCEPT ![r] =
                  [op |-> "confirm quote", quote |-> q, rows |-> QuoteConfirmRows(q),
                   serial |-> Max(QuoteSerials(quote[q].facility) \cup {0}) + 1]]
    /\ UNCHANGED <<tables, elapsed, quoteVars>>

QuoteConfirmCommit(r) ==
    LET q == txn[r].quote
    IN  /\ txn[r].op = "confirm quote"
        /\ quote' = [quote EXCEPT ![q].completed = TRUE, ![q].serial = txn[r].serial]
        /\ Ends(r)
        /\ UNCHANGED <<tables, elapsed, qline, source, sent, recorded>>

\* cancel_quote, on the route's copy.
QuoteCancelRead(r, q) ==
    /\ txn[r] = Idle
    /\ Raised(q) /\ ~ quote[q].cancelled
    /\ txn' = [txn EXCEPT ![r] = [op |-> "cancel quote", quote |-> q, rows |-> {}]]
    /\ UNCHANGED <<tables, elapsed, quoteVars>>

QuoteCancelCommit(r) ==
    LET q == txn[r].quote
    IN  /\ txn[r].op = "cancel quote"
        /\ Free(r, {QuoteRow(q)})
        /\ quote' = [quote EXCEPT ![q].cancelled = TRUE]
        /\ Ends(r)
        /\ UNCHANGED <<tables, elapsed, qline, source, sent, recorded>>

-----------------------------------------------------------------------------
(***************************************************************************)
(* What a confirmed quote is for.                                          *)
(***************************************************************************)
\* email_quote up to the server's answer.  A MailError changes nothing.
EmailSend(r, q) ==
    /\ txn[r] = Idle
    /\ Raised(q) /\ quote[q].completed /\ ~ quote[q].cancelled
    /\ sent[q] < MaxSends
    /\ sent' = [sent EXCEPT ![q] = @ + 1]
    /\ txn' = [txn EXCEPT ![r] = [op |-> "email quote", quote |-> q, rows |-> {}]]
    /\ UNCHANGED <<tables, elapsed, quote, qline, source, recorded>>

EmailRecord(r) ==
    /\ txn[r].op = "email quote"
    /\ recorded' = [recorded EXCEPT ![txn[r].quote] = @ + 1]
    /\ Ends(r)
    /\ UNCHANGED <<tables, elapsed, quote, qline, source, sent>>

\* duplicate_quote: a fresh draft at today's prices.
Duplicate(q, copy) ==
    /\ Raised(q) /\ ~ Raised(copy)
    /\ quote' = [quote EXCEPT ![copy] =
                    [quote[q] EXCEPT !.completed = FALSE, !.cancelled = FALSE,
                                     !.lapsed = FALSE, !.serial = 0]]
    /\ qline' = [qline EXCEPT ![copy] =
                    [l \in LineIds |->
                        IF l \in FilledQ(q)
                        THEN [qline[q][l] EXCEPT
                                 !.price = ListPrice[quote[q].customer][qline[q][l].product]]
                        ELSE None]]
    /\ UNCHANGED <<vars, source, sent, recorded>>

\* convert_to_order: a back-office draft with the quote's terms and lines, whose
\* fulfilment nobody has asked for yet.
Convert(q, o) ==
    LET c == quote[q].customer
    IN  /\ ~ order[o].exists
        /\ Convertible(q)
        /\ TermsAllowed(c, quote[q].payment_terms)
        /\ order' = [order EXCEPT ![o] =
              [BlankOrder EXCEPT !.exists = TRUE, !.facility = quote[q].facility, !.customer = c,
                                 !.payment_terms = quote[q].payment_terms, !.back_office = TRUE]]
        /\ line' = [line EXCEPT ![o] =
              [l \in LineIds |->
                  IF l \in FilledQ(q)
                  THEN [product |-> qline[q][l].product, warehouse |-> None,
                        quantity |-> qline[q][l].quantity,
                        price |-> qline[q][l].price + qline[q][l].adjustment]
                  ELSE None]]
        /\ source' = [source EXCEPT ![o] = q]
        /\ UNCHANGED <<reservation, onHand, payment, application, refund, elapsed, txn,
                       quote, qline, sent, recorded>>

-----------------------------------------------------------------------------
QuoteInit ==
    /\ Init
    /\ quote = [q \in Quotes |-> None]
    /\ qline = [q \in Quotes |-> NoLines]
    /\ source = [o \in Orders |-> None]
    /\ sent = [q \in Quotes |-> 0]
    /\ recorded = [q \in Quotes |-> 0]

Offer ==
    \/ \E q \in Quotes, f \in Facilities, c \in Customers, t \in Terms \cup {None} :
          CreateQuote(q, f, c, t)
    \/ \E r \in Requests, q \in Quotes : EditRead(r, q)
    \/ \E r \in Requests : EditCommit(r)
    \/ \E q \in Quotes : Lapse(q)
    \/ \E r \in Requests, q \in Quotes : QuoteConfirmRead(r, q)
    \/ \E r \in Requests : QuoteConfirmCommit(r)
    \/ \E r \in Requests, q \in Quotes : QuoteCancelRead(r, q)
    \/ \E r \in Requests : QuoteCancelCommit(r)
    \/ \E r \in Requests, q \in Quotes : EmailSend(r, q)
    \/ \E r \in Requests : EmailRecord(r)
    \/ \E q, copy \in Quotes : Duplicate(q, copy)
    \/ \E q \in Quotes, o \in Orders : Convert(q, o)

QuoteNext ==
    \/ Offer
    \/ Next /\ UNCHANGED quoteVars

QuoteSpec == QuoteInit /\ [][QuoteNext]_allVars

\* The fairness of SalesOrder: a quote's request is one of those that end.
FairQuoteSpec == QuoteSpec /\ Fairness

-----------------------------------------------------------------------------
(***************************************************************************)
(* Properties.                                                             *)
(***************************************************************************)
\* What was offered stands: the lines and the terms of a confirmed quote are
\* changed by nothing but an edit that had read the draft before it was
\* confirmed (assert_editable; that such an edit goes through is what the code
\* allows, since no edit locks the quote).
OfferStands ==
    [][\A q \in Quotes :
          (Raised(q) /\ quote[q].completed
             /\ \/ qline'[q] # qline[q]
                \/ quote'[q].customer # quote[q].customer
                \/ quote'[q].payment_terms # quote[q].payment_terms)
          => \E r \in Requests : /\ txn[r].op = "edit quote" /\ txn[r].quote = q
                                 /\ ~ txn[r].completed]_allVars
=============================================================================
