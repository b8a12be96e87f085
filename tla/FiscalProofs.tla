------------------------------ MODULE FiscalProofs ------------------------------
(***************************************************************************)
(* What FiscalNote guarantees for every number of documents, series, order *)
(* lines and clerks.  A confirmation locks neither the invoice it credits  *)
(* or pays before it has read it, nor the draft it seals, so the theorems  *)
(* are about clerks that draw on different rows (~ SharedSources).         *)
(***************************************************************************)
EXTENDS FiscalNote, NumberSets

-----------------------------------------------------------------------------
(***************************************************************************)
(* The inductive invariant.                                                *)
(***************************************************************************)
TablesTyped ==
    /\ doc \in [Documents -> DocumentRows \cup {None}]
    /\ xml \in [Documents -> Nat \cup {None}]
    /\ line \in [Documents -> [Lines -> Nat]]
    /\ pays = [r \in Receipts |-> pays[r]]
    /\ credits \in [Notes -> Invoices \cup {None}]
    /\ refunded \in [OrderLines -> Nat]
    /\ sealing = [c \in Clerks |-> sealing[c]]

\* Only what was sealed is issued, and only what was issued is cancelled; a
\* live note was sealed for what its lines make, which are left alone since.
DocumentSound(d) ==
    /\ doc[d] = None => xml[d] = None
    /\ doc[d] # None => /\ doc[d].cancelled => doc[d].completed
                        /\ doc[d].completed => xml[d] # None
    /\ d \in Notes /\ Live(d) => xml[d] = Total(d)

\* A note relates an invoice that was issued, and so keeps its total.
NoteSound(n) ==
    doc[n] # None => /\ credits[n] \in Invoices
                     /\ doc[credits[n]] # None /\ doc[credits[n]].completed

\* What a clerk is about to seal is still the draft it read, each invoice a
\* receipt pays is where the clerk found it, and a note still fits in its own.
SealSound(c) ==
    sealing[c] # None =>
        LET s == sealing[c]
            d == sealing[c].document
        IN  /\ d \in Documents /\ IsDraft(d) /\ DocumentRow(d) \in s.rows
            /\ s.serial = doc[d].serial /\ s.batch = doc[d].batch /\ s.total = Total(d)
            /\ d \in Receipts => \A i \in Invoices : s.pays[i] # None =>
                  /\ DocumentRow(i) \in s.rows
                  /\ s.pays[i].number = Position(i, d).number
                  /\ s.pays[i].previous = Position(i, d).balance
            /\ d \in Notes =>
                  /\ DocumentRow(credits[d]) \in s.rows
                  /\ s.total <= xml[credits[d]] - Credited(credits[d], d)

ClerksApart ==
    \A c, b \in Clerks : c # b /\ sealing[c] # None /\ sealing[b] # None =>
                            sealing[c].rows \cap sealing[b].rows = {}

\* No two documents of a series have one number.
SerialsUnique ==
    \A d, e \in Documents :
        d # e /\ doc[d] # None /\ doc[e] # None /\ doc[d].batch = doc[e].batch =>
            doc[d].serial # doc[e].serial \/ doc[d].serial = 0

FiscalInv ==
    /\ TablesTyped
    /\ \A d \in Documents : DocumentSound(d)
    /\ \A n \in Notes : NoteSound(n)
    /\ \A c \in Clerks : SealSound(c)
    /\ ClerksApart
    /\ SerialsUnique
    /\ CreditedWithinInvoice
-----------------------------------------------------------------------------
(***************************************************************************)
(* The tables.                                                             *)
(***************************************************************************)
LEMMA FiscalTerms ==
    /\ Invoices \subseteq Documents /\ Receipts \subseteq Documents /\ Notes \subseteq Documents
    /\ IsFiniteSet(Documents) /\ IsFiniteSet(Invoices) /\ IsFiniteSet(Receipts) /\ IsFiniteSet(Notes)
    /\ Documents \subseteq Nat /\ OrderLines \subseteq Nat \ {Hand} /\ OrderLines \subseteq Lines
    /\ IsFiniteSet(Lines) /\ IsFiniteSet(OrderLines)
    /\ Price \in [Lines -> Nat \ {0}] /\ Amounts \subseteq Nat \ {0}
    /\ Invoices \cap Receipts = {} /\ Invoices \cap Notes = {} /\ Receipts \cap Notes = {}
    /\ None \notin Nat /\ None \notin DocumentRows /\ None \notin Documents
    /\ ByHand \subseteq Invoices \cup Notes
<1>1. /\ Invoices \subseteq Documents /\ Receipts \subseteq Documents /\ Notes \subseteq Documents
  BY DEF Documents
<1>2. IsFiniteSet(Documents) /\ IsFiniteSet(OrderLines)
  BY FiscalConstants DEF FiscalConstants
<1>3. IsFiniteSet(Invoices) /\ IsFiniteSet(Receipts) /\ IsFiniteSet(Notes)
  BY <1>1, <1>2, FS_Subset
<1>4. IsFiniteSet(Lines) /\ OrderLines \subseteq Lines
  BY <1>2, FS_AddElement DEF Lines
<1> QED BY <1>1, <1>2, <1>3, <1>4, FiscalConstants, NoneIsNoFiscalRow
        DEF FiscalConstants, NoneIsNoFiscalRow

\* What some lines make is a number.
LEMMA AmountIsNat ==
    ASSUME TablesTyped, NEW d \in Documents, NEW ls \in SUBSET Lines
    PROVE  Amount(d, ls) \in Nat
<1>1. IsFiniteSet(ls)
  BY FiscalTerms, FS_Subset
<1>2. PICK f : f = [l \in ls |-> line[d][l] * Price[l]]
  OBVIOUS
<1>3. \A l \in ls : line[d][l] \in Nat /\ Price[l] \in Nat
  BY FiscalTerms DEF TablesTyped
<1>4. \A l \in ls : f[l] \in Nat
  BY <1>2, <1>3
<1>5. SumFunctionOnSet(f, ls) \in Nat
  BY <1>1, <1>4, SumIsNat
<1> QED BY <1>2, <1>5 DEF Amount

LEMMA TotalKept ==
    ASSUME NEW d, line'[d] = line[d]
    PROVE  Total(d)' = Total(d)
BY DEF Total, Amount

\* A live document was sealed.
LEMMA LiveIsSealed ==
    ASSUME TablesTyped, NEW d \in Documents, DocumentSound(d), Live(d)
    PROVE  xml[d] \in Nat /\ doc[d] # None
BY DEF TablesTyped, DocumentSound, Live, IsSealed, IsIssued

LEMMA CreditingAreSealed ==
    ASSUME FiscalInv, NEW i, NEW d
    PROVE  /\ CreditingNotes(i, d) \in SUBSET Notes /\ IsFiniteSet(CreditingNotes(i, d))
           /\ \A n \in CreditingNotes(i, d) : xml[n] \in Nat
           /\ Credited(i, d) \in Nat
<1>1. PICK F : F = CreditingNotes(i, d)
  OBVIOUS
<1>2. F \in SUBSET Notes
  BY <1>1 DEF CreditingNotes
<1>3. IsFiniteSet(F)
  BY <1>2, FiscalTerms, FS_Subset
<1>4. \A n \in F : xml[n] \in Nat
  BY <1>1, LiveIsSealed, FiscalTerms DEF CreditingNotes, FiscalInv
<1>5. PICK f : f = [n \in F |-> xml[n]]
  OBVIOUS
<1>6. SumFunctionOnSet(f, F) \in Nat
  BY <1>3, <1>4, <1>5, SumIsNat
<1> QED BY <1>1, <1>2, <1>3, <1>4, <1>5, <1>6 DEF Credited

\* A sum over fewer is no more.
LEMMA SumOfFewer ==
    ASSUME NEW F, IsFiniteSet(F), NEW G \in SUBSET F, NEW f, NEW g,
           \A x \in F : f[x] \in Nat, \A x \in G : g[x] = f[x]
    PROVE  SumFunctionOnSet(g, G) <= SumFunctionOnSet(f, F)
<1>1. IsFiniteSet(G)
  BY FS_Subset
<1>2. SumFunctionOnSet(g, G) = SumFunctionOnSet(f, G)
  BY <1>1, SumOfEqual
<1>3. SumFunctionOnSet(f, G) <= SumFunctionOnSet(f, F)
  BY SumOfSome
<1> QED BY <1>2, <1>3

\* What is credited falls when no note joins.
LEMMA CreditFalls ==
    ASSUME FiscalInv, NEW i, NEW d, CreditingNotes(i, d)' \subseteq CreditingNotes(i, d),
           \A n \in CreditingNotes(i, d)' : xml'[n] = xml[n]
    PROVE  Credited(i, d)' <= Credited(i, d)
<1>1. PICK F, G, f, g : /\ F = CreditingNotes(i, d) /\ G = CreditingNotes(i, d)'
                        /\ f = [n \in F |-> xml[n]] /\ g = [n \in G |-> xml'[n]]
  OBVIOUS
<1>2. Credited(i, d) = SumFunctionOnSet(f, F) /\ Credited(i, d)' = SumFunctionOnSet(g, G)
  BY <1>1 DEF Credited
<1>3. IsFiniteSet(F) /\ G \in SUBSET F /\ \A n \in F : f[n] \in Nat
  BY <1>1, CreditingAreSealed
<1>4. \A n \in G : g[n] = f[n]
  BY <1>1, <1>3
<1> QED BY <1>2, <1>3, <1>4, SumOfFewer

\* No note joins, and no invoice's total changes: credit stays within it.
LEMMA WithinKept ==
    ASSUME FiscalInv,
           \A n \in Notes : Live(n)' => Live(n) /\ xml'[n] = xml[n] /\ credits'[n] = credits[n],
           \A i \in Invoices : xml'[i] # None => xml'[i] = xml[i]
    PROVE  CreditedWithinInvoice'
<1> SUFFICES ASSUME NEW i \in Invoices, xml'[i] # None PROVE Credited(i, None)' <= xml'[i]
  BY DEF CreditedWithinInvoice
<1>1. CreditingNotes(i, None)' \subseteq CreditingNotes(i, None)
  BY DEF CreditingNotes
<1>2. \A n \in CreditingNotes(i, None)' : xml'[n] = xml[n]
  BY DEF CreditingNotes
<1>3. Credited(i, None)' <= Credited(i, None)
  BY <1>1, <1>2, CreditFalls
<1>4. xml'[i] = xml[i] /\ Credited(i, None) <= xml[i]
  BY DEF FiscalInv, CreditedWithinInvoice
<1>5. Credited(i, None) \in Nat /\ xml[i] \in Nat
  BY <1>4, CreditingAreSealed, FiscalTerms DEF FiscalInv, TablesTyped
<1>6. Credited(i, None)' \in Nat
  <2>1. PICK G, g : G = CreditingNotes(i, None)' /\ g = [n \in G |-> xml'[n]]
    OBVIOUS
  <2>2. IsFiniteSet(G) /\ \A n \in G : g[n] \in Nat
    <3>1. G \in SUBSET CreditingNotes(i, None)
      BY <1>1, <2>1
    <3>2. IsFiniteSet(G)
      BY <3>1, CreditingAreSealed, FS_Subset
    <3> QED BY <1>2, <2>1, <3>1, <3>2, CreditingAreSealed
  <2> QED BY <2>1, <2>2, SumIsNat DEF Credited
<1> QED BY <1>3, <1>4, <1>5, <1>6
\* A document whose row and sealed total stay is as live as it was.
LEMMA SameStatus ==
    ASSUME NEW d, doc'[d] = doc[d], xml'[d] = xml[d]
    PROVE  /\ Live(d)' <=> Live(d)
           /\ IsDraft(d)' <=> IsDraft(d)
BY DEF Live, IsSealed, IsIssued, IsDraft

-----------------------------------------------------------------------------
(***************************************************************************)
(* What a clerk has read, beside the others' steps.                        *)
(***************************************************************************)
\* One document's change that neither pays nor credits an invoice leaves what
\* the invoice owes.
LEMMA PositionKept ==
    ASSUME NEW e, NEW i \in Invoices, NEW d, xml'[i] = xml[i], credits' = credits,
           \A x \in Documents \ {e} : doc'[x] = doc[x] /\ xml'[x] = xml[x],
           \A r \in Receipts \ {e} : pays'[r] = pays[r],
           e \in Receipts => /\ ~ Live(e) \/ pays[e][i] = None
                             /\ ~ Live(e)' \/ pays'[e][i] = None,
           e \in Notes => credits[e] # i
    PROVE  Position(i, d)' = Position(i, d) /\ Credited(i, d)' = Credited(i, d)
<1>1. \A x \in Documents \ {e} : Live(x)' <=> Live(x)
  BY SameStatus
<1>2. PaidIn(i, d)' = PaidIn(i, d)
  BY <1>1, FiscalTerms DEF PaidIn
<1>3. CreditingNotes(i, d)' = CreditingNotes(i, d)
  BY <1>1, FiscalTerms DEF CreditingNotes
<1>4. PaidBy(i, d)' = PaidBy(i, d)
  <2>1. \A r \in PaidIn(i, d) : r # e
    BY DEF PaidIn
  <2>2. \A r \in PaidIn(i, d) : pays'[r][i].amount = pays[r][i].amount
    BY <2>1 DEF PaidIn
  <2>3. [r \in PaidIn(i, d) |-> pays'[r][i].amount] = [r \in PaidIn(i, d) |-> pays[r][i].amount]
    BY <2>2
  <2> QED BY <1>2, <2>3 DEF PaidBy
<1>5. Credited(i, d)' = Credited(i, d)
  <2>1. \A n \in CreditingNotes(i, d) : xml'[n] = xml[n]
    BY FiscalTerms DEF CreditingNotes
  <2>2. [n \in CreditingNotes(i, d) |-> xml'[n]] = [n \in CreditingNotes(i, d) |-> xml[n]]
    BY <2>1
  <2> QED BY <1>3, <2>2 DEF Credited
<1> QED BY <1>2, <1>4, <1>5 DEF Position

\* The document, and each invoice, a clerk's rows name are left alone by a step
\* on other rows.
LEMMA OthersSound ==
    ASSUME FiscalInv, NEW c \in Clerks, sealing[c] # None, sealing'[c] = sealing[c],
           NEW e \in Documents, e # sealing[c].document, UNCHANGED <<line, credits>>,
           \A x \in Documents \ {e} : doc'[x] = doc[x] /\ xml'[x] = xml[x],
           \A r \in Receipts \ {e} : pays'[r] = pays[r],
           \A i \in Invoices : DocumentRow(i) \in sealing[c].rows =>
               /\ xml'[i] = xml[i]
               /\ e \in Receipts => /\ ~ Live(e) \/ pays[e][i] = None
                                    /\ ~ Live(e)' \/ pays'[e][i] = None
               /\ e \in Notes => credits[e] # i
    PROVE  SealSound(c)'
<1>1. PICK s, d : s = sealing[c] /\ d = s.document
  OBVIOUS
<1>2. SealSound(c)
  BY DEF FiscalInv
<1>3. d \in Documents /\ IsDraft(d) /\ DocumentRow(d) \in s.rows /\ doc'[d] = doc[d] /\ xml'[d] = xml[d]
  BY <1>1, <1>2 DEF SealSound
<1>4. IsDraft(d)' /\ Total(d)' = Total(d)
  BY <1>3, SameStatus, TotalKept
<1>5. ASSUME NEW i \in Invoices, DocumentRow(i) \in s.rows
      PROVE  Position(i, d)' = Position(i, d) /\ Credited(i, d)' = Credited(i, d) /\ xml'[i] = xml[i]
  BY <1>1, <1>5, PositionKept
<1>6. d \in Receipts => \A i \in Invoices : s.pays[i] # None =>
          /\ DocumentRow(i) \in s.rows
          /\ s.pays[i].number = Position(i, d)'.number
          /\ s.pays[i].previous = Position(i, d)'.balance
  BY <1>1, <1>2, <1>5 DEF SealSound
<1>7. d \in Notes => /\ DocumentRow(credits'[d]) \in s.rows
                     /\ s.total <= xml'[credits'[d]] - Credited(credits[d], d)'
  <2>1. SUFFICES ASSUME d \in Notes
                 PROVE  /\ DocumentRow(credits[d]) \in s.rows
                        /\ s.total <= xml'[credits[d]] - Credited(credits[d], d)'
    OBVIOUS
  <2>2. credits[d] \in Invoices
    BY <1>3, <2>1 DEF FiscalInv, NoteSound, IsDraft
  <2>3. DocumentRow(credits[d]) \in s.rows /\ s.total <= xml[credits[d]] - Credited(credits[d], d)
    BY <1>1, <1>2, <2>1 DEF SealSound
  <2>4. PICK i \in Invoices : i = credits[d]
    BY <2>2
  <2> QED BY <1>5, <2>3, <2>4
<1> QED BY <1>1, <1>2, <1>3, <1>4, <1>6, <1>7 DEF SealSound
\* A request that is one step finds nobody sealing, where sources are not shared.
LEMMA NobodySeals ==
    ASSUME FiscalInv, ~ SharedSources, AtOnce
    PROVE  /\ \A c \in Clerks : SealSound(c)'
           /\ ClerksApart' /\ sealing' = [c \in Clerks |-> sealing'[c]]
<1>1. UNCHANGED sealing /\ \A c \in Clerks : sealing[c] = None
  BY DEF AtOnce
<1>2. sealing' = [c \in Clerks |-> sealing'[c]]
  BY <1>1 DEF FiscalInv, TablesTyped
<1> QED BY <1>1, <1>2 DEF SealSound, ClerksApart

-----------------------------------------------------------------------------
(***************************************************************************)
(* The steps.                                                              *)
(***************************************************************************)
\* A draft's lines, what is paid by receipts, what is refunded.
LEMMA LinesKeep ==
    ASSUME FiscalInv, ~ SharedSources, AtOnce, line' \in [Documents -> [Lines -> Nat]],
           \A d \in Documents : line'[d] = line[d] \/ IsDraft(d),
           refunded' \in [OrderLines -> Nat], pays' = [r \in Receipts |-> pays'[r]],
           UNCHANGED <<doc, xml, credits>>
    PROVE  FiscalInv'
<1>1. TablesTyped'
  BY NobodySeals DEF FiscalInv, TablesTyped
<1>2. \A x \in Documents : Live(x)' <=> Live(x)
  BY SameStatus
<1>3. ASSUME NEW x \in Documents PROVE DocumentSound(x)'
  <2>1. DocumentSound(x)
    BY DEF FiscalInv
  <2>2. ASSUME Live(x) PROVE Total(x)' = Total(x)
    <3>1. ~ IsDraft(x)
      BY <2>2 DEF Live, IsSealed, IsIssued, IsDraft
    <3> QED BY <3>1, TotalKept
  <2> QED BY <1>2, <2>1, <2>2 DEF DocumentSound
<1>4. ASSUME NEW n \in Notes PROVE NoteSound(n)'
  BY DEF FiscalInv, NoteSound
<1>5. SerialsUnique'
  BY DEF FiscalInv, SerialsUnique
<1>6. CreditedWithinInvoice'
  BY <1>2, FiscalTerms, WithinKept
<1> QED BY <1>1, <1>3, <1>4, <1>5, <1>6, NobodySeals DEF FiscalInv

\* A document's row changes: it is created, gets another series, is stamped or
\* is cancelled.
LEMMA RowKeeps ==
    ASSUME FiscalInv, NEW d \in Documents, NEW x \in DocumentRows, doc' = [doc EXCEPT ![d] = x],
           UNCHANGED <<xml, line, refunded>>, pays' = [r \in Receipts |-> pays'[r]],
           credits' \in [Notes -> Invoices \cup {None}],
           \A n \in Notes : doc[n] # None => credits'[n] = credits[n],
           x.cancelled => x.completed, x.completed => xml[d] # None,
           doc[d] # None /\ doc[d].completed => x.completed,
           Live(d)' => Live(d), d \in Notes => NoteSound(d)',
           x.serial = 0 \/ (doc[d] # None /\ x.serial = doc[d].serial /\ x.batch = doc[d].batch),
           \A c \in Clerks : SealSound(c)', ClerksApart', sealing' = [c \in Clerks |-> sealing'[c]]
    PROVE  FiscalInv'
<1>1. /\ doc' \in [Documents -> DocumentRows \cup {None}]
      /\ doc'[d] = x /\ \A e \in Documents \ {d} : doc'[e] = doc[e]
  BY DEF FiscalInv, TablesTyped
<1>2. TablesTyped'
  BY <1>1 DEF FiscalInv, TablesTyped
<1>3. \A e \in Documents : Live(e)' => Live(e)
  BY <1>1, SameStatus
<1>4. ASSUME NEW e \in Documents PROVE DocumentSound(e)'
  <2>1. DocumentSound(e) /\ Total(e)' = Total(e)
    BY TotalKept DEF FiscalInv
  <2> QED BY <1>1, <1>3, <2>1, FiscalTerms DEF DocumentSound
<1>5. ASSUME NEW n \in Notes PROVE NoteSound(n)'
  <2>1. CASE n = d
    BY <2>1
  <2>2. CASE n # d
    <3>1. SUFFICES ASSUME doc[n] # None
                   PROVE  /\ credits[n] \in Invoices
                          /\ doc'[credits[n]] # None /\ doc'[credits[n]].completed
      BY <1>1, <2>2, FiscalTerms DEF NoteSound
    <3>2. PICK i : i = credits[n]
      OBVIOUS
    <3>3. i \in Invoices /\ i \in Documents /\ doc[i] # None /\ doc[i].completed
      BY <3>1, <3>2, FiscalTerms DEF FiscalInv, NoteSound
    <3> QED BY <1>1, <3>2, <3>3, FiscalTerms
  <2> QED BY <2>1, <2>2
<1>6. SerialsUnique'
  <2>1. SUFFICES ASSUME NEW a \in Documents, NEW b \in Documents, a # b, doc'[a] # None, doc'[b] # None,
                        doc'[a].batch = doc'[b].batch, doc'[a].serial = doc'[b].serial
                 PROVE  doc'[a].serial = 0
    BY DEF SerialsUnique
  <2> QED BY <1>1, <2>1 DEF FiscalInv, SerialsUnique
<1>7. CreditedWithinInvoice'
  <2>1. \A n \in Notes : Live(n)' => Live(n) /\ xml'[n] = xml[n] /\ credits'[n] = credits[n]
    BY <1>3, FiscalTerms, LiveIsSealed DEF FiscalInv
  <2> QED BY <2>1, WithinKept
<1> QED BY <1>2, <1>4, <1>5, <1>6, <1>7 DEF FiscalInv

\* A sealed document is reopened.
LEMMA UnsealKeeps ==
    ASSUME FiscalInv, ~ SharedSources, AtOnce, NEW d \in Documents, IsSealed(d),
           xml' = [xml EXCEPT ![d] = None], UNCHANGED <<doc, line, pays, credits, refunded>>
    PROVE  FiscalInv'
<1>1. /\ xml' \in [Documents -> Nat \cup {None}]
      /\ xml'[d] = None /\ \A e \in Documents \ {d} : xml'[e] = xml[e]
  BY DEF FiscalInv, TablesTyped
<1>2. TablesTyped'
  BY <1>1, NobodySeals DEF FiscalInv, TablesTyped
<1>3. \A e \in Documents : Live(e)' => Live(e) /\ xml'[e] = xml[e]
  <2>1. ~ Live(d)'
    BY <1>1 DEF Live, IsSealed, IsIssued
  <2> QED BY <1>1, <2>1, SameStatus
<1>4. ASSUME NEW e \in Documents PROVE DocumentSound(e)'
  <2>1. DocumentSound(e) /\ Total(e)' = Total(e)
    BY TotalKept DEF FiscalInv
  <2> QED BY <1>1, <1>3, <2>1 DEF DocumentSound, IsSealed
<1>5. ASSUME NEW n \in Notes PROVE NoteSound(n)'
  BY DEF FiscalInv, NoteSound
<1>6. SerialsUnique'
  BY DEF FiscalInv, SerialsUnique
<1>7. CreditedWithinInvoice'
  <2>1. \A n \in Notes : Live(n)' => Live(n) /\ xml'[n] = xml[n] /\ credits'[n] = credits[n]
    BY <1>3, FiscalTerms
  <2>2. \A i \in Invoices : xml'[i] # None => xml'[i] = xml[i]
    BY <1>1, FiscalTerms
  <2> QED BY <2>1, <2>2, WithinKept
<1> QED BY <1>2, <1>4, <1>5, <1>6, <1>7, NobodySeals DEF FiscalInv

\* The next serial of a series is above every one it has.
LEMMA NextSerialIsNew ==
    ASSUME FiscalInv, NEW b
    PROVE  /\ NextSerial(b) \in Nat \ {0}
           /\ \A d \in Documents : doc[d] # None /\ doc[d].batch = b => doc[d].serial < NextSerial(b)
<1> DEFINE D == {e \in Documents : doc[e] # None /\ doc[e].batch = b}
           S == {doc[d].serial : d \in D} \cup {0}
<1>1. IsFiniteSet(S)
  <2>1. IsFiniteSet(D)
    BY FiscalTerms, FS_Subset
  <2>2. PICK T : T = {doc[d].serial : d \in D}
    OBVIOUS
  <2>3. [d \in D |-> doc[d].serial] \in Surjection(D, T)
    BY <2>2 DEF Surjection
  <2>4. IsFiniteSet(T)
    BY <2>1, <2>3, FS_Surjection
  <2> QED BY <2>2, <2>4, FS_AddElement
<1>2. S \in SUBSET Nat /\ S # {}
  BY DEF FiscalInv, TablesTyped, DocumentRows
<1>3. PICK T : T = S
  OBVIOUS
<1>4. \A d \in D : doc[d].serial \in T
  BY <1>3
<1>5. NextSerial(b) = Max(T) + 1
  BY <1>3 DEF NextSerial
<1> HIDE DEF S
<1>6. Max(T) \in T /\ \A y \in T : Max(T) >= y
  BY <1>1, <1>2, <1>3, MaxIsGreatest
<1>7. T \subseteq Nat /\ 0 \in T
  BY <1>2, <1>3 DEF S
<1>8. PICK m : m = Max(T)
  OBVIOUS
<1>9. m \in Nat /\ NextSerial(b) = m + 1 /\ \A y \in T : y \in Nat /\ y <= m
  BY <1>5, <1>6, <1>7, <1>8
<1> QED BY <1>4, <1>9
\* What sealing a draft changes: its number, which its series has not, and its
\* total.
LEMMA SealFacts ==
    ASSUME FiscalInv, NEW c \in Clerks, sealing[c] # None, Seals(c)
    PROVE  LET e == sealing[c].document
           IN  /\ e \in Documents /\ IsDraft(e) /\ DocumentRow(e) \in sealing[c].rows
               /\ Total(e) \in Nat /\ xml' = [xml EXCEPT ![e] = Total(e)]
               /\ \E x \in DocumentRows :
                     /\ doc' = [doc EXCEPT ![e] = x] /\ x.batch = doc[e].batch
                     /\ x.completed = doc[e].completed /\ x.cancelled = doc[e].cancelled
                     /\ \/ x.serial = doc[e].serial
                        \/ \A o \in Documents : doc[o] # None /\ doc[o].batch = x.batch =>
                                                   doc[o].serial < x.serial
<1>1. PICK s, e : s = sealing[c] /\ e = s.document
  OBVIOUS
<1>2. /\ e \in Documents /\ IsDraft(e) /\ DocumentRow(e) \in s.rows
      /\ s.serial = doc[e].serial /\ s.batch = doc[e].batch /\ s.total = Total(e)
  BY <1>1 DEF FiscalInv, SealSound
<1>3. doc[e] # None /\ doc[e] \in DocumentRows
  BY <1>2 DEF IsDraft, FiscalInv, TablesTyped
<1>4. Total(e) \in Nat
  BY <1>2, AmountIsNat DEF Total, FiscalInv
<1>5. xml' = [xml EXCEPT ![e] = Total(e)]
  BY <1>1, <1>2 DEF Seals
<1>6. PICK n : n = SerialFor(s)
  OBVIOUS
<1>7. PICK x : x = [doc[e] EXCEPT !.serial = n]
  OBVIOUS
<1>8. doc' = [doc EXCEPT ![e] = x]
  BY <1>1, <1>6, <1>7 DEF Seals
<1>9. /\ n \in Nat
      /\ \/ n = doc[e].serial
         \/ \A o \in Documents : doc[o] # None /\ doc[o].batch = doc[e].batch => doc[o].serial < n
  BY <1>2, <1>3, <1>6, NextSerialIsNew DEF SerialFor, DocumentRows
<1>10. /\ x \in DocumentRows /\ x.serial = n /\ x.batch = doc[e].batch
       /\ x.completed = doc[e].completed /\ x.cancelled = doc[e].cancelled
  BY <1>3, <1>7, <1>9 DEF DocumentRows
<1> QED BY <1>1, <1>2, <1>4, <1>5, <1>8, <1>9, <1>10

\* A note is sealed for what the other notes have left of its invoice.
LEMMA SealedWithin ==
    ASSUME FiscalInv, NEW c \in Clerks, sealing[c] # None, Seals(c), UNCHANGED <<line, credits>>
    PROVE  CreditedWithinInvoice'
<1>1. PICK s, e : s = sealing[c] /\ e = s.document
  OBVIOUS
<1>2. e \in Documents /\ IsDraft(e) /\ Total(e) \in Nat /\ xml' = [xml EXCEPT ![e] = Total(e)]
  BY <1>1, SealFacts
<1>3. PICK x \in DocumentRows : doc' = [doc EXCEPT ![e] = x]
  BY <1>1, SealFacts
<1>4. /\ xml'[e] = Total(e) /\ doc'[e] = x
      /\ \A o \in Documents \ {e} : doc'[o] = doc[o] /\ xml'[o] = xml[o]
  BY <1>2, <1>3 DEF FiscalInv, TablesTyped
<1>5. \A o \in Documents \ {e} : Live(o)' <=> Live(o)
  BY <1>4, SameStatus
<1> SUFFICES ASSUME NEW i \in Invoices, xml'[i] # None PROVE Credited(i, None)' <= xml'[i]
  BY DEF CreditedWithinInvoice
<1>6. \A n \in Notes : n # None
  BY FiscalTerms
<1>7. CreditingNotes(i, e)' = CreditingNotes(i, e)
  BY <1>5, FiscalTerms DEF CreditingNotes
<1>8. CreditingNotes(i, e) \in SUBSET Notes /\ e \notin CreditingNotes(i, e)
  BY DEF CreditingNotes
<1>9. Credited(i, e)' = Credited(i, e)
  <2>1. \A n \in CreditingNotes(i, e) : xml'[n] = xml[n]
    BY <1>4, <1>8, FiscalTerms
  <2>2. [n \in CreditingNotes(i, e) |-> xml'[n]] = [n \in CreditingNotes(i, e) |-> xml[n]]
    BY <2>1
  <2> QED BY <1>7, <2>2 DEF Credited
<1>10. Credited(i, e) \in Nat /\ Credited(i, None) \in Nat
  BY CreditingAreSealed
<1>11. CASE e \in Notes /\ credits[e] = i
  <2>1. s.total <= xml[i] - Credited(i, e) /\ s.total = Total(e)
    BY <1>1, <1>11 DEF FiscalInv, SealSound
  <2>2. i # e /\ i \in Documents
    BY <1>11, FiscalTerms
  <2>3. xml'[i] = xml[i] /\ xml[i] \in Nat
    BY <1>4, <2>2, FiscalTerms DEF FiscalInv, TablesTyped
  <2>4. PICK F, G, f, g : /\ F = CreditingNotes(i, e) /\ G = CreditingNotes(i, None)'
                          /\ f = [n \in F |-> xml'[n]] /\ g = [n \in G |-> xml'[n]]
    OBVIOUS
  <2>5. G \ {e} = F /\ e \notin F
    BY <1>5, <1>6, <1>8, <2>4, FiscalTerms DEF CreditingNotes
  <2>6. IsFiniteSet(F) /\ \A n \in F : xml[n] \in Nat
    BY <2>4, CreditingAreSealed
  <2>7. \A n \in F : f[n] = xml[n] /\ f[n] \in Nat
    BY <1>4, <1>8, <2>4, <2>6, FiscalTerms
  <2>8. SumFunctionOnSet(f, F) = Credited(i, e)
    BY <1>7, <1>9, <2>4 DEF Credited
  <2>9. SumFunctionOnSet(g, G) = Credited(i, None)'
    BY <2>4 DEF Credited
  <2>10. IsFiniteSet(G)
    <3>1. G \subseteq F \cup {e}
      BY <2>5
    <3> QED BY <2>6, <3>1, FS_AddElement, FS_Subset
  <2>11. \A n \in F : g[n] = f[n]
    BY <2>4, <2>5
  <2>12. CASE e \in G
    <3>1. g[e] = Total(e)
      BY <1>4, <2>4, <2>12
    <3>2. \A n \in G : g[n] \in Int
      BY <1>2, <2>5, <2>7, <2>11, <3>1
    <3>3. SumFunctionOnSet(g, G) = g[e] + SumFunctionOnSet(g, F)
      BY <2>5, <2>10, <2>12, <3>2, SumWithout
    <3>4. SumFunctionOnSet(g, F) = SumFunctionOnSet(f, F)
      BY <2>6, <2>11, SumOfEqual
    <3> QED BY <1>2, <1>10, <2>1, <2>3, <2>8, <2>9, <3>1, <3>3, <3>4
  <2>13. CASE e \notin G
    <3>1. G = F
      BY <2>5, <2>13
    <3> QED BY <1>2, <1>10, <2>1, <2>3, <2>4, <2>8, <2>9, <3>1
  <2> QED BY <2>12, <2>13
<1>12. CASE ~ (e \in Notes /\ credits[e] = i)
  <2>1. CreditingNotes(i, None)' = CreditingNotes(i, e)
    BY <1>5, <1>6, <1>12, FiscalTerms DEF CreditingNotes
  <2>2. CreditingNotes(i, None) = CreditingNotes(i, e)
    BY <1>6, <1>12, FiscalTerms DEF CreditingNotes
  <2>3. Credited(i, None)' = Credited(i, e) /\ Credited(i, None) = Credited(i, e)
    BY <1>7, <1>9, <2>1, <2>2 DEF Credited
  <2>4. CASE i # e
    <3>1. xml'[i] = xml[i]
      BY <1>4, <2>4, FiscalTerms
    <3> QED BY <2>3, <3>1 DEF FiscalInv, CreditedWithinInvoice
  <2>5. CASE i = e
    <3>1. CreditingNotes(i, e) = {}
      <4>1. ASSUME NEW n \in CreditingNotes(i, e) PROVE FALSE
        <5>1. n \in Notes /\ credits[n] = e /\ Live(n)
          BY <2>5 DEF CreditingNotes
        <5>2. doc[n] # None
          BY <5>1 DEF Live, IsSealed, IsIssued
        <5>3. doc[e].completed
          BY <5>1, <5>2 DEF FiscalInv, NoteSound
        <5> QED BY <1>2, <5>3 DEF IsDraft
      <4> QED BY <4>1
    <3>2. Credited(i, e) = 0
      BY <3>1, SumOfNone DEF Credited
    <3> QED BY <1>2, <1>4, <2>3, <2>5, <3>2
  <2> QED BY <2>4, <2>5
<1> QED BY <1>11, <1>12

\* A clerk seals its draft.
LEMMA SealsKeep ==
    ASSUME FiscalInv, NEW c \in Clerks, sealing[c] # None, Seals(c),
           UNCHANGED <<line, credits, refunded>>,
           IF sealing[c].document \in Receipts
           THEN pays' = [pays EXCEPT ![sealing[c].document] = sealing[c].pays]
           ELSE pays' = pays
    PROVE  FiscalInv'
<1>1. PICK s, e : s = sealing[c] /\ e = s.document
  OBVIOUS
<1>2. /\ e \in Documents /\ IsDraft(e) /\ DocumentRow(e) \in s.rows /\ Total(e) \in Nat
      /\ xml' = [xml EXCEPT ![e] = Total(e)]
  BY <1>1, SealFacts
<1>3. PICK x \in DocumentRows :
          /\ doc' = [doc EXCEPT ![e] = x] /\ x.batch = doc[e].batch
          /\ x.completed = doc[e].completed /\ x.cancelled = doc[e].cancelled
          /\ \/ x.serial = doc[e].serial
             \/ \A o \in Documents : doc[o] # None /\ doc[o].batch = x.batch => doc[o].serial < x.serial
  BY <1>1, SealFacts
<1>4. /\ doc' \in [Documents -> DocumentRows \cup {None}] /\ xml' \in [Documents -> Nat \cup {None}]
      /\ xml'[e] = Total(e) /\ doc'[e] = x /\ x # None /\ doc[e] # None /\ Total(e) # None
      /\ \A o \in Documents \ {e} : doc'[o] = doc[o] /\ xml'[o] = xml[o]
  BY <1>2, <1>3, FiscalTerms DEF FiscalInv, TablesTyped, IsDraft
<1>5. /\ sealing' = [b \in Clerks |-> sealing'[b]] /\ sealing'[c] = None
      /\ \A b \in Clerks \ {c} : sealing'[b] = sealing[b]
  BY DEF FiscalInv, TablesTyped, Seals, Ends
<1>6. /\ pays' = [r \in Receipts |-> pays'[r]] /\ \A r \in Receipts \ {e} : pays'[r] = pays[r]
      /\ e \in Receipts => pays'[e] = s.pays
  BY <1>1 DEF FiscalInv, TablesTyped
<1>7. TablesTyped'
  BY <1>4, <1>5, <1>6 DEF FiscalInv, TablesTyped
<1>8. ASSUME NEW o \in Documents PROVE DocumentSound(o)'
  <2>1. DocumentSound(o) /\ Total(o)' = Total(o)
    BY TotalKept DEF FiscalInv
  <2>2. CASE o = e
    BY <1>3, <1>4, <2>1, <2>2 DEF DocumentSound
  <2>3. CASE o # e
    <3>1. Live(o)' <=> Live(o)
      BY <1>4, <2>3, SameStatus
    <3> QED BY <1>4, <2>1, <2>3, <3>1 DEF DocumentSound
  <2> QED BY <2>2, <2>3
<1>9. ASSUME NEW n \in Notes PROVE NoteSound(n)'
  <2>1. SUFFICES ASSUME doc'[n] # None
                 PROVE  /\ credits[n] \in Invoices
                        /\ doc'[credits[n]] # None /\ doc'[credits[n]].completed
    BY DEF NoteSound
  <2>2. doc[n] # None
    BY <1>4, <2>1, FiscalTerms
  <2>3. PICK i : i = credits[n]
    OBVIOUS
  <2>4. i \in Invoices /\ i \in Documents /\ doc[i] # None /\ doc[i].completed
    BY <2>2, <2>3, FiscalTerms DEF FiscalInv, NoteSound
  <2> QED BY <1>3, <1>4, <2>3, <2>4
<1>10. ASSUME NEW b \in Clerks PROVE SealSound(b)'
  <2>1. CASE sealing'[b] = None
    BY <2>1 DEF SealSound
  <2>2. CASE sealing'[b] # None
    <3>1. b # c /\ sealing[b] # None /\ sealing'[b] = sealing[b]
      BY <1>5, <2>2
    <3>2. \A r : r \in s.rows => r \notin sealing[b].rows
      BY <1>1, <3>1 DEF FiscalInv, ClerksApart
    <3>3. DocumentRow(sealing[b].document) \in sealing[b].rows
      BY <3>1 DEF FiscalInv, SealSound
    <3>4. e # sealing[b].document
      BY <1>2, <3>2, <3>3
    <3>5. ASSUME NEW i \in Invoices, DocumentRow(i) \in sealing[b].rows
          PROVE  /\ xml'[i] = xml[i]
                 /\ e \in Receipts => /\ ~ Live(e) \/ pays[e][i] = None
                                      /\ ~ Live(e)' \/ pays'[e][i] = None
                 /\ e \in Notes => credits[e] # i
      <4>1. DocumentRow(i) \notin s.rows
        BY <3>2, <3>5
      <4>2. i # e
        BY <1>2, <4>1
      <4>3. xml'[i] = xml[i]
        BY <1>4, <4>2, FiscalTerms
      <4>4. ~ Live(e)
        BY <1>2 DEF IsDraft, Live, IsSealed, IsIssued
      <4>5. e \in Receipts => s.pays[i] = None
        BY <1>1, <4>1 DEF FiscalInv, SealSound
      <4>6. e \in Notes => credits[e] # i
        BY <1>1, <4>1 DEF FiscalInv, SealSound
      <4> QED BY <1>6, <4>3, <4>4, <4>5, <4>6
    <3> QED BY <1>2, <1>4, <1>6, <3>1, <3>4, <3>5, OthersSound
  <2> QED BY <2>1, <2>2
<1>11. ClerksApart'
  BY <1>5 DEF FiscalInv, ClerksApart
<1>12. SerialsUnique'
  <2>1. SUFFICES ASSUME NEW a \in Documents, NEW b \in Documents, a # b, doc'[a] # None, doc'[b] # None,
                        doc'[a].batch = doc'[b].batch, doc'[a].serial = doc'[b].serial
                 PROVE  doc'[a].serial = 0
    BY DEF SerialsUnique
  <2>2. \A o \in Documents \ {e} : doc[o] # None => doc[o].serial \in Nat
    BY DEF FiscalInv, TablesTyped, DocumentRows
  <2>3. SerialsUnique
    BY DEF FiscalInv
  <2>4. x.serial \in Nat
    BY DEF DocumentRows
  <2>5. CASE a = e
    BY <1>3, <1>4, <2>1, <2>2, <2>3, <2>4, <2>5 DEF SerialsUnique
  <2>6. CASE b = e
    BY <1>3, <1>4, <2>1, <2>2, <2>3, <2>4, <2>6 DEF SerialsUnique
  <2>7. CASE a # e /\ b # e
    BY <1>4, <2>1, <2>3, <2>7 DEF SerialsUnique
  <2> QED BY <2>5, <2>6, <2>7
<1>13. CreditedWithinInvoice'
  BY SealedWithin
<1> QED BY <1>7, <1>8, <1>9, <1>10, <1>11, <1>12, <1>13 DEF FiscalInv

\* What is sealed, by a step that leaves the tables.
LEMMA SealingKeeps ==
    ASSUME FiscalInv, UNCHANGED tables, sealing' = [b \in Clerks |-> sealing'[b]],
           \A b \in Clerks : sealing'[b] = sealing[b] \/ SealSound(b)', ClerksApart'
    PROVE  FiscalInv'
<1>1. /\ UNCHANGED <<doc, xml, line, pays, credits, refunded>>
  BY DEF tables
<1>2. \A d, i : Position(i, d)' = Position(i, d) /\ Credited(i, d)' = Credited(i, d)
  BY <1>1 DEF Position, PaidIn, PaidBy, CreditingNotes, Credited, Live, IsSealed, IsIssued
<1>3. \A d : (Live(d)' <=> Live(d)) /\ (IsDraft(d)' <=> IsDraft(d)) /\ Total(d)' = Total(d)
  BY <1>1, SameStatus, TotalKept
<1>4. TablesTyped'
  BY <1>1 DEF FiscalInv, TablesTyped
<1>5. ASSUME NEW d \in Documents PROVE DocumentSound(d)'
  BY <1>1, <1>3 DEF FiscalInv, DocumentSound
<1>6. ASSUME NEW n \in Notes PROVE NoteSound(n)'
  BY <1>1 DEF FiscalInv, NoteSound
<1>7. ASSUME NEW b \in Clerks PROVE SealSound(b)'
  BY <1>1, <1>2, <1>3 DEF FiscalInv, SealSound
<1>8. SerialsUnique'
  BY <1>1 DEF FiscalInv, SerialsUnique
<1>9. CreditedWithinInvoice'
  BY <1>1, <1>2 DEF FiscalInv, CreditedWithinInvoice
<1> QED BY <1>4, <1>5, <1>6, <1>7, <1>8, <1>9 DEF FiscalInv

\* A clerk begins, on what it has just read.
LEMMA BeginsKeep ==
    ASSUME FiscalInv, ~ SharedSources, NEW c \in Clerks, NEW d \in Documents, IsDraft(d),
           NEW pieces, NEW settled, NEW rows, Begins(c, d, pieces, settled, rows),
           DocumentRow(d) \in rows,
           d \in Receipts => \A i \in Invoices : pieces[i] # None =>
               /\ DocumentRow(i) \in rows
               /\ pieces[i].number = Position(i, d).number
               /\ pieces[i].previous = Position(i, d).balance,
           d \in Notes => /\ DocumentRow(credits[d]) \in rows
                          /\ Total(d) <= xml[credits[d]] - Credited(credits[d], d)
    PROVE  FiscalInv'
<1>1. PICK s : s = [document |-> d, serial |-> doc[d].serial, batch |-> doc[d].batch,
                    total |-> Total(d), pays |-> pieces, settled |-> settled, rows |-> rows]
  OBVIOUS
<1>2. /\ s.document = d /\ s.serial = doc[d].serial /\ s.batch = doc[d].batch
      /\ s.total = Total(d) /\ s.pays = pieces /\ s.rows = rows
  BY <1>1
<1>3. /\ sealing' = [b \in Clerks |-> sealing'[b]] /\ sealing'[c] = s
      /\ \A b \in Clerks \ {c} : sealing'[b] = sealing[b]
  BY <1>1 DEF FiscalInv, TablesTyped, Begins
<1>4. UNCHANGED tables /\ UNCHANGED <<doc, xml, line, pays, credits, refunded>>
  BY DEF Begins, tables
<1>5. \A i : Position(i, d)' = Position(i, d) /\ Credited(i, d)' = Credited(i, d)
  BY <1>4 DEF Position, PaidIn, PaidBy, CreditingNotes, Credited, Live, IsSealed, IsIssued
<1>6. (IsDraft(d)' <=> IsDraft(d)) /\ Total(d)' = Total(d)
  BY <1>4, SameStatus, TotalKept
<1>7. SealSound(c)'
  BY <1>2, <1>3, <1>4, <1>5, <1>6 DEF SealSound
<1>8. ClerksApart'
  <2>1. \A b \in Clerks : sealing[b] # None => sealing[b].rows \cap rows = {}
    BY DEF Begins, Apart
  <2> QED BY <1>2, <1>3, <2>1 DEF FiscalInv, ClerksApart
<1> QED BY <1>3, <1>4, <1>7, <1>8, SealingKeeps

\* It rolls back.
LEMMA AbortKeeps ==
    ASSUME FiscalInv, NEW c \in Clerks, Abort(c)
    PROVE  FiscalInv'
<1>1. UNCHANGED tables
  BY DEF Abort
<1>2. /\ sealing' = [b \in Clerks |-> sealing'[b]] /\ sealing'[c] = None
      /\ \A b \in Clerks \ {c} : sealing'[b] = sealing[b]
  BY DEF FiscalInv, TablesTyped, Abort, Ends
<1>3. SealSound(c)'
  BY <1>2 DEF SealSound
<1>4. ClerksApart'
  BY <1>2 DEF FiscalInv, ClerksApart
<1> QED BY <1>1, <1>2, <1>3, <1>4, SealingKeeps

\* An issued document is cancelled while clerks are sealing others.
LEMMA CancelKeeps ==
    ASSUME FiscalInv, ~ SharedSources, NEW d \in Documents, CancelIssued(d)
    PROVE  FiscalInv'
<1>1. PICK x : x = [doc[d] EXCEPT !.cancelled = TRUE]
  OBVIOUS
<1>2. doc[d] # None /\ doc[d] \in DocumentRows /\ doc[d].completed /\ Live(d)
  BY DEF CancelIssued, IsIssued, FiscalInv, TablesTyped, Live
<1>3. /\ x \in DocumentRows /\ x.completed /\ x.cancelled
      /\ x.serial = doc[d].serial /\ x.batch = doc[d].batch /\ x # None
  BY <1>1, <1>2, FiscalTerms DEF DocumentRows
<1>4. doc' = [doc EXCEPT ![d] = x]
  BY <1>1 DEF CancelIssued
<1>5. doc'[d] = x /\ \A e \in Documents \ {d} : doc'[e] = doc[e]
  BY <1>4 DEF FiscalInv, TablesTyped
<1>6. UNCHANGED <<xml, line, pays, credits, refunded, sealing>>
  BY DEF CancelIssued
<1>7. xml[d] # None
  BY <1>2 DEF FiscalInv, DocumentSound
<1>8. d \in Notes => NoteSound(d)'
  <2>1. SUFFICES ASSUME d \in Notes
                 PROVE  /\ credits[d] \in Invoices
                        /\ doc'[credits[d]] # None /\ doc'[credits[d]].completed
    BY <1>6 DEF NoteSound
  <2>2. PICK i : i = credits[d]
    OBVIOUS
  <2>3. i \in Invoices /\ i \in Documents /\ doc[i] # None /\ doc[i].completed
    BY <1>2, <2>1, <2>2, FiscalTerms DEF FiscalInv, NoteSound
  <2> QED BY <1>3, <1>5, <2>2, <2>3
<1>9. ASSUME NEW c \in Clerks PROVE SealSound(c)'
  <2>1. CASE sealing[c] = None
    BY <1>6, <2>1 DEF SealSound
  <2>2. CASE sealing[c] # None
    <3>1. d # sealing[c].document
      BY <1>2, <2>2 DEF FiscalInv, SealSound, IsDraft
    <3>2. \A i \in Settled(d) : DocumentRow(i) \notin sealing[c].rows
      BY <2>2 DEF CancelIssued, Apart
    <3>3. ~ Live(d)'
      BY <1>3, <1>5 DEF Live, IsSealed, IsIssued
    <3>4. ASSUME NEW i \in Invoices, DocumentRow(i) \in sealing[c].rows
          PROVE  /\ xml'[i] = xml[i]
                 /\ d \in Receipts => /\ ~ Live(d) \/ pays[d][i] = None
                                      /\ ~ Live(d)' \/ pays'[d][i] = None
                 /\ d \in Notes => credits[d] # i
      <4>1. i \notin Settled(d)
        BY <3>2, <3>4
      <4> QED BY <1>6, <3>3, <4>1, FiscalTerms DEF Settled
    <3> QED BY <1>5, <1>6, <2>2, <3>1, <3>4, OthersSound
  <2> QED BY <2>1, <2>2
<1>10. ClerksApart' /\ sealing' = [c \in Clerks |-> sealing'[c]] /\ pays' = [r \in Receipts |-> pays'[r]]
  BY <1>6 DEF FiscalInv, TablesTyped, ClerksApart
<1>11. credits' \in [Notes -> Invoices \cup {None}]
  BY <1>6 DEF FiscalInv, TablesTyped
<1> QED BY <1>2, <1>3, <1>4, <1>6, <1>7, <1>8, <1>9, <1>10, <1>11, RowKeeps

-----------------------------------------------------------------------------
(***************************************************************************)
(* The actions.                                                            *)
(***************************************************************************)
\* What remains of a line is a number.
LEMMA RemainingIsNat ==
    ASSUME FiscalInv, NEW l \in OrderLines, NEW d
    PROVE  Remaining(l, d) \in Nat
<1>1. PICK B : B = {i \in Invoices \ {d} : Live(i)}
  OBVIOUS
<1>2. PICK f : f = [i \in B |-> line[i][l]]
  OBVIOUS
<1>3. IsFiniteSet(B)
  BY <1>1, FiscalTerms, FS_Subset
<1>4. \A i \in B : f[i] \in Nat
  BY <1>1, <1>2, FiscalTerms DEF FiscalInv, TablesTyped
<1>5. Invoiced(l, d) = SumFunctionOnSet(f, B)
  BY <1>1, <1>2 DEF Invoiced
<1>6. Invoiced(l, d) \in Nat
  BY <1>3, <1>4, <1>5, SumIsNat
<1>7. PICK n : n = Sold[l] - Invoiced(l, d) - refunded[l]
  OBVIOUS
<1>8. n \in Int
  BY <1>6, <1>7, FiscalConstants DEF FiscalConstants, FiscalInv, TablesTyped
<1>9. \E x \in {0, n} : \A y \in {0, n} : x >= y
  BY <1>8
<1>10. Max({0, n}) \in {0, n} /\ \A y \in {0, n} : Max({0, n}) >= y
  BY <1>9 DEF Max
<1>11. Max({0, n}) \in Nat
  BY <1>8, <1>10
<1> QED BY <1>7, <1>11 DEF Remaining

\* _new_document
LEMMA NewKeeps ==
    ASSUME FiscalInv, ~ SharedSources, AtOnce, NEW d \in Documents, NEW ids, NEW b,
           b \in InvoiceSeries \cup ReceiptSeries \cup NoteSeries, NewDraft(d, ids, b),
           UNCHANGED <<xml, line, refunded>>, pays' = [r \in Receipts |-> pays'[r]],
           credits' \in [Notes -> Invoices \cup {None}],
           \A n \in Notes : doc[n] # None => credits'[n] = credits[n],
           d \in Notes => NoteSound(d)'
    PROVE  FiscalInv'
<1>1. PICK x : x = [batch |-> b, serial |-> 0, completed |-> FALSE, cancelled |-> FALSE]
  OBVIOUS
<1>2. x \in DocumentRows /\ x.serial = 0 /\ x.completed = FALSE /\ x.cancelled = FALSE
  BY <1>1 DEF DocumentRows
<1>3. doc' = [doc EXCEPT ![d] = x] /\ doc[d] = None
  BY <1>1 DEF NewDraft, Fresh
<1>4. doc'[d] = x
  BY <1>3 DEF FiscalInv, TablesTyped
<1>5. xml'[d] = None
  BY <1>3 DEF FiscalInv, DocumentSound
<1>6. ~ Live(d)'
  BY <1>2, <1>4, <1>5 DEF Live, IsSealed, IsIssued
<1> QED BY <1>2, <1>3, <1>6, NobodySeals, RowKeeps

LEMMA CreateInvoiceKeeps ==
    ASSUME FiscalInv, ~ SharedSources, NEW d \in Documents, NEW b \in InvoiceSeries, CreateInvoice(d, b)
    PROVE  FiscalInv'
<1>1. d \notin Notes
  BY FiscalTerms DEF CreateInvoice, NewDraft, Fresh
<1>2. pays' = [r \in Receipts |-> pays'[r]] /\ credits' \in [Notes -> Invoices \cup {None}]
  BY DEF CreateInvoice, FiscalInv, TablesTyped
<1> QED BY <1>1, <1>2, NewKeeps DEF CreateInvoice

LEMMA CreateReceiptKeeps ==
    ASSUME FiscalInv, ~ SharedSources, NEW d \in Receipts, NEW b \in ReceiptSeries, NEW a,
           NEW proposes, CreateReceipt(d, b, a, proposes)
    PROVE  FiscalInv'
<1>1. d \notin Notes /\ d \in Documents
  BY FiscalTerms
<1>2. pays' = [r \in Receipts |-> pays'[r]] /\ credits' \in [Notes -> Invoices \cup {None}]
  BY DEF CreateReceipt, FiscalInv, TablesTyped
<1> QED BY <1>1, <1>2, NewKeeps DEF CreateReceipt

LEMMA CreateNoteKeeps ==
    ASSUME FiscalInv, ~ SharedSources, NEW n \in Notes, NEW b \in NoteSeries, NEW i \in Invoices,
           CreateNote(n, b, i)
    PROVE  FiscalInv'
<1>1. doc[n] = None /\ doc[i] # None /\ doc[i].completed /\ n \in Documents /\ i \in Documents
  BY FiscalTerms DEF CreateNote, NewDraft, Fresh, Creditable, IsIssued
<1>2. pays' = [r \in Receipts |-> pays'[r]] /\ credits' \in [Notes -> Invoices \cup {None}]
      /\ credits'[n] = i /\ \A m \in Notes : doc[m] # None => credits'[m] = credits[m]
  BY <1>1 DEF CreateNote, FiscalInv, TablesTyped
<1>3. doc'[i] = doc[i]
  BY <1>1 DEF CreateNote, NewDraft, FiscalInv, TablesTyped
<1>4. NoteSound(n)'
  BY <1>1, <1>2, <1>3 DEF NoteSound
<1> QED BY <1>1, <1>2, <1>4, NewKeeps DEF CreateNote

LEMMA ChangeBatchKeeps ==
    ASSUME FiscalInv, ~ SharedSources, NEW d \in Documents, NEW b \in InvoiceSeries, ChangeBatch(d, b)
    PROVE  FiscalInv'
<1>1. PICK x : x = [doc[d] EXCEPT !.batch = b]
  OBVIOUS
<1>2. doc[d] # None /\ doc[d] \in DocumentRows /\ d \notin Notes /\ doc[d].serial = 0
  BY FiscalTerms DEF ChangeBatch, IsDraft, FiscalInv, TablesTyped
<1>3. /\ x \in DocumentRows /\ x.serial = 0 /\ x # None
      /\ x.completed = doc[d].completed /\ x.cancelled = doc[d].cancelled
  BY <1>1, <1>2, FiscalTerms DEF DocumentRows
<1>4. doc' = [doc EXCEPT ![d] = x] /\ UNCHANGED <<xml, line, refunded, pays, credits>>
  BY <1>1 DEF ChangeBatch
<1>5. doc'[d] = x
  BY <1>4 DEF FiscalInv, TablesTyped
<1>6. Live(d)' => Live(d)
  BY <1>2, <1>3, <1>4, <1>5 DEF Live, IsSealed, IsIssued
<1>7. pays' = [r \in Receipts |-> pays'[r]] /\ credits' \in [Notes -> Invoices \cup {None}]
  BY <1>4 DEF FiscalInv, TablesTyped
<1>8. ~ x.completed /\ ~ x.cancelled
  BY <1>3 DEF ChangeBatch, IsDraft
<1>9. AtOnce
  BY DEF ChangeBatch
<1> QED BY <1>2, <1>3, <1>4, <1>6, <1>7, <1>8, <1>9, NobodySeals, RowKeeps

LEMMA StampKeeps ==
    ASSUME FiscalInv, ~ SharedSources, NEW d \in Documents, Stamp(d)
    PROVE  FiscalInv'
<1>1. PICK x : x = [doc[d] EXCEPT !.completed = TRUE]
  OBVIOUS
<1>2. doc[d] # None /\ doc[d] \in DocumentRows /\ xml[d] # None /\ Live(d) /\ ~ doc[d].cancelled
  BY DEF Stamp, Live, IsSealed, FiscalInv, TablesTyped
<1>3. /\ x \in DocumentRows /\ x # None /\ x.completed /\ ~ x.cancelled
      /\ x.serial = doc[d].serial /\ x.batch = doc[d].batch
  BY <1>1, <1>2, FiscalTerms DEF DocumentRows
<1>4. doc' = [doc EXCEPT ![d] = x] /\ UNCHANGED <<xml, line, refunded, pays, credits>> /\ AtOnce
  BY <1>1 DEF Stamp
<1>5. doc'[d] = x /\ \A e \in Documents \ {d} : doc'[e] = doc[e]
  BY <1>4 DEF FiscalInv, TablesTyped
<1>6. d \in Notes => NoteSound(d)'
  <2>1. SUFFICES ASSUME d \in Notes
                 PROVE  /\ credits[d] \in Invoices
                        /\ doc'[credits[d]] # None /\ doc'[credits[d]].completed
    BY <1>4 DEF NoteSound
  <2>2. PICK i : i = credits[d]
    OBVIOUS
  <2>3. i \in Invoices /\ i \in Documents /\ doc[i] # None /\ doc[i].completed
    BY <1>2, <2>1, <2>2, FiscalTerms DEF FiscalInv, NoteSound
  <2> QED BY <1>3, <1>5, <2>2, <2>3
<1>7. pays' = [r \in Receipts |-> pays'[r]] /\ credits' \in [Notes -> Invoices \cup {None}]
  BY <1>4 DEF FiscalInv, TablesTyped
<1> QED BY <1>2, <1>3, <1>4, <1>6, <1>7, NobodySeals, RowKeeps

\* What a request changes of a draft's lines, of what a receipt is to pay, and
\* a refund.
LEMMA AddSalesOrderKeeps ==
    ASSUME FiscalInv, ~ SharedSources, NEW d \in Documents, NEW o, AddSalesOrder(d, o)
    PROVE  FiscalInv'
<1>1. PICK A : A = {l \in {k \in OrderLines : OrderOf[k] = o} \ LinesOn(d) : Remaining(l, d) > 0}
  OBVIOUS
<1>2. PICK f : f = [l \in Lines |-> IF l \in A THEN Remaining(l, d) ELSE line[d][l]]
  OBVIOUS
<1>3. line' = [line EXCEPT ![d] = f]
  BY <1>1, <1>2 DEF AddSalesOrder
<1>4. f \in [Lines -> Nat]
  <2>1. \A l \in A : Remaining(l, d) \in Nat
    BY <1>1, RemainingIsNat
  <2> QED BY <1>2, <2>1 DEF FiscalInv, TablesTyped
<1>5. line' \in [Documents -> [Lines -> Nat]] /\ \A e \in Documents \ {d} : line'[e] = line[e]
  BY <1>3, <1>4 DEF FiscalInv, TablesTyped
<1>6. UNCHANGED <<doc, xml, pays, credits, refunded>> /\ AtOnce /\ IsDraft(d)
  BY DEF AddSalesOrder
<1>7. refunded' \in [OrderLines -> Nat] /\ pays' = [r \in Receipts |-> pays'[r]]
  BY <1>6 DEF FiscalInv, TablesTyped
<1> QED BY <1>5, <1>6, <1>7, LinesKeep

\* One line of a draft.
LEMMA LineKeeps ==
    ASSUME FiscalInv, ~ SharedSources, AtOnce, NEW d \in Documents, IsDraft(d), NEW l \in Lines,
           NEW q \in Nat, line' = [line EXCEPT ![d][l] = q], UNCHANGED <<doc, xml, pays, credits, refunded>>
    PROVE  FiscalInv'
<1>1. PICK f : f = [line[d] EXCEPT ![l] = q]
  OBVIOUS
<1>2. line' = [line EXCEPT ![d] = f]
  BY <1>1
<1>3. f \in [Lines -> Nat]
  BY <1>1 DEF FiscalInv, TablesTyped
<1>4. line' \in [Documents -> [Lines -> Nat]] /\ \A e \in Documents \ {d} : line'[e] = line[e]
  BY <1>2, <1>3 DEF FiscalInv, TablesTyped
<1>5. refunded' \in [OrderLines -> Nat] /\ pays' = [r \in Receipts |-> pays'[r]]
  BY DEF FiscalInv, TablesTyped
<1> QED BY <1>4, <1>5, LinesKeep

LEMMA DraftLinesKeep ==
    ASSUME FiscalInv, ~ SharedSources, NEW d \in Documents, NEW l \in Lines, NEW q \in Amounts,
           UpdateLine(d, l, q) \/ (d \in Notes /\ CreditLine(d, l, q))
    PROVE  FiscalInv'
<1>1. q \in Nat
  BY FiscalTerms
<1>2. CASE UpdateLine(d, l, q)
  BY <1>1, <1>2, LineKeeps DEF UpdateLine
<1>3. CASE d \in Notes /\ CreditLine(d, l, q)
  BY <1>1, <1>3, LineKeeps DEF CreditLine
<1> QED BY <1>2, <1>3

LEMMA DraftPaysKeep ==
    ASSUME FiscalInv, ~ SharedSources, NEW r \in Receipts, NEW i \in Invoices, NEW a,
           PayInvoice(r, i, a) \/ UnpayInvoice(r, i)
    PROVE  FiscalInv'
<1>1. AtOnce /\ UNCHANGED <<doc, xml, line, credits, refunded>>
  BY DEF PayInvoice, UnpayInvoice
<1>2. pays' = [x \in Receipts |-> pays'[x]]
  BY DEF PayInvoice, UnpayInvoice, FiscalInv, TablesTyped
<1>3. line' \in [Documents -> [Lines -> Nat]] /\ refunded' \in [OrderLines -> Nat]
  BY <1>1 DEF FiscalInv, TablesTyped
<1> QED BY <1>1, <1>2, <1>3, LinesKeep

LEMMA RefundKeeps ==
    ASSUME FiscalInv, ~ SharedSources, NEW l \in OrderLines, NEW q \in Amounts, Refund(l, q)
    PROVE  FiscalInv'
<1>1. AtOnce /\ UNCHANGED <<doc, xml, line, pays, credits>>
  BY DEF Refund
<1>2. PICK n : n = refunded[l] + q
  OBVIOUS
<1>3. n \in Nat /\ refunded' = [refunded EXCEPT ![l] = n]
  BY <1>2, FiscalTerms DEF Refund, FiscalInv, TablesTyped
<1>4. refunded' \in [OrderLines -> Nat] /\ line' \in [Documents -> [Lines -> Nat]]
      /\ pays' = [r \in Receipts |-> pays'[r]]
  BY <1>1, <1>3 DEF FiscalInv, TablesTyped
<1> QED BY <1>1, <1>4, LinesKeep

LEMMA ReopenKeeps ==
    ASSUME FiscalInv, ~ SharedSources, NEW d \in Documents, Reopen(d) \/ ReopenNote(d)
    PROVE  FiscalInv'
BY UnsealKeeps DEF Reopen, ReopenNote

\* What a clerk begins with is what it reads.
LEMMA InvoiceBeginsKeep ==
    ASSUME FiscalInv, ~ SharedSources, NEW c \in Clerks, NEW d \in Invoices, ConfirmInvoiceBegin(c, d)
    PROVE  FiscalInv'
<1>1. d \in Documents /\ d \notin Receipts /\ d \notin Notes
  BY FiscalTerms
<1>2. DocumentRow(d) \in DraftRows(d)
  BY DEF DraftRows
<1> QED BY <1>1, <1>2, BeginsKeep DEF ConfirmInvoiceBegin

LEMMA ReceiptBeginsKeep ==
    ASSUME FiscalInv, ~ SharedSources, NEW c \in Clerks, NEW r \in Receipts, ConfirmReceiptBegin(c, r)
    PROVE  FiscalInv'
<1>1. r \in Documents /\ r \notin Notes /\ IsDraft(r)
  BY FiscalTerms DEF ConfirmReceiptBegin
<1>2. PICK p, rows : p = Repositioned(r) /\ rows = ReceiptRows(r, {})
  OBVIOUS
<1>3. Begins(c, r, p, {}, rows)
  BY <1>2 DEF ConfirmReceiptBegin
<1>4. DocumentRow(r) \in rows
  BY <1>2 DEF ReceiptRows
<1>5. \A i \in Invoices : p[i] # None => /\ DocumentRow(i) \in rows
                                         /\ p[i].number = Position(i, r).number
                                         /\ p[i].previous = Position(i, r).balance
  <2>1. ASSUME NEW i \in Invoices, p[i] # None
        PROVE  /\ DocumentRow(i) \in rows
               /\ p[i].number = Position(i, r).number
               /\ p[i].previous = Position(i, r).balance
    <3>1. pays[r][i] # None
      BY <1>2, <2>1 DEF Repositioned
    <3>2. p[i] = [number |-> Position(i, r).number, previous |-> Position(i, r).balance,
                  amount |-> pays[r][i].amount]
      BY <1>2, <3>1 DEF Repositioned
    <3> QED BY <1>2, <3>1, <3>2 DEF ReceiptRows, PaidInvoices
  <2> QED BY <2>1
<1> QED BY <1>1, <1>3, <1>4, <1>5, BeginsKeep

LEMMA NoteBeginsKeep ==
    ASSUME FiscalInv, ~ SharedSources, NEW c \in Clerks, NEW n \in Notes, ConfirmNoteBegin(c, n)
    PROVE  FiscalInv'
<1>1. n \in Documents /\ n \notin Receipts /\ IsDraft(n)
  BY FiscalTerms DEF ConfirmNoteBegin
<1>2. DocumentRow(n) \in NoteRows(n) /\ DocumentRow(credits[n]) \in NoteRows(n)
  BY DEF NoteRows
<1> QED BY <1>1, <1>2, BeginsKeep DEF ConfirmNoteBegin

LEMMA ConfirmsKeep ==
    ASSUME FiscalInv, NEW c \in Clerks, ConfirmInvoice(c) \/ ConfirmReceipt(c) \/ ConfirmNote(c)
    PROVE  FiscalInv'
<1>1. sealing[c] # None /\ Seals(c) /\ UNCHANGED <<line, credits, refunded>>
  BY DEF ConfirmInvoice, ConfirmReceipt, ConfirmNote
<1>2. IF sealing[c].document \in Receipts
      THEN pays' = [pays EXCEPT ![sealing[c].document] = sealing[c].pays]
      ELSE pays' = pays
  BY FiscalTerms DEF ConfirmInvoice, ConfirmReceipt, ConfirmNote
<1> QED BY <1>1, <1>2, SealsKeep

-----------------------------------------------------------------------------
(***************************************************************************)
(* The invariant.                                                          *)
(***************************************************************************)
LEMMA InitInv == FiscalInit => FiscalInv
<1> SUFFICES ASSUME FiscalInit PROVE FiscalInv
  OBVIOUS
<1>1. /\ \A d \in Documents : doc[d] = None /\ xml[d] = None
      /\ \A c \in Clerks : sealing[c] = None
  BY DEF FiscalInit
<1>2. TablesTyped
  BY FiscalTerms DEF FiscalInit, TablesTyped
<1>3. \A d \in Documents : ~ Live(d)
  BY <1>1 DEF Live, IsSealed, IsIssued
<1>4. \A d \in Documents : DocumentSound(d)
  BY <1>1, <1>3 DEF DocumentSound
<1>5. \A n \in Notes : NoteSound(n)
  BY <1>1, FiscalTerms DEF NoteSound
<1>6. (\A c \in Clerks : SealSound(c)) /\ ClerksApart
  BY <1>1 DEF SealSound, ClerksApart
<1>7. SerialsUnique /\ CreditedWithinInvoice
  BY <1>1, FiscalTerms DEF SerialsUnique, CreditedWithinInvoice
<1> QED BY <1>2, <1>4, <1>5, <1>6, <1>7 DEF FiscalInv

LEMMA StutterKeeps == ASSUME FiscalInv, UNCHANGED vars PROVE FiscalInv'
<1>1. UNCHANGED tables /\ UNCHANGED sealing
  BY DEF vars
<1>2. sealing' = [c \in Clerks |-> sealing'[c]] /\ ClerksApart'
  BY <1>1 DEF FiscalInv, TablesTyped, ClerksApart
<1> QED BY <1>1, <1>2, SealingKeeps

LEMMA InvoiceNextKeeps ==
    ASSUME FiscalInv, ~ SharedSources, InvoiceNext
    PROVE  FiscalInv'
<1>1. ASSUME NEW d \in Documents, NEW b \in InvoiceSeries, CreateInvoice(d, b) \/ ChangeBatch(d, b)
      PROVE  FiscalInv'
  BY <1>1, CreateInvoiceKeeps, ChangeBatchKeeps
<1>2. ASSUME NEW d \in Documents, NEW o \in Orders, AddSalesOrder(d, o) PROVE FiscalInv'
  BY <1>2, AddSalesOrderKeeps
<1>3. ASSUME NEW d \in Documents, AddManualLine(d) PROVE FiscalInv'
  <2>1. Hand \in Lines /\ IsDraft(d) /\ 1 \in Nat /\ UNCHANGED <<doc, xml, pays, credits, refunded>>
    BY <1>3 DEF Lines, AddManualLine
  <2> QED BY <1>3, <2>1, LineKeeps DEF AddManualLine
<1>4. ASSUME NEW d \in Documents, Reopen(d) PROVE FiscalInv'
  BY <1>4, ReopenKeeps
<1>5. ASSUME NEW d \in Documents, Stamp(d) PROVE FiscalInv'
  BY <1>5, StampKeeps
<1>6. ASSUME NEW d \in Documents, CancelIssued(d) PROVE FiscalInv'
  BY <1>6, CancelKeeps
<1>7. ASSUME NEW d \in Documents, NEW l \in Lines, RemoveLine(d, l) PROVE FiscalInv'
  <2>1. IsDraft(d) /\ 0 \in Nat /\ UNCHANGED <<doc, xml, pays, credits, refunded>>
    BY <1>7 DEF RemoveLine
  <2> QED BY <1>7, <2>1, LineKeeps DEF RemoveLine
<1>8. ASSUME NEW d \in Documents, NEW l \in Lines, NEW q \in Amounts, UpdateLine(d, l, q)
      PROVE  FiscalInv'
  BY <1>8, DraftLinesKeep
<1>9. ASSUME NEW l \in OrderLines, NEW q \in Amounts, Refund(l, q) PROVE FiscalInv'
  BY <1>9, RefundKeeps
<1>10. ASSUME NEW c \in Clerks, NEW d \in Invoices, ConfirmInvoiceBegin(c, d) PROVE FiscalInv'
  BY <1>10, InvoiceBeginsKeep
<1>11. ASSUME NEW c \in Clerks, ConfirmInvoice(c) PROVE FiscalInv'
  BY <1>11, ConfirmsKeep
<1>12. ASSUME NEW c \in Clerks, Abort(c) PROVE FiscalInv'
  BY <1>12, AbortKeeps
<1> QED BY <1>1, <1>2, <1>3, <1>4, <1>5, <1>6, <1>7, <1>8, <1>9, <1>10, <1>11, <1>12 DEF InvoiceNext

LEMMA ReceiptNextKeeps ==
    ASSUME FiscalInv, ~ SharedSources, ReceiptNext
    PROVE  FiscalInv'
<1>1. ASSUME NEW d \in Receipts, NEW a \in Amounts, NEW b \in ReceiptSeries, NEW proposes \in BOOLEAN,
             CreateReceipt(d, b, a, proposes)
      PROVE  FiscalInv'
  BY <1>1, CreateReceiptKeeps
<1>2. ASSUME NEW d \in Receipts, NEW a \in Amounts, ChangePayment(d, a) PROVE FiscalInv'
  <2>1. /\ AtOnce /\ UNCHANGED <<doc, xml, line, pays, credits, refunded>>
    BY <1>2 DEF ChangePayment
  <2>2. /\ line' \in [Documents -> [Lines -> Nat]] /\ refunded' \in [OrderLines -> Nat]
        /\ pays' = [r \in Receipts |-> pays'[r]]
    BY <2>1 DEF FiscalInv, TablesTyped
  <2> QED BY <2>1, <2>2, LinesKeep
<1>3. ASSUME NEW d \in Receipts, NEW a \in Amounts, NEW i \in Invoices, PayInvoice(d, i, a)
      PROVE  FiscalInv'
  BY <1>3, DraftPaysKeep
<1>4. ASSUME NEW r \in Receipts, NEW i \in Invoices, UnpayInvoice(r, i) PROVE FiscalInv'
  BY <1>4, DraftPaysKeep
<1>5. ASSUME NEW c \in Clerks, NEW r \in Receipts, ConfirmReceiptBegin(c, r) PROVE FiscalInv'
  BY <1>5, ReceiptBeginsKeep
<1>6. ASSUME NEW c \in Clerks, ConfirmReceipt(c) PROVE FiscalInv'
  BY <1>6, ConfirmsKeep
<1> QED BY <1>1, <1>2, <1>3, <1>4, <1>5, <1>6 DEF ReceiptNext

LEMMA NoteNextKeeps ==
    ASSUME FiscalInv, ~ SharedSources, NoteNext
    PROVE  FiscalInv'
<1>1. ASSUME NEW n \in Notes, NEW b \in NoteSeries, NEW i \in Invoices, CreateNote(n, b, i)
      PROVE  FiscalInv'
  BY <1>1, CreateNoteKeeps
<1>2. ASSUME NEW n \in Notes, NEW l \in Lines, NEW q \in Amounts, CreditLine(n, l, q)
      PROVE  FiscalInv'
  BY <1>2, DraftLinesKeep, FiscalTerms
<1>3. ASSUME NEW n \in Notes, ReopenNote(n) PROVE FiscalInv'
  BY <1>3, ReopenKeeps, FiscalTerms
<1>4. ASSUME NEW c \in Clerks, NEW n \in Notes, ConfirmNoteBegin(c, n) PROVE FiscalInv'
  BY <1>4, NoteBeginsKeep
<1>5. ASSUME NEW c \in Clerks, ConfirmNote(c) PROVE FiscalInv'
  BY <1>5, ConfirmsKeep
<1> QED BY <1>1, <1>2, <1>3, <1>4, <1>5 DEF NoteNext

LEMMA NextInv == FiscalInv /\ ~ SharedSources /\ [FiscalNext]_vars => FiscalInv'
BY InvoiceNextKeeps, ReceiptNextKeeps, NoteNextKeeps, StutterKeeps DEF FiscalNext

\* Whatever clerks on different rows do, abort or leave half done, beside
\* stamps, cancellations, edits and reopenings.
THEOREM FiscalInvariance ==
    ASSUME ~ SharedSources
    PROVE  FiscalSpec => []FiscalInv
<1>1. FiscalInit => FiscalInv
  BY InitInv
<1>2. FiscalInv /\ [FiscalNext]_vars => FiscalInv'
  BY NextInv
<1> QED BY <1>1, <1>2, PTL DEF FiscalSpec

\* The notes sealed against an invoice never take off more than it bills.
THEOREM CreditStaysWithin ==
    ASSUME ~ SharedSources
    PROVE  FiscalSpec => []CreditedWithinInvoice
<1>1. FiscalInv => CreditedWithinInvoice
  BY DEF FiscalInv
<1> QED BY <1>1, FiscalInvariance, PTL

\* No number of a series is given twice, reopened drafts keeping theirs.
THEOREM SerialsStayUnique ==
    ASSUME ~ SharedSources
    PROVE  FiscalSpec => []SerialsUnique
<1>1. FiscalInv => SerialsUnique
  BY DEF FiscalInv
<1> QED BY <1>1, FiscalInvariance, PTL

-----------------------------------------------------------------------------
(***************************************************************************)
(* A receipt is sealed at the position its invoices are in.                *)
(***************************************************************************)
\* Nothing but confirming a receipt seals it.
LEMMA SealedByConfirm ==
    ASSUME FiscalInv, [FiscalNext]_vars, NEW r \in Receipts, xml[r] = None, xml'[r] # None
    PROVE  \E c \in Clerks : ConfirmReceipt(c) /\ sealing[c].document = r
<1>1. r \in Documents /\ r \notin Invoices /\ r \notin Notes
  BY FiscalTerms
<1>2. ASSUME NEW c \in Clerks, sealing[c] # None, Seals(c) PROVE sealing[c].document = r
  BY <1>2 DEF Seals, FiscalInv, TablesTyped
<1>3. ASSUME NEW d \in Documents, Reopen(d) \/ ReopenNote(d) PROVE FALSE
  <2>1. xml' = [xml EXCEPT ![d] = None]
    BY <1>3 DEF Reopen, ReopenNote
  <2>2. xml'[r] = None
    BY <1>1, <2>1 DEF FiscalInv, TablesTyped
  <2> QED BY <2>2
<1>4. ASSUME NEW c \in Clerks, ConfirmInvoice(c) \/ ConfirmNote(c) PROVE FALSE
  BY <1>1, <1>2, <1>4 DEF ConfirmInvoice, ConfirmNote
<1>5. CASE InvoiceNext
  <2>1. xml' # xml
    OBVIOUS
  <2>2. ASSUME NEW d \in Documents, NEW b, CreateInvoice(d, b) \/ ChangeBatch(d, b) PROVE FALSE
    BY <2>1, <2>2 DEF CreateInvoice, ChangeBatch
  <2>3. ASSUME NEW d \in Documents, NEW o, AddSalesOrder(d, o) PROVE FALSE
    BY <2>1, <2>3 DEF AddSalesOrder
  <2>4. ASSUME NEW d \in Documents, AddManualLine(d) \/ Stamp(d) \/ CancelIssued(d) PROVE FALSE
    BY <2>1, <2>4 DEF AddManualLine, Stamp, CancelIssued
  <2>5. ASSUME NEW d \in Documents, NEW l, NEW q, RemoveLine(d, l) \/ UpdateLine(d, l, q) PROVE FALSE
    BY <2>1, <2>5 DEF RemoveLine, UpdateLine
  <2>6. ASSUME NEW l, NEW q, Refund(l, q) PROVE FALSE
    BY <2>1, <2>6 DEF Refund
  <2>7. ASSUME NEW c, NEW d, ConfirmInvoiceBegin(c, d) \/ Abort(c) PROVE FALSE
    BY <2>1, <2>7 DEF ConfirmInvoiceBegin, Begins, Abort, tables
  <2> QED BY <1>3, <1>4, <1>5, <2>2, <2>3, <2>4, <2>5, <2>6, <2>7 DEF InvoiceNext
<1>6. CASE ReceiptNext
  <2>1. xml' # xml
    OBVIOUS
  <2>2. ASSUME NEW d, NEW b, NEW a, NEW p, CreateReceipt(d, b, a, p) PROVE FALSE
    BY <2>1, <2>2 DEF CreateReceipt
  <2>3. ASSUME NEW d, NEW i, NEW a, ChangePayment(d, a) \/ PayInvoice(d, i, a) \/ UnpayInvoice(d, i)
        PROVE  FALSE
    BY <2>1, <2>3 DEF ChangePayment, PayInvoice, UnpayInvoice
  <2>4. ASSUME NEW c, NEW d, ConfirmReceiptBegin(c, d) PROVE FALSE
    BY <2>1, <2>4 DEF ConfirmReceiptBegin, Begins, tables
  <2>5. PICK c \in Clerks : ConfirmReceipt(c)
    BY <1>6, <2>2, <2>3, <2>4 DEF ReceiptNext
  <2>6. sealing[c] # None /\ Seals(c)
    BY <2>5 DEF ConfirmReceipt
  <2> QED BY <1>2, <2>5, <2>6
<1>7. CASE NoteNext
  <2>1. xml' # xml
    OBVIOUS
  <2>2. ASSUME NEW n, NEW b, NEW i, CreateNote(n, b, i) PROVE FALSE
    BY <2>1, <2>2 DEF CreateNote
  <2>3. ASSUME NEW n, NEW l, NEW q, CreditLine(n, l, q) PROVE FALSE
    BY <2>1, <2>3 DEF CreditLine
  <2>4. ASSUME NEW c, NEW n, ConfirmNoteBegin(c, n) PROVE FALSE
    BY <2>1, <2>4 DEF ConfirmNoteBegin, Begins, tables
  <2> QED BY <1>3, <1>4, <1>7, <2>2, <2>3, <2>4, FiscalTerms DEF NoteNext
<1>8. CASE UNCHANGED vars
  BY <1>8 DEF vars, tables
<1> QED BY <1>5, <1>6, <1>7, <1>8 DEF FiscalNext

LEMMA SealedStep ==
    FiscalInv /\ [FiscalNext]_vars =>
        [\A r \in Receipts : xml[r] = None /\ xml'[r] # None =>
            \A i \in Invoices : pays'[r][i] # None =>
                /\ pays'[r][i].number = Position(i, r).number
                /\ pays'[r][i].previous = Position(i, r).balance]_vars
<1> SUFFICES ASSUME FiscalInv, [FiscalNext]_vars,
                    NEW r \in Receipts, xml[r] = None, xml'[r] # None,
                    NEW i \in Invoices, pays'[r][i] # None
             PROVE  /\ pays'[r][i].number = Position(i, r).number
                    /\ pays'[r][i].previous = Position(i, r).balance
  OBVIOUS
<1>1. PICK c \in Clerks : ConfirmReceipt(c) /\ sealing[c].document = r
  BY SealedByConfirm
<1>2. PICK s : s = sealing[c]
  OBVIOUS
<1>3. s # None /\ pays'[r] = s.pays /\ s.document = r
  BY <1>1, <1>2 DEF ConfirmReceipt, FiscalInv, TablesTyped
<1>4. SealSound(c)
  BY DEF FiscalInv
<1>5. s.pays[i] # None
  BY <1>3
<1>6. s.pays[i].number = Position(i, r).number /\ s.pays[i].previous = Position(i, r).balance
  BY <1>2, <1>3, <1>4, <1>5 DEF SealSound
<1> QED BY <1>3, <1>6

\* A receipt says of each invoice it pays the installment and the balance the
\* invoice has as the receipt is sealed.
THEOREM ReceiptsSealedInPosition ==
    ASSUME ~ SharedSources
    PROVE  FiscalSpec => SealedAtPosition
<1>1. FiscalInv /\ [FiscalNext]_vars =>
        [\A r \in Receipts : xml[r] = None /\ xml'[r] # None =>
            \A i \in Invoices : pays'[r][i] # None =>
                /\ pays'[r][i].number = Position(i, r).number
                /\ pays'[r][i].previous = Position(i, r).balance]_vars
  BY SealedStep
<1> QED BY <1>1, FiscalInvariance, PTL DEF FiscalSpec, SealedAtPosition

-----------------------------------------------------------------------------
(***************************************************************************)
(* The cents of a note.                                                    *)
(***************************************************************************)
LEMMA OrdersAreCounted == IsFiniteSet(Orders) /\ Orders \subseteq Nat
<1>1. PICK T : T = Orders
  OBVIOUS
<1>2. [l \in OrderLines |-> OrderOf[l]] \in Surjection(OrderLines, T)
  BY <1>1 DEF Orders, Surjection
<1>3. IsFiniteSet(T)
  BY <1>2, FiscalTerms, FS_Surjection
<1> QED BY <1>1, <1>3, FiscalConstants DEF FiscalConstants, Orders

\* What a document's order lines make, order by order, is no more than it all.
LEMMA PartsWithin ==
    ASSUME TablesTyped, NEW d \in Documents
    PROVE  /\ \A o : PartOf(d, o) \in Nat
           /\ \A os \in SUBSET Orders : Parts(d, os) \in Nat
           /\ Parts(d, Orders) <= Total(d)
<1>1. \A o : PartOf(d, o) \in Nat
  <2>1. \A o : OrderLinesOf(o) \in SUBSET Lines
    BY FiscalTerms DEF OrderLinesOf
  <2> QED BY <2>1, AmountIsNat DEF PartOf
<1>2. ASSUME NEW os \in SUBSET Orders PROVE Parts(d, os) \in Nat
  <2>1. IsFiniteSet(os)
    BY OrdersAreCounted, FS_Subset
  <2>2. PICK e : e = [o \in os |-> PartOf(d, o)]
    OBVIOUS
  <2>3. SumFunctionOnSet(e, os) \in Nat
    BY <1>1, <2>1, <2>2, SumIsNat
  <2> QED BY <2>2, <2>3 DEF Parts
<1>3. Parts(d, Orders) <= Total(d)
  <2>1. PICK f : f = [l \in Lines |-> line[d][l] * Price[l]]
    OBVIOUS
  <2>2. \A l \in Lines : f[l] \in Nat
    <3>1. \A l \in Lines : line[d][l] \in Nat /\ Price[l] \in Nat
      BY FiscalTerms DEF TablesTyped
    <3> QED BY <2>1, <3>1
  <2>3. PICK part, e : /\ part = [o \in Orders |-> OrderLinesOf(o)]
                       /\ e = [o \in Orders |-> PartOf(d, o)]
    OBVIOUS
  <2>4. \A o \in Orders : \A l : l \in part[o] <=> l \in OrderLines /\ OrderOf[l] = o
    BY <2>3 DEF OrderLinesOf
  <2>5. ASSUME NEW o \in Orders PROVE e[o] = SumFunctionOnSet(f, part[o])
    <3>1. PICK S, g : S = part[o] /\ g = [l \in S |-> line[d][l] * Price[l]]
      OBVIOUS
    <3>2. e[o] = SumFunctionOnSet(g, S)
      BY <2>3, <3>1 DEF PartOf, Amount
    <3>3. S \in SUBSET OrderLines /\ IsFiniteSet(S)
      BY <2>4, <3>1, FiscalTerms, FS_Subset
    <3>4. \A l \in S : g[l] = f[l]
      BY <2>1, <3>1, <3>3, FiscalTerms
    <3> QED BY <3>1, <3>2, <3>3, <3>4, SumOfEqual
  <2>6. \A l \in OrderLines : OrderOf[l] \in Orders
    BY DEF Orders
  <2>7. SumFunctionOnSet(f, OrderLines) = SumFunctionOnSet(e, Orders)
    <3>1. \A l \in OrderLines : f[l] \in Int
      BY <2>2, FiscalTerms
    <3>2. IsFiniteSet(OrderLines) /\ IsFiniteSet(Orders)
      BY FiscalTerms, OrdersAreCounted
    <3>3. PICK key : key = OrderOf
      OBVIOUS
    <3>4. \A o \in Orders : \A l : l \in part[o] <=> l \in OrderLines /\ key[l] = o
      BY <2>4, <3>3
    <3>5. \A l \in OrderLines : key[l] \in Orders
      BY <2>6, <3>3
    <3> QED BY <2>5, <3>1, <3>2, <3>4, <3>5, SumGrouped
  <2>8. SumFunctionOnSet(f, OrderLines) <= SumFunctionOnSet(f, Lines)
    BY <2>2, FiscalTerms, SumOfSome
  <2>9. Total(d) = SumFunctionOnSet(f, Lines)
    BY <2>1 DEF Total, Amount
  <2>10. Parts(d, Orders) = SumFunctionOnSet(e, Orders)
    BY <2>3 DEF Parts
  <2> QED BY <2>7, <2>8, <2>9, <2>10
<1> QED BY <1>1, <1>2, <1>3

\* Shares of an amount, among the orders on an invoice, are the whole of it:
\* the last order takes what rounding the others left.
LEMMA SharesAreWhole ==
    ASSUME TablesTyped, NEW i \in Documents, OrdersOn(i) # {}, NEW amount \in Nat
    PROVE  /\ \A o \in Orders : Shares(amount, i)[o] \in Int
           /\ SumFunctionOnSet(Shares(amount, i), Orders) = amount
<1>1. PICK on : on = OrdersOn(i)
  OBVIOUS
<1>2. on \in SUBSET Orders /\ on # {} /\ IsFiniteSet(on) /\ on \in SUBSET Nat
  <2>1. on \in SUBSET Orders /\ on # {}
    BY <1>1 DEF OrdersOn, Orders, LinesOn, Lines
  <2> QED BY <2>1, OrdersAreCounted, FS_Subset
<1>3. PICK last \in on : \A o \in on : last >= o
  BY <1>2, GreatestExists
<1>4. PICK others : others = {o \in on : \E p \in on : p > o}
  OBVIOUS
<1>5. others = on \ {last} /\ IsFiniteSet(others)
  <2>1. \A o \in on : o \in Nat /\ last \in Nat /\ last >= o
    BY <1>2, <1>3
  <2>2. \A o \in on : (\E p \in on : p > o) <=> o # last
    BY <1>3, <2>1
  <2>3. others = on \ {last}
    BY <1>4, <2>2
  <2> QED BY <1>2, <2>3, FS_Subset
<1>6. \A o \in others : Rounded(amount, i, o) \in Int
  <2>1. PICK whole : whole = Parts(i, on)
    OBVIOUS
  <2>2. whole \in Nat \ {0}
    <3>1. PICK l \in LinesOn(i) \ {Hand} : OrderOf[l] = last
      BY <1>1, <1>3 DEF OrdersOn
    <3>2. l \in OrderLines /\ l \in Lines /\ line[i][l] \in Nat /\ line[i][l] > 0 /\ Price[l] \in Nat \ {0}
      BY <3>1, FiscalTerms DEF LinesOn, Lines, TablesTyped
    <3>3. PICK T, g : T = OrderLinesOf(last) /\ g = [k \in T |-> line[i][k] * Price[k]]
      OBVIOUS
    <3>4. T \in SUBSET Lines /\ IsFiniteSet(T) /\ l \in T
      BY <3>1, <3>2, <3>3, FiscalTerms, FS_Subset DEF OrderLinesOf
    <3>5. \A k \in T : g[k] \in Nat
      <4>1. \A k \in T : line[i][k] \in Nat /\ Price[k] \in Nat
        BY <3>4, FiscalTerms DEF TablesTyped
      <4> QED BY <3>3, <4>1
    <3>6. g[l] # 0
      BY <3>2, <3>3, <3>4
    <3>7. PartOf(i, last) = SumFunctionOnSet(g, T)
      BY <3>3 DEF PartOf, Amount
    <3>8. SumFunctionOnSet(g, {l}) <= SumFunctionOnSet(g, T)
      BY <3>4, <3>5, SumOfSome
    <3>9. SumFunctionOnSet(g, {l}) = g[l]
      <4>1. g[l] \in Int
        BY <3>4, <3>5
      <4>2. PICK S : S = {l}
        OBVIOUS
      <4>3. IsFiniteSet(S)
        BY <4>2, FS_Singleton
      <4>4. l \in S /\ S \ {l} = {} /\ \A k \in S : g[k] \in Int
        BY <4>1, <4>2
      <4>5. SumFunctionOnSet(g, S) = g[l] + SumFunctionOnSet(g, S \ {l})
        BY <4>3, <4>4, SumWithout
      <4>6. SumFunctionOnSet(g, S \ {l}) = 0
        BY <4>4, SumOfNone
      <4> QED BY <4>1, <4>2, <4>5, <4>6
    <3>10. PartOf(i, last) \in Nat /\ PartOf(i, last) > 0
      BY <3>4, <3>5, <3>6, <3>7, <3>8, <3>9, PartsWithin
    <3>11. PICK e : e = [o \in on |-> PartOf(i, o)]
      OBVIOUS
    <3>12. \A o \in on : e[o] \in Nat
      BY <3>11, PartsWithin
    <3>13. whole = SumFunctionOnSet(e, on) /\ e[last] = PartOf(i, last)
      BY <1>3, <2>1, <3>11 DEF Parts
    <3>14. whole = e[last] + SumFunctionOnSet(e, on \ {last})
      <4>1. \A o \in on : e[o] \in Int
        BY <3>12
      <4>2. IsFiniteSet(on) /\ last \in on
        BY <1>2
      <4>3. SumFunctionOnSet(e, on) = e[last] + SumFunctionOnSet(e, on \ {last})
        BY <4>1, <4>2, SumWithout
      <4> QED BY <3>13, <4>3
    <3>15. SumFunctionOnSet(e, on \ {last}) \in Nat
      BY <1>2, <3>12, FS_Subset, SumIsNat
    <3> QED BY <3>10, <3>13, <3>14, <3>15
  <2>3. ASSUME NEW o \in others PROVE Rounded(amount, i, o) \in Int
    <3>1. PICK p : p = 2 * amount * PartOf(i, o)
      OBVIOUS
    <3>2. PartOf(i, o) \in Nat
      BY PartsWithin
    <3>3. p \in Nat
      BY <3>1, <3>2
    <3>4. (p + whole) \div (2 * whole) \in Int
      BY <2>2, <3>3
    <3> QED BY <1>1, <2>1, <3>1, <3>4 DEF Rounded
  <2> QED BY <2>3
<1>7. PICK rounded : rounded = [o \in others |-> Rounded(amount, i, o)]
  OBVIOUS
<1>8. PICK r : r = SumFunctionOnSet(rounded, others)
  OBVIOUS
<1>9. r \in Int
  BY <1>5, <1>6, <1>7, <1>8, SumIsInt
<1>10. PICK f : f = Shares(amount, i)
  OBVIOUS
<1>11. f = [o \in Orders |-> IF o \in others THEN rounded[o] ELSE IF o \in on THEN amount - r ELSE 0]
  BY <1>1, <1>4, <1>7, <1>8, <1>10 DEF Shares
<1>12. \A o \in Orders : f[o] \in Int
  BY <1>6, <1>7, <1>9, <1>11
<1>13. SumFunctionOnSet(f, Orders) = SumFunctionOnSet(f, on)
  <2>1. \A o \in Orders \ on : f[o] = 0
    BY <1>5, <1>11
  <2> QED BY <1>2, <1>12, <2>1, OrdersAreCounted, SumOfPart
<1>14. SumFunctionOnSet(f, on) = f[last] + SumFunctionOnSet(f, others)
  <2>1. \A o \in on : f[o] \in Int
    BY <1>2, <1>12
  <2>2. IsFiniteSet(on) /\ last \in on
    BY <1>2
  <2>3. SumFunctionOnSet(f, on) = f[last] + SumFunctionOnSet(f, on \ {last})
    BY <2>1, <2>2, SumWithout
  <2> QED BY <1>5, <2>3
<1>15. SumFunctionOnSet(f, others) = r
  <2>1. \A o \in others : f[o] = rounded[o]
    BY <1>2, <1>5, <1>11
  <2> QED BY <1>5, <1>8, <2>1, SumOfEqual
<1>16. f[last] = amount - r
  BY <1>2, <1>3, <1>5, <1>11
<1> QED BY <1>9, <1>10, <1>12, <1>13, <1>14, <1>15, <1>16

\* What a sealed note takes off the orders adds up to it.
LEMMA SealedIsShared == FiscalInv => CreditIsSharedOut
<1> SUFFICES ASSUME FiscalInv, NEW n \in LiveNotes, OrdersOn(credits[n]) # {}
             PROVE  SumFunctionOnSet([o \in Orders |-> CreditedBy(n, o)], Orders) = xml[n]
  BY DEF CreditIsSharedOut
<1>1. n \in Notes /\ n \in Documents /\ Live(n) /\ DocumentSound(n)
  BY FiscalTerms DEF LiveNotes, FiscalInv
<1>2. xml[n] \in Nat /\ doc[n] # None /\ xml[n] = Total(n)
  BY <1>1, LiveIsSealed DEF FiscalInv, DocumentSound
<1>3. credits[n] \in Documents
  BY <1>1, <1>2, FiscalTerms DEF FiscalInv, NoteSound
<1>4. PICK i \in Documents : i = credits[n]
  BY <1>3
<1>5. Parts(n, Orders) \in Nat /\ Parts(n, Orders) <= xml[n]
  BY <1>1, <1>2, PartsWithin DEF FiscalInv
<1>6. PICK m : m = xml[n] - Parts(n, Orders)
  OBVIOUS
<1>7. m \in Nat /\ Untraced(n, xml[n]) = m
  <2>1. m \in Nat
    BY <1>2, <1>5, <1>6
  <2>2. \E x \in {m, 0} : \A y \in {m, 0} : x >= y
    BY <2>1
  <2>3. Max({m, 0}) \in {m, 0} /\ \A y \in {m, 0} : Max({m, 0}) >= y
    BY <2>2 DEF Max
  <2>4. Max({m, 0}) = m
    BY <2>1, <2>3
  <2> QED BY <1>6, <2>1, <2>4 DEF Untraced
<1>8. PICK f, g, h : /\ f = [o \in Orders |-> CreditedBy(n, o)]
                     /\ g = Shares(m, i)
                     /\ h = [o \in Orders |-> PartOf(n, o)]
  OBVIOUS
<1>9. (\A o \in Orders : g[o] \in Int) /\ SumFunctionOnSet(g, Orders) = m
  BY <1>4, <1>7, <1>8, SharesAreWhole DEF FiscalInv
<1>10. \A o \in Orders : h[o] \in Nat
  BY <1>1, <1>8, PartsWithin DEF FiscalInv
<1>11. \A o \in Orders : f[o] = h[o] + g[o]
  BY <1>4, <1>7, <1>8 DEF CreditedBy
<1>12. SumFunctionOnSet(h, Orders) = SumFunctionOnSet(f, Orders) - SumFunctionOnSet(g, Orders)
  <2>1. \A o \in Orders : f[o] \in Int /\ g[o] \in Int /\ h[o] = f[o] - g[o]
    <3>1. ASSUME NEW o \in Orders PROVE f[o] \in Int /\ g[o] \in Int /\ h[o] = f[o] - g[o]
      <4>1. h[o] \in Int /\ g[o] \in Int /\ f[o] = h[o] + g[o]
        BY <1>9, <1>10, <1>11
      <4> QED BY <4>1
    <3> QED BY <3>1
  <2>2. PICK O : O = Orders
    OBVIOUS
  <2>3. IsFiniteSet(O) /\ \A o \in O : f[o] \in Int /\ g[o] \in Int /\ h[o] = f[o] - g[o]
    BY <2>1, <2>2, OrdersAreCounted
  <2>4. SumFunctionOnSet(h, O) = SumFunctionOnSet(f, O) - SumFunctionOnSet(g, O)
    BY <2>3, SumOfDifferences
  <2> QED BY <2>2, <2>4
<1>13. SumFunctionOnSet(h, Orders) = Parts(n, Orders)
  BY <1>8 DEF Parts
<1>14. SumFunctionOnSet(f, Orders) \in Int
  <2>1. ASSUME NEW o \in Orders PROVE f[o] \in Int
    <3>1. h[o] \in Int /\ g[o] \in Int /\ f[o] = h[o] + g[o]
      BY <1>9, <1>10, <1>11
    <3> QED BY <3>1
  <2> QED BY <2>1, OrdersAreCounted, SumIsInt
<1> QED BY <1>2, <1>5, <1>6, <1>8, <1>9, <1>12, <1>13, <1>14

\* The cents of a sealed note are the orders', all of them and no more,
\* however many orders its invoice bills.
THEOREM CreditIsAllShared ==
    ASSUME ~ SharedSources
    PROVE  FiscalSpec => []CreditIsSharedOut
<1>1. FiscalInv => CreditIsSharedOut
  BY SealedIsShared
<1> QED BY <1>1, FiscalInvariance, PTL
=============================================================================
