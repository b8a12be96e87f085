----------------------------- MODULE CashSession -----------------------------
(***************************************************************************)
(* cash_session_service and expense_voucher_service: a cashier's shift on  *)
(* a drawer, and the money that enters and leaves it.                      *)
(*                                                                         *)
(* Every drawer operation has one shape.  It pre-reads what it needs to    *)
(* know which rows to lock, commits that snapshot away, locks the rows in  *)
(* its `want` list one after the other, and only then reads and writes.    *)
(* Everything it decides on after the locks is under them, so that last    *)
(* part is one step.                                                       *)
(*                                                                         *)
(* Takings are the customer payments of a drawer, all of them cash: other  *)
(* methods have a line of their own in the cut and never touch the drawer. *)
(* Session ids grow with their start, as the key does.                     *)
(***************************************************************************)
EXTENDS Integers, Sequences, FiniteSets, FiniteSetsExt, OrderedLocks

CONSTANTS
    Sessions,       \* ids sessions are opened with
    Cashiers,       \* employees who run a drawer
    Drawers,        \* cash drawers
    Takings,        \* ids of the customer payments taken into a drawer
    Vouchers,       \* ids expense vouchers are created with
    VoucherLines,   \* ids of the lines of one voucher
    Opening,        \* the session open when the model starts
    Floats,         \* opening amounts
    Tenders,        \* amounts taken; negative: a refund paid out in cash
    Expenses,       \* amounts of a voucher's line
    None            \* NULL

ASSUME CashConstants ==
    /\ Sessions \subseteq Nat /\ IsFiniteSet(Sessions)
    /\ IsFiniteSet(Takings) /\ IsFiniteSet(Vouchers) /\ IsFiniteSet(VoucherLines)
    /\ Opening \in Sessions /\ Drawers # {} /\ Cashiers # {}
    /\ Floats \subseteq Nat /\ Expenses \subseteq Nat \ {0}
    /\ Tenders \subseteq Int \ {0}
    /\ None \notin Sessions

VARIABLES
    session,        \* cash_session and its cash_count rows
    taking,         \* customer_payment, and the change of its live applications
    voucher,        \* expense_voucher and its lines
    spayment,       \* supplier_payment, by id
    sapplication    \* purchase_order_payment, by id

cashTables == <<session, taking, voucher>>
supplierTables == <<spayment, sapplication>>
tables == <<cashTables, supplierTables>>
vars == <<tables, txn>>

SessionRows == [cashier : Cashiers, drawer : Drawers, open : BOOLEAN,
                starting : Nat, counted : Int]
TakingRows == [session : Sessions, amount : Int, change : Nat]
VoucherRows == [creator : Cashiers, session : Sessions, lines : [VoucherLines -> Nat],
                completed : BOOLEAN, cancelled : BOOLEAN]

ASSUME NoneIsNoRow == None \notin SessionRows \cup TakingRows \cup VoucherRows

SessionRow(s) == <<"session", s>>
VoucherRow(v) == <<"voucher", v>>

-----------------------------------------------------------------------------
(***************************************************************************)
(* Figures.                                                                *)
(***************************************************************************)
IsOpen(s) == session[s] # None /\ session[s].open

OpenSessionsOf(c) == {s \in Sessions : IsOpen(s) /\ session[s].cashier = c}

\* open_session_for_cashier: the most recent, if there are several.
OpenSessionForCashier(c) == IF OpenSessionsOf(c) = {} THEN None ELSE Max(OpenSessionsOf(c))

OpenSessionsOn(d) == {s \in Sessions : IsOpen(s) /\ session[s].drawer = d}

VoucherTotal(v) == SumFunctionOnSet(voucher[v].lines, VoucherLines)

\* voucher_state
IsDraft(v) == voucher[v] # None /\ ~ voucher[v].completed /\ ~ voucher[v].cancelled
IsConfirmed(v) == voucher[v] # None /\ voucher[v].completed /\ ~ voucher[v].cancelled

\* The rows cut_figures adds up: sales and cash refunds by their sign,
\* confirmed vouchers, and live cash payments to suppliers.
TakenInto(s) ==
    {<<t, taking[t].amount>> : t \in {u \in Takings : taking[u] # None /\ taking[u].session = s}}
SpentFrom(s) ==
    {<<v, voucher[v].lines>> : v \in {u \in Vouchers : IsConfirmed(u) /\ voucher[u].session = s}}
PaidFrom(s) ==
    {<<p, spayment[p].amount>> :
        p \in {q \in DOMAIN spayment : spayment[q].session = s /\ ~ spayment[q].cancelled}}

-----------------------------------------------------------------------------
(***************************************************************************)
(* Locks.                                                                  *)
(***************************************************************************)
\* lock_open_session: whoever holds a session found it open, or was refused.
StillOpen(r) == \A s \in Sessions : SessionRow(s) \in Holds(r) => IsOpen(s)

\* The next row of the order.
Acquire(r) ==
    /\ StillOpen(r)
    /\ LocksNext(r)
    /\ UNCHANGED tables

\* Every row is held: the request may read and decide.
Locked(r, op) ==
    /\ txn[r].op = op
    /\ txn[r].want = << >>
    /\ StillOpen(r)

-----------------------------------------------------------------------------
(***************************************************************************)
(* Sessions.                                                               *)
(***************************************************************************)
\* open_session's two checks; nothing is locked.
OpenRead(r, c, d) ==
    /\ OpenSessionsOn(d) = {}
    /\ OpenSessionForCashier(c) = None
    /\ Begins(r, "open", [cashier |-> c, drawer |-> d], << >>)
    /\ UNCHANGED tables

OpenCommit(r, s, amount) ==
    /\ Locked(r, "open")
    /\ session[s] = None
    /\ \A t \in Sessions : session[t] # None => t < s
    /\ session' = [session EXCEPT ![s] =
                      [cashier |-> txn[r].arg.cashier, drawer |-> txn[r].arg.drawer, open |-> TRUE,
                       starting |-> amount, counted |-> 0]]
    /\ Ends(r)
    /\ UNCHANGED <<taking, voucher, supplierTables>>

CloseBegin(r, s) ==
    /\ session[s] # None
    /\ Begins(r, "close", [session |-> s], <<SessionRow(s)>>)
    /\ UNCHANGED tables

\* close_session: the counts are recorded and the shift ends.
CloseCommit(r, counted) ==
    /\ Locked(r, "close")
    /\ session' = [session EXCEPT ![txn[r].arg.session] =
                      [@ EXCEPT !.open = FALSE, !.counted = counted]]
    /\ Ends(r)
    /\ UNCHANGED <<taking, voucher, supplierTables>>

-----------------------------------------------------------------------------
(***************************************************************************)
(* Customer money in and out of the drawer.                                *)
(***************************************************************************)
TakeWant_NoSession(s) == << >>

\* create_payment and confirm_refund lock the cashier's session first.
TakeWant(s) == <<SessionRow(s)>>

TakeBegin(r, c) ==
    LET s == OpenSessionForCashier(c)
    IN  /\ s # None
        /\ Begins(r, "take", [session |-> s], TakeWant(s))
        /\ UNCHANGED tables

TakeCommit(r, t, amount) ==
    /\ Locked(r, "take")
    /\ taking[t] = None
    /\ taking' = [taking EXCEPT ![t] =
                     [session |-> txn[r].arg.session, amount |-> amount, change |-> 0]]
    /\ Ends(r)
    /\ UNCHANGED <<session, voucher, supplierTables>>

\* apply_payment hands change back; it looks at no session.
GiveChange(t, change) ==
    /\ taking[t] # None
    /\ taking[t].change + change <= taking[t].amount
    /\ taking' = [taking EXCEPT ![t].change = @ + change]
    /\ UNCHANGED <<session, voucher, txn, supplierTables>>

\* reverse_application: the change of the application no longer counts.
TakeChangeBack(t, change) ==
    /\ taking[t] # None
    /\ taking[t].change >= change
    /\ taking' = [taking EXCEPT ![t].change = @ - change]
    /\ UNCHANGED <<session, voucher, txn, supplierTables>>

-----------------------------------------------------------------------------
(***************************************************************************)
(* Expense vouchers.                                                       *)
(***************************************************************************)
\* create_voucher: a draft in the caller's session; it takes no lock.
CreateVoucher(v, c) ==
    LET s == OpenSessionForCashier(c)
    IN  /\ voucher[v] = None
        /\ s # None
        /\ voucher' = [voucher EXCEPT ![v] =
                          [creator |-> c, session |-> s, lines |-> [l \in VoucherLines |-> 0],
                           completed |-> FALSE, cancelled |-> FALSE]]
        /\ UNCHANGED <<session, taking, txn, supplierTables>>

AssertDraftBy_AnyState(v, c) == voucher[v] # None /\ voucher[v].creator = c

\* _assert_draft_by
AssertDraftBy(v, c) == IsDraft(v) /\ voucher[v].creator = c

\* _begin_draft: the voucher is locked and re-read before anything is decided,
\* and nothing else is read, so each edit of a draft is one step.
BeginDraft(v, c) ==
    /\ \A r \in Requests : VoucherRow(v) \notin Holds(r)
    /\ AssertDraftBy(v, c)

\* add_line, update_line and remove_line: the line's amount, 0 when it is gone.
EditLine(v, c, l, amount) ==
    /\ BeginDraft(v, c)
    /\ voucher[v].lines[l] # amount
    /\ voucher' = [voucher EXCEPT ![v].lines[l] = amount]
    /\ UNCHANGED <<session, taking, txn, supplierTables>>

CancelDraft(v, c) ==
    /\ BeginDraft(v, c)
    /\ voucher' = [voucher EXCEPT ![v].cancelled = TRUE]
    /\ UNCHANGED <<session, taking, txn, supplierTables>>

\* confirm_voucher's pre-read: the caller's session open now.
ConfirmVoucherBegin(r, v, c) ==
    LET s == OpenSessionForCashier(c)
    IN  /\ voucher[v] # None
        /\ s # None
        /\ Begins(r, "confirm_voucher", [voucher |-> v, cashier |-> c, session |-> s],
                  <<SessionRow(s), VoucherRow(v)>>)
        /\ UNCHANGED tables

ConfirmVoucherCommit(r) ==
    LET v == txn[r].arg.voucher
    IN  /\ Locked(r, "confirm_voucher")
        /\ session[txn[r].arg.session].cashier = txn[r].arg.cashier
        /\ AssertDraftBy(v, txn[r].arg.cashier)
        /\ VoucherTotal(v) > 0
        /\ voucher' = [voucher EXCEPT ![v] =
                          [@ EXCEPT !.session = txn[r].arg.session, !.completed = TRUE]]
        /\ Ends(r)
        /\ UNCHANGED <<session, taking, supplierTables>>

\* void_voucher's pre-read: the session the voucher was confirmed into.
VoidBegin(r, v) ==
    /\ IsConfirmed(v)
    /\ Begins(r, "void", [voucher |-> v, session |-> voucher[v].session],
              <<SessionRow(voucher[v].session), VoucherRow(v)>>)
    /\ UNCHANGED tables

VoidCommit(r) ==
    LET v == txn[r].arg.voucher
    IN  /\ Locked(r, "void")
        /\ IsConfirmed(v)
        /\ voucher[v].session = txn[r].arg.session
        /\ voucher' = [voucher EXCEPT ![v].cancelled = TRUE]
        /\ Ends(r)
        /\ UNCHANGED <<session, taking, supplierTables>>

-----------------------------------------------------------------------------
\* One shift is running; nothing has been taken yet.
CashInit ==
    /\ session = [s \in Sessions |->
           IF s = Opening
           THEN [cashier |-> CHOOSE c \in Cashiers : TRUE, drawer |-> CHOOSE d \in Drawers : TRUE,
                 open |-> TRUE, starting |-> 0, counted |-> 0]
           ELSE None]
    /\ taking = [t \in Takings |-> None]
    /\ voucher = [v \in Vouchers |-> None]
    /\ spayment = << >>
    /\ sapplication = << >>
    /\ txn = [r \in Requests |-> Idle]

Shift ==
    \/ \E r \in Requests, c \in Cashiers, d \in Drawers : OpenRead(r, c, d)
    \/ \E r \in Requests, s \in Sessions, amount \in Floats : OpenCommit(r, s, amount)
    \/ \E r \in Requests, s \in Sessions : CloseBegin(r, s)
    \/ \E r \in Requests, counted \in Floats : CloseCommit(r, counted)

Till ==
    \/ \E r \in Requests, c \in Cashiers : TakeBegin(r, c)
    \/ \E r \in Requests, t \in Takings, amount \in Tenders : TakeCommit(r, t, amount)
    \/ \E t \in Takings, change \in Expenses : GiveChange(t, change)
    \/ \E t \in Takings, change \in Expenses : TakeChangeBack(t, change)

ExpenseVoucher ==
    \/ \E v \in Vouchers, c \in Cashiers : CreateVoucher(v, c)
    \/ \E v \in Vouchers, c \in Cashiers, l \in VoucherLines, amount \in Expenses \cup {0} :
          EditLine(v, c, l, amount)
    \/ \E v \in Vouchers, c \in Cashiers : CancelDraft(v, c)
    \/ \E r \in Requests, v \in Vouchers, c \in Cashiers : ConfirmVoucherBegin(r, v, c)
    \/ \E r \in Requests : ConfirmVoucherCommit(r)
    \/ \E r \in Requests, v \in Vouchers : VoidBegin(r, v)
    \/ \E r \in Requests : VoidCommit(r)

\* A refusal, a client that left, a lock wait that timed out: all roll back.
Rollback(r) ==
    /\ txn[r] # Idle
    /\ Ends(r)
    /\ UNCHANGED tables
=============================================================================
