---------------------------- MODULE AnalyticsCache -----------------------------
(***************************************************************************)
(* Who may see which figures, and the copies that answer for them: each    *)
(* worker process keeps the bodies it built for TTL_SECONDS, and tells the *)
(* browser to keep a body as long again.  The clock moves in ticks.        *)
(*                                                                         *)
(* A body is what it was built for and how old its figures are.  One       *)
(* definition is asked; its answer differs by facility and by families.    *)
(* A rebuilt body has other bytes (as_of), so a 304 stands for the very    *)
(* body the browser has and is not told apart from sending it again.       *)
(***************************************************************************)
EXTENDS Integers, Sequences, FiniteSets, SequencesExt, RowLocks

CONSTANTS
    Users,          \* users
    Workers,        \* uvicorn worker processes
    Facilities,     \* facilities
    FacilityOf,     \* the facility in a user's settings
    Families,       \* measure families
    AllStores,      \* SearchCreditsFromAllStores, a right and not a family
    Grants,         \* the sets of rights users are given
    TTL_SECONDS,    \* in ticks
    MAX_ENTRIES,    \* bodies a worker keeps
    None            \* NULL

ASSUME CacheConstants ==
    /\ FacilityOf \in [Users -> Facilities]
    /\ AllStores \notin Families
    /\ Grants \subseteq SUBSET (Families \cup {AllStores})
    /\ TTL_SECONDS \in Nat \ {0} /\ MAX_ENTRIES \in Nat \ {0}
    /\ None \notin Facilities

VARIABLES
    users,          \* the users that exist
    rights,         \* access_privilege
    cache,          \* each worker's entries, the least recently used first
    screen          \* the body in each user's browser

cacheVars == <<users, rights, cache, screen>>

\* The age past which the model stops counting.
Oldest == 2 * TTL_SECONDS

Scopes == Facilities \cup {None}
KeyRows == [facility : Scopes, families : SUBSET Families]
BodyRows == [facility : Scopes, families : SUBSET Families, age : 0..Oldest]
EntryRows == [key : KeyRows, body : BodyRows, stored : 0..TTL_SECONDS]

-----------------------------------------------------------------------------
(***************************************************************************)
(* What a caller may see.                                                  *)
(***************************************************************************)
\* engine.families
Held(u) == rights[u] \cap Families

\* The routes open to any sales or payments privilege, on a live session.
Admitted(u) == u \in users /\ Held(u) \cap {"sales", "payments"} # {}

\* resolve_scope: whether u may name facility f (None: names none), and what
\* the request then covers.
MayName(u, f) == AllStores \in rights[u] \/ f \in {None, FacilityOf[u]}
Scope(u, f) == IF AllStores \in rights[u] THEN f ELSE FacilityOf[u]

Key_WithoutFamilies(scope, families) == [facility |-> scope, families |-> {}]

\* cache.key: the definition, the scope and the families.
Key(scope, families) == [facility |-> scope, families |-> families]

-----------------------------------------------------------------------------
(***************************************************************************)
(* ResponseCache.                                                          *)
(***************************************************************************)
\* The entries kept under k that have not run out.
Hits(w, k) == {i \in DOMAIN cache[w] : cache[w][i].key = k /\ cache[w][i].stored < TTL_SECONDS}

Newest_Renewed(w, k, body) ==
    LET hits == Hits(w, k)
    IN  [key |-> k, stored |-> 0,
         body |-> IF hits # {} THEN cache[w][CHOOSE i \in hits : TRUE].body ELSE body]

\* get, or put of the body built when get finds none.
Newest(w, k, body) ==
    LET hits == Hits(w, k)
    IN  IF hits # {} THEN cache[w][CHOOSE i \in hits : TRUE]
        ELSE [key |-> k, stored |-> 0, body |-> body]

\* move_to_end, and the eviction of the least recently used.
Kept(w, e) ==
    LET held == {i \in DOMAIN cache[w] : cache[w][i].key = e.key}
        others == IF held = {} THEN cache[w] ELSE RemoveAt(cache[w], CHOOSE i \in held : TRUE)
        entries == Append(others, e)
    IN  IF Len(entries) > MAX_ENTRIES THEN Tail(entries) ELSE entries

\* read_dashboard (and query): the scope and the families are resolved first
\* and the answer comes from the worker's cache or is built for them.
ReadDashboard(u, w, f) ==
    LET scope == Scope(u, f)
        built == [facility |-> scope, families |-> Held(u), age |-> 0]
        entry == Newest(w, Key(scope, Held(u)), built)
    IN  /\ Admitted(u) /\ MayName(u, f)
        /\ cache' = [cache EXCEPT ![w] = Kept(w, entry)]
        /\ screen' = [screen EXCEPT ![u] = [body |-> entry.body, kept |-> 0]]
        /\ UNCHANGED <<users, rights>>

\* update_user with other privileges.
Regrant(u, g) ==
    /\ u \in users /\ g # rights[u]
    /\ rights' = [rights EXCEPT ![u] = g]
    /\ UNCHANGED <<users, cache, screen>>

-----------------------------------------------------------------------------
Older(n, most) == IF n < most THEN n + 1 ELSE most

AgedBody(b) == [b EXCEPT !.age = Older(@, Oldest)]

\* A tick for every copy.  A browser drops what max-age has run out on.
AgeCopies ==
    /\ cache' = [w \in Workers |-> [i \in DOMAIN cache[w] |->
                    [cache[w][i] EXCEPT !.stored = Older(@, TTL_SECONDS), !.body = AgedBody(@)]]]
    /\ screen' = [u \in Users |->
                    IF screen[u] = None \/ screen[u].kept + 1 >= TTL_SECONDS THEN None
                    ELSE [body |-> AgedBody(screen[u].body), kept |-> screen[u].kept + 1]]
    /\ UNCHANGED <<users, rights>>

CacheInit ==
    /\ users = Users
    /\ rights \in [Users -> Grants]
    /\ cache = [w \in Workers |-> << >>]
    /\ screen = [u \in Users |-> None]

CacheNext ==
    \/ \E u \in Users, w \in Workers, f \in Scopes : ReadDashboard(u, w, f)
    \/ \E u \in Users, g \in Grants : Regrant(u, g)

-----------------------------------------------------------------------------
(***************************************************************************)
(* Properties.                                                             *)
(***************************************************************************)
\* What a browser shows was read less than two terms ago: one in the worker's
\* cache and one in its own (research R13; FR-020 asks for five minutes, two
\* terms are six).
ScreenIsRecent ==
    \A u \in Users : screen[u] # None => screen[u].body.age <= 2 * (TTL_SECONDS - 1)

\* No caller is answered with figures of a family or a facility it may not see
\* when it asks, whoever the body was built for (FR-021, SC-005).
NobodySeesMore ==
    [][\A u \in Users : (screen'[u] # None /\ screen'[u] # screen[u] /\ screen'[u].kept = 0) =>
          /\ screen'[u].body.families \subseteq Held(u)
          /\ AllStores \in rights[u] \/ screen'[u].body.facility = FacilityOf[u]]_cacheVars
=============================================================================
