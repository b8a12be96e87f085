---------------------------- MODULE AnalyticsProofs ----------------------------
(***************************************************************************)
(* What AnalyticsCache and AnalyticsExport guarantee for every number of   *)
(* users, workers, facilities and exports, and for every term.             *)
(***************************************************************************)
EXTENDS AnalyticsExport, SequenceTheorems, TLAPS

-----------------------------------------------------------------------------
(***************************************************************************)
(* The inductive invariants.                                               *)
(***************************************************************************)
\* An entry's body was built for its key, and is no older than the entry as
\* long as it answers.
SoundEntries ==
    {x \in EntryRows : /\ x.body.facility = x.key.facility
                       /\ x.body.families = x.key.families
                       /\ x.stored < TTL_SECONDS => x.body.age <= x.stored}

\* A browser's body was less than a term old when it came.
ScreenRows == [body : BodyRows, kept : 0 .. TTL_SECONDS - 1]

ScreenSound(u) ==
    screen[u] # None =>
        /\ screen[u] \in ScreenRows
        /\ screen[u].body.age <= screen[u].kept + (TTL_SECONDS - 1)

CacheInv ==
    /\ users \in SUBSET Users
    /\ rights \in [Users -> SUBSET (Families \cup {AllStores})]
    /\ cache \in [Workers -> Seq(SoundEntries)]
    /\ DOMAIN screen = Users
    /\ \A u \in Users : ScreenSound(u)

\* An export not started yet has left nothing anywhere.
Unstarted(e) ==
    /\ row[e] = None /\ task[e] = None /\ e \notin file
    /\ \A r \in Requests : txn[r] # Idle => e \notin txn[r].queue

\* While its task lives an export is not over, and has no name in its row; once
\* the task has saved the file, the file is there.
TaskSound(e) ==
    task[e] # None =>
        /\ Exists(e) => /\ row[e].status \in {"PENDING", "RUNNING"}
                        /\ row[e].done = None
                        /\ ~ row[e].named
        /\ task[e].at = "saved" => e \in file

\* What a deletion is about to remove has no task; what a purge is about to
\* remove is over, or gone.
DeletionSound(r) ==
    txn[r] # Idle =>
        /\ txn[r].op \in {"purge", "leave"}
        /\ txn[r].queue \in SUBSET Exports
        /\ txn[r].files \in SUBSET txn[r].queue
        /\ \A e \in txn[r].files : task[e] = None
        /\ txn[r].op = "purge" =>
              \A e \in txn[r].queue : task[e] = None /\ (Exists(e) => Over(e))

ExportInv ==
    /\ last \in 0 .. MaxExports
    /\ row \in [Exports -> ExportRows \cup {None}]
    /\ file \in SUBSET Exports
    /\ task \in [Exports -> Tasks \cup {None}]
    /\ txn = [r \in Requests |-> txn[r]]
    /\ \A e \in Exports : e > last => Unstarted(e)
    /\ \A e \in Exports : TaskSound(e)
    /\ \A r \in Requests : DeletionSound(r)

-----------------------------------------------------------------------------
(***************************************************************************)
(* The workers' copies and the browsers'.                                  *)
(***************************************************************************)
LEMMA Terms ==
    /\ TTL_SECONDS \in Nat \ {0} /\ Oldest = 2 * TTL_SECONDS
    /\ MAX_ENTRIES \in Nat \ {0} /\ FacilityOf \in [Users -> Facilities]
    /\ AllStores \notin Families /\ Grants \subseteq SUBSET (Families \cup {AllStores})
BY CacheConstants DEF CacheConstants, Oldest

\* What a worker keeps after an answer are entries it had, and the answer's.
LEMMA KeptSound ==
    ASSUME NEW S, NEW w, cache[w] \in Seq(S), NEW e \in S
    PROVE  Kept(w, e) \in Seq(S)
<1> DEFINE held == {i \in DOMAIN cache[w] : cache[w][i].key = e.key}
           others == IF held = {} THEN cache[w] ELSE RemoveAt(cache[w], CHOOSE i \in held : TRUE)
           entries == Append(others, e)
<1>1. others \in Seq(S)
  <2>1. CASE held = {}
    BY <2>1
  <2>2. CASE held # {}
    <3>1. PICK i : i = CHOOSE j \in held : TRUE
      OBVIOUS
    <3>2. i \in 1 .. Len(cache[w]) /\ Len(cache[w]) \in Nat
      BY <2>2, <3>1, LenProperties
    <3>3. SubSeq(cache[w], 1, i - 1) \in Seq(S)
      <4>1. \A j \in 1 .. i - 1 : cache[w][j] \in S
        BY <3>2, ElementOfSeq
      <4> QED BY <3>2, <4>1, SubSeqProperties
    <3>4. SubSeq(cache[w], i + 1, Len(cache[w])) \in Seq(S)
      <4>1. \A j \in i + 1 .. Len(cache[w]) : cache[w][j] \in S
        BY <3>2, ElementOfSeq
      <4> QED BY <3>2, <4>1, SubSeqProperties
    <3>5. RemoveAt(cache[w], i) \in Seq(S)
      BY <3>3, <3>4, ConcatProperties DEF RemoveAt
    <3> QED BY <2>2, <3>1, <3>5
  <2> QED BY <2>1, <2>2
<1> HIDE DEF others
<1>2. entries \in Seq(S) /\ entries # << >>
  BY <1>1
<1> HIDE DEF entries
<1>3. Tail(entries) \in Seq(S)
  BY <1>2, HeadTailProperties
<1>4. Kept(w, e) = IF Len(entries) > MAX_ENTRIES THEN Tail(entries) ELSE entries
  BY DEF Kept, entries, others
<1> QED BY <1>2, <1>3, <1>4

\* The answer to a key is a sound entry of that key, kept for less than a term.
LEMMA NewestSound ==
    ASSUME NEW w, cache[w] \in Seq(SoundEntries), NEW k \in KeyRows,
           NEW body \in BodyRows, body.facility = k.facility, body.families = k.families,
           body.age = 0
    PROVE  /\ Newest(w, k, body) \in SoundEntries
           /\ Newest(w, k, body).key = k /\ Newest(w, k, body).stored < TTL_SECONDS
<1>1. CASE Hits(w, k) # {}
  <2>1. PICK i : i = CHOOSE j \in Hits(w, k) : TRUE
    OBVIOUS
  <2>2. i \in Hits(w, k) /\ Newest(w, k, body) = cache[w][i]
    BY <1>1, <2>1 DEF Newest
  <2>3. i \in 1 .. Len(cache[w])
    BY <2>2, LenProperties DEF Hits
  <2>4. cache[w][i] \in SoundEntries
    BY <2>3, ElementOfSeq
  <2> QED BY <2>2, <2>4 DEF Hits
<1>2. CASE Hits(w, k) = {}
  <2>1. PICK x : x = [key |-> k, stored |-> 0, body |-> body]
    OBVIOUS
  <2>2. Newest(w, k, body) = x
    BY <1>2, <2>1 DEF Newest
  <2>3. x \in EntryRows
    BY <2>1, Terms DEF EntryRows
  <2> QED BY <2>1, <2>2, <2>3, Terms DEF SoundEntries
<1> QED BY <1>1, <1>2

\* What a caller may see is a key.
LEMMA ScopeIsKey ==
    ASSUME CacheInv, NEW u \in Users, NEW f \in Scopes
    PROVE  /\ Held(u) \in SUBSET Families
           /\ Scope(u, f) \in Scopes
           /\ Key(Scope(u, f), Held(u)) \in KeyRows
BY Terms DEF CacheInv, Held, Scope, Scopes, Key, KeyRows

\* Whatever a caller is answered with was built for the families they hold and
\* the scope they have.
LEMMA AnswerFits ==
    ASSUME CacheInv, NEW u \in Users, NEW w \in Workers, NEW f \in Scopes,
           ReadDashboard(u, w, f)
    PROVE  \E x \in SoundEntries :
              /\ x.body.families = Held(u) /\ x.body.facility = Scope(u, f)
              /\ x.stored < TTL_SECONDS
              /\ cache' = [cache EXCEPT ![w] = Kept(w, x)]
              /\ screen' = [screen EXCEPT ![u] = [body |-> x.body, kept |-> 0]]
<1>1. PICK k, body : /\ k = Key(Scope(u, f), Held(u))
                     /\ body = [facility |-> Scope(u, f), families |-> Held(u), age |-> 0]
  OBVIOUS
<1>2. k \in KeyRows /\ k.facility = Scope(u, f) /\ k.families = Held(u)
  BY <1>1, ScopeIsKey DEF Key
<1>3. body \in BodyRows
  BY <1>1, ScopeIsKey, Terms DEF BodyRows
<1>4. PICK x : x = Newest(w, k, body)
  OBVIOUS
<1>5. x \in SoundEntries /\ x.key = k /\ x.stored < TTL_SECONDS
  BY <1>1, <1>2, <1>3, <1>4, NewestSound DEF CacheInv
<1>6. /\ cache' = [cache EXCEPT ![w] = Kept(w, x)]
      /\ screen' = [screen EXCEPT ![u] = [body |-> x.body, kept |-> 0]]
  BY <1>1, <1>4 DEF ReadDashboard
<1>7. x.body.families = Held(u) /\ x.body.facility = Scope(u, f)
  BY <1>2, <1>5 DEF SoundEntries
<1> QED BY <1>5, <1>6, <1>7

LEMMA ReadKeeps ==
    ASSUME CacheInv, NEW u \in Users, NEW w \in Workers, NEW f \in Scopes,
           ReadDashboard(u, w, f)
    PROVE  CacheInv'
<1>1. PICK x \in SoundEntries :
              /\ x.stored < TTL_SECONDS
              /\ cache' = [cache EXCEPT ![w] = Kept(w, x)]
              /\ screen' = [screen EXCEPT ![u] = [body |-> x.body, kept |-> 0]]
  BY AnswerFits
<1>2. cache' \in [Workers -> Seq(SoundEntries)]
  <2>1. Kept(w, x) \in Seq(SoundEntries)
    BY KeptSound DEF CacheInv
  <2> QED BY <1>1, <2>1 DEF CacheInv
<1>3. ScreenSound(u)'
  <2>1. PICK y : y = [body |-> x.body, kept |-> 0]
    OBVIOUS
  <2>2. screen'[u] = y
    BY <1>1, <2>1 DEF CacheInv
  <2>3. x.body \in BodyRows /\ x.stored \in 0 .. TTL_SECONDS /\ x.body.age <= x.stored
    BY <1>1 DEF SoundEntries, EntryRows
  <2>4. x.body.age \in Nat
    BY <2>3, Terms DEF BodyRows
  <2>5. y \in ScreenRows /\ y.body.age <= y.kept + (TTL_SECONDS - 1)
    BY <1>1, <2>1, <2>3, <2>4, Terms DEF ScreenRows
  <2> QED BY <2>2, <2>5 DEF ScreenSound
<1>4. \A v \in Users \ {u} : screen'[v] = screen[v]
  BY <1>1 DEF CacheInv
<1>5. DOMAIN screen' = Users
  BY <1>1 DEF CacheInv
<1>6. UNCHANGED <<users, rights>>
  BY DEF ReadDashboard
<1>7. ASSUME NEW v \in Users PROVE ScreenSound(v)'
  BY <1>3, <1>4 DEF CacheInv, ScreenSound
<1> QED BY <1>2, <1>5, <1>6, <1>7 DEF CacheInv

\* Copies that age stay sound: one that still answers has aged with its entry.
LEMMA AgedSound ==
    ASSUME NEW x \in SoundEntries
    PROVE  [x EXCEPT !.stored = Older(@, TTL_SECONDS), !.body = AgedBody(@)] \in SoundEntries
<1>1. PICK body, n : body = AgedBody(x.body) /\ n = Older(x.stored, TTL_SECONDS)
  OBVIOUS
<1>2. PICK y : y = [x EXCEPT !.stored = n, !.body = body]
  OBVIOUS
<1>3. /\ x.key \in KeyRows /\ x.body \in BodyRows /\ x.stored \in 0 .. TTL_SECONDS
      /\ x.body.age \in 0 .. Oldest /\ x \in [key : KeyRows, body : BodyRows, stored : 0 .. TTL_SECONDS]
  BY DEF SoundEntries, EntryRows, BodyRows
<1>4. /\ body \in BodyRows /\ body.facility = x.body.facility /\ body.families = x.body.families
      /\ body.age = Older(x.body.age, Oldest)
  BY <1>1, <1>3, Terms DEF AgedBody, BodyRows, Older
<1>5. n \in 0 .. TTL_SECONDS /\ (n < TTL_SECONDS => body.age <= n)
  BY <1>1, <1>3, <1>4, Terms DEF Older, SoundEntries
<1>6. y \in [key : KeyRows, body : BodyRows, stored : 0 .. TTL_SECONDS]
  BY <1>2, <1>3, <1>4, <1>5
<1>7. y.key = x.key /\ y.body = body /\ y.stored = n
  BY <1>2, <1>3
<1>8. y \in SoundEntries
  BY <1>4, <1>5, <1>6, <1>7 DEF SoundEntries, EntryRows
<1> QED BY <1>1, <1>2, <1>8

LEMMA AgeKeeps ==
    ASSUME CacheInv, AgeCopies
    PROVE  CacheInv'
<1>1. cache' \in [Workers -> Seq(SoundEntries)]
  <2>1. ASSUME NEW w \in Workers PROVE cache'[w] \in Seq(SoundEntries)
    <3>1. PICK s : s = cache[w]
      OBVIOUS
    <3>2. s \in Seq(SoundEntries) /\ DOMAIN s = 1 .. Len(s) /\ Len(s) \in Nat
      BY <3>1, LenProperties DEF CacheInv
    <3> DEFINE aged(i) == [s[i] EXCEPT !.stored = Older(@, TTL_SECONDS), !.body = AgedBody(@)]
    <3>3. \A i \in 1 .. Len(s) : aged(i) \in SoundEntries
      BY <3>2, ElementOfSeq, AgedSound
    <3>4. cache'[w] = [i \in 1 .. Len(s) |-> aged(i)]
      BY <3>1, <3>2 DEF AgeCopies
    <3> HIDE DEF aged
    <3> QED BY <3>2, <3>3, <3>4
  <2> QED BY <2>1 DEF AgeCopies
<1>2. ASSUME NEW u \in Users PROVE ScreenSound(u)'
  <2>1. CASE screen[u] = None \/ screen[u].kept + 1 >= TTL_SECONDS
    BY <2>1 DEF AgeCopies, ScreenSound
  <2>2. CASE screen[u] # None /\ ~ (screen[u].kept + 1 >= TTL_SECONDS)
    <3>1. PICK x, body, y : /\ x = screen[u] /\ body = AgedBody(x.body)
                            /\ y = [body |-> body, kept |-> x.kept + 1]
      OBVIOUS
    <3>2. screen'[u] = y
      BY <2>2, <3>1 DEF AgeCopies
    <3>3. /\ x.body \in BodyRows /\ x.body.age \in 0 .. Oldest /\ x.kept \in 0 .. TTL_SECONDS - 1
          /\ x.body.age <= x.kept + (TTL_SECONDS - 1)
      BY <2>2, <3>1 DEF CacheInv, ScreenSound, ScreenRows, BodyRows
    <3>4. body \in BodyRows /\ body.age = Older(x.body.age, Oldest)
      BY <3>1, <3>3, Terms DEF AgedBody, BodyRows, Older
    <3>5. x.kept + 1 \in 0 .. TTL_SECONDS - 1
      BY <2>2, <3>1, <3>3, Terms
    <3>6. y \in ScreenRows /\ y.body.age <= y.kept + (TTL_SECONDS - 1)
      BY <3>1, <3>3, <3>4, <3>5, Terms DEF ScreenRows, Older
    <3> QED BY <3>2, <3>6 DEF ScreenSound
  <2> QED BY <2>1, <2>2
<1>3. DOMAIN screen' = Users /\ UNCHANGED <<users, rights>>
  BY DEF AgeCopies
<1> QED BY <1>1, <1>2, <1>3 DEF CacheInv

LEMMA NextKeepsCache ==
    ASSUME CacheInv, [Next]_vars
    PROVE  CacheInv'
<1>1. ASSUME UNCHANGED cacheVars PROVE CacheInv'
  BY <1>1 DEF CacheInv, cacheVars, ScreenSound
<1>2. CASE Reads
  <2>1. ASSUME NEW u \in Users, NEW w \in Workers, NEW f \in Scopes, ReadDashboard(u, w, f)
        PROVE  CacheInv'
    BY <2>1, ReadKeeps
  <2>2. ASSUME NEW u \in Users, NEW g \in Grants, Regrant(u, g) PROVE CacheInv'
    <3>1. rights' \in [Users -> SUBSET (Families \cup {AllStores})]
      BY <2>2, Terms DEF Regrant, CacheInv
    <3> QED BY <2>2, <3>1 DEF Regrant, CacheInv, ScreenSound
  <2> QED BY <1>2, <2>1, <2>2 DEF Reads, CacheNext
<1>3. CASE Run
  <2>1. ASSUME NEW w \in Workers, Crash(w) PROVE CacheInv'
    <3>1. << >> \in Seq(SoundEntries)
      BY EmptySeq
    <3>2. cache' \in [Workers -> Seq(SoundEntries)]
      BY <2>1, <3>1 DEF Crash, CacheInv
    <3> QED BY <2>1, <3>2 DEF Crash, CacheInv, ScreenSound
  <2> QED BY <1>1, <1>3, <2>1, Zenon
          DEF Run, StartBackground, RunBegin, RunBuild, RunSave, RunFail, RunCommit
<1>4. CASE Clear
  <2>1. ASSUME NEW r \in Requests, LeaveCommit(r) PROVE CacheInv'
    <3>1. users' \in SUBSET Users /\ rights' \in [Users -> SUBSET (Families \cup {AllStores})]
      BY <2>1 DEF LeaveCommit, CacheInv
    <3> QED BY <2>1, <3>1 DEF LeaveCommit, CacheInv, ScreenSound
  <2> QED BY <1>1, <1>4, <2>1, Zenon
          DEF Clear, ReadExpired, PurgeRead, LeaveRead, Opens, DeleteFile, PurgeCommit, GiveUp
<1>5. CASE Tick
  BY <1>5, AgeKeeps DEF Tick
<1>6. CASE UNCHANGED vars
  BY <1>1, <1>6 DEF vars
<1> QED BY <1>2, <1>3, <1>4, <1>5, <1>6 DEF Next

LEMMA InitIsCached == Init => CacheInv
<1> SUFFICES ASSUME Init PROVE CacheInv
  OBVIOUS
<1>1. << >> \in Seq(SoundEntries)
  BY EmptySeq
<1>2. rights \in [Users -> SUBSET (Families \cup {AllStores})]
  BY Terms DEF Init, CacheInit
<1> QED BY <1>1, <1>2 DEF Init, CacheInit, CacheInv, ScreenSound

\* Whatever is read, granted, deleted or lost, a copy is of its key and no
\* older than it says.
THEOREM CopiesAreKept == Spec => []CacheInv
BY InitIsCached, NextKeepsCache, PTL DEF Spec

\* What a browser shows is less than two terms old, for any terms, workers,
\* users and sizes of the cache.
THEOREM ScreensAreRecent == Spec => []ScreenIsRecent
<1>1. CacheInv => ScreenIsRecent
  BY Terms DEF CacheInv, ScreenSound, ScreenRows, BodyRows, ScreenIsRecent
<1> QED BY <1>1, CopiesAreKept, PTL

\* A caller is only ever answered for what they may see as they ask: the key
\* carries the scope and the families, and a body is of its key.
LEMMA AnswersFit ==
    ASSUME CacheInv, [Next]_vars, NEW u \in Users,
           screen'[u] # None, screen'[u] # screen[u], screen'[u].kept = 0
    PROVE  /\ screen'[u].body.families \subseteq Held(u)
           /\ AllStores \in rights[u] \/ screen'[u].body.facility = FacilityOf[u]
<1>1. ~ UNCHANGED screen
  OBVIOUS
<1>2. CASE Reads
  <2>1. PICK v \in Users, w \in Workers, f \in Scopes : ReadDashboard(v, w, f)
    BY <1>1, <1>2 DEF Reads, CacheNext, Regrant
  <2>2. PICK x \in SoundEntries :
              /\ x.body.families = Held(v) /\ x.body.facility = Scope(v, f)
              /\ screen' = [screen EXCEPT ![v] = [body |-> x.body, kept |-> 0]]
    BY <2>1, AnswerFits
  <2>3. u = v
    BY <2>2 DEF CacheInv
  <2>4. screen'[u].body = x.body
    BY <2>2, <2>3 DEF CacheInv
  <2> QED BY <2>2, <2>3, <2>4 DEF Scope
<1>3. CASE Tick
  <2>1. screen'[u].kept = screen[u].kept + 1 /\ screen[u] # None
    <3>1. screen'[u] = IF screen[u] = None \/ screen[u].kept + 1 >= TTL_SECONDS THEN None
                       ELSE [body |-> AgedBody(screen[u].body), kept |-> screen[u].kept + 1]
      BY <1>3 DEF Tick, AgeCopies
    <3>2. screen'[u] = [body |-> AgedBody(screen[u].body), kept |-> screen[u].kept + 1]
      BY <3>1
    <3> QED BY <3>1, <3>2
  <2>2. screen[u].kept \in Nat
    BY <2>1, Terms DEF CacheInv, ScreenSound, ScreenRows
  <2> QED BY <2>1, <2>2
<1>4. ~ Run /\ ~ Clear /\ ~ UNCHANGED vars
  BY <1>1, Zenon DEF Run, StartBackground, RunBegin, RunBuild, RunSave, RunFail, RunCommit, Crash, Clear,
       ReadExpired, PurgeRead, LeaveRead, Opens, DeleteFile, PurgeCommit, LeaveCommit, GiveUp, cacheVars, vars
<1> QED BY <1>2, <1>3, <1>4 DEF Next

THEOREM NobodyIsShownMore == Spec => NobodySeesMore
<1>1. CacheInv /\ [Next]_vars =>
          [\A u \in Users : (screen'[u] # None /\ screen'[u] # screen[u] /\ screen'[u].kept = 0) =>
              /\ screen'[u].body.families \subseteq Held(u)
              /\ AllStores \in rights[u] \/ screen'[u].body.facility = FacilityOf[u]]_cacheVars
  BY AnswersFit
<1> QED BY <1>1, CopiesAreKept, PTL DEF Spec, NobodySeesMore
-----------------------------------------------------------------------------
(***************************************************************************)
(* The exports: their rows, their tasks, their files.                      *)
(***************************************************************************)
LEMMA ExportTerms ==
    /\ MaxExports \in Nat /\ Exports \subseteq Nat /\ STALE \in Nat \ {0} /\ EXPIRY \in Nat \ {0}
    /\ None \notin ExportRows /\ None \notin Tasks /\ None \notin Nat
BY ExportConstants, NoneIsNoExportRow DEF ExportConstants, NoneIsNoExportRow, Exports

\* An export with a task is not over, and neither a purge nor the files of a
\* deletion name it.
LEMMA RunningIsNotOver ==
    ASSUME ExportInv, NEW e \in Exports, task[e] # None
    PROVE  /\ e <= last
           /\ Exists(e) => ~ Over(e)
           /\ \A r \in Requests : txn[r] # Idle =>
                  e \notin txn[r].files /\ (txn[r].op = "purge" => e \notin txn[r].queue)
<1>1. e \in Nat /\ last \in Nat
  BY ExportTerms DEF ExportInv
<1>2. e <= last
  BY <1>1 DEF ExportInv, Unstarted
<1>3. Exists(e) => ~ Over(e)
  BY ExportTerms DEF ExportInv, TaskSound, Over
<1>4. \A r \in Requests : txn[r] # Idle =>
          e \notin txn[r].files /\ (txn[r].op = "purge" => e \notin txn[r].queue)
  BY DEF ExportInv, DeletionSound
<1> QED BY <1>2, <1>3, <1>4

\* A step of one task leaves the other exports, and every deletion, as they are.
LEMMA TaskSteps ==
    ASSUME ExportInv, NEW e \in Exports, task[e] # None,
           NEW x \in ExportRows \cup {None}, NEW t \in Tasks \cup {None}, NEW held \in {{}, {e}},
           row' = [row EXCEPT ![e] = x], task' = [task EXCEPT ![e] = t],
           file' = (file \ {e}) \cup held, UNCHANGED <<last, txn>>, TaskSound(e)'
    PROVE  ExportInv'
<1>1. /\ row' \in [Exports -> ExportRows \cup {None}] /\ task' \in [Exports -> Tasks \cup {None}]
      /\ file' \in SUBSET Exports /\ last' \in 0 .. MaxExports
  BY DEF ExportInv
<1>2. \A o \in Exports \ {e} : row'[o] = row[o] /\ task'[o] = task[o] /\ (o \in file' <=> o \in file)
  BY DEF ExportInv
<1>3. ASSUME NEW o \in Exports, o > last' PROVE Unstarted(o)'
  <2>1. last \in Nat /\ o \in Nat /\ o > last /\ ~ (e > last)
    BY <1>3, RunningIsNotOver, ExportTerms DEF ExportInv
  <2>2. o # e
    BY <2>1
  <2>3. Unstarted(o)
    BY <2>1 DEF ExportInv
  <2> QED BY <1>2, <2>2, <2>3 DEF Unstarted
<1>4. ASSUME NEW o \in Exports PROVE TaskSound(o)'
  <2>1. CASE o = e
    BY <2>1
  <2>2. CASE o # e
    BY <1>2, <2>2 DEF ExportInv, TaskSound, Exists
  <2> QED BY <2>1, <2>2
<1>5. ASSUME NEW r \in Requests PROVE DeletionSound(r)'
  <2>1. DeletionSound(r)
    BY DEF ExportInv
  <2>2. txn[r] # Idle => e \notin txn[r].files /\ (txn[r].op = "purge" => e \notin txn[r].queue)
    BY RunningIsNotOver
  <2> QED BY <1>2, <2>1, <2>2 DEF DeletionSound, Exists, Over
<1>6. txn' = [r \in Requests |-> txn'[r]]
  BY DEF ExportInv
<1> QED BY <1>1, <1>3, <1>4, <1>5, <1>6 DEF ExportInv

LEMMA RunBeginKeeps ==
    ASSUME ExportInv, NEW e \in Exports, RunBegin(e)
    PROVE  ExportInv'
<1>1. task[e] # None /\ task[e] \in Tasks /\ TaskSound(e)
  BY DEF RunBegin, At, ExportInv
<1>2. CASE Exists(e)
  <2>1. PICK x, t : /\ x = [row[e] EXCEPT !.status = "RUNNING"]
                    /\ t = [task[e] EXCEPT !.at = "building"]
    OBVIOUS
  <2>2. row[e] \in ExportRows
    BY <1>2 DEF ExportInv, Exists
  <2>3. x \in ExportRows /\ x.status = "RUNNING" /\ x.done = row[e].done /\ x.named = row[e].named
    BY <2>1, <2>2 DEF ExportRows, Statuses
  <2>4. t \in Tasks /\ t.at = "building"
    BY <1>1, <2>1 DEF Tasks
  <2>5. row' = [row EXCEPT ![e] = x] /\ task' = [task EXCEPT ![e] = t] /\ UNCHANGED <<last, file, txn>>
    BY <1>2, <2>1 DEF RunBegin
  <2>6. row'[e] = x /\ task'[e] = t
    BY <2>5 DEF ExportInv
  <2>7. TaskSound(e)'
    BY <1>1, <1>2, <2>3, <2>4, <2>6 DEF TaskSound, Exists
  <2>8. PICK held \in {{}, {e}} : file' = (file \ {e}) \cup held
    BY <2>5
  <2> QED BY <1>1, <2>3, <2>4, <2>5, <2>7, <2>8, TaskSteps
<1>3. CASE ~ Exists(e)
  <2>1. row' = [row EXCEPT ![e] = None] /\ task' = [task EXCEPT ![e] = None] /\ UNCHANGED <<last, file, txn>>
    BY <1>3 DEF RunBegin, Exists, ExportInv
  <2>2. TaskSound(e)'
    BY <2>1 DEF TaskSound, ExportInv
  <2>3. PICK held \in {{}, {e}} : file' = (file \ {e}) \cup held
    BY <2>1
  <2> QED BY <1>1, <2>1, <2>2, <2>3, TaskSteps
<1> QED BY <1>2, <1>3

\* RunBuild, RunSave and RunFail: the row stays as it is.
LEMMA FileStepsKeep ==
    ASSUME ExportInv, NEW e \in Exports, RunBuild(e) \/ RunSave(e) \/ RunFail(e)
    PROVE  ExportInv'
<1>1. task[e] # None /\ task[e] \in Tasks /\ TaskSound(e)
  BY DEF RunBuild, RunSave, RunFail, At, ExportInv
<1>2. PICK t \in Tasks : /\ task' = [task EXCEPT ![e] = t] /\ UNCHANGED <<row, last, txn>>
                         /\ file' \in {file, file \cup {e}}
                         /\ t.at = "saved" => e \in file'
  <2>1. CASE RunBuild(e)
    <3>1. PICK t : t = [task[e] EXCEPT !.at = "writing", !.named = TRUE]
      OBVIOUS
    <3>2. task' = [task EXCEPT ![e] = t] /\ UNCHANGED <<row, last, file, txn>>
      BY <2>1, <3>1 DEF RunBuild
    <3>3. t \in Tasks /\ t.at = "writing"
      BY <1>1, <3>1 DEF Tasks
    <3> QED BY <3>2, <3>3
  <2>2. CASE RunSave(e)
    <3>1. PICK t : t = [task[e] EXCEPT !.at = "saved"]
      OBVIOUS
    <3>2. t \in Tasks
      BY <1>1, <3>1 DEF Tasks
    <3> QED BY <2>2, <3>1, <3>2 DEF RunSave
  <2>3. CASE RunFail(e)
    <3>1. PICK t : t = [task[e] EXCEPT !.at = "failed"]
      OBVIOUS
    <3>2. t \in Tasks /\ t.at = "failed"
      BY <1>1, <3>1 DEF Tasks
    <3> QED BY <2>3, <3>1, <3>2 DEF RunFail
  <2> QED BY <2>1, <2>2, <2>3
<1>3. row' = [row EXCEPT ![e] = row[e]] /\ row[e] \in ExportRows \cup {None}
  BY <1>2 DEF ExportInv
<1>4. task'[e] = t
  BY <1>2 DEF ExportInv
<1>5. TaskSound(e)'
  BY <1>1, <1>2, <1>4 DEF TaskSound, Exists
<1>6. PICK held \in {{}, {e}} : file' = (file \ {e}) \cup held
  BY <1>2
<1> QED BY <1>1, <1>2, <1>3, <1>5, <1>6, TaskSteps

\* The row a finished run leaves: ready only if the file was saved.
LEMMA CommittedRow ==
    ASSUME ExportInv, NEW e \in Exports, RunCommit(e), Exists(e)
    PROVE  /\ \E x \in ExportRows : row' = [row EXCEPT ![e] = x]
           /\ row'[e].status = "READY" => e \in file
           /\ row'[e].status \in {"READY", "FAILED"}
<1>1. PICK named, status, done : /\ named = task[e].named
                                 /\ status = IF At(e, {"saved"}) THEN "READY" ELSE "FAILED"
                                 /\ done = IF At(e, {"saved"}) THEN 0 ELSE None
  OBVIOUS
<1>2. row[e] \in ExportRows /\ task[e] # None /\ task[e] \in Tasks /\ TaskSound(e)
  BY DEF ExportInv, Exists, RunCommit, At
<1>3. named \in BOOLEAN /\ status \in Statuses /\ done \in 0 .. EXPIRY \cup {None}
  BY <1>1, <1>2, ExportTerms DEF Tasks, Statuses
<1>4. PICK x : x = [user |-> row[e].user, status |-> status, named |-> named,
                    made |-> row[e].made, done |-> done]
  OBVIOUS
<1>5. x \in ExportRows
  BY <1>2, <1>3, <1>4 DEF ExportRows
<1>6. row' = [row EXCEPT ![e] = x]
  <2>1. row' = [row EXCEPT ![e].named = named, ![e].status = status, ![e].done = done]
    BY <1>1 DEF RunCommit
  <2>2. row \in [Exports -> ExportRows \cup {None}]
    BY DEF ExportInv
  <2>3. row'[e] = x
    BY <1>2, <1>3, <1>4, <2>1, <2>2 DEF ExportRows
  <2> QED BY <2>1, <2>2, <2>3
<1>7. row'[e] = x
  BY <1>6 DEF ExportInv
<1>8. status = "READY" => e \in file
  BY <1>1, <1>2 DEF TaskSound, At
<1>9. row'[e].status = status /\ status \in {"READY", "FAILED"}
  BY <1>1, <1>4, <1>7
<1> QED BY <1>5, <1>6, <1>8, <1>9

LEMMA RunCommitKeeps ==
    ASSUME ExportInv, NEW e \in Exports, RunCommit(e)
    PROVE  ExportInv'
<1>1. task[e] # None
  BY DEF RunCommit, At
<1>2. PICK x \in ExportRows \cup {None} : row' = [row EXCEPT ![e] = x]
  <2>1. CASE Exists(e)
    BY <2>1, CommittedRow
  <2>2. CASE ~ Exists(e)
    BY <2>2 DEF RunCommit, Exists, ExportInv
  <2> QED BY <2>1, <2>2
<1>3. task' = [task EXCEPT ![e] = None] /\ UNCHANGED <<last, file, txn>>
  BY DEF RunCommit
<1>4. TaskSound(e)'
  BY <1>3 DEF TaskSound, ExportInv
<1>5. PICK held \in {{}, {e}} : file' = (file \ {e}) \cup held
  BY <1>3
<1> QED BY <1>1, <1>2, <1>3, <1>4, <1>5, TaskSteps
LEMMA StartKeeps ==
    ASSUME ExportInv, NEW u \in Users, NEW w \in Workers, StartBackground(u, w)
    PROVE  ExportInv'
<1>1. PICK e, x, t : /\ e = last + 1
                     /\ x = [user |-> u, status |-> "PENDING", named |-> FALSE, made |-> 0, done |-> None]
                     /\ t = [worker |-> w, at |-> "queued", named |-> FALSE]
  OBVIOUS
<1>2. /\ e \in Exports /\ last' = e /\ row' = [row EXCEPT ![e] = x] /\ task' = [task EXCEPT ![e] = t]
      /\ UNCHANGED <<file, txn>>
  BY <1>1 DEF StartBackground
<1>3. x \in ExportRows /\ x.status = "PENDING" /\ x.done = None /\ ~ x.named
  BY <1>1, ExportTerms DEF ExportRows, Statuses
<1>4. t \in Tasks /\ t.at = "queued"
  BY <1>1 DEF Tasks
<1>5. last \in Nat /\ e > last /\ e \in 0 .. MaxExports
  BY <1>1, <1>2, ExportTerms DEF ExportInv, Exports
<1>6. Unstarted(e)
  BY <1>2, <1>5 DEF ExportInv
<1>7. row' \in [Exports -> ExportRows \cup {None}] /\ task' \in [Exports -> Tasks \cup {None}]
  BY <1>2, <1>3, <1>4 DEF ExportInv
<1>8. row'[e] = x /\ task'[e] = t /\ \A o \in Exports \ {e} : row'[o] = row[o] /\ task'[o] = task[o]
  BY <1>2 DEF ExportInv
<1>9. ASSUME NEW o \in Exports, o > last' PROVE Unstarted(o)'
  <2>1. o \in Nat /\ o > last /\ o # e
    BY <1>1, <1>2, <1>5, <1>9, ExportTerms
  <2>2. Unstarted(o)
    BY <2>1 DEF ExportInv
  <2> QED BY <1>2, <1>8, <2>1, <2>2 DEF Unstarted
<1>10. ASSUME NEW o \in Exports PROVE TaskSound(o)'
  <2>1. CASE o = e
    BY <1>3, <1>4, <1>8, <2>1 DEF TaskSound, Exists
  <2>2. CASE o # e
    BY <1>2, <1>8, <2>2 DEF ExportInv, TaskSound, Exists
  <2> QED BY <2>1, <2>2
<1>11. ASSUME NEW r \in Requests PROVE DeletionSound(r)'
  <2>1. DeletionSound(r) /\ (txn[r] # Idle => e \notin txn[r].queue)
    BY <1>6 DEF ExportInv, Unstarted
  <2> QED BY <1>2, <1>8, <2>1 DEF DeletionSound, Exists, Over
<1>12. txn' = [r \in Requests |-> txn'[r]] /\ file' \in SUBSET Exports
  BY <1>2 DEF ExportInv
<1> QED BY <1>2, <1>5, <1>7, <1>9, <1>10, <1>11, <1>12 DEF ExportInv

\* A worker's death takes tasks away and nothing else.
LEMMA CrashKeeps ==
    ASSUME ExportInv, NEW w \in Workers, Crash(w)
    PROVE  ExportInv'
<1>1. \A e \in Exports : task'[e] \in {task[e], None}
  BY DEF Crash
<1>2. task' \in [Exports -> Tasks \cup {None}] /\ UNCHANGED <<row, last, file, txn>>
  BY DEF Crash, ExportInv
<1>3. ASSUME NEW e \in Exports, e > last' PROVE Unstarted(e)'
  BY <1>1, <1>2, <1>3 DEF ExportInv, Unstarted
<1>4. ASSUME NEW e \in Exports PROVE TaskSound(e)'
  BY <1>1, <1>2 DEF ExportInv, TaskSound, Exists
<1>5. ASSUME NEW r \in Requests PROVE DeletionSound(r)'
  BY <1>1, <1>2 DEF ExportInv, DeletionSound, Exists, Over
<1> QED BY <1>2, <1>3, <1>4, <1>5 DEF ExportInv

\* A file goes that no task has; of a deletion's list, at most that file goes.
LEMMA FileGone ==
    ASSUME ExportInv, NEW e \in Exports, task[e] = None, file' = file \ {e},
           UNCHANGED <<row, last, task>>,
           txn' = [r \in Requests |-> txn'[r]],
           \A r \in Requests : \/ txn'[r] = txn[r]
                               \/ /\ txn[r] # Idle /\ txn'[r] # Idle /\ txn'[r].op = txn[r].op
                                  /\ txn'[r].queue = txn[r].queue
                                  /\ txn'[r].files \subseteq txn[r].files
    PROVE  ExportInv'
<1>1. ASSUME NEW o \in Exports, o > last' PROVE Unstarted(o)'
  BY <1>1 DEF ExportInv, Unstarted
<1>2. ASSUME NEW o \in Exports PROVE TaskSound(o)'
  BY DEF ExportInv, TaskSound, Exists
<1>3. ASSUME NEW r \in Requests PROVE DeletionSound(r)'
  <2>1. CASE txn'[r] = txn[r]
    BY <2>1 DEF ExportInv, DeletionSound, Exists, Over
  <2>2. CASE txn'[r] # txn[r]
    <3>1. /\ txn[r] # Idle /\ txn'[r].op = txn[r].op /\ txn'[r].queue = txn[r].queue
          /\ txn'[r].files \subseteq txn[r].files
      BY <2>2
    <3>2. DeletionSound(r)
      BY DEF ExportInv
    <3>3. txn'[r].files \in SUBSET txn'[r].queue
      BY <3>1, <3>2 DEF DeletionSound
    <3> QED BY <3>1, <3>2, <3>3 DEF DeletionSound, Exists, Over
  <2> QED BY <2>1, <2>2
<1>4. last' \in 0 .. MaxExports /\ file' \in SUBSET Exports
  BY DEF ExportInv
<1> QED BY <1>1, <1>2, <1>3, <1>4 DEF ExportInv

\* What is over has no task.
LEMMA OverHasNoTask ==
    ASSUME ExportInv, NEW e \in Exports, Exists(e), Over(e)
    PROVE  task[e] = None
BY RunningIsNotOver

LEMMA ReadExpiredKeeps ==
    ASSUME ExportInv, NEW e \in Exports, ReadExpired(e)
    PROVE  ExportInv'
<1>1. task[e] = None
  BY OverHasNoTask DEF ReadExpired
<1>2. txn' = [r \in Requests |-> txn'[r]] /\ \A r \in Requests : txn'[r] = txn[r]
  BY DEF ReadExpired, ExportInv
<1>3. file' = file \ {e} /\ UNCHANGED <<row, last, task>>
  BY DEF ReadExpired
<1> QED BY <1>1, <1>2, <1>3, FileGone

LEMMA DeleteFileKeeps ==
    ASSUME ExportInv, NEW r \in Requests, NEW e \in Exports, DeleteFile(r, e)
    PROVE  ExportInv'
<1>1. PICK d : d = txn[r]
  OBVIOUS
<1>2. d.op # "idle" /\ e \in d.files /\ d # Idle
  BY <1>1 DEF DeleteFile, Idle
<1>3. task[e] = None
  BY <1>1, <1>2 DEF ExportInv, DeletionSound
<1>4. PICK left : left = d.files \ {e}
  OBVIOUS
<1>5. PICK n : n = [d EXCEPT !.files = left]
  OBVIOUS
<1>6. txn' = [txn EXCEPT ![r] = n]
  BY <1>1, <1>4, <1>5 DEF DeleteFile
<1>7. file' = file \ {e} /\ UNCHANGED <<row, last, task>>
  BY DEF DeleteFile
<1>8. n.op = d.op /\ n.queue = d.queue /\ n.files \subseteq d.files
  BY <1>4, <1>5
<1>9. n # Idle
  BY <1>2, <1>8 DEF Idle
<1>10. txn' = [q \in Requests |-> txn'[q]]
  BY <1>6 DEF ExportInv
<1>11. ASSUME NEW q \in Requests
       PROVE  \/ txn'[q] = txn[q]
              \/ /\ txn[q] # Idle /\ txn'[q] # Idle /\ txn'[q].op = txn[q].op
                 /\ txn'[q].queue = txn[q].queue /\ txn'[q].files \subseteq txn[q].files
  BY <1>1, <1>2, <1>6, <1>8, <1>9 DEF ExportInv
<1> QED BY <1>3, <1>7, <1>10, <1>11, FileGone
\* A deletion lists rows that exist; a purge, rows that are over.  A row with a
\* name has no task.
LEMMA OpensKeeps ==
    ASSUME ExportInv, NEW r \in Requests, NEW op \in {"purge", "leave"}, NEW u,
           NEW rows \in SUBSET Exports, \A e \in rows : Exists(e) /\ (op = "purge" => Over(e)),
           Opens(r, op, u, rows)
    PROVE  ExportInv'
<1>1. PICK files : files = {e \in rows : row[e].named}
  OBVIOUS
<1>2. PICK d : d = [op |-> op, user |-> u, queue |-> rows, files |-> files]
  OBVIOUS
<1>3. txn' = [txn EXCEPT ![r] = d] /\ UNCHANGED <<row, last, file, task>>
  BY <1>1, <1>2 DEF Opens, exportVars
<1>4. d.op = op /\ d.queue = rows /\ d.files = files
  BY <1>2
<1>5. \A q \in Requests : txn'[q] = IF q = r THEN d ELSE txn[q]
  BY <1>3 DEF ExportInv
<1>6. \A e \in files : task[e] = None
  BY <1>1 DEF ExportInv, TaskSound
<1>7. op = "purge" => \A e \in rows : task[e] = None
  BY OverHasNoTask
<1>8. ASSUME NEW e \in Exports, e > last' PROVE Unstarted(e)'
  <2>1. Unstarted(e)
    BY <1>3, <1>8 DEF ExportInv
  <2>2. e \notin rows
    BY <2>1 DEF Unstarted, Exists
  <2> QED BY <1>3, <1>4, <1>5, <2>1, <2>2 DEF Unstarted
<1>9. ASSUME NEW e \in Exports PROVE TaskSound(e)'
  BY <1>3 DEF ExportInv, TaskSound, Exists
<1>10. ASSUME NEW q \in Requests PROVE DeletionSound(q)'
  <2>1. CASE q = r
    <3>1. txn'[q] = d
      BY <1>5, <2>1
    <3>2. d.files \in SUBSET d.queue
      BY <1>1, <1>4
    <3> QED BY <1>3, <1>4, <1>6, <1>7, <3>1, <3>2 DEF DeletionSound, Exists, Over
  <2>2. CASE q # r
    BY <1>3, <1>5, <2>2 DEF ExportInv, DeletionSound, Exists, Over
  <2> QED BY <2>1, <2>2
<1>11. txn' = [q \in Requests |-> txn'[q]]
  BY <1>3 DEF ExportInv
<1> QED BY <1>3, <1>8, <1>9, <1>10, <1>11 DEF ExportInv

\* A deletion ends, with its rows or without them.
LEMMA EndsKeeps ==
    ASSUME ExportInv, NEW r \in Requests, Ends(r), UNCHANGED <<last, file, task>>,
           row' = row \/ row' = Without(txn[r].queue)
    PROVE  ExportInv'
<1>1. \A e \in Exports : row'[e] \in {row[e], None}
  BY DEF Without
<1>2. row' \in [Exports -> ExportRows \cup {None}]
  <2>1. row \in [Exports -> ExportRows \cup {None}]
    BY DEF ExportInv
  <2>2. Without(txn[r].queue) \in [Exports -> ExportRows \cup {None}]
    BY <2>1 DEF Without
  <2> QED BY <2>1, <2>2
<1>3. \A q \in Requests : txn'[q] = IF q = r THEN Idle ELSE txn[q]
  BY DEF Ends, ExportInv
<1>4. txn' = [q \in Requests |-> txn'[q]]
  BY DEF Ends, ExportInv
<1>5. ASSUME NEW e \in Exports, e > last' PROVE Unstarted(e)'
  <2>1. Unstarted(e)
    BY <1>5 DEF ExportInv
  <2> QED BY <1>1, <1>3, <2>1 DEF Unstarted
<1>6. ASSUME NEW e \in Exports PROVE TaskSound(e)'
  BY <1>1 DEF ExportInv, TaskSound, Exists
<1>7. ASSUME NEW q \in Requests PROVE DeletionSound(q)'
  <2>1. CASE q = r
    BY <1>3, <2>1 DEF DeletionSound
  <2>2. CASE q # r
    <3>1. txn'[q] = txn[q] /\ DeletionSound(q)
      BY <1>3, <2>2 DEF ExportInv
    <3>2. CASE txn[q] = Idle
      BY <3>1, <3>2 DEF DeletionSound
    <3>3. CASE txn[q] # Idle
      <4>1. txn[q].queue \in SUBSET Exports
        BY <3>1, <3>3 DEF DeletionSound
      <4> QED BY <1>1, <3>1, <4>1 DEF DeletionSound, Exists, Over
    <3> QED BY <3>2, <3>3
  <2> QED BY <2>1, <2>2
<1>8. last' \in 0 .. MaxExports /\ file' \in SUBSET Exports /\ task' \in [Exports -> Tasks \cup {None}]
  BY DEF ExportInv
<1> QED BY <1>2, <1>4, <1>5, <1>6, <1>7, <1>8 DEF ExportInv

\* An older row has the same user, status and name; what is over stays over.
LEMMA OlderRow ==
    ASSUME ExportInv, NEW e \in Exports, Tick, Exists(e)
    PROVE  /\ row'[e] \in ExportRows /\ Exists(e)'
           /\ row'[e].status = row[e].status /\ row'[e].named = row[e].named
           /\ row[e].done = None <=> row'[e].done = None
           /\ row[e].made <= row'[e].made
           /\ Over(e) => Over(e)'
<1>1. PICK x, made, done : /\ x = row[e] /\ made = Older(x.made, STALE + 1)
                           /\ done = IF x.done = None THEN None ELSE Older(x.done, EXPIRY)
  OBVIOUS
<1>2. PICK y : y = [x EXCEPT !.made = made, !.done = done]
  OBVIOUS
<1>3. row'[e] = y
  BY <1>1, <1>2 DEF Tick
<1>4. x \in ExportRows /\ x.made \in 0 .. STALE + 1 /\ x.done \in 0 .. EXPIRY \cup {None}
  BY <1>1 DEF ExportInv, Exists, ExportRows
<1>5. made \in 0 .. STALE + 1 /\ x.made <= made
  BY <1>1, <1>4, ExportTerms DEF Older
<1>6. /\ done \in 0 .. EXPIRY \cup {None} /\ (x.done = None <=> done = None)
      /\ x.done = EXPIRY => done = EXPIRY
  BY <1>1, <1>4, ExportTerms DEF Older
<1>7. x \in [user : Users, status : Statuses, named : BOOLEAN,
             made : 0 .. STALE + 1, done : 0 .. EXPIRY \cup {None}]
  BY <1>4 DEF ExportRows
<1>8. y \in ExportRows
  BY <1>2, <1>5, <1>6, <1>7 DEF ExportRows
<1>9. y.status = x.status /\ y.named = x.named /\ y.made = made /\ y.done = done
  BY <1>2, <1>7
<1>10. y # None
  BY <1>8, ExportTerms
<1> QED BY <1>1, <1>3, <1>5, <1>6, <1>8, <1>9, <1>10 DEF Exists, Over

LEMMA TickKeeps ==
    ASSUME ExportInv, Tick
    PROVE  ExportInv'
<1>1. UNCHANGED <<last, file, task, txn>>
  BY DEF Tick
<1>2. \A e \in Exports : ~ Exists(e) => row'[e] = None
  BY DEF Tick
<1>3. row' \in [Exports -> ExportRows \cup {None}]
  <2>1. ASSUME NEW e \in Exports PROVE row'[e] \in ExportRows \cup {None}
    BY <1>2, OlderRow
  <2>2. row' = [e \in Exports |-> row'[e]]
    BY DEF Tick
  <2> QED BY <2>1, <2>2
<1>4. ASSUME NEW e \in Exports, e > last' PROVE Unstarted(e)'
  BY <1>1, <1>2, <1>4 DEF ExportInv, Unstarted, Exists
<1>5. ASSUME NEW e \in Exports PROVE TaskSound(e)'
  <2>1. CASE Exists(e)
    BY <1>1, <2>1, OlderRow DEF ExportInv, TaskSound
  <2>2. CASE ~ Exists(e)
    BY <1>1, <1>2, <2>2 DEF ExportInv, TaskSound, Exists
  <2> QED BY <2>1, <2>2
<1>6. ASSUME NEW r \in Requests PROVE DeletionSound(r)'
  <2>1. \A e \in Exports : (Exists(e) => Over(e)) => (Exists(e)' => Over(e)')
    BY <1>2, OlderRow DEF Exists
  <2>2. DeletionSound(r)
    BY DEF ExportInv
  <2> QED BY <1>1, <2>1, <2>2 DEF DeletionSound
<1> QED BY <1>1, <1>3, <1>4, <1>5, <1>6 DEF ExportInv

LEMMA InitIsExported == Init => ExportInv
<1> SUFFICES ASSUME Init PROVE ExportInv
  OBVIOUS
<1> USE DEF Init
<1>1. /\ last \in 0 .. MaxExports /\ file \in SUBSET Exports
      /\ row \in [Exports -> ExportRows \cup {None}] /\ task \in [Exports -> Tasks \cup {None}]
  BY ExportTerms
<1>2. txn = [r \in Requests |-> txn[r]] /\ \A r \in Requests : txn[r] = Idle
  OBVIOUS
<1>3. ASSUME NEW e \in Exports PROVE Unstarted(e) /\ TaskSound(e)
  BY <1>2 DEF Unstarted, TaskSound
<1>4. ASSUME NEW r \in Requests PROVE DeletionSound(r)
  BY <1>2 DEF DeletionSound
<1> QED BY <1>1, <1>2, <1>3, <1>4 DEF ExportInv

LEMMA NextKeepsExports ==
    ASSUME ExportInv, [Next]_vars
    PROVE  ExportInv'
<1>1. CASE Reads \/ UNCHANGED vars
  <2>1. UNCHANGED <<row, last, file, task, txn>>
    BY <1>1 DEF Reads, vars, exportVars
  <2> QED BY <2>1 DEF ExportInv, Unstarted, TaskSound, DeletionSound, Exists, Over
<1>2. CASE Run
  BY <1>2, StartKeeps, RunBeginKeeps, FileStepsKeep, RunCommitKeeps, CrashKeeps DEF Run
<1>3. CASE Clear
  <2>1. ASSUME NEW r \in Requests, PurgeRead(r) PROVE ExportInv'
    BY <2>1, OpensKeeps DEF PurgeRead
  <2>2. ASSUME NEW r \in Requests, NEW u \in Users, LeaveRead(r, u) PROVE ExportInv'
    BY <2>2, OpensKeeps DEF LeaveRead
  <2>3. ASSUME NEW r \in Requests, PurgeCommit(r) \/ LeaveCommit(r) \/ GiveUp(r) PROVE ExportInv'
    <3>1. Ends(r) /\ UNCHANGED <<last, file, task>> /\ (row' = row \/ row' = Without(txn[r].queue))
      BY <2>3 DEF PurgeCommit, LeaveCommit, GiveUp, exportVars
    <3> QED BY <3>1, EndsKeeps
  <2> QED BY <1>3, <2>1, <2>2, <2>3, ReadExpiredKeeps, DeleteFileKeeps DEF Clear
<1>4. CASE Tick
  BY <1>4, TickKeeps
<1> QED BY <1>1, <1>2, <1>3, <1>4 DEF Next

\* Whichever worker dies, and whatever is purged or deleted half way: an export
\* that still has its task is not over, and what a purge lists is over or gone.
THEOREM ExportsAreKept == Spec => []ExportInv
BY InitIsExported, NextKeepsExports, PTL DEF Spec
\* While its row and its file stay, an export can be downloaded as before.
LEMMA SameExport ==
    ASSUME NEW e \in Exports, row'[e] = row[e], Downloadable(e)'
    PROVE  Downloadable(e)
BY DEF Downloadable, Exists, Shown, Over

\* What is ready was saved when it became so, and only an expired file is
\* removed, but for a deletion of its owner's exports.
LEMMA StaysDownloadable ==
    ASSUME ExportInv, [Next]_vars, NEW e \in Exports, Downloadable(e)', e \notin file',
           ~ \E r \in Requests : txn[r].op = "leave" /\ DeleteFile(r, e)
    PROVE  Downloadable(e) /\ e \notin file
<1>1. row'[e].status = "READY" /\ Exists(e)' /\ ~ Over(e)'
  BY DEF Downloadable, Shown
<1>2. ASSUME row'[e] = row[e], e \in file => e \in file' PROVE Downloadable(e) /\ e \notin file
  BY <1>2, SameExport
<1>3. CASE Reads \/ UNCHANGED vars
  BY <1>2, <1>3 DEF Reads, vars, exportVars
<1>4. CASE Run
  <2>1. ASSUME NEW u \in Users, NEW w \in Workers, StartBackground(u, w)
        PROVE  Downloadable(e) /\ e \notin file
    <3>1. PICK o, x : /\ o = last + 1
                      /\ x = [user |-> u, status |-> "PENDING", named |-> FALSE, made |-> 0, done |-> None]
      OBVIOUS
    <3>2. row' = [row EXCEPT ![o] = x] /\ UNCHANGED file
      BY <2>1, <3>1 DEF StartBackground
    <3>3. row'[e] = IF e = o THEN x ELSE row[e]
      BY <3>2 DEF ExportInv
    <3>4. x.status # "READY"
      BY <3>1
    <3> QED BY <1>1, <1>2, <3>2, <3>3, <3>4
  <2>2. ASSUME NEW o \in Exports, RunBegin(o) PROVE Downloadable(e) /\ e \notin file
    <3>1. UNCHANGED file
      BY <2>2 DEF RunBegin
    <3>2. CASE o = e /\ Exists(o)
      <4>1. PICK x : x = [row[e] EXCEPT !.status = "RUNNING"]
        OBVIOUS
      <4>2. row[e] \in ExportRows
        BY <3>2 DEF ExportInv, Exists
      <4>3. x.status = "RUNNING"
        BY <4>1, <4>2 DEF ExportRows
      <4>4. row'[e] = x
        BY <2>2, <3>2, <4>1 DEF RunBegin, ExportInv
      <4> QED BY <1>1, <4>3, <4>4
    <3>3. CASE ~ (o = e /\ Exists(o))
      <4>1. row'[e] = row[e]
        BY <2>2, <3>3 DEF RunBegin, ExportInv
      <4> QED BY <1>2, <3>1, <4>1
    <3> QED BY <3>2, <3>3
  <2>3. ASSUME NEW o \in Exports, RunBuild(o) \/ RunSave(o) \/ RunFail(o)
        PROVE  Downloadable(e) /\ e \notin file
    BY <1>2, <2>3 DEF RunBuild, RunSave, RunFail
  <2>4. ASSUME NEW o \in Exports, RunCommit(o) PROVE Downloadable(e) /\ e \notin file
    <3>1. UNCHANGED file
      BY <2>4 DEF RunCommit
    <3>2. CASE o = e /\ Exists(o)
      BY <1>1, <2>4, <3>1, <3>2, CommittedRow
    <3>3. CASE o # e \/ ~ Exists(o)
      <4>1. row'[e] = row[e]
        <5>1. CASE ~ Exists(o)
          BY <2>4, <5>1 DEF RunCommit
        <5>2. CASE Exists(o)
          <6>1. PICK x \in ExportRows : row' = [row EXCEPT ![o] = x]
            BY <2>4, <5>2, CommittedRow
          <6> QED BY <3>3, <5>2, <6>1 DEF ExportInv
        <5> QED BY <5>1, <5>2
      <4> QED BY <1>2, <3>1, <4>1
    <3> QED BY <3>2, <3>3
  <2>5. ASSUME NEW w \in Workers, Crash(w) PROVE Downloadable(e) /\ e \notin file
    BY <1>2, <2>5 DEF Crash
  <2> QED BY <1>4, <2>1, <2>2, <2>3, <2>4, <2>5 DEF Run
<1>5. CASE Clear
  <2>1. ASSUME NEW o \in Exports, ReadExpired(o) PROVE Downloadable(e) /\ e \notin file
    <3>1. UNCHANGED row /\ file' = file \ {o} /\ Over(o)
      BY <2>1 DEF ReadExpired
    <3>2. o # e
      BY <1>1, <3>1 DEF Over
    <3> QED BY <1>2, <3>1, <3>2
  <2>2. ASSUME NEW r \in Requests, NEW o \in Exports, DeleteFile(r, o)
        PROVE  Downloadable(e) /\ e \notin file
    <3>1. UNCHANGED row /\ file' = file \ {o} /\ o \in txn[r].files /\ txn[r] # Idle
      BY <2>2 DEF DeleteFile, Idle
    <3>2. o # e
      <4>1. SUFFICES ASSUME o = e PROVE FALSE
        OBVIOUS
      <4>2. txn[r].op = "purge" /\ o \in txn[r].queue
        BY <2>2, <3>1, <4>1 DEF ExportInv, DeletionSound
      <4>3. Exists(o)
        BY <1>1, <3>1, <4>1 DEF Exists
      <4>4. Over(o)
        BY <3>1, <4>2, <4>3 DEF ExportInv, DeletionSound
      <4> QED BY <1>1, <3>1, <4>1, <4>4 DEF Over
    <3> QED BY <1>2, <3>1, <3>2
  <2>3. ASSUME NEW r \in Requests, PurgeCommit(r) \/ LeaveCommit(r) \/ GiveUp(r)
        PROVE  Downloadable(e) /\ e \notin file
    <3>1. UNCHANGED file /\ (row' = row \/ row' = Without(txn[r].queue))
      BY <2>3 DEF PurgeCommit, LeaveCommit, GiveUp, exportVars
    <3>2. row'[e] = row[e]
      BY <1>1, <3>1 DEF Without, Exists
    <3> QED BY <1>2, <3>1, <3>2
  <2>4. ASSUME NEW r \in Requests, PurgeRead(r) \/ \E u \in Users : LeaveRead(r, u)
        PROVE  Downloadable(e) /\ e \notin file
    BY <1>2, <2>4 DEF PurgeRead, LeaveRead, Opens, exportVars
  <2> QED BY <1>5, <2>1, <2>2, <2>3, <2>4 DEF Clear
<1>6. CASE Tick
  <2>1. UNCHANGED file
    BY <1>6 DEF Tick
  <2>2. Exists(e)
    BY <1>1, <1>6 DEF Tick, Exists
  <2>3. row[e].status = "READY" /\ ~ Over(e)
    BY <1>1, <1>6, <2>2, OlderRow
  <2> QED BY <2>1, <2>2, <2>3 DEF Downloadable, Shown
<1> QED BY <1>3, <1>4, <1>5, <1>6 DEF Next

\* An export offered for download has its file until it expires, whatever dies
\* or is purged meanwhile, unless its owner is being deleted.
THEOREM DownloadsStay == Spec => DownloadableUntilExpiry
<1>1. ExportInv /\ [Next]_vars =>
          [\A e \in Exports : Downloadable(e)' =>
              \/ e \in file'
              \/ Downloadable(e) /\ e \notin file
              \/ \E r \in Requests : txn[r].op = "leave" /\ DeleteFile(r, e)]_vars
  BY StaysDownloadable
<1> QED BY <1>1, ExportsAreKept, PTL DEF Spec, DownloadableUntilExpiry
=============================================================================
