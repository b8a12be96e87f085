---------------------------- MODULE AnalyticsExport ----------------------------
(***************************************************************************)
(* analytics/exports: a large export is a row, a task in the memory of the *)
(* worker that took the request, and a file.  Nothing ties the three       *)
(* together but the order of the steps: a worker dies with its tasks, a    *)
(* row is deleted under a running task, a purge or a deletion of the user  *)
(* removes the files first and the rows when it commits.                   *)
(***************************************************************************)
EXTENDS AnalyticsCache

CONSTANTS
    MaxExports,     \* bound on the exports created
    STALE,          \* in ticks, since creation
    EXPIRY          \* in ticks, since completion

ASSUME ExportConstants ==
    /\ MaxExports \in Nat
    /\ STALE \in Nat \ {0} /\ EXPIRY \in Nat \ {0}

VARIABLES
    row,            \* analytics_export
    last,           \* its AUTO_INCREMENT
    file,           \* the exports with a file in settings.exports_dir
    task            \* the _run of each export, in some worker's memory

exportVars == <<row, last, file, task>>
vars == <<cacheVars, exportVars, txn>>

Exports == 1..MaxExports
Statuses == {"PENDING", "RUNNING", "READY", "FAILED"}

\* made and done are the ticks since creation and since completion; expiry_time
\* is set with completion_time.
ExportRows == [user : Users, status : Statuses, named : BOOLEAN,
               made : 0..STALE + 1, done : 0..EXPIRY \cup {None}]

Tasks == [worker : Workers, at : {"queued", "building", "writing", "saved", "failed"},
          named : BOOLEAN]

ASSUME NoneIsNoExportRow == None \notin ExportRows \cup Tasks \cup Nat

Exists(e) == row[e] # None
Over(e) == row[e].done = EXPIRY

Shown_AsStored(e) == row[e].status

\* status_of: a run that has taken too long lost its worker.
Shown(e) ==
    IF row[e].status = "RUNNING" /\ row[e].made > STALE THEN "FAILED" ELSE row[e].status

\* What read_export and read_file let its owner download.
Downloadable(e) == Exists(e) /\ Shown(e) = "READY" /\ ~ Over(e)

-----------------------------------------------------------------------------
(***************************************************************************)
(* The task.                                                               *)
(***************************************************************************)
\* create_export with more than INLINE_ROWS rows: start_background.
StartBackground(u, w) ==
    LET e == last + 1
    IN  /\ e \in Exports /\ Admitted(u)
        /\ last' = e
        /\ row' = [row EXCEPT ![e] = [user |-> u, status |-> "PENDING", named |-> FALSE,
                                      made |-> 0, done |-> None]]
        /\ task' = [task EXCEPT ![e] = [worker |-> w, at |-> "queued", named |-> FALSE]]
        /\ UNCHANGED <<cacheVars, file, txn>>

At(e, places) == task[e] # None /\ task[e].at \in places

\* _run up to its first commit.  Without its row it fails, and nobody waits for it.
RunBegin(e) ==
    /\ At(e, {"queued"})
    /\ IF Exists(e)
       THEN /\ row' = [row EXCEPT ![e].status = "RUNNING"]
            /\ task' = [task EXCEPT ![e].at = "building"]
       ELSE /\ task' = [task EXCEPT ![e] = None]
            /\ UNCHANGED row
    /\ UNCHANGED <<cacheVars, last, file, txn>>

\* build_table answers; the row's copy gets its file's name.
RunBuild(e) ==
    /\ At(e, {"building"})
    /\ task' = [task EXCEPT ![e].at = "writing", ![e].named = TRUE]
    /\ UNCHANGED <<cacheVars, row, last, file, txn>>

\* _save
RunSave(e) ==
    /\ At(e, {"writing"})
    /\ file' = file \cup {e}
    /\ task' = [task EXCEPT ![e].at = "saved"]
    /\ UNCHANGED <<cacheVars, row, last, txn>>

\* The source fails, or the file cannot be written, or not all of it.
RunFail(e) ==
    /\ At(e, {"building", "writing"})
    /\ \/ UNCHANGED file
       \/ At(e, {"writing"}) /\ file' = file \cup {e}
    /\ task' = [task EXCEPT ![e].at = "failed"]
    /\ UNCHANGED <<cacheVars, row, last, txn>>

\* The last commit.  A row deleted meanwhile stays deleted, and its file stays.
RunCommit(e) ==
    /\ At(e, {"saved", "failed"})
    /\ row' = IF ~ Exists(e) THEN row
              ELSE [row EXCEPT ![e].named = task[e].named,
                               ![e].status = IF At(e, {"saved"}) THEN "READY" ELSE "FAILED",
                               ![e].done = IF At(e, {"saved"}) THEN 0 ELSE None]
    /\ task' = [task EXCEPT ![e] = None]
    /\ UNCHANGED <<cacheVars, last, file, txn>>

\* A worker dies, with its tasks and its cache, and another takes its place.
Crash(w) ==
    /\ task' = [e \in Exports |-> IF task[e] # None /\ task[e].worker = w THEN None ELSE task[e]]
    /\ cache' = [cache EXCEPT ![w] = << >>]
    /\ UNCHANGED <<users, rights, screen, row, last, file, txn>>

-----------------------------------------------------------------------------
(***************************************************************************)
(* Deleting what is over, and what belonged to a user.                     *)
(***************************************************************************)
\* read_export of an expired export: 410, and the file goes.
ReadExpired(e) ==
    /\ Exists(e) /\ Over(e) /\ row[e].user \in users
    /\ file' = file \ {e}
    /\ UNCHANGED <<cacheVars, row, last, task, txn>>

\* Rows to delete, and the files a transaction removes before it does.
Opens(r, op, u, rows) ==
    /\ txn[r] = Idle
    /\ txn' = [txn EXCEPT ![r] = [op |-> op, user |-> u, queue |-> rows,
                                  files |-> {e \in rows : row[e].named}]]
    /\ UNCHANGED <<cacheVars, exportVars>>

PurgeRead_WithFile(r) ==
    LET over == {e \in Exports : Exists(e) /\ Over(e) /\ e \in file}
    IN  over # {} /\ Opens(r, "purge", None, over)

PurgeRead_ByCreation(r) ==
    LET over == {e \in Exports : Exists(e) /\ row[e].made > STALE}
    IN  over # {} /\ Opens(r, "purge", None, over)

\* purge: the expired exports.
PurgeRead(r) ==
    LET over == {e \in Exports : Exists(e) /\ Over(e)}
    IN  over # {} /\ Opens(r, "purge", None, over)

\* delete_user and delete_for_user: the user's exports.
LeaveRead(r, u) ==
    /\ u \in users
    /\ Opens(r, "leave", u, {e \in Exports : Exists(e) /\ row[e].user = u})

\* _delete, one file of the list.
DeleteFile(r, e) ==
    /\ txn[r].op # "idle" /\ e \in txn[r].files
    /\ file' = file \ {e}
    /\ txn' = [txn EXCEPT ![r].files = @ \ {e}]
    /\ UNCHANGED <<cacheVars, row, last, task>>

Without(rows) == [e \in Exports |-> IF e \in rows THEN None ELSE row[e]]

PurgeCommit(r) ==
    /\ txn[r].op = "purge" /\ txn[r].files = {}
    /\ row' = Without(txn[r].queue)
    /\ Ends(r)
    /\ UNCHANGED <<cacheVars, last, file, task>>

\* An export the user started since the list was read keeps the user: the
\* foreign key refuses, everything rolls back but the files.
LeaveCommit(r) ==
    LET u == txn[r].user
        left == {e \in Exports \ txn[r].queue : Exists(e) /\ row[e].user = u}
    IN  /\ txn[r].op = "leave" /\ txn[r].files = {}
        /\ IF left = {}
           THEN /\ row' = Without(txn[r].queue)
                /\ users' = users \ {u}
                /\ rights' = [rights EXCEPT ![u] = {}]
           ELSE UNCHANGED <<row, users, rights>>
        /\ Ends(r)
        /\ UNCHANGED <<cache, screen, last, file, task>>

\* The request or the job dies between two files, or before its commit.
GiveUp(r) ==
    /\ txn[r] # Idle
    /\ Ends(r)
    /\ UNCHANGED <<cacheVars, exportVars>>

-----------------------------------------------------------------------------
Tick ==
    /\ AgeCopies
    /\ row' = [e \in Exports |->
                  IF Exists(e)
                  THEN [row[e] EXCEPT !.made = Older(@, STALE + 1),
                                      !.done = IF @ = None THEN None ELSE Older(@, EXPIRY)]
                  ELSE None]
    /\ UNCHANGED <<last, file, task, txn>>

Init ==
    /\ CacheInit
    /\ row = [e \in Exports |-> None]
    /\ last = 0
    /\ file = {}
    /\ task = [e \in Exports |-> None]
    /\ txn = [r \in Requests |-> Idle]

Reads == CacheNext /\ UNCHANGED <<exportVars, txn>>

Run ==
    \/ \E u \in Users, w \in Workers : StartBackground(u, w)
    \/ \E e \in Exports : RunBegin(e)
    \/ \E e \in Exports : RunBuild(e)
    \/ \E e \in Exports : RunSave(e)
    \/ \E e \in Exports : RunFail(e)
    \/ \E e \in Exports : RunCommit(e)
    \/ \E w \in Workers : Crash(w)

Clear ==
    \/ \E e \in Exports : ReadExpired(e)
    \/ \E r \in Requests : PurgeRead(r)
    \/ \E r \in Requests, u \in Users : LeaveRead(r, u)
    \/ \E r \in Requests, e \in Exports : DeleteFile(r, e)
    \/ \E r \in Requests : PurgeCommit(r)
    \/ \E r \in Requests : LeaveCommit(r)
    \/ \E r \in Requests : GiveUp(r)

Next == Reads \/ Run \/ Clear \/ Tick

(***************************************************************************)
(* Time passes; the hourly purge starts when it can start again and again, *)
(* and is not killed every time it starts.  Nothing is asked of the tasks: *)
(* a worker may die whenever it likes.                                     *)
(***************************************************************************)
Fairness ==
    /\ WF_vars(Tick)
    /\ \A r \in Requests :
          /\ SF_vars(PurgeRead(r))
          /\ <>[](txn[r].op # "purge") \/ []<><<PurgeCommit(r)>>_vars
          /\ WF_vars(LeaveCommit(r) \/ GiveUp(r))

Spec == Init /\ [][Next]_vars /\ Fairness

-----------------------------------------------------------------------------
(***************************************************************************)
(* Properties.                                                             *)
(***************************************************************************)
\* An export offered for download has its file until it expires, whatever
\* dies or is purged meanwhile; only deleting its owner takes the file away
\* first (FR-054).
DownloadableUntilExpiry ==
    [][\A e \in Exports : Downloadable(e)' =>
          \/ e \in file'
          \/ Downloadable(e) /\ e \notin file
          \/ \E r \in Requests : txn[r].op = "leave" /\ DeleteFile(r, e)]_vars

\* A run whose worker died shows as failed in the end, so its owner does not
\* wait for it for ever (status_of, research R12).
LostRunShowsFailed ==
    \A e \in Exports :
        (Exists(e) /\ row[e].status = "RUNNING" /\ task[e] = None)
        ~> (~ Exists(e) \/ Shown(e) = "FAILED")

\* An expired export does not stay: its row and its file are deleted, also
\* when a purge dies half way or its owner's reading took the file first.  Only
\* a user deleted while the export was running leaves its file behind: the
\* deletion read the row before it had a name (jobs/purge_exports, FR-054).
ExpiredIsDeleted ==
    \A e \in Exports, u \in Users :
        (Exists(e) /\ Over(e) /\ row[e].user = u)
        ~> (~ Exists(e) /\ (e \notin file \/ u \notin users))
=============================================================================
