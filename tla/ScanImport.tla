----------------------------- MODULE ScanImport -----------------------------
(***************************************************************************)
(* The manual scan-import protocol of miramedia/imports.                   *)
(*                                                                         *)
(* A library scan leaves one row per directory in scan_result_cache.  An   *)
(* API request claims a row under a fresh claim token and hands it to a    *)
(* background worker through a broker; the worker marks the row as         *)
(* started, imports the directory (minutes of file copying with no         *)
(* database session held) and writes a terminal status back.  Two          *)
(* reclaimers return rows whose message was lost or whose worker died.     *)
(* Meanwhile a rescan, "ignore" and "clear cache" rewrite the same table.  *)
(*                                                                         *)
(* Every UPDATE of the code is one committed transaction, so it is one     *)
(* step here; what the code does between transactions interleaves.         *)
(* Timestamps are abstracted to what the code asks of them: missing,       *)
(* unparseable, within the grace interval, or older than it.  The media    *)
(* type of a request always equals the claimed row's hint (the claim       *)
(* checks it) and is left out.  import_batch.total, which the same          *)
(* transactions maintain, is the subject of ImportBatch.                   *)
(***************************************************************************)

CONSTANTS
    Dirs,       \* directories below the library roots
    Tokens,     \* claim tokens; one per successful claim, so also the bound on claims
    Workers,    \* concurrent executions of resolve_import_task
    Sweepers,   \* who runs reclaim passes: the cron job, and each starting process
    Cron,       \* the cron job
    None,       \* no claim token, no directory, no imported media
    ByScan      \* imported_media_id written by the scan's own auto-import

ASSUME ScanImportAssumption ==
    /\ None \notin Tokens \cup Dirs
    /\ ByScan \notin Tokens
    /\ None # ByScan
    /\ Cron \in Sweepers

VARIABLES
    cache,      \* scan_result_cache, by directory
    ignored,    \* ignored_import_path
    ignoring,   \* directories whose ignore request is between its two commits
    handler,    \* the API request that owns each claim
    msgs,       \* resolve_import_task messages in the broker
    worker,     \* the running resolve_import_task executions
    sweep,      \* the reclaim passes: their positions and their SELECTed rows
    scan,       \* the scan that holds _SCAN_LOCK
    copied      \* history: <<directory, token>> of the imports that succeeded on disk

jobVars    == <<handler, msgs, worker, copied>>
ignoreVars == <<ignored, ignoring>>
vars == <<cache, ignored, ignoring, handler, msgs, worker, sweep, scan, copied>>

-----------------------------------------------------------------------------
(* Rows *)

Stamp  == {"null", "bad", "fresh", "stale"}
Status == {"absent", "pending", "queued", "imported", "failed"}

Row == [status   : Status,
        tok      : Tokens \cup {None},
        queuedAt : Stamp,
        started  : Stamp,
        media    : Tokens \cup {None, ByScan}]

\* A row without claim_token, queued_at and worker_started_at.
Plain(s, m) == [status |-> s, tok |-> None, queuedAt |-> "null",
                started |-> "null", media |-> m]

Absent == Plain("absent", None)
\* Mutant: a reclaimed or failed row gets a status the schema does not know.
FailedMisspelt == Plain("error", None)

Failed == Plain("failed", None)

\* A row under a fresh claim, and a row with one of its stamps renewed.
Claimed(t) == [status |-> "queued", tok |-> t, queuedAt |-> "fresh",
               started |-> "null", media |-> None]

WithQueuedAt(r, at) == [r EXCEPT !.queuedAt = at]
WithStarted(r, at)  == [r EXCEPT !.started = at]

\* Rows an older release may have left queued: no token, and timestamps that
\* are missing or do not parse.
LegacyRows == {[status |-> "queued", tok |-> None, queuedAt |-> "null",
                started |-> s, media |-> None] : s \in {"null", "bad"}}

QueuedIn(c) == {d \in Dirs : c[d].status = "queued"}

Terminal == {"imported", "failed"}

-----------------------------------------------------------------------------
(* The API: claim, dispatch, compensate *)

Message == [dir : Dirs, tok : Tokens]

\* claim_scan_cache_row: pending/failed -> queued under a fresh token.
Claimable(r) == r.status \in {"pending", "failed"}

Claim(d, t) ==
    /\ handler[t].pc = "unused"
    /\ Claimable(cache[d])
    /\ cache' = [cache EXCEPT ![d] = Claimed(t)]
    /\ handler' = [handler EXCEPT ![t] = [pc |-> "claimed", dir |-> d]]
    /\ UNCHANGED <<ignoreVars, msgs, worker, sweep, scan, copied>>

\* resolve_import_task.kiq returns.
Dispatch(t) ==
    /\ handler[t].pc = "claimed"
    /\ msgs' = msgs \cup {[dir |-> handler[t].dir, tok |-> t]}
    /\ handler' = [handler EXCEPT ![t].pc = "done"]
    /\ UNCHANGED <<cache, ignoreVars, worker, sweep, scan, copied>>

\* resolve_import_task.kiq raises; the message may be in the broker all the same.
DispatchFails(t) ==
    /\ handler[t].pc = "claimed"
    /\ msgs' \in {msgs, msgs \cup {[dir |-> handler[t].dir, tok |-> t]}}
    /\ handler' = [handler EXCEPT ![t].pc = "compensating"]
    /\ UNCHANGED <<cache, ignoreVars, worker, sweep, scan, copied>>

\* Mutant: the compensation does not look at worker_started_at.
CompensableStarted(r, t) == r.status = "queued" /\ r.tok = t

\* COMPENSATE_SCAN_CACHE_CLAIM_SQL matches this row.
Compensable(r, t) == r.status = "queued" /\ r.tok = t /\ r.started = "null"

Compensate(t) ==
    LET d == handler[t].dir
    IN  /\ handler[t].pc = "compensating"
        /\ cache' = IF Compensable(cache[d], t)
                    THEN [cache EXCEPT ![d] = Failed]
                    ELSE cache
        /\ handler' = [handler EXCEPT ![t].pc = "done"]
        /\ UNCHANGED <<ignoreVars, msgs, worker, sweep, scan, copied>>

\* The request dies between the claim and its end: its process is killed, or
\* the compensation itself raises.
HandlerAbort(t) ==
    /\ handler[t].pc \in {"claimed", "compensating"}
    /\ handler' = [handler EXCEPT ![t].pc = "done"]
    /\ UNCHANGED <<cache, ignoreVars, msgs, worker, sweep, scan, copied>>

-----------------------------------------------------------------------------
(* The worker: resolve_import_task and ImportsService._resolve_scan *)

Idle == [pc |-> "idle", dir |-> None, tok |-> None]

\* Mutant: every delivery with the right token begins.
BeginnableTwice(r, t) == r.status = "queued" /\ r.tok = t

\* BEGIN_MANUAL_SCAN_WORKER_SQL matches this row.
Beginnable(r, t) == r.status = "queued" /\ r.tok = t /\ r.started = "null"

\* A delivery.  The broker may deliver the message again (it stays in msgs);
\* a duplicate or stale delivery returns without touching anything.
Deliver(w, m) ==
    /\ worker[w].pc = "idle"
    /\ msgs' \in {msgs, msgs \ {m}}
    /\ IF Beginnable(cache[m.dir], m.tok)
       THEN /\ cache' = [cache EXCEPT ![m.dir] = WithStarted(@, "fresh")]
            /\ worker' = [worker EXCEPT ![w] = [pc |-> "began", dir |-> m.dir,
                                                tok |-> m.tok]]
       ELSE UNCHANGED <<cache, worker>>
    /\ UNCHANGED <<ignoreVars, handler, sweep, scan, copied>>

\* The broker deletes a message as it hands it out; if the receiver dies the
\* message is gone.
LoseMessage(m) ==
    /\ msgs' = msgs \ {m}
    /\ UNCHANGED <<cache, ignoreVars, handler, worker, sweep, scan, copied>>

Goto(w, pc) == worker' = [worker EXCEPT ![w].pc = pc]

\* _resolve_scan re-reads the row before it releases its session.
Owned(r, t) == r.status = "queued" /\ r.tok = t /\ r.started # "null"

Validate(w) ==
    /\ worker[w].pc = "began"
    /\ Goto(w, IF Owned(cache[worker[w].dir], worker[w].tok) THEN "copying" ELSE "except")
    /\ UNCHANGED <<cache, ignoreVars, handler, msgs, sweep, scan, copied>>

\* import_*_from_directory returns True.
CopyOk(w) ==
    /\ worker[w].pc = "copying"
    /\ copied' = copied \cup {<<worker[w].dir, worker[w].tok>>}
    /\ Goto(w, "copied")
    /\ UNCHANGED <<cache, ignoreVars, handler, msgs, sweep, scan>>

\* FAIL_MANUAL_SCAN_IMPORT_SQL and COMPLETE_MANUAL_SCAN_IMPORT_SQL match this row.
Finishable(r, t) == r.status = "queued" /\ r.tok = t /\ r.started # "null"

\* Mutant: the failure write is unconditional, as in mark_scan_cache_failed.
FailUnconditionally(d, t) == cache' = [cache EXCEPT ![d] = Failed]

\* fail_manual_scan_import
FailManual(d, t) ==
    cache' = IF Finishable(cache[d], t)
             THEN [cache EXCEPT ![d] = Failed]
             ELSE cache

\* Mutant: the result of import_*_from_directory is not looked at.
CopyResultIgnored(w) ==
    /\ worker[w].pc = "copying"
    /\ Goto(w, "copied")
    /\ UNCHANGED <<cache, ignoreVars, handler, msgs, sweep, scan, copied>>

\* The import returns False, or the metadata provider raises ValueError: the
\* row fails at once, and the exception then reaches the task's handler.
CopyNotOk(w) ==
    /\ worker[w].pc = "copying"
    /\ FailManual(worker[w].dir, worker[w].tok)
    /\ Goto(w, "except")
    /\ UNCHANGED <<ignoreVars, handler, msgs, sweep, scan, copied>>

\* Any other exception of the import, and a database error of the reads and
\* writes around it, that of complete_manual_scan_import included.
ResolveRaises(w) ==
    /\ worker[w].pc \in {"began", "copying", "copied"}
    /\ Goto(w, "except")
    /\ UNCHANGED <<cache, ignoreVars, handler, msgs, sweep, scan, copied>>

\* complete_manual_scan_import; a lost claim raises ConflictError.
Complete(w) ==
    LET d == worker[w].dir
        t == worker[w].tok
    IN  /\ worker[w].pc = "copied"
        /\ IF Finishable(cache[d], t)
           THEN /\ cache' = [cache EXCEPT ![d] = Plain("imported", t)]
                /\ Goto(w, "followup")
           ELSE UNCHANGED cache /\ Goto(w, "except")
        /\ UNCHANGED <<ignoreVars, handler, msgs, sweep, scan, copied>>

\* run_post_import_completion returns or raises.
Followup(w) ==
    /\ worker[w].pc = "followup"
    /\ \/ worker' = [worker EXCEPT ![w] = Idle]
       \/ Goto(w, "except")
    /\ UNCHANGED <<cache, ignoreVars, handler, msgs, sweep, scan, copied>>

\* The except clause of resolve_import_task.
TaskExcept(w) ==
    /\ worker[w].pc = "except"
    /\ FailManual(worker[w].dir, worker[w].tok)
    /\ worker' = [worker EXCEPT ![w] = Idle]
    /\ UNCHANGED <<ignoreVars, handler, msgs, sweep, scan, copied>>

\* The worker's process dies, or the write of TaskExcept raises.
WorkerAbort(w) ==
    /\ worker[w].pc # "idle"
    /\ worker' = [worker EXCEPT ![w] = Idle]
    /\ UNCHANGED <<cache, ignoreVars, handler, msgs, sweep, scan, copied>>

-----------------------------------------------------------------------------
(* Time and the reclaimers *)

\* STALE_QUEUED_IMPORT_GRACE passes since queued_at.
AgeQueued(d) ==
    /\ cache[d].queuedAt = "fresh"
    /\ cache' = [cache EXCEPT ![d] = WithQueuedAt(@, "stale")]
    /\ UNCHANGED <<ignoreVars, jobVars, sweep, scan>>

\* STALLED_WORKER_GRACE passes since worker_started_at.
AgeStarted(d) ==
    /\ cache[d].started = "fresh"
    /\ cache' = [cache EXCEPT ![d] = WithStarted(@, "stale")]
    /\ UNCHANGED <<ignoreVars, jobVars, sweep, scan>>

NoSweep == [pc |-> "idle", rows |-> {}]

\* A SELECTed row; the UPDATE compares the row with these values.
SnapRow == [dir : Dirs, tok : Tokens \cup {None}, at : Stamp]

\* A pass is reclaim_stale_queued_imports, then reclaim_stalled_worker_imports.
\* SELECT_QUEUED_IMPORT_SNAPSHOT_SQL, keeping the rows the pass acts on; a half
\* without such rows ends at once.
SweepQueuedSelect(p) ==
    LET rows == {[dir |-> d, tok |-> cache[d].tok, at |-> cache[d].queuedAt] :
                   d \in {e \in QueuedIn(cache) : /\ cache[e].started = "null"
                                                  /\ cache[e].queuedAt # "fresh"}}
    IN  /\ sweep[p].pc = "idle"
        /\ sweep' = [sweep EXCEPT ![p] = [pc   |-> IF rows = {} THEN "between" ELSE "queued",
                                          rows |-> rows]]
        /\ UNCHANGED <<cache, ignoreVars, jobVars, scan>>

\* Mutant: claim_token = NULL instead of IS NULL, which no legacy row matches.
QueuedMatchNull(r, s) ==
    /\ r.status = "queued" /\ r.started = "null" /\ r.queuedAt = s.at
    /\ r.tok = s.tok /\ r.tok # None

\* RECLAIM_STALE_QUEUED_IMPORT_SQL: still queued, unstarted, same stamp and token.
QueuedMatch(r, s) ==
    r.status = "queued" /\ r.started = "null" /\ r.queuedAt = s.at /\ r.tok = s.tok

\* STAMP_LEGACY_QUEUED_AT_SQL
QueuedStampMatch(r, s) == r.status = "queued" /\ r.started = "null" /\ r.queuedAt = s.at

\* The UPDATE half of a pass, one transaction: unparseable stamps are renewed
\* and rows older than the grace fail.
SweepQueuedUpdate(p) ==
    LET odd  == {s.dir : s \in {x \in sweep[p].rows :
                     x.at # "stale" /\ QueuedStampMatch(cache[x.dir], x)}}
        dead == {s.dir : s \in {x \in sweep[p].rows :
                     x.at = "stale" /\ QueuedMatch(cache[x.dir], x)}}
    IN  /\ sweep[p].pc = "queued"
        /\ cache' = [d \in Dirs |->
                       IF d \in dead THEN Failed
                       ELSE IF d \in odd THEN WithQueuedAt(cache[d], "fresh")
                       ELSE cache[d]]
        /\ sweep' = [sweep EXCEPT ![p] = [NoSweep EXCEPT !.pc = "between"]]
        /\ UNCHANGED <<ignoreVars, jobVars, scan>>

\* SELECT_STARTED_IMPORT_SNAPSHOT_SQL
SweepStartedSelect(p) ==
    LET rows == {[dir |-> d, tok |-> cache[d].tok, at |-> cache[d].started] :
                   d \in {e \in QueuedIn(cache) : cache[e].started \in {"bad", "stale"}}}
    IN  /\ sweep[p].pc = "between"
        /\ sweep' = [sweep EXCEPT ![p] = [pc   |-> IF rows = {} THEN "idle" ELSE "started",
                                          rows |-> rows]]
        /\ UNCHANGED <<cache, ignoreVars, jobVars, scan>>

\* RECLAIM_STALLED_WORKER_IMPORT_SQL
StartedMatch(r, s) == r.status = "queued" /\ r.started = s.at /\ r.tok = s.tok

\* STAMP_LEGACY_WORKER_STARTED_AT_SQL
StartedStampMatch(r, s) == r.status = "queued" /\ r.started = s.at

SweepStartedUpdate(p) ==
    LET odd  == {s.dir : s \in {x \in sweep[p].rows :
                     x.at # "stale" /\ StartedStampMatch(cache[x.dir], x)}}
        dead == {s.dir : s \in {x \in sweep[p].rows :
                     x.at = "stale" /\ StartedMatch(cache[x.dir], x)}}
    IN  /\ sweep[p].pc = "started"
        /\ cache' = [d \in Dirs |->
                       IF d \in dead THEN Failed
                       ELSE IF d \in odd THEN WithStarted(cache[d], "fresh")
                       ELSE cache[d]]
        /\ sweep' = [sweep EXCEPT ![p] = NoSweep]
        /\ UNCHANGED <<ignoreVars, jobVars, scan>>

\* A statement raises and the transaction rolls back, or the process dies; the
\* second half of a pass does not run after a failure of the first.
SweepAbort(p) ==
    /\ sweep[p].pc # "idle"
    /\ sweep' = [sweep EXCEPT ![p] = NoSweep]
    /\ UNCHANGED <<cache, ignoreVars, jobVars, scan>>

-----------------------------------------------------------------------------
(* Library scans: _scan_and_cache_body, whose starts ScanRun models *)

NoRows == [d \in Dirs |-> Absent]

NoScan == [pc |-> "idle", ignored |-> {}, todo |-> {}, pairs |-> NoRows]

\* A scan takes _SCAN_LOCK and reads the ignored paths.
ScanBegin ==
    /\ scan.pc = "idle"
    /\ scan' = [NoScan EXCEPT !.pc = "walk", !.ignored = ignored]
    /\ UNCHANGED <<cache, ignoreVars, jobVars, sweep>>

\* The terminal rows that the scan does not surface again are carried over.
Carried(active) ==
    [d \in Dirs |-> IF cache[d].status \in Terminal /\ d \notin active
                    THEN cache[d] ELSE Absent]

\* Phases 2 and 3.  The walk surfaces some directories outside the ignored;
\* list_terminal_scan_cache reads the finished rows; an imported directory
\* whose media and files are unchanged is still resolved and not surfaced.
ScanReadTerminal ==
    /\ scan.pc = "walk"
    /\ \E active \in SUBSET (Dirs \ scan.ignored) :
          scan' = [NoScan EXCEPT !.pc = "import", !.todo = active, !.pairs = Carried(active)]
    /\ UNCHANGED <<cache, ignoreVars, jobVars, sweep>>

\* Phase 4: one item is auto-imported, fails to, or is left for the user.
ScanItem(d) ==
    /\ scan.pc = "import"
    /\ d \in scan.todo
    /\ \E r \in {Plain("pending", None), Failed, Plain("imported", ByScan)} :
          scan' = [scan EXCEPT !.todo = @ \ {d}, !.pairs = [@ EXCEPT ![d] = r]]
    /\ UNCHANGED <<cache, ignoreVars, jobVars, sweep>>

\* Phase 5: replace_scan_cache deletes every row and inserts the pairs.
ScanWriteback ==
    /\ scan.pc = "import"
    /\ scan.todo = {}
    /\ cache' = scan.pairs
    /\ scan' = NoScan
    /\ UNCHANGED <<ignoreVars, jobVars, sweep>>

\* A phase raises, or the process dies.
ScanAbort ==
    /\ scan.pc # "idle"
    /\ scan' = NoScan
    /\ UNCHANGED <<cache, ignoreVars, jobVars, sweep>>

\* ImportsService.ignore for a scan row: add_ignored_path commits ...
IgnoreAdd(d) ==
    /\ d \notin ignoring
    /\ ignored' = ignored \cup {d}
    /\ ignoring' = ignoring \cup {d}
    /\ UNCHANGED <<cache, jobVars, sweep, scan>>

\* ... and then delete_scan_cache_entry.
IgnoreDelete(d) ==
    /\ d \in ignoring
    /\ cache' = [cache EXCEPT ![d] = Absent]
    /\ ignoring' = ignoring \ {d}
    /\ UNCHANGED <<ignored, jobVars, sweep, scan>>

\* The request dies between the two.
IgnoreAbort(d) ==
    /\ d \in ignoring
    /\ ignoring' = ignoring \ {d}
    /\ UNCHANGED <<cache, ignored, jobVars, sweep, scan>>

\* DELETE /scan/cache: replace_scan_cache([]).
ClearCache ==
    /\ cache' = [d \in Dirs |-> Absent]
    /\ UNCHANGED <<ignoreVars, jobVars, sweep, scan>>

-----------------------------------------------------------------------------
Init ==
    /\ cache \in [Dirs -> {Plain("pending", None)} \cup LegacyRows]
    /\ ignored = {}
    /\ ignoring = {}
    /\ handler = [t \in Tokens |-> [pc |-> "unused", dir |-> None]]
    /\ msgs = {}
    /\ worker = [w \in Workers |-> Idle]
    /\ sweep = [p \in Sweepers |-> NoSweep]
    /\ scan = NoScan
    /\ copied = {}

ApiStep(t) ==
    \/ \E d \in Dirs : Claim(d, t)
    \/ Dispatch(t)
    \/ DispatchFails(t)
    \/ Compensate(t)
    \/ HandlerAbort(t)

WorkerStep(w) ==
    \/ \E m \in msgs : Deliver(w, m)
    \/ Validate(w)
    \/ CopyOk(w)
    \/ CopyNotOk(w)
    \/ ResolveRaises(w)
    \/ Complete(w)
    \/ Followup(w)
    \/ TaskExcept(w)
    \/ WorkerAbort(w)

SweepStep(p) ==
    \/ SweepQueuedSelect(p)
    \/ SweepQueuedUpdate(p)
    \/ SweepStartedSelect(p)
    \/ SweepStartedUpdate(p)

ScanStep ==
    \/ ScanBegin
    \/ ScanReadTerminal
    \/ \E d \in Dirs : ScanItem(d)
    \/ ScanWriteback
    \/ ScanAbort

RowStep(d) ==
    \/ AgeQueued(d)
    \/ AgeStarted(d)
    \/ IgnoreAdd(d)
    \/ IgnoreDelete(d)
    \/ IgnoreAbort(d)

Next ==
    \/ \E t \in Tokens : ApiStep(t)
    \/ \E m \in msgs : LoseMessage(m)
    \/ \E w \in Workers : WorkerStep(w)
    \/ \E d \in Dirs : RowStep(d)
    \/ \E p \in Sweepers : SweepStep(p) \/ SweepAbort(p)
    \/ ScanStep
    \/ ClearCache

Spec == Init /\ [][Next]_vars

\* Time passes, and cron runs reclaim_stale_queued_imports_task every ten
\* minutes; its transactions do not fail for ever.  Requests, deliveries,
\* workers and scans get no fairness: any of them may die or never come.
Fairness ==
    /\ \A d \in Dirs : WF_vars(AgeQueued(d)) /\ WF_vars(AgeStarted(d))
    /\ WF_vars(SweepQueuedSelect(Cron))
    /\ SF_vars(SweepQueuedUpdate(Cron))
    /\ SF_vars(SweepStartedSelect(Cron))
    /\ SF_vars(SweepStartedUpdate(Cron))

FairSpec == Spec /\ Fairness

-----------------------------------------------------------------------------
(* Properties *)

\* Every variable has its type.
TypeOK ==
    /\ cache \in [Dirs -> Row]
    /\ ignored \in SUBSET Dirs
    /\ ignoring \in SUBSET Dirs
    /\ handler \in [Tokens -> [pc  : {"unused", "claimed", "compensating", "done"},
                               dir : Dirs \cup {None}]]
    /\ \A t \in Tokens : handler[t].pc # "unused" => handler[t].dir \in Dirs
    /\ msgs \in SUBSET Message
    /\ worker \in [Workers -> [pc  : {"idle", "began", "copying", "copied",
                                      "followup", "except"},
                               dir : Dirs \cup {None},
                               tok : Tokens \cup {None}]]
    /\ \A w \in Workers : worker[w].pc # "idle" => worker[w].dir \in Dirs /\ worker[w].tok \in Tokens
    /\ sweep \in [Sweepers -> [pc   : {"idle", "queued", "between", "started"},
                               rows : SUBSET SnapRow]]
    /\ scan \in [pc : {"idle", "walk", "import"}, ignored : SUBSET Dirs,
                 todo : SUBSET Dirs, pairs : [Dirs -> Row]]
    /\ copied \in SUBSET (Dirs \X Tokens)

\* Holding(w, d, t): worker w executes the claim t on directory d.
Holding(w, d, t) == worker[w].pc # "idle" /\ worker[w].dir = d /\ worker[w].tok = t

\* However often a message is delivered, at most one execution of
\* resolve_import_task gets past begin_manual_scan_worker under one claim.
SingleWorkerPerClaim ==
    \A v, w \in Workers :
        worker[v].pc # "idle" /\ worker[w].pc # "idle" /\ worker[v].tok = worker[w].tok
            => v = w

\* A claim mutates the library at most once: once its import succeeded on disk,
\* no late or repeated delivery of its message imports the directory again.
ImportedOncePerClaim ==
    [][\A w \in Workers : worker[w].pc = "copying" /\ worker'[w].pc = "copied"
          => <<worker[w].dir, worker[w].tok>> \notin copied]_vars

\* A row that says imported by a user's claim stands for an import of that very
\* directory, under that claim, that succeeded on disk; also when the row went
\* through a rescan's carry-over.
ImportedRowsAreReal ==
    \A d \in Dirs : cache[d].status = "imported" /\ cache[d].media # ByScan
                       => <<d, cache[d].media>> \in copied

\* Only the holder of the current claim writes imported: a worker that lost its
\* row to a reclaim, a rescan or an ignore cannot finish somebody else's claim.
OnlyOwnerImports ==
    [][\A d \in Dirs : cache[d].status = "queued" /\ cache'[d].status = "imported"
                            /\ cache'[d].media # ByScan
          => cache'[d].media = cache[d].tok]_vars

\* Within the grace intervals nobody but the worker itself fails the row of a
\* running import: not the reclaimers acting on an old SELECT, not the
\* compensation of a dispatch that failed after the message was out, not an
\* earlier claim's worker.
LiveImportNotFailed ==
    [][\A d \in Dirs, w \in Workers :
          /\ Holding(w, d, cache[d].tok)
          /\ cache[d].status = "queued"
          /\ cache[d].started = "fresh"
          /\ cache'[d].status = "failed"
          /\ scan' = scan
          => worker'[w] # worker[w]]_vars

\* A finished row stays finished: the exception of a follow-up, a late worker or
\* a reclaimer never turns imported back into failed (a rescan may).
ImportedNotFailedLater ==
    [][\A d \in Dirs : cache[d].status = "imported" /\ scan' = scan
          => cache'[d].status # "failed"]_vars

\* No claim is stuck: whatever is lost or dies, a queued row, a legacy one
\* included, eventually leaves that claim.
ClaimsResolve ==
    \A d \in Dirs : \A t \in Tokens \cup {None} :
        (cache[d].status = "queued" /\ cache[d].tok = t)
            ~> ~(cache[d].status = "queued" /\ cache[d].tok = t)

\* The grace is there so that a live copy is never displaced: a row whose worker
\* started within the grace and still copies does not become claimable unless
\* by that worker.
LiveCopyNotDisplaced ==
    [][\A d \in Dirs, w \in Workers :
          /\ Holding(w, d, cache[d].tok)
          /\ worker[w].pc = "copying"
          /\ cache[d].started = "fresh"
          /\ cache'[d].status \in {"pending", "failed"}
          => worker'[w] # worker[w]]_vars

\* Finished and needs-attention rows do not vanish in a rescan.
TerminalRowsSurviveRescan ==
    [][\A d \in Dirs : cache[d].status \in Terminal /\ scan.pc = "import" /\ scan' # scan
          => cache'[d].status # "absent"]_vars

=============================================================================
