----------------------------- MODULE ImportQueue -----------------------------
(***************************************************************************)
(* The import-queue index, the SQL table behind the imports page, and the  *)
(* fire-and-forget hooks that keep it in step with the torrents, scan      *)
(* rows, history and integrity records it is projected from.               *)
(*                                                                         *)
(* A change of one reference is followed by a debounced incremental flush, *)
(* a bulk change by a debounced full rebuild, and a reader that finds the  *)
(* index empty rebuilds it as well.  All three run on one event loop: a    *)
(* step below is the code between two awaits.                              *)
(***************************************************************************)
EXTENDS Naturals, FiniteSets

CONSTANTS Refs,        \* the references (kind, ref_id) of the index
          Media,       \* the "media" references, written by a completion
          MaxChanges,  \* bound on the changes of the sources
          MaxFails     \* bound on the database errors

ASSUME QueueAssumption == MaxChanges \in Nat /\ MaxFails \in Nat

QueueItems == {"gone", "review", "done"}

\* The rows of an item, one per tab that shows it.
Tabs(v) == CASE v = "gone" -> {}
             [] v = "review" -> {"review", "all"}
             [] v = "done" -> {"done", "all"}

NoEntries == [r \in Refs |-> "gone"]

Rebuilders == {"hook", "reader"}

VARIABLES
  qSource,   \* [Refs -> QueueItems]: what the rest of the database says
  qIndex,    \* [Refs -> SUBSET tabs]: the rows of import_queue_item
  qPending,  \* _pending_refs and _pending_completions
  qInc,      \* _incremental_debounce: none, new, waiting or flushing
  qIncRerun, \* _incremental_rerun
  qTodo,     \* the references the running flush has yet to sync
  qGot,      \* the item it has built and not written: {} or one <<ref, item>>
  qReb,      \* _rebuild_debounce: none, new, waiting or running
  qRebRerun, \* _rerun_requested
  qRb,       \* [Rebuilders -> pc of rebuild_import_queue]
  qItems,    \* [Rebuilders -> the items collected]
  qBuilt,    \* _queue_built_at is younger than _QUEUE_BUILT_TTL
  qUnread,   \* history: the changes nobody has read since they were made
  qLost,     \* history: the references whose sync ended in an exception
  qChanges, qFails

qHooks == <<qPending, qInc, qIncRerun, qReb, qRebRerun>>
qWork == <<qTodo, qGot, qRb, qItems, qBuilt>>
qHist == <<qUnread, qLost, qChanges, qFails>>
qVars == <<qSource, qIndex, qHooks, qWork, qHist>>

QueueInit ==
  /\ qSource = NoEntries
  /\ qIndex = [r \in Refs |-> {}]
  /\ qPending = {} /\ qInc = "none" /\ qIncRerun = FALSE
  /\ qTodo = {} /\ qGot = {}
  /\ qReb = "none" /\ qRebRerun = FALSE
  /\ qRb = [w \in Rebuilders |-> "idle"]
  /\ qItems = [w \in Rebuilders |-> NoEntries]
  /\ qBuilt = FALSE
  /\ qUnread = {} /\ qLost = {}
  /\ qChanges = 0 /\ qFails = 0

(***************************************************************************)
(* Scheduling.  A sleeping (or not yet started) flush is cancelled and a   *)
(* new one created; a running one is asked to run again.  A rebuild is     *)
(* cancelled only while it sleeps: one that is created and not started is  *)
(* asked to run again, like one that runs.                                 *)
(***************************************************************************)
\* Forgets to ask a running flush to run again.
FlushRequestedOnce(refs) ==
  /\ qPending' = qPending \cup refs
  /\ qInc' = IF qInc = "flushing" THEN qInc ELSE "new"
  /\ UNCHANGED qIncRerun

FlushRequested(refs) ==
  /\ qPending' = qPending \cup refs
  /\ IF qInc = "flushing"
     THEN qIncRerun' = TRUE /\ qInc' = qInc
     ELSE qInc' = "new" /\ UNCHANGED qIncRerun

ScheduleFlush(refs) == FlushRequested(refs) /\ UNCHANGED <<qReb, qRebRerun>>

ScheduleRebuild ==
  /\ IF qReb \in {"new", "running"}
     THEN qRebRerun' = TRUE /\ qReb' = qReb
     ELSE qReb' = "new" /\ UNCHANGED qRebRerun
  /\ UNCHANGED <<qPending, qInc, qIncRerun>>

Changed(new) ==
  /\ qChanges < MaxChanges
  /\ qChanges' = qChanges + 1
  /\ qSource' = new
  /\ qUnread' = qUnread \cup {r \in Refs : new[r] # qSource[r]}
  /\ UNCHANGED <<qIndex, qWork, qLost, qFails>>

\* A write of one torrent, scan row or integrity record, then its schedule_*.
ChangeOne(r, v) ==
  /\ r \notin Media /\ v # qSource[r]
  /\ Changed([qSource EXCEPT ![r] = v])
  /\ ScheduleFlush({r})

\* A finished import: the torrent leaves the queue, its history enters it.
Complete(r, m) ==
  /\ r \notin Media /\ m \in Media /\ qSource[r] # "gone"
  /\ Changed([qSource EXCEPT ![r] = "gone", ![m] = "done"])
  /\ ScheduleFlush({r, m})

\* replace_scan_cache and the integrity audit: several references at once.
ChangeBulk(v) ==
  /\ \E r \in Refs \ Media : qSource[r] # v
  /\ Changed([r \in Refs |-> IF r \in Media THEN qSource[r] ELSE v])
  /\ ScheduleRebuild

(***************************************************************************)
(* _debounced_incremental_flush: sleep, then sync the references one by    *)
(* one; each is read, and then written under the advisory lock.            *)
(***************************************************************************)
IncSleep ==
  /\ qInc = "new" /\ qInc' = "waiting"
  /\ UNCHANGED <<qSource, qIndex, qPending, qIncRerun, qReb, qRebRerun, qWork, qHist>>

IncFlush ==
  /\ qInc = "waiting" /\ qInc' = "flushing"
  /\ qTodo' = qPending /\ qPending' = {}
  /\ UNCHANGED <<qSource, qIndex, qIncRerun, qReb, qRebRerun, qGot, qRb, qItems, qBuilt, qHist>>

SyncRead(r) ==
  /\ qInc = "flushing" /\ qGot = {} /\ r \in qTodo
  /\ qTodo' = qTodo \ {r}
  /\ qGot' = {<<r, qSource[r]>>}
  /\ qUnread' = qUnread \ {r}
  /\ UNCHANGED <<qSource, qIndex, qHooks, qRb, qItems, qBuilt, qLost, qChanges, qFails>>

\* sync_import_queue_item and remove_import_queue_reference.
SyncWrite ==
  /\ \E g \in qGot : qIndex' = [qIndex EXCEPT ![g[1]] = Tabs(g[2])]
  /\ qGot' = {}
  /\ UNCHANGED <<qSource, qHooks, qTodo, qRb, qItems, qBuilt, qHist>>

\* An exception ends the flush; whatever it had not synced is dropped.
SyncFails ==
  /\ qInc = "flushing" /\ qTodo \cup {g[1] : g \in qGot} # {}
  /\ qFails < MaxFails /\ qFails' = qFails + 1
  /\ qLost' = qLost \cup qTodo \cup {g[1] : g \in qGot}
  /\ qTodo' = {} /\ qGot' = {}
  /\ UNCHANGED <<qSource, qIndex, qHooks, qRb, qItems, qBuilt, qUnread, qChanges>>

IncDone ==
  /\ qInc = "flushing" /\ qTodo = {} /\ qGot = {}
  /\ qInc' = IF qIncRerun THEN "waiting" ELSE "none"
  /\ qIncRerun' = FALSE
  /\ UNCHANGED <<qSource, qIndex, qPending, qReb, qRebRerun, qWork, qHist>>

(***************************************************************************)
(* _debounced_rebuild and rebuild_import_queue.  The items are collected   *)
(* before the advisory lock is taken; _rebuild_lock admits one rebuild.    *)
(***************************************************************************)
RebSleep ==
  /\ qReb = "new" /\ qReb' = "waiting"
  /\ UNCHANGED <<qSource, qIndex, qPending, qInc, qIncRerun, qRebRerun, qWork, qHist>>

RebStart ==
  /\ qReb = "waiting" /\ qReb' = "running"
  /\ qRb' = [qRb EXCEPT !["hook"] = "lock"]
  /\ UNCHANGED <<qSource, qIndex, qPending, qInc, qIncRerun, qRebRerun, qTodo, qGot,
                 qItems, qBuilt, qHist>>

\* _ensure_queue_populated: an empty index and no recent build.
ReaderStart ==
  /\ ~qBuilt /\ qRb["reader"] = "idle"
  /\ IF \A r \in Refs : qIndex[r] = {}
     THEN qRb' = [qRb EXCEPT !["reader"] = "lock"] /\ UNCHANGED qBuilt
     ELSE qBuilt' = TRUE /\ UNCHANGED qRb
  /\ UNCHANGED <<qSource, qIndex, qHooks, qTodo, qGot, qItems, qHist>>

Rebuilding(w) == qRb[w] \in {"collect", "write"}

RebLock(w) ==
  /\ qRb[w] = "lock" /\ \A x \in Rebuilders : ~Rebuilding(x)
  /\ qRb' = [qRb EXCEPT ![w] = "collect"]
  /\ UNCHANGED <<qSource, qIndex, qHooks, qTodo, qGot, qItems, qBuilt, qHist>>

RebCollect(w) ==
  /\ qRb[w] = "collect"
  /\ qRb' = [qRb EXCEPT ![w] = "write"]
  /\ qItems' = [qItems EXCEPT ![w] = qSource]
  /\ qUnread' = IF w = "hook" THEN {} ELSE qUnread
  /\ UNCHANGED <<qSource, qIndex, qHooks, qTodo, qGot, qBuilt, qLost, qChanges, qFails>>

\* Under the lock: the reader gives up unless the index is still empty.
RebWrite(w) ==
  /\ qRb[w] = "write"
  /\ qRb' = [qRb EXCEPT ![w] = "idle"]
  /\ qIndex' = IF w = "reader" /\ \E r \in Refs : qIndex[r] # {}
               THEN qIndex
               ELSE [r \in Refs |-> Tabs(qItems[w][r])]
  /\ qBuilt' = (qBuilt \/ w = "reader")
  /\ qItems' = [qItems EXCEPT ![w] = NoEntries]
  /\ UNCHANGED <<qSource, qHooks, qTodo, qGot, qHist>>

RebFails(w) ==
  /\ Rebuilding(w)
  /\ qFails < MaxFails /\ qFails' = qFails + 1
  /\ qRb' = [qRb EXCEPT ![w] = "idle"]
  /\ qItems' = [qItems EXCEPT ![w] = NoEntries]
  /\ qLost' = IF w = "hook" THEN qLost \cup (Refs \ Media) ELSE qLost
  /\ UNCHANGED <<qSource, qIndex, qHooks, qTodo, qGot, qBuilt, qUnread, qChanges>>

RebDone ==
  /\ qReb = "running" /\ qRb["hook"] = "idle"
  /\ qReb' = IF qRebRerun THEN "waiting" ELSE "none"
  /\ qRebRerun' = FALSE
  /\ UNCHANGED <<qSource, qIndex, qPending, qInc, qIncRerun, qWork, qHist>>

\* _QUEUE_BUILT_TTL passes.
BuiltExpires ==
  /\ qBuilt /\ qBuilt' = FALSE
  /\ UNCHANGED <<qSource, qIndex, qHooks, qTodo, qGot, qRb, qItems, qHist>>

IncSteps == IncSleep \/ IncFlush \/ (\E r \in Refs : SyncRead(r)) \/ SyncWrite \/ IncDone
RebSteps(w) == RebLock(w) \/ RebCollect(w) \/ RebWrite(w)
HookSteps == RebSleep \/ RebStart \/ RebDone \/ RebSteps("hook")

QueueNext ==
  \/ \E r \in Refs, v \in QueueItems : ChangeOne(r, v)
  \/ \E r, m \in Refs : Complete(r, m)
  \/ \E v \in QueueItems : ChangeBulk(v)
  \/ IncSteps \/ HookSteps \/ RebSteps("reader")
  \/ SyncFails \/ ReaderStart \/ BuiltExpires
  \/ \E w \in Rebuilders : RebFails(w)

\* The event loop runs every task that is ready, timers fire, and asyncio.Lock (the one
\* step of the hook that another task can disable) is first come, first served.
QueueSpec ==
  /\ QueueInit /\ [][QueueNext]_qVars
  /\ WF_qVars(IncSteps) /\ SF_qVars(HookSteps) /\ WF_qVars(RebSteps("reader"))

\* The index, its pending references and the two debounced tasks (imports/queue_hooks.py).
QueueTypeOK ==
  /\ qSource \in [Refs -> QueueItems]
  /\ qIndex \in [Refs -> SUBSET {"review", "done", "all"}]
  /\ qPending \subseteq Refs /\ qTodo \subseteq Refs
  /\ qInc \in {"none", "new", "waiting", "flushing"}
  /\ qReb \in {"none", "new", "waiting", "running"}
  /\ qIncRerun \in BOOLEAN /\ qRebRerun \in BOOLEAN /\ qBuilt \in BOOLEAN
  /\ qGot \subseteq Refs \X QueueItems /\ Cardinality(qGot) <= 1
  /\ qRb \in [Rebuilders -> {"idle", "lock", "collect", "write"}]
  /\ qItems \in [Rebuilders -> [Refs -> QueueItems]]
  /\ qUnread \subseteq Refs /\ qLost \subseteq Refs
  /\ qChanges \in 0..MaxChanges /\ qFails \in 0..MaxFails

RebuildAhead ==
  \/ qReb \in {"new", "waiting"} \/ qRebRerun
  \/ qReb = "running" /\ qRb["hook"] \in {"lock", "collect"}

(***************************************************************************)
(* No change is forgotten by the debouncing: a change nobody has read yet  *)
(* is pending under a flush that will run (again), is on the list of the   *)
(* flush that runs, or is covered by a rebuild that has yet to collect --  *)
(* unless an exception dropped it.                                         *)
(***************************************************************************)
NoChangeForgotten ==
  \A r \in qUnread :
    \/ r \in qPending /\ (qInc \in {"new", "waiting"} \/ qIncRerun)
    \/ r \in qTodo
    \/ RebuildAhead
    \/ r \in qLost

(***************************************************************************)
(* The index ends up in step with the database: once the changes stop, and *)
(* if no exception dropped one, every reference shows its current item,    *)
(* since a rebuild writes "the entire queue from current torrent + scan    *)
(* state" and an incremental sync follows every change.                    *)
(***************************************************************************)
IndexConverges ==
  <>[](qLost # {} \/ \A r \in Refs : qIndex[r] = Tabs(qSource[r]))
==============================================================================
