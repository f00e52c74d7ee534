----------------------------- MODULE PipelineProofs -----------------------------
(***************************************************************************)
(* The way of a download into the library, proved for every value of the   *)
(* constants: one inductive invariant per component, the properties that   *)
(* follow from it, and at the end the same of the behaviours of            *)
(* MCPipeline.                                                             *)
(***************************************************************************)
EXTENDS MCPipeline, OrderLemmas, SequenceTheorems, TLAPS

(***************************************************************************)
(* Automatic upgrades (movies/service.py, shows/service.py): at most one   *)
(* automatic transfer at a time for a title, whatever the races of runs.   *)
(***************************************************************************)
RunType == [at : {"idle", "try", "read", "search", "upgrade", "pick"},
            best : Ordinals, found : SUBSET Ordinals]

\* The runs that hold the lock, and those that have seen no torrent of the movie.
Locking(p) == runner[p].at \in {"read", "search", "upgrade", "pick"}
SawNone(p) == runner[p].at \in {"search", "upgrade", "pick"}

\* An automatic transfer is one of the movie's torrents.
AutoIsTorrent == auto \subseteq Torrents

LockHeld == \A p \in PRunners : Locking(p) => idLock = {p}

NoneYet == \A p \in PRunners : SawNone(p) => auto = {}

AtMostOne == \A q, r \in auto : q = r

UpgradesInv == UpgradesTypeOK /\ AutoIsTorrent /\ LockHeld /\ NoneYet /\ AtMostOne

\* Max of the files on disk is one of the ordinals.
LEMMA BestTyped == UpgradesTypeOK => BestOnDisk \in Ordinals
<1>. SUFFICES ASSUME UpgradesTypeOK PROVE BestOnDisk \in Ordinals
  OBVIOUS
<1>1. PTop \in Nat
  BY UpgradesAssumption
<1>2. OnDisk \cup {0} \in SUBSET Nat /\ OnDisk \cup {0} \subseteq 0..PTop
  BY <1>1 DEF OnDisk, Ordinals
<1>3. Max(OnDisk \cup {0}) \in OnDisk \cup {0}
  <2>. DEFINE S == OnDisk \cup {0}
  <2>. HIDE DEF S
  <2>1. S \in SUBSET Nat /\ S \subseteq 0..PTop /\ S # {}
    BY <1>2 DEF S
  <2>2. Max(S) \in S
    BY <1>1, <2>1, MaxOfBounded
  <2>. QED  BY <2>2 DEF S
<1>. QED  BY <1>2, <1>3 DEF BestOnDisk, Ordinals

(***************************************************************************)
(* The first state, and every step: one step of the proof per action.      *)
(***************************************************************************)
LEMMA UpgradesInvInit == UpgradesInit => UpgradesInv
BY UpgradesAssumption DEF UpgradesInit, UpgradesInv, UpgradesTypeOK, AutoIsTorrent, LockHeld,
   NoneYet, AtMostOne, Torrents, RowStates, Tri, IdleRunner, Free, Ordinals, Locking, SawNone

LEMMA UpgradesInvNext == UpgradesInv /\ [UpgradesNext]_pVars => UpgradesInv'
<1>. SUFFICES ASSUME UpgradesInv, [UpgradesNext]_pVars PROVE UpgradesInv'
  OBVIOUS
<1>. USE UpgradesAssumption DEF UpgradesInv, UpgradesTypeOK, AutoIsTorrent, LockHeld, NoneYet,
         AtMostOne, Locking, SawNone, Torrents, RowStates, IdleRunner, RunType
<1>t. 0 \in Ordinals
  BY DEF Ordinals
<1>u. ASSUME NEW p \in PRunners, Unlocked(p), idLock = {p},
             UNCHANGED <<file, flags, denied>>, auto' \subseteq auto,
             backoff' \in {"none", "past", "active"}, acts' \in 0..PMaxActs
      PROVE  UpgradesInv'
  <2>1. IdleRunner \in RunType
    BY <1>t
  <2>2. runner' \in [PRunners -> RunType]
    <3>. HIDE DEF IdleRunner
    <3>. QED  BY <1>u, <2>1 DEF Unlocked
  <2>3. \A r \in PRunners : ~Locking(r)'
    BY <1>u DEF Unlocked
  <2>. QED  BY <1>u, <2>2, <2>3 DEF Unlocked
<1>1. ASSUME NEW p \in PRunners, ListCandidates(p) \/ TryDirectly(p) PROVE UpgradesInv'
  BY <1>1 DEF ListCandidates, TryDirectly
<1>2. ASSUME NEW p \in PRunners, LockMovie(p) PROVE UpgradesInv'
  BY <1>2, <1>t DEF LockMovie, Free
<1>3. ASSUME NEW p \in PRunners, Decide(p) PROVE UpgradesInv'
  <2>1. CASE Goes(p)
    <3>1. auto = {}
      BY <2>1 DEF Goes
    <3>2. BestOnDisk \in Ordinals
      BY BestTyped
    <3>. QED  BY <1>3, <2>1, <3>1, <3>2 DEF Decide
  <2>2. CASE ~Goes(p)
    BY <1>3, <2>2, <1>t DEF Decide, Unlocked
  <2>. QED  BY <2>1, <2>2
<1>4. ASSUME NEW p \in PRunners, Search(p) PROVE UpgradesInv'
  <2>1. idLock = {p} /\ auto = {} /\ p \in PRunners
    BY <1>4 DEF Search
  <2>2. PICK raw \in SUBSET Ordinals :
          LET upgrade == runner[p].at = "upgrade"
              left == {q \in raw \ denied : upgrade => Upgrade(q, runner[p].best)}
          IN  IF left = {}
              THEN Unlocked(p) /\ backoff' \in {"active", backoff}
              ELSE /\ runner' = [runner EXCEPT ![p].at = "pick", ![p].found = left]
                   /\ backoff' = "none" /\ UNCHANGED idLock
    BY <1>4 DEF Search
  <2>3. PICK left \in SUBSET Ordinals :
          \/ Unlocked(p) /\ backoff' \in {"active", backoff}
          \/ /\ runner' = [runner EXCEPT ![p].at = "pick", ![p].found = left]
             /\ backoff' = "none" /\ UNCHANGED idLock
    BY <2>2
  <2>4. UNCHANGED <<file, auto, flags, denied, acts>>
    BY <1>4 DEF Search
  <2>5. CASE Unlocked(p) /\ backoff' \in {"active", backoff}
    BY <2>1, <2>4, <2>5, <1>u
  <2>6. CASE /\ runner' = [runner EXCEPT ![p].at = "pick", ![p].found = left]
             /\ backoff' = "none" /\ UNCHANGED idLock
    <3>1. runner' \in [PRunners -> RunType]
      <4>1. runner \in [PRunners -> RunType]
        OBVIOUS
      <4>. HIDE DEF UpgradesInv
      <4>. QED  BY <2>6, <4>1
    <3>2. \A r \in PRunners : (Locking(r)' => Locking(r) \/ r = p) /\ (SawNone(r)' => SawNone(r) \/ r = p)
      BY <2>6
    <3>. QED  BY <2>1, <2>4, <2>6, <3>1, <3>2
  <2>. QED  BY <2>3, <2>5, <2>6
<1>5. ASSUME NEW p \in PRunners, Pick(p) PROVE UpgradesInv'
  <2>1. idLock = {p} /\ auto = {} /\ UNCHANGED <<flags, backoff, denied>>
    BY <1>5 DEF Pick
  <2>2. PICK q \in runner[p].found :
          \/ Linked(q) /\ Unlocked(p) /\ UNCHANGED acts
             /\ auto' = IF file[q] \in {"none", "missing"} THEN auto \cup {q} ELSE auto
          \/ /\ runner' = [runner EXCEPT ![p].found = @ \ {q}]
             /\ UNCHANGED <<file, auto, idLock, acts>>
    BY <1>5 DEF Pick
  <2>3. q \in Ordinals
    OBVIOUS
  <2>4. CASE /\ Linked(q) /\ Unlocked(p) /\ UNCHANGED acts
             /\ auto' = IF file[q] \in {"none", "missing"} THEN auto \cup {q} ELSE auto
    <3>1. UpgradesTypeOK'
      <4>1. IdleRunner \in RunType
        BY <1>t
      <4>2. runner' \in [PRunners -> RunType]
        <5>. HIDE DEF IdleRunner
        <5>. QED  BY <2>4, <4>1 DEF Unlocked
      <4>3. file' \in [Ordinals -> RowStates]
        BY <2>3, <2>4 DEF Linked
      <4>. QED  BY <2>1, <2>3, <2>4, <4>2, <4>3 DEF Unlocked
    <3>2. auto' \subseteq {q} /\ (q \in auto' => file'[q] = "queued")
      BY <2>1, <2>3, <2>4 DEF Linked
    <3>3. \A r \in PRunners : ~Locking(r)'
      BY <2>1, <2>4 DEF Unlocked
    <3>. QED  BY <2>3, <3>1, <3>2, <3>3
  <2>5. CASE /\ runner' = [runner EXCEPT ![p].found = @ \ {q}]
             /\ UNCHANGED <<file, auto, idLock, acts>>
    <3>1. runner' \in [PRunners -> RunType]
      BY <2>5
    <3>2. \A r \in PRunners : (Locking(r)' => Locking(r)) /\ (SawNone(r)' => SawNone(r))
      BY <2>5
    <3>. QED  BY <2>1, <2>5, <3>1, <3>2
  <2>. QED  BY <2>2, <2>4, <2>5
<1>6. ASSUME NEW p \in PRunners, EndRun(p) PROVE UpgradesInv'
  <2>1. idLock = {p} /\ acts' \in 0..PMaxActs
    BY <1>6 DEF EndRun, Acts
  <2>. QED  BY <1>6, <1>u, <2>1 DEF EndRun
<1>7. ASSUME NEW q \in Ordinals, Imported(q) \/ TorrentCleaned(q) \/ TorrentRemoved(q) PROVE UpgradesInv'
  BY <1>7 DEF Imported, TorrentCleaned, TorrentRemoved, Acts
<1>8. ASSUME NEW q \in Ordinals, FileVanishes(q) \/ DownloadByHand(q) PROVE UpgradesInv'
  BY <1>8 DEF FileVanishes, DownloadByHand, Linked, Acts
<1>9. ASSUME EditMovie \/ EditSettings \/ BackoffPasses PROVE UpgradesInv'
  <2>1. flags' \in [skipped : BOOLEAN, dl : Tri, up : BOOLEAN, until : Ordinals \ {0}]
    <3>1. CASE EditMovie
      <4>1. \/ \E b \in BOOLEAN : flags' = [flags EXCEPT !.skipped = b]
            \/ \E t \in Tri : flags' = [flags EXCEPT !.dl = t]
        BY <3>1, Zenon DEF EditMovie
      <4>. QED  BY <4>1
    <3>2. CASE EditSettings
      BY <3>2 DEF EditSettings
    <3>3. CASE BackoffPasses
      BY <3>3 DEF BackoffPasses
    <3>. QED  BY <1>9, <3>1, <3>2, <3>3
  <2>2. /\ UNCHANGED <<file, auto, denied, idLock, runner>>
        /\ backoff' \in {"none", "past", "active"} /\ acts' \in 0..PMaxActs
    <3>1. CASE EditMovie \/ EditSettings
      <4>1. Acts /\ UNCHANGED <<file, auto, backoff, denied, idLock, runner>>
        BY <3>1, Zenon DEF EditMovie, EditSettings
      <4>. QED  BY <4>1 DEF Acts
    <3>2. CASE BackoffPasses
      BY <3>2 DEF BackoffPasses
    <3>. QED  BY <1>9, <3>1, <3>2
  <2>. QED  BY <2>1, <2>2
<1>10. CASE UNCHANGED pVars
  BY <1>10 DEF pVars
<1>. QED
  BY <1>1, <1>2, <1>3, <1>4, <1>5, <1>6, <1>7, <1>8, <1>9, <1>10 DEF UpgradesNext

LEMMA OneTransferAtMost == UpgradesInv => OneAutoTransfer
<1>. SUFFICES ASSUME UpgradesInv PROVE Cardinality(auto) <= 1
  BY DEF OneAutoTransfer
<1>1. CASE auto = {}
  BY <1>1, FS_EmptySet
<1>2. CASE auto # {}
  <2>1. PICK q \in auto : auto = {q}
    BY <1>2 DEF UpgradesInv, AtMostOne
  <2>. QED  BY <2>1, FS_Singleton
<1>. QED  BY <1>1, <1>2

\* What every reachable state satisfies: who holds the movie's lock, and that no automatic
\* transfer is under way once its holder has looked (_auto_download_for_movie_impl).
THEOREM UpgradesInvariant == UpgradesSpec => []UpgradesInv
BY UpgradesInvInit, UpgradesInvNext, PTL DEF UpgradesSpec

\* Every reachable state of Upgrades is well typed.
THEOREM UpgradesTyped == UpgradesSpec => []UpgradesTypeOK
BY UpgradesInvariant, PTL DEF UpgradesInv

\* However many tasks reach the movie, however its files come and go: at most one automatic
\* transfer of it is under way (_try_auto_download_media_id_impl).
THEOREM OneAutomaticTransfer == UpgradesSpec => []OneAutoTransfer
BY OneTransferAtMost, UpgradesInvariant, PTL

(***************************************************************************)
(* The review queue (imports/): no change of an item is forgotten between  *)
(* the index, the refreshes and the rebuilds.                              *)
(***************************************************************************)
\* What a flush or a rebuild holds, it holds only while it runs.
Phases ==
  /\ qTodo # {} \/ qGot # {} => qInc = "flushing"
  /\ qRb["hook"] # "idle" => qReb = "running"

\* A completion is in the hands of the flushes alone: a rebuild that fails drops no media.
OnItsWay ==
  \A r \in qUnread :
    \/ r \in qPending /\ (qInc \in {"new", "waiting"} \/ qIncRerun)
    \/ r \in qTodo \/ r \in qLost
    \/ r \notin Media /\ RebuildAhead

QueueInv == QueueTypeOK /\ Phases /\ OnItsWay

LEMMA QueueInvInit == QueueInit => QueueInv
<1>1. Cardinality({}) <= 1
  BY FS_EmptySet
<1>2. NoEntries \in [Refs -> QueueItems]
  BY DEF NoEntries, QueueItems
<1>3. ASSUME QueueInit PROVE qIncRerun \in BOOLEAN /\ qRebRerun \in BOOLEAN /\ qBuilt \in BOOLEAN
  BY <1>3, Zenon DEF QueueInit
<1>4. ASSUME QueueInit PROVE QueueTypeOK
  <2>1. qSource \in [Refs -> QueueItems] /\ qItems \in [Rebuilders -> [Refs -> QueueItems]]
    BY <1>2, <1>4 DEF QueueInit
  <2>2. qIndex \in [Refs -> SUBSET {"review", "done", "all"}]
        /\ qRb \in [Rebuilders -> {"idle", "lock", "collect", "write"}]
    BY <1>4 DEF QueueInit
  <2>3. qChanges \in 0..MaxChanges /\ qFails \in 0..MaxFails
    BY <1>4, QueueAssumption DEF QueueInit
  <2>4. qGot \subseteq Refs \X QueueItems /\ Cardinality(qGot) <= 1
    BY <1>1, <1>4 DEF QueueInit
  <2>. QED  BY <1>3, <1>4, <2>1, <2>2, <2>3, <2>4 DEF QueueInit, QueueTypeOK
<1>5. ASSUME QueueInit PROVE Phases /\ OnItsWay
  BY <1>5 DEF QueueInit, Phases, OnItsWay, Rebuilders
<1>. QED  BY <1>4, <1>5 DEF QueueInv

LEMMA TabsTyped == \A v \in QueueItems : Tabs(v) \subseteq {"review", "done", "all"}
BY DEF QueueItems, Tabs

(***************************************************************************)
(* What the two schedules do to a change that has just been made.          *)
(***************************************************************************)
LEMMA ChangeFlushed ==
  ASSUME QueueInv, NEW new \in [Refs -> QueueItems], NEW refs \in SUBSET Refs,
         Changed(new), ScheduleFlush(refs), \A r \in Refs \ refs : new[r] = qSource[r]
  PROVE  QueueInv'
<1>b. qIncRerun' \in BOOLEAN /\ qRebRerun' \in BOOLEAN /\ qBuilt' \in BOOLEAN
  BY Zenon DEF QueueInv, QueueTypeOK, Changed, ScheduleFlush, FlushRequested, qWork
<1>1. QueueTypeOK'
  BY <1>b, QueueAssumption DEF QueueInv, QueueTypeOK, Changed, ScheduleFlush, FlushRequested, qWork
<1>2. Phases'
  BY DEF QueueInv, Phases, Changed, ScheduleFlush, FlushRequested, qWork
<1>3. OnItsWay'
  BY DEF QueueInv, OnItsWay, RebuildAhead, Changed, ScheduleFlush, FlushRequested, qWork
<1>. QED  BY <1>1, <1>2, <1>3 DEF QueueInv

LEMMA ChangeRebuilt ==
  ASSUME QueueInv, NEW new \in [Refs -> QueueItems],
         Changed(new), ScheduleRebuild, \A r \in Refs \cap Media : new[r] = qSource[r]
  PROVE  QueueInv'
<1>b. qIncRerun' \in BOOLEAN /\ qRebRerun' \in BOOLEAN /\ qBuilt' \in BOOLEAN
  BY Zenon DEF QueueInv, QueueTypeOK, Changed, ScheduleRebuild, qWork
<1>1. QueueTypeOK'
  BY <1>b, QueueAssumption DEF QueueInv, QueueTypeOK, Changed, ScheduleRebuild, qWork
<1>2. Phases'
  BY DEF QueueInv, Phases, Changed, ScheduleRebuild, qWork
<1>3. RebuildAhead'
  BY DEF RebuildAhead, ScheduleRebuild
<1>4. OnItsWay'
  BY <1>3 DEF QueueInv, OnItsWay, Changed, ScheduleRebuild, qWork
<1>. QED  BY <1>1, <1>2, <1>4 DEF QueueInv

(***************************************************************************)
(* Every step: one step of the proof per action.                           *)
(***************************************************************************)
LEMMA QueueInvNext == QueueInv /\ [QueueNext]_qVars => QueueInv'
<1>. SUFFICES ASSUME QueueInv, [QueueNext]_qVars PROVE QueueInv'
  OBVIOUS
<1>t. QueueTypeOK /\ Phases /\ OnItsWay
  BY DEF QueueInv
<1>1. ASSUME NEW r \in Refs, NEW v \in QueueItems, ChangeOne(r, v) PROVE QueueInv'
  BY <1>1, <1>t, ChangeFlushed DEF ChangeOne, QueueTypeOK
<1>2. ASSUME NEW r \in Refs, NEW m \in Refs, Complete(r, m) PROVE QueueInv'
  <2>. DEFINE new == [qSource EXCEPT ![r] = "gone", ![m] = "done"]
  <2>1. new \in [Refs -> QueueItems] /\ \A x \in Refs \ {r, m} : new[x] = qSource[x]
    BY <1>t DEF QueueTypeOK, QueueItems
  <2>. QED  BY <1>2, <2>1, ChangeFlushed DEF Complete
<1>3. ASSUME NEW v \in QueueItems, ChangeBulk(v) PROVE QueueInv'
  BY <1>3, <1>t, ChangeRebuilt DEF ChangeBulk, QueueTypeOK
<1>4. CASE IncSleep \/ IncFlush \/ IncDone
  BY <1>4, <1>t DEF IncSleep, IncFlush, IncDone, QueueInv, QueueTypeOK, Phases, OnItsWay, RebuildAhead,
     qWork, qHist
<1>5. ASSUME NEW r \in Refs, SyncRead(r) PROVE QueueInv'
  <2>1. Cardinality({<<r, qSource[r]>>}) = 1
    BY FS_Singleton
  <2>. QED  BY <1>5, <1>t, <2>1 DEF SyncRead, QueueInv, QueueTypeOK, Phases, OnItsWay, RebuildAhead, qHooks
<1>6. CASE SyncWrite
  <2>1. PICK g \in qGot : qIndex' = [qIndex EXCEPT ![g[1]] = Tabs(g[2])]
    BY <1>6 DEF SyncWrite
  <2>2. qIndex' \in [Refs -> SUBSET {"review", "done", "all"}]
    BY <1>t, <2>1, TabsTyped DEF QueueTypeOK
  <2>. QED  BY <1>6, <1>t, <2>2, FS_EmptySet DEF SyncWrite, QueueInv, QueueTypeOK, Phases, OnItsWay, RebuildAhead, qHooks, qHist
<1>7. CASE SyncFails
  BY <1>7, <1>t, FS_EmptySet, QueueAssumption DEF SyncFails, QueueInv, QueueTypeOK, Phases, OnItsWay, RebuildAhead, qHooks
<1>8. CASE RebSleep \/ RebStart \/ RebDone
  BY <1>8, <1>t DEF RebSleep, RebStart, RebDone, QueueInv, QueueTypeOK, Phases, OnItsWay, RebuildAhead,
     qWork, qHist, Rebuilders
<1>9. CASE ReaderStart \/ BuiltExpires
  BY <1>9, <1>t DEF ReaderStart, BuiltExpires, QueueInv, QueueTypeOK, Phases, OnItsWay, RebuildAhead,
     qHooks, qHist, Rebuilders
<1>10. ASSUME NEW w \in Rebuilders, RebLock(w) PROVE QueueInv'
  BY <1>10, <1>t DEF RebLock, QueueInv, QueueTypeOK, Phases, OnItsWay, RebuildAhead, qHooks, qHist, Rebuilders
<1>11. ASSUME NEW w \in Rebuilders, RebCollect(w) PROVE QueueInv'
  BY <1>11, <1>t DEF RebCollect, QueueInv, QueueTypeOK, Phases, OnItsWay, RebuildAhead, qHooks, Rebuilders
<1>12. ASSUME NEW w \in Rebuilders, RebWrite(w) PROVE QueueInv'
  <2>1. qIndex' \in [Refs -> SUBSET {"review", "done", "all"}]
    BY <1>12, <1>t, TabsTyped DEF RebWrite, QueueTypeOK
  <2>2. NoEntries \in [Refs -> QueueItems]
    BY DEF NoEntries, QueueItems
  <2>. QED  BY <1>12, <1>t, <2>1, <2>2 DEF RebWrite, QueueInv, QueueTypeOK, Phases, OnItsWay, RebuildAhead, qHooks, qHist, Rebuilders
<1>13. ASSUME NEW w \in Rebuilders, RebFails(w) PROVE QueueInv'
  <2>1. NoEntries \in [Refs -> QueueItems]
    BY DEF NoEntries, QueueItems
  <2>. QED  BY <1>13, <1>t, <2>1, QueueAssumption DEF RebFails, Rebuilding, QueueInv, QueueTypeOK, Phases, OnItsWay, RebuildAhead, qHooks, Rebuilders
<1>14. CASE UNCHANGED qVars
  BY <1>14, <1>t DEF qVars, qHooks, qWork, qHist, QueueInv, QueueTypeOK, Phases, OnItsWay, RebuildAhead
<1>. QED
  BY <1>1, <1>2, <1>3, <1>4, <1>5, <1>6, <1>7, <1>8, <1>9, <1>10, <1>11, <1>12, <1>13, <1>14
     DEF QueueNext, IncSteps, HookSteps, RebSteps, Rebuilders

\* What every reachable state satisfies: where a change is that nobody has read.
THEOREM QueueInvariant == QueueSpec => []QueueInv
BY QueueInvInit, QueueInvNext, PTL DEF QueueSpec

\* Every reachable state of ImportQueue is well typed.
THEOREM QueueTyped == QueueSpec => []QueueTypeOK
BY QueueInvariant, PTL DEF QueueInv

\* Cancelling, debouncing and rerunning forget no change (_schedule_incremental_flush and
\* schedule_import_queue_rebuild of imports/queue_hooks.py).
THEOREM ChangesRemembered == QueueSpec => []NoChangeForgotten
<1>1. QueueInv => NoChangeForgotten
  BY DEF QueueInv, OnItsWay, NoChangeForgotten
<1>. QED  BY <1>1, QueueInvariant, PTL

(***************************************************************************)
(* Archives (imports/archive_publication.py): what is published is a whole *)
(* extraction.  The inductive invariant places the staged files of every   *)
(* worker at each step.                                                    *)
(***************************************************************************)
Steps == {"idle", "extract", "install", "rename", "verify", "mark", "publish",
          "clean private", "move private", "drop private",
          "clean staging", "move staging", "drop staging", "done", "crashed"}

AllPaths == (UNION {Paths(a) : a \in XArchives}) \cup {"theirs"}

\* The paths an extraction has written when its next entry is k.
Written(a, k) == {XEntries[a][j].path : j \in 1..(k - 1)}

\* A worker's inode is only where the worker put it, or where it was moved aside.
PlacesOf(w) ==
  /\ xName[Staging(w)] \in {Gone, Staging(w)} \cup XForeign
  /\ xName[Private(w)] \in {Gone, Private(w)} \cup XForeign
  /\ xName[Quarantine(Staging(w))] \in {Gone, Staging(w)} \cup XForeign
  /\ xName[Quarantine(Private(w))] \in {Gone, Private(w)} \cup XForeign
  /\ xPayload[Private(w)] \in {Gone, Staging(w)} \cup XForeign
  /\ xPayload[Staging(w)] = Gone /\ ~xMarker[Staging(w)]

Places ==
  /\ \A w \in XWorkers : PlacesOf(w)
  /\ \A f \in XForeign : xPayload[f] = Gone /\ ~xMarker[f]

\* Which step of the worker the place of its staging directory belongs to.
StagingAt(w) ==
  /\ xName[Staging(w)] = Staging(w) =>
       xPc[w] \in {"extract", "install", "rename", "clean staging", "move staging", "crashed"}
  /\ xName[Quarantine(Staging(w))] = Staging(w) =>
       \/ xPc[w] \in {"drop staging", "crashed"}
       \/ xPc[w] = "done" /\ xTree[Staging(w)] = {}
  /\ xPayload[Private(w)] = Staging(w) =>
       xName[Staging(w)] # Staging(w) /\ xName[Quarantine(Staging(w))] # Staging(w)

\* What a worker has written and recorded when it is at each step.
StageOf(w) ==
  /\ xPc[w] = "idle" =>
       /\ xPayload[Private(w)] = Gone /\ xTree[Staging(w)] = {} /\ xNext[w] = 1 /\ ~xOk[w]
       /\ xName[Staging(w)] = Gone /\ xName[Quarantine(Staging(w))] = Gone
  /\ xPc[w] = "extract" =>
       /\ xTree[Staging(w)] = Written(xArch[w], xNext[w]) /\ xPayload[Private(w)] = Gone
       /\ xNext[w] \in 1..(Len(XEntries[xArch[w]]) + 1)
  /\ xPc[w] \in {"install", "rename", "verify", "mark", "publish"} =>
       xTree[Staging(w)] = Paths(xArch[w])
  /\ xPc[w] \in {"mark", "publish"} => xPayload[Private(w)] = Staging(w)
  /\ xPc[w] = "publish" => xMarker[Private(w)]
  /\ xSafe[w] => xPayload[Private(w)] \in {Gone, Staging(w)}
  /\ xBytes[w] <= MaxBytes

\* The container of a finished worker, under the name of its digest.
PublishedBy(w, a) ==
  /\ xArch[w] = a /\ xPc[w] = "done" /\ xMarker[Private(w)]
  /\ xPayload[Private(w)] = Staging(w) /\ xTree[Staging(w)] = Paths(a)

Containers ==
  /\ \A a \in XArchives : \/ xDest[a] \in {Gone} \cup XForeign
                          \/ \E w \in XWorkers : xDest[a] = Private(w) /\ PublishedBy(w, a)
  /\ \A w \in XWorkers : xOk[w] =>
       \E v \in XWorkers : xDest[xArch[w]] = Private(v) /\ PublishedBy(v, xArch[w])

XTyped == /\ ArchiveTypeOK
         /\ xTree \in [Inodes -> SUBSET AllPaths] /\ xNext \in [XWorkers -> Nat]
         /\ xPc \in [XWorkers -> Steps]
ArchiveInv ==
  /\ XTyped /\ Places /\ ForeignKept /\ Containers
  /\ \A w \in XWorkers : StagingAt(w) /\ StageOf(w)

LEMMA NamesDiffer ==
  ASSUME NEW w, NEW v
  PROVE  /\ Staging(w) = Staging(v) => w = v
         /\ Private(w) = Private(v) => w = v
         /\ Quarantine(w) = Quarantine(v) => w = v
         /\ Staging(w) # Private(v) /\ Staging(w) # Gone /\ Private(w) # Gone
         /\ Quarantine(w) # Staging(v) /\ Quarantine(w) # Private(v)
BY DEF Staging, Private, Quarantine, Gone

LEMMA NamesIn ==
  ASSUME NEW w \in XWorkers
  PROVE  /\ Staging(w) \in OwnDirs /\ Private(w) \in OwnDirs
         /\ Staging(w) \in Inodes /\ Private(w) \in Inodes
         /\ Staging(w) \notin XForeign /\ Private(w) \notin XForeign /\ Gone \notin XForeign
         /\ {Staging(w), Private(w), Quarantine(Staging(w)), Quarantine(Private(w))} \subseteq ParentNames
BY ForeignAssumption DEF OwnDirs, Inodes, ParentNames

LEMMA NamesApart ==
  ASSUME NEW w \in XWorkers
  PROVE  /\ \A v \in XWorkers : v # w =>
              /\ {Staging(v), Private(v), Quarantine(Staging(v)), Quarantine(Private(v))}
                   \cap {Staging(w), Private(w), Quarantine(Staging(w)), Quarantine(Private(w))} = {}
              /\ Staging(v) \in Inodes /\ Private(v) \in Inodes
              /\ {Staging(v), Private(v), Quarantine(Staging(v)), Quarantine(Private(v))} \subseteq ParentNames
         /\ \A f \in XForeign : f \in Inodes /\ f # Staging(w) /\ f # Private(w) /\ f # Gone
<1>1. ASSUME NEW v \in XWorkers, v # w
      PROVE  {Staging(v), Private(v), Quarantine(Staging(v)), Quarantine(Private(v))}
                \cap {Staging(w), Private(w), Quarantine(Staging(w)), Quarantine(Private(w))} = {}
  BY <1>1 DEF Staging, Private, Quarantine
<1>2. \A f \in XForeign : f \in Inodes /\ f # Staging(w) /\ f # Private(w) /\ f # Gone
  BY NamesIn DEF Inodes
<1>. QED  BY <1>1, <1>2, NamesIn

\* What belongs to a worker: its names, its directories and its own variables.
Untouched(v) ==
  /\ xName'[Staging(v)] = xName[Staging(v)]
  /\ xName'[Private(v)] = xName[Private(v)]
  /\ xName'[Quarantine(Staging(v))] = xName[Quarantine(Staging(v))]
  /\ xName'[Quarantine(Private(v))] = xName[Quarantine(Private(v))]
  /\ xTree'[Staging(v)] = xTree[Staging(v)]
  /\ xPayload'[Private(v)] = xPayload[Private(v)]
  /\ xPayload'[Staging(v)] = xPayload[Staging(v)]
  /\ xMarker'[Private(v)] = xMarker[Private(v)]
  /\ xMarker'[Staging(v)] = xMarker[Staging(v)]
  /\ xPc'[v] = xPc[v] /\ xArch'[v] = xArch[v] /\ xNext'[v] = xNext[v] /\ xBytes'[v] = xBytes[v]
  /\ xOk'[v] = xOk[v] /\ xSafe'[v] = xSafe[v]

OneWorkerMoves(w) ==
  /\ \A v \in XWorkers : v # w => Untouched(v)
  /\ \A f \in XForeign : xTree'[f] = xTree[f] /\ xPayload'[f] = xPayload[f] /\ xMarker'[f] = xMarker[f]

LEMMA OthersKept ==
  ASSUME NEW v \in XWorkers, Untouched(v)
  PROVE  /\ PlacesOf(v) => PlacesOf(v)'
         /\ StagingAt(v) => StagingAt(v)'
         /\ StageOf(v) => StageOf(v)'
         /\ \A a : PublishedBy(v, a) => PublishedBy(v, a)'
BY DEF Untouched, PlacesOf, StagingAt, StageOf, PublishedBy

\* A step of one worker that renames nothing into the destination.
LEMMA OneMove ==
  ASSUME ArchiveInv, XTyped', NEW w \in XWorkers, OneWorkerMoves(w),
         xPc[w] # "done", UNCHANGED xDest,
         xOk'[w] => xOk[w] /\ xArch'[w] = xArch[w],
         PlacesOf(w)', StagingAt(w)', StageOf(w)'
  PROVE  ArchiveInv'
<1>1. \A v \in XWorkers : PlacesOf(v)' /\ StagingAt(v)' /\ StageOf(v)'
  <2>. SUFFICES ASSUME NEW v \in XWorkers, v # w
                PROVE  PlacesOf(v)' /\ StagingAt(v)' /\ StageOf(v)'
    OBVIOUS
  <2>1. PlacesOf(v) /\ StagingAt(v) /\ StageOf(v) /\ Untouched(v)
    BY DEF ArchiveInv, Places, PlacesOf, OneWorkerMoves
  <2>. QED  BY <2>1, OthersKept
<1>2. Places'
  BY <1>1 DEF Places, PlacesOf, OneWorkerMoves, ArchiveInv
<1>3. ForeignKept'
  BY DEF ForeignKept, OneWorkerMoves, ArchiveInv
<1>4. \A v \in XWorkers, a \in XArchives : PublishedBy(v, a) => PublishedBy(v, a)'
  <2>. SUFFICES ASSUME NEW v \in XWorkers, NEW a \in XArchives, PublishedBy(v, a)
                PROVE  PublishedBy(v, a)'
    OBVIOUS
  <2>1. v # w
    BY DEF PublishedBy
  <2>. QED  BY <2>1, OthersKept DEF OneWorkerMoves
<1>5. Containers'
  <2>1. \A v \in XWorkers : xOk'[v] => xOk[v] /\ xArch'[v] = xArch[v] /\ xArch[v] \in XArchives
    BY DEF OneWorkerMoves, Untouched, ArchiveInv, XTyped, ArchiveTypeOK
  <2>. QED  BY <1>4, <2>1 DEF Containers, ArchiveInv
<1>. QED  BY <1>1, <1>2, <1>3, <1>5 DEF ArchiveInv

(***************************************************************************)
(* The first state, and every step: one step of the proof per action.      *)
(***************************************************************************)
LEMMA ArchiveInvInit == ArchiveInit => ArchiveInv
<1>. SUFFICES ASSUME ArchiveInit PROVE ArchiveInv
  OBVIOUS
<1>1. \A w \in XWorkers : FirstPath(XArchives) \in XArchives
  BY ArchiveAssumption DEF FirstPath
<1>2. XTyped
  BY <1>1, ArchiveAssumption DEF ArchiveInit, XTyped, ArchiveTypeOK, Steps, AllPaths
<1>3. Places /\ ForeignKept
  BY NamesIn DEF ArchiveInit, Places, PlacesOf, ForeignKept, Inodes
<1>4. Containers
  BY DEF ArchiveInit, Containers
<1>5. ASSUME NEW w \in XWorkers PROVE StagingAt(w) /\ StageOf(w)
  BY NamesIn, NamesDiffer, ArchiveAssumption DEF ArchiveInit, StagingAt, StageOf, Inodes
<1>. QED  BY <1>2, <1>3, <1>4, <1>5 DEF ArchiveInv

LEMMA ArchiveInvNext == ArchiveInv /\ [ArchiveNext]_xVars => ArchiveInv'
<1>. SUFFICES ASSUME ArchiveInv, [ArchiveNext]_xVars PROVE ArchiveInv'
  OBVIOUS
<1>0. XTyped /\ Places /\ ForeignKept /\ Containers
  BY DEF ArchiveInv
<1>w. ASSUME NEW w \in XWorkers
      PROVE  PlacesOf(w) /\ StagingAt(w) /\ StageOf(w)
  BY DEF ArchiveInv, Places
<1>. USE DEF XTyped, ArchiveTypeOK, Steps
<1>1. ASSUME NEW w \in XWorkers, NEW a \in XArchives, StartExtract(w, a) PROVE ArchiveInv'
  <2>. USE <1>1, NamesIn, NamesDiffer DEF StartExtract, NewStaging, XGoto
  <2>1. XTyped'
    BY <1>0
  <2>2. OneWorkerMoves(w)
    BY <1>0, NamesApart DEF OneWorkerMoves, Untouched
  <2>3. PlacesOf(w)'
    BY <1>0, <1>w DEF PlacesOf
  <2>4. StagingAt(w)'
    BY <1>0, <1>w DEF StagingAt, StageOf
  <2>5. StageOf(w)'
    <3>1. Len(XEntries[a]) \in Nat /\ Written(a, 1) = {}
      BY ArchiveAssumption DEF Written
    <3>2. xArch'[w] = a /\ xNext'[w] = 1 /\ xTree'[Staging(w)] = {} /\ xPayload'[Private(w)] = Gone
          /\ xPc'[w] = "extract"
      BY <1>0, <1>w DEF StageOf
    <3>3. xTree'[Staging(w)] = Written(xArch'[w], xNext'[w]) /\ xNext'[w] \in 1..(Len(XEntries[xArch'[w]]) + 1)
      BY <3>1, <3>2
    <3>. QED  BY <1>0, <1>w, <3>2, <3>3 DEF StageOf
  <2>6. xPc[w] # "done" /\ UNCHANGED xDest /\ (xOk'[w] => xOk[w] /\ xArch'[w] = xArch[w])
    BY <1>w DEF StageOf
  <2>. QED  BY <2>1, <2>2, <2>3, <2>4, <2>5, <2>6, OneMove
<1>2. ASSUME NEW w \in XWorkers, ExtractEntry(w) PROVE ArchiveInv'
  <2>. USE NamesIn, NamesDiffer
  <2>. DEFINE a == xArch[w] e == XEntries[a][xNext[w]]
  <2>a. /\ xPc[w] = "extract" /\ xNext[w] \in DOMAIN XEntries[a] /\ xBytes[w] + e.size <= MaxBytes
        /\ xTree' = [xTree EXCEPT ![Staging(w)] = @ \cup {e.path}]
        /\ xBytes' = [xBytes EXCEPT ![w] = @ + e.size] /\ xNext' = [xNext EXCEPT ![w] = @ + 1]
        /\ UNCHANGED <<xName, xDest, xPayload, xMarker, xPc, xArch, xOk, xSafe, xCrashes>>
    BY <1>2 DEF ExtractEntry, EntryAllowed
  <2>0. a \in XArchives /\ e.size \in Nat /\ xNext[w] \in 1..Len(XEntries[a])
        /\ Len(XEntries[a]) \in Nat /\ MaxBytes \in Nat
    BY <1>0, <2>a, ArchiveAssumption
  <2>p. e.path \in AllPaths /\ Written(a, xNext[w] + 1) = Written(a, xNext[w]) \cup {e.path}
    BY <2>0, <2>a DEF Paths, AllPaths, Written
  <2>. HIDE DEF a, e
  <2>1. XTyped'
    <3>1. xTree' \in [Inodes -> SUBSET AllPaths]
      BY <1>0, <2>a, <2>p
    <3>2. xNext[w] + 1 \in Nat /\ xBytes[w] + e.size \in Nat
      <4>1. xNext[w] \in Nat /\ xBytes[w] \in Nat
        BY <1>0
      <4>2. e.size \in Nat
        BY <2>0
      <4>. QED  BY <4>1, <4>2
    <3>3. xNext' \in [XWorkers -> Nat] /\ xBytes' \in [XWorkers -> Nat]
      BY <1>0, <2>a, <3>2
    <3>. QED  BY <1>0, <2>a, <3>1, <3>3
  <2>2. OneWorkerMoves(w)
    BY <1>0, <2>a, NamesApart DEF OneWorkerMoves, Untouched
  <2>3. PlacesOf(w)'
    BY <1>0, <1>w, <2>a DEF PlacesOf
  <2>4. StagingAt(w)'
    BY <1>0, <1>w, <2>a DEF StagingAt, StageOf
  <2>5. StageOf(w)'
    <3>2. xTree'[Staging(w)] = Written(a, xNext'[w]) /\ xNext'[w] \in 1..(Len(XEntries[a]) + 1)
      <4>1. xTree[Staging(w)] = Written(a, xNext[w])
        BY <1>w, <2>a DEF StageOf, a
      <4>2. xTree'[Staging(w)] = xTree[Staging(w)] \cup {e.path} /\ xNext'[w] = xNext[w] + 1
        BY <1>0, <2>a
      <4>. QED  BY <2>0, <2>p, <4>1, <4>2
    <3>3. xBytes'[w] <= MaxBytes
      BY <1>0, <2>0, <2>a
    <3>. QED  BY <1>0, <1>w, <2>a, <3>2, <3>3 DEF StageOf, a
  <2>. QED  BY <1>0, <2>a, <2>1, <2>2, <2>3, <2>4, <2>5, OneMove
<1>c. ASSUME NEW w \in XWorkers, XCrash(w) PROVE xCrashes' \in 0..MaxXCrashes
  <2>1. xCrashes \in 0..MaxXCrashes /\ MaxXCrashes \in Nat
    BY <1>0, ArchiveAssumption
  <2>. QED  BY <1>c, <2>1 DEF XCrash
<1>3. ASSUME NEW w \in XWorkers, ExtractFails(w) \/ XCrash(w) PROVE ArchiveInv'
  <2>. USE <1>3, NamesIn, NamesDiffer DEF ExtractFails, XCrash, XGoto, xDirs, xWork
  <2>1. XTyped'
    <3>1. xCrashes' \in 0..MaxXCrashes
      BY <1>0, <1>c
    <3>2. xPc' \in [XWorkers -> Steps]
      BY <1>0
    <3>. QED  BY <1>0, <3>1, <3>2
  <2>2. OneWorkerMoves(w)
    BY <1>0, NamesApart DEF OneWorkerMoves, Untouched
  <2>3. PlacesOf(w)'
    BY <1>0, <1>w DEF PlacesOf
  <2>4. StagingAt(w)'
    BY <1>0, <1>w DEF StagingAt, StageOf
  <2>5. StageOf(w)'
    BY <1>0, <1>w DEF StageOf
  <2>. QED  BY <1>0, <2>1, <2>2, <2>3, <2>4, <2>5, OneMove
<1>4. ASSUME NEW w \in XWorkers, MakePrivate(w) PROVE ArchiveInv'
  <2>. USE <1>4, NamesIn, NamesDiffer DEF MakePrivate, XGoto, xWork
  <2>1. XTyped'
    BY <1>0
  <2>2. OneWorkerMoves(w)
    BY <1>0, NamesApart DEF OneWorkerMoves, Untouched
  <2>3. PlacesOf(w)'
    BY <1>0, <1>w DEF PlacesOf
  <2>4. StagingAt(w)'
    BY <1>0, <1>w DEF StagingAt, StageOf
  <2>5. StageOf(w)'
    <3>. DEFINE a == xArch[w]
    <3>0. a \in XArchives /\ xNext[w] \in 1..(Len(XEntries[a]) + 1) /\ xPc[w] = "extract"
      BY <1>0, <1>w DEF StageOf
    <3>1. xNext[w] = Len(XEntries[a]) + 1
      <4>1. xNext[w] \notin 1..Len(XEntries[a]) /\ Len(XEntries[a]) \in Nat
        BY <3>0, ArchiveAssumption
      <4>. QED  BY <3>0, <4>1
    <3>2. Written(a, xNext[w]) = Paths(a)
      BY <3>0, <3>1, ArchiveAssumption DEF Written, Paths
    <3>. QED  BY <1>0, <1>w, <3>0, <3>2 DEF StageOf
  <2>. QED  BY <1>0, <2>1, <2>2, <2>3, <2>4, <2>5, OneMove
<1>5. ASSUME NEW w \in XWorkers, CheckStaging(w) PROVE ArchiveInv'
  <2>. USE <1>5, NamesIn, NamesDiffer DEF CheckStaging, XGoto, xDirs, xWork
  <2>1. XTyped'
    BY <1>0
  <2>2. OneWorkerMoves(w)
    BY <1>0, NamesApart DEF OneWorkerMoves, Untouched
  <2>3. PlacesOf(w)'
    BY <1>0, <1>w DEF PlacesOf
  <2>4. StagingAt(w)'
    BY <1>0, <1>w DEF StagingAt, StageOf
  <2>5. StageOf(w)'
    BY <1>0, <1>w DEF StageOf
  <2>. QED  BY <1>0, <2>1, <2>2, <2>3, <2>4, <2>5, OneMove
<1>6. ASSUME NEW w \in XWorkers, InstallPayload(w) PROVE ArchiveInv'
  <2>. USE <1>6, NamesIn, NamesDiffer DEF InstallPayload, XGoto, xWork
  <2>1. XTyped'
    BY <1>0
  <2>2. OneWorkerMoves(w)
    BY <1>0, NamesApart DEF OneWorkerMoves, Untouched
  <2>3. PlacesOf(w)'
    BY <1>0, <1>w DEF PlacesOf
  <2>4. StagingAt(w)'
    BY <1>0, <1>w DEF StagingAt, StageOf, PlacesOf
  <2>5. StageOf(w)'
    BY <1>0, <1>w DEF StageOf
  <2>. QED  BY <1>0, <2>1, <2>2, <2>3, <2>4, <2>5, OneMove
<1>7. ASSUME NEW w \in XWorkers, VerifyPayload(w) PROVE ArchiveInv'
  <2>. USE <1>7, NamesIn, NamesDiffer DEF VerifyPayload, XGoto, xDirs, xWork
  <2>1. XTyped'
    BY <1>0
  <2>2. OneWorkerMoves(w)
    BY <1>0, NamesApart DEF OneWorkerMoves, Untouched
  <2>3. PlacesOf(w)'
    BY <1>0, <1>w DEF PlacesOf
  <2>4. StagingAt(w)'
    BY <1>0, <1>w DEF StagingAt, StageOf
  <2>5. StageOf(w)'
    BY <1>0, <1>w DEF StageOf
  <2>. QED  BY <1>0, <2>1, <2>2, <2>3, <2>4, <2>5, OneMove
<1>8. ASSUME NEW w \in XWorkers, MarkComplete(w) PROVE ArchiveInv'
  <2>. USE <1>8, NamesIn, NamesDiffer DEF MarkComplete, XGoto, xWork
  <2>1. XTyped'
    BY <1>0
  <2>2. OneWorkerMoves(w)
    BY <1>0, NamesApart DEF OneWorkerMoves, Untouched
  <2>3. PlacesOf(w)'
    BY <1>0, <1>w DEF PlacesOf
  <2>4. StagingAt(w)'
    BY <1>0, <1>w DEF StagingAt, StageOf
  <2>5. StageOf(w)'
    BY <1>0, <1>w DEF StageOf
  <2>. QED  BY <1>0, <2>1, <2>2, <2>3, <2>4, <2>5, OneMove
<1>9. ASSUME NEW w \in XWorkers, QuarantineCheck(w) PROVE ArchiveInv'
  <2>. USE <1>9, NamesIn, NamesDiffer DEF QuarantineCheck, AfterCleaning, Cleaning, XGoto, xDirs, xWork
  <2>1. XTyped'
    BY <1>0
  <2>2. OneWorkerMoves(w)
    BY <1>0, NamesApart DEF OneWorkerMoves, Untouched
  <2>3. PlacesOf(w)'
    BY <1>0, <1>w DEF PlacesOf
  <2>4. StagingAt(w)'
    BY <1>0, <1>w DEF StagingAt, StageOf
  <2>5. StageOf(w)'
    BY <1>0, <1>w DEF StageOf
  <2>. QED  BY <1>0, <2>1, <2>2, <2>3, <2>4, <2>5, OneMove
<1>10. ASSUME NEW w \in XWorkers, QuarantineMove(w) PROVE ArchiveInv'
  <2>. USE <1>10, NamesIn, NamesDiffer DEF QuarantineMove, Cleaning, XGoto, xWork
  <2>1. XTyped'
    BY <1>0
  <2>2. OneWorkerMoves(w)
    BY <1>0, NamesApart DEF OneWorkerMoves, Untouched
  <2>3. PlacesOf(w)'
    BY <1>0, <1>w DEF PlacesOf
  <2>4. StagingAt(w)'
    BY <1>0, <1>w DEF StagingAt, StageOf, PlacesOf
  <2>5. StageOf(w)'
    BY <1>0, <1>w DEF StageOf
  <2>. QED  BY <1>0, <2>1, <2>2, <2>3, <2>4, <2>5, OneMove
<1>11. ASSUME NEW w \in XWorkers, QuarantineDrop(w) PROVE ArchiveInv'
  <2>. USE <1>11, NamesIn, NamesDiffer DEF QuarantineDrop, AfterCleaning, Cleaning, XGoto, xWork
  <2>0. /\ \A j \in Inodes : j \notin {Staging(w), Private(w)} => xTree'[j] = xTree[j]
        /\ \A j \in Inodes : xTree'[j] \in {{}, xTree[j]}
        /\ xTree' \in [Inodes -> SUBSET AllPaths]
    <3>1. OwnInode(w, xName[Quarantine(Cleaning(w))]) /\ AllowRecursive(w)
            => EmptiedDir(xName[Quarantine(Cleaning(w))]) \subseteq {Staging(w), Private(w)}
      BY <1>0, <1>w DEF OwnInode, AllowRecursive, EmptiedDir, PlacesOf, StageOf
    <3>. QED  BY <1>0, <3>1
  <2>1. XTyped'
    BY <1>0, <2>0
  <2>2. OneWorkerMoves(w)
    BY <1>0, <2>0, NamesApart DEF OneWorkerMoves, Untouched
  <2>3. PlacesOf(w)'
    BY <1>0, <1>w DEF PlacesOf
  <2>4. StagingAt(w)'
    <3>1. CASE xPc[w] = "drop staging" /\ xName[Quarantine(Staging(w))] = Staging(w)
      <4>1. xTree'[Staging(w)] = {}
        BY <3>1, <1>0 DEF OwnInode, AllowRecursive, EmptiedDir
      <4>. QED  BY <1>0, <1>w, <3>1, <4>1 DEF StagingAt, StageOf
    <3>2. CASE ~(xPc[w] = "drop staging" /\ xName[Quarantine(Staging(w))] = Staging(w))
      BY <1>0, <1>w, <3>2 DEF StagingAt, StageOf
    <3>. QED  BY <3>1, <3>2
  <2>5. StageOf(w)'
    BY <1>0, <1>w DEF StageOf
  <2>. QED  BY <1>0, <2>1, <2>2, <2>3, <2>4, <2>5, OneMove
<1>12. ASSUME NEW w \in XWorkers, Publish(w) PROVE ArchiveInv'
  <2>. DEFINE a == xArch[w]
  <2>0. a \in XArchives /\ xPc[w] = "publish" /\ UNCHANGED <<xTree, xPayload, xMarker, xWork, xSafe, xCrashes>>
    BY <1>0, <1>12 DEF Publish
  <2>1. CASE xDest[a] = Gone
    <3>. USE NamesIn, NamesDiffer DEF XGoto, xWork
    <3>0. /\ xDest' = [xDest EXCEPT ![a] = Private(w)] /\ xName' = [xName EXCEPT ![Private(w)] = Gone]
          /\ xOk' = [xOk EXCEPT ![w] = TRUE] /\ xPc' = [xPc EXCEPT ![w] = "done"]
      BY <1>12, <2>1 DEF Publish, Renamed
    <3>1. XTyped'
      BY <1>0, <2>0, <3>0
    <3>2. OneWorkerMoves(w)
      BY <1>0, <2>0, <3>0, NamesApart DEF OneWorkerMoves, Untouched
    <3>3. PlacesOf(w)'
      BY <1>0, <1>w, <2>0, <3>0 DEF PlacesOf
    <3>4. StagingAt(w)'
      BY <1>0, <1>w, <2>0, <3>0 DEF StagingAt, StageOf
    <3>5. StageOf(w)'
      BY <1>0, <1>w, <2>0, <3>0 DEF StageOf
    <3>6. xDest'[a] = Private(w) /\ PublishedBy(w, a)'
      BY <1>0, <1>w, <2>0, <3>0 DEF PublishedBy, StageOf
    <3>7. \A v \in XWorkers, b \in XArchives : PublishedBy(v, b) => v # w /\ PublishedBy(v, b)'
      BY <2>0, <3>2, OthersKept DEF PublishedBy, OneWorkerMoves
    <3>8. Containers'
      <4>1. ASSUME NEW b \in XArchives
            PROVE  \/ xDest'[b] \in {Gone} \cup XForeign
                   \/ \E v \in XWorkers : xDest'[b] = Private(v) /\ PublishedBy(v, b)'
        <5>1. CASE b = a
          BY <2>0, <3>6, <5>1
        <5>2. CASE b # a
          BY <1>0, <3>0, <3>7, <5>2 DEF Containers
        <5>. QED  BY <5>1, <5>2
      <4>2. ASSUME NEW u \in XWorkers, xOk'[u]
            PROVE  \E v \in XWorkers : xDest'[xArch'[u]] = Private(v) /\ PublishedBy(v, xArch[u])'
        <5>1. CASE u = w
          BY <2>0, <3>6, <5>1
        <5>2. CASE u # w
          <6>1. xOk[u] /\ xArch'[u] = xArch[u] /\ xArch[u] \in XArchives
            BY <1>0, <2>0, <3>0, <4>2, <5>2
          <6>2. PICK v \in XWorkers : xDest[xArch[u]] = Private(v) /\ PublishedBy(v, xArch[u])
            BY <1>0, <6>1 DEF Containers
          <6>3. xArch[u] # a
            BY <2>1, <6>2
          <6>. QED  BY <1>0, <3>0, <3>7, <6>1, <6>2, <6>3
        <5>. QED  BY <5>1, <5>2
      <4>. QED  BY <4>1, <4>2 DEF Containers
    <3>9. \A v \in XWorkers : PlacesOf(v)' /\ StagingAt(v)' /\ StageOf(v)'
      BY <1>w, <3>2, <3>3, <3>4, <3>5, OthersKept DEF OneWorkerMoves
    <3>10. Places' /\ ForeignKept'
      BY <1>0, <3>2, <3>9 DEF Places, ForeignKept, OneWorkerMoves
    <3>. QED  BY <3>1, <3>8, <3>9, <3>10 DEF ArchiveInv
  <2>2. CASE xDest[a] # Gone
    <3>. USE NamesIn, NamesDiffer DEF XGoto, xWork
    <3>0. /\ xOk' = [xOk EXCEPT ![w] = Matches(xDest[a])] /\ UNCHANGED <<xName, xDest>>
          /\ xPc' = [xPc EXCEPT ![w] = "clean private"]
      BY <1>12, <2>2 DEF Publish, AlreadyThere
    <3>1. XTyped'
      <4>1. Matches(xDest[a]) \in BOOLEAN
        BY DEF Matches
      <4>. QED  BY <1>0, <2>0, <3>0, <4>1
    <3>2. OneWorkerMoves(w)
      BY <1>0, <2>0, <3>0, NamesApart DEF OneWorkerMoves, Untouched
    <3>3. PlacesOf(w)'
      BY <1>0, <1>w, <2>0, <3>0 DEF PlacesOf
    <3>4. StagingAt(w)'
      BY <1>0, <1>w, <2>0, <3>0 DEF StagingAt, StageOf
    <3>5. StageOf(w)'
      BY <1>0, <1>w, <2>0, <3>0 DEF StageOf
    <3>7. \A v \in XWorkers, b \in XArchives : PublishedBy(v, b) => PublishedBy(v, b)'
      BY <2>0, <3>2, OthersKept DEF PublishedBy, OneWorkerMoves
    <3>8. Containers'
      <4>2. ASSUME NEW u \in XWorkers, xOk'[u]
            PROVE  \E v \in XWorkers : xDest'[xArch'[u]] = Private(v) /\ PublishedBy(v, xArch[u])'
        <5>0. xArch'[u] = xArch[u] /\ xArch[u] \in XArchives
          BY <1>0, <2>0
        <5>1. CASE u = w
          <6>1. Matches(xDest[a])
            BY <1>0, <3>0, <4>2, <5>1
          <6>2. xDest[a] \notin XForeign
            BY <1>0, <6>1 DEF Matches, Places
          <6>3. PICK v \in XWorkers : xDest[a] = Private(v) /\ PublishedBy(v, a)
            BY <1>0, <2>0, <2>2, <6>2 DEF Containers
          <6>. QED  BY <2>0, <3>0, <3>7, <5>0, <5>1, <6>3
        <5>2. CASE u # w
          <6>1. xOk[u]
            BY <1>0, <3>0, <4>2, <5>2
          <6>2. PICK v \in XWorkers : xDest[xArch[u]] = Private(v) /\ PublishedBy(v, xArch[u])
            BY <1>0, <6>1 DEF Containers
          <6>. QED  BY <3>0, <3>7, <5>0, <6>2
        <5>. QED  BY <5>1, <5>2
      <4>. QED  BY <1>0, <3>0, <3>7, <4>2 DEF Containers
    <3>9. \A v \in XWorkers : PlacesOf(v)' /\ StagingAt(v)' /\ StageOf(v)'
      BY <1>w, <3>2, <3>3, <3>4, <3>5, OthersKept DEF OneWorkerMoves
    <3>10. Places' /\ ForeignKept'
      BY <1>0, <3>2, <3>9 DEF Places, ForeignKept, OneWorkerMoves
    <3>. QED  BY <3>1, <3>8, <3>9, <3>10 DEF ArchiveInv
  <2>. QED  BY <2>1, <2>2
<1>13. ASSUME NEW n \in OwnDirs, NEW f \in XForeign, Replace(n, f) PROVE ArchiveInv'
  <2>0. xName' = [xName EXCEPT ![n] = f] /\ xName[n] = n
        /\ UNCHANGED <<xDest, xTree, xPayload, xMarker, xPc, xWork, xOk, xSafe, xCrashes>>
    BY <1>13 DEF Replace
  <2>1. XTyped'
    BY <1>0, <2>0, NamesIn DEF Inodes, xWork
  <2>2. Places' /\ ForeignKept' /\ Containers'
    <3>1. ForeignKept' /\ Containers'
      BY <1>0, <2>0 DEF ForeignKept, Containers, PublishedBy, xWork
    <3>2. ASSUME NEW w \in XWorkers PROVE PlacesOf(w)'
      BY <1>0, <1>w, <2>0, NamesIn, NamesDiffer DEF PlacesOf
    <3>3. Places'
      BY <1>0, <2>0, <3>2 DEF Places
    <3>. QED  BY <3>1, <3>3
  <2>3. ASSUME NEW w \in XWorkers PROVE StagingAt(w)' /\ StageOf(w)'
    <3>1. Quarantine(Staging(w)) # n
      BY NamesDiffer DEF OwnDirs
    <3>2. /\ xName'[Quarantine(Staging(w))] = xName[Quarantine(Staging(w))]
          /\ xName'[Staging(w)] = xName[Staging(w)] \/ (n = Staging(w) /\ xName'[Staging(w)] = f /\ f # Staging(w))
      BY <1>0, <2>0, <3>1, NamesIn
    <3>3. StagingAt(w)'
      BY <1>w, <2>0, <3>2 DEF StagingAt
    <3>4. StageOf(w)'
      <4>1. xPc[w] = "idle" => n # Staging(w)
        BY <1>w, <2>0, NamesDiffer DEF StageOf
      <4>. QED  BY <1>w, <2>0, <3>2, <4>1 DEF StageOf, xWork
    <3>. QED  BY <3>3, <3>4
  <2>. QED  BY <2>1, <2>2, <2>3 DEF ArchiveInv
<1>14. ASSUME NEW a \in XArchives, NEW f \in XForeign, Clutter(a, f) PROVE ArchiveInv'
  <2>0. xDest[a] = Gone /\ xDest' = [xDest EXCEPT ![a] = f]
        /\ UNCHANGED <<xName, xTree, xPayload, xMarker, xPc, xWork, xOk, xSafe, xCrashes>>
    BY <1>14 DEF Clutter
  <2>1. XTyped'
    BY <1>0, <2>0 DEF Inodes, xWork
  <2>2. Places' /\ ForeignKept'
    BY <1>0, <2>0 DEF Places, PlacesOf, ForeignKept
  <2>3. \A w \in XWorkers : StagingAt(w)' /\ StageOf(w)'
    BY <1>w, <2>0 DEF StagingAt, StageOf, xWork
  <2>4. Containers'
    <3>1. \A v \in XWorkers, b \in XArchives : PublishedBy(v, b)' <=> PublishedBy(v, b)
      BY <2>0 DEF PublishedBy, xWork
    <3>2. \A v \in XWorkers : xDest[a] # Private(v)
      BY <2>0, NamesDiffer
    <3>3. \A b \in XArchives : xDest'[b] = IF b = a THEN f ELSE xDest[b]
      BY <1>0, <2>0
    <3>4. \A b \in XArchives : \/ xDest'[b] \in {Gone} \cup XForeign
                              \/ \E v \in XWorkers : xDest'[b] = Private(v) /\ PublishedBy(v, b)'
      BY <1>0, <3>1, <3>3 DEF Containers
    <3>5. ASSUME NEW u \in XWorkers, xOk'[u]
          PROVE  \E v \in XWorkers : xDest'[xArch'[u]] = Private(v) /\ PublishedBy(v, xArch[u])'
      <4>1. xOk[u] /\ xArch'[u] = xArch[u] /\ xArch[u] \in XArchives
        BY <1>0, <2>0, <3>5 DEF xWork
      <4>2. PICK v \in XWorkers : xDest[xArch[u]] = Private(v) /\ PublishedBy(v, xArch[u])
        BY <1>0, <4>1 DEF Containers
      <4>. QED  BY <3>1, <3>2, <3>3, <4>1, <4>2
    <3>. QED  BY <3>4, <3>5 DEF Containers
  <2>. QED  BY <2>1, <2>2, <2>3, <2>4 DEF ArchiveInv
<1>15. CASE UNCHANGED xVars
  <2>. USE <1>15 DEF xVars, xDirs, xWork
  <2>1. XTyped' /\ Places' /\ ForeignKept'
    BY <1>0 DEF Places, PlacesOf, ForeignKept
  <2>2. Containers'
    BY <1>0 DEF Containers, PublishedBy
  <2>3. \A w \in XWorkers : StagingAt(w)' /\ StageOf(w)'
    BY <1>w DEF StagingAt, StageOf
  <2>. QED  BY <2>1, <2>2, <2>3 DEF ArchiveInv
<1>. QED  BY <1>1, <1>2, <1>3, <1>4, <1>5, <1>6, <1>7, <1>8, <1>9, <1>10, <1>11, <1>12, <1>13,
             <1>14, <1>15 DEF ArchiveNext, WorkerStep

LEMMA ArchiveInvWhole == ArchiveInv => PublishedWhole
<1>. SUFFICES ASSUME ArchiveInv PROVE PublishedWhole
  OBVIOUS
<1>0. XTyped /\ Places /\ ForeignKept /\ Containers
  BY DEF ArchiveInv
<1>1. \A v \in XWorkers, a \in XArchives :
        xDest[a] = Private(v) /\ PublishedBy(v, a) => CompleteContainer(a) /\ Whole(a)
  BY NamesDiffer DEF PublishedBy, Whole, CompleteContainer
<1>2. ContentWhole
  <2>1. ASSUME NEW a \in XArchives, CompleteContainer(a) PROVE Whole(a)
    <3>1. xDest[a] \notin {Gone} \cup XForeign
      BY <1>0, <2>1 DEF CompleteContainer, Places
    <3>. QED  BY <1>0, <1>1, <3>1 DEF Containers
  <2>2. ASSUME NEW w \in XWorkers, xOk[w] PROVE Whole(xArch[w]) /\ xBytes[w] <= MaxBytes
    <3>1. xArch[w] \in XArchives
      BY <1>0 DEF XTyped, ArchiveTypeOK
    <3>2. xBytes[w] <= MaxBytes
      BY DEF ArchiveInv, StageOf
    <3>. QED  BY <1>0, <1>1, <2>2, <3>1, <3>2 DEF Containers
  <2>. QED  BY <2>1, <2>2 DEF ContentWhole
<1>3. NothingLeft
  <2>. SUFFICES ASSUME NEW w \in XWorkers, xPc[w] = "done",
                       NEW n \in {Quarantine(Staging(w)), Staging(w)}
                PROVE  xName[n] = Gone \/ xName[n] \in XForeign \/ xTree[xName[n]] = {}
    BY DEF NothingLeft
  <2>1. PlacesOf(w) /\ StagingAt(w)
    BY <1>0 DEF ArchiveInv, Places
  <2>. QED  BY <2>1 DEF PlacesOf, StagingAt
<1>. QED  BY <1>0, <1>2, <1>3 DEF PublishedWhole

\* A reader of the destination sees only whole trees, and failed work cleans up after itself.
THEOREM ArchivesPublishedWhole == ArchiveSpec => [](ArchiveTypeOK /\ PublishedWhole)
<1>1. ArchiveInv => ArchiveTypeOK /\ PublishedWhole
  BY ArchiveInvWhole DEF ArchiveInv, XTyped
<1>. QED  BY <1>1, ArchiveInvInit, ArchiveInvNext, PTL DEF ArchiveSpec

(***************************************************************************)
(* Requests, transfers and imports (torrents/service.py): an imported file *)
(* keeps its place in the library when the transfer is cleaned up.         *)
(***************************************************************************)
FileStatus == {"none", "pending", "imported", "failed", "kept", "lost"}
RequestRecs == [pc : {"idle", "add", "gate", "save", "link", "resume", "cancel", "drop"},
                rel : SUBSET Rels, wanted : SUBSET Slots]
SweepRecs == [rel : Rels, todo : SUBSET Slots, done : SUBSET Slots, ok : BOOLEAN]

\* What the library holds or the user has removed from it: it only grows.
Landed == aDisk \cup aErased

\* A sweep that has had no failure has landed every video it is done with.
SweepLanded == \A i \in aImport : i.ok => \A s \in i.done : <<i.rel, s>> \in Landed

AcqInv ==
  /\ AcqTypeOK /\ aReq \in RequestRecs /\ aImport \in SUBSET SweepRecs
  /\ ImportedOnDisk /\ SweepLanded

LEMMA AcqInvInit == AcqInit => AcqInv
BY DEF AcqInit, AcqInv, AcqTypeOK, NoDownload, RequestRecs, SweepRecs, ImportedOnDisk, SweepLanded

\* A step that takes nothing from the library, imports nothing and leaves the sweep alone.
LEMMA NothingLanded ==
  ASSUME AcqInv, AcqTypeOK', aReq' \in RequestRecs, Landed \subseteq Landed', aImport' \subseteq aImport,
         aHist' = aHist \/ \E r \in Rels : aHist' = RecordDownloaded(r),
         \A r \in Rels, s \in Slots :
            aFile'[r][s] \in {"imported", "kept"} => aFile[r][s] \in {"imported", "kept"}
  PROVE  AcqInv'
<1>1. \A r \in Rels : aHist'[r] = "imported" => aHist[r] = "imported"
  BY DEF AcqInv, AcqTypeOK, RecordDownloaded
<1>2. ImportedOnDisk'
  BY <1>1 DEF AcqInv, ImportedOnDisk, Landed
<1>3. SweepLanded' /\ aImport' \in SUBSET SweepRecs
  BY DEF AcqInv, SweepLanded
<1>. QED  BY <1>2, <1>3 DEF AcqInv

\* The file rows after a removal or a deletion of the torrent.
LEMMA RowsAfter ==
  ASSUME AcqTypeOK, NEW r \in Rels, NEW files \in {FilesAfterRemove(r), FilesAfterDelete(r)}
  PROVE  /\ files \in [Rels -> [Slots -> FileStatus]]
         /\ \A x \in Rels, s \in Slots :
              files[x][s] \in {"imported", "kept"} => aFile[x][s] \in {"imported", "kept"}
BY DEF AcqTypeOK, FilesAfterRemove, FilesAfterDelete, FileStatus

LEMMA StatusTyped ==
  ASSUME AcqTypeOK, NEW r \in Rels
  PROVE  /\ LiveStatus(r) \in {"unknown", "finished", "downloading"}
         /\ \A st \in {"downloading", "finished", "paused"} : AppliedStatus(st, LiveStatus(r)) \in {"downloading", "finished", "paused"}
BY DEF LiveStatus, AppliedStatus

LEMMA RequestKeepsAcq ==
  ASSUME AcqInv, NEW r \in Rels, Requested(r) \/ DownloadStep(r)
  PROVE  AcqInv'
<1>. USE DEF AcqInv, AcqTypeOK
<1>1. CASE Requested(r)
  <2>1. WantedSlots(r) \in SUBSET Slots
    BY AcquisitionAssumption DEF WantedSlots
  <2>2. aReq' \in RequestRecs
    BY <1>1, <2>1 DEF Requested, RequestRecs
  <2>3. AcqTypeOK'
    BY <1>1, <2>2 DEF Requested, RequestRecs
  <2>. HIDE DEF AcqInv, AcqTypeOK
  <2>. QED  BY <1>1, <2>2, <2>3, NothingLanded DEF Requested, Landed
<1>2. CASE AddToClient(r) \/ PostAddGate(r) \/ SaveAndPause(r) \/ CancelFailed(r)
  <2>1. aReq' \in RequestRecs
    <3>1. NoDownload \in RequestRecs
      BY DEF NoDownload, RequestRecs
    <3>2. \A pc \in {"gate", "save", "link", "drop"} : [aReq EXCEPT !.pc = pc] \in RequestRecs
      BY DEF RequestRecs
    <3>3. aReq' = NoDownload \/ \E pc \in {"gate", "save", "link", "drop"} : aReq' = [aReq EXCEPT !.pc = pc]
      BY <1>2 DEF AddToClient, PostAddGate, SaveAndPause, CancelFailed
    <3>. QED  BY <3>1, <3>2, <3>3
  <2>2. AcqTypeOK'
    <3>1. aReq'.pc \in {"idle", "add", "gate", "save", "link", "resume", "cancel", "drop"}
      BY <2>1 DEF RequestRecs
    <3>2. CASE AddToClient(r)
      BY <3>1, <3>2 DEF AddToClient
    <3>3. CASE PostAddGate(r)
      BY <3>1, <3>3 DEF PostAddGate
    <3>4. CASE SaveAndPause(r)
      <4>1. AppliedStatus("downloading", LiveStatus(r)) \in {"downloading", "finished", "paused"}
        BY StatusTyped
      <4>. QED  BY <3>1, <3>4, <4>1 DEF SaveAndPause
    <3>5. CASE CancelFailed(r)
      BY <3>1, <3>5 DEF CancelFailed
    <3>. QED  BY <1>2, <3>2, <3>3, <3>4, <3>5
  <2>. HIDE DEF AcqInv, AcqTypeOK
  <2>. QED  BY <1>2, <2>1, <2>2, NothingLanded DEF AddToClient, PostAddGate, SaveAndPause, CancelFailed, Landed
<1>3. CASE LinkShow(r) \/ LinkMovie(r)
  <2>1. PICK slots : LinkRows(r, slots)
    BY <1>3 DEF LinkShow, LinkMovie
  <2>2. aReq' \in RequestRecs
    BY <2>1 DEF LinkRows, RequestRecs
  <2>3. AcqTypeOK'
    BY <2>1, <2>2 DEF LinkRows, RequestRecs
  <2>4. \A x \in Rels, s \in Slots : aFile'[x][s] \in {"imported", "kept"} => aFile[x][s] \in {"imported", "kept"}
    BY <2>1 DEF LinkRows
  <2>. HIDE DEF AcqInv, AcqTypeOK
  <2>. QED  BY <2>1, <2>2, <2>3, <2>4, NothingLanded DEF LinkRows, Landed
<1>4. CASE ResumeUnlessPaused(r)
  <2>1. aReq' \in RequestRecs
    BY <1>4 DEF ResumeUnlessPaused, RequestRecs, NoDownload
  <2>2. AcqTypeOK'
    BY <1>4, <2>1, StatusTyped DEF ResumeUnlessPaused, RequestRecs, RecordDownloaded
  <2>. HIDE DEF AcqInv, AcqTypeOK
  <2>. QED  BY <1>4, <2>1, <2>2, NothingLanded DEF ResumeUnlessPaused, Landed
<1>5. CASE DropFailed(r)
  <2>1. aReq' \in RequestRecs
    BY <1>5 DEF DropFailed, RequestRecs, NoDownload
  <2>2. aFile' \in {FilesAfterRemove(r), FilesAfterDelete(r)}
    BY <1>5 DEF DropFailed
  <2>3. AcqTypeOK'
    BY <1>5, <2>1, <2>2, RowsAfter DEF DropFailed, RequestRecs, FileStatus
  <2>. HIDE DEF AcqInv
  <2>. QED  BY <1>5, <2>1, <2>2, <2>3, RowsAfter, NothingLanded DEF DropFailed, Landed, AcqInv
<1>. QED  BY <1>1, <1>2, <1>3, <1>4, <1>5 DEF DownloadStep

\* Blocking and removing a decoy.
LEMMA BlockTyped ==
  ASSUME AcqTypeOK, NEW r \in Rels, BlockAndRemove(r)
  PROVE  /\ aFile' \in [Rels -> [Slots -> FileStatus]] /\ aDenied' \subseteq Rels
         /\ aClient' \in [Rels -> {"absent", "stopped", "running", "complete"}]
         /\ aRow' \in [Rels -> {"none", "downloading", "finished", "paused"}]
         /\ \A x \in Rels, s \in Slots : aFile'[x][s] \in {"imported", "kept"} => aFile[x][s] \in {"imported", "kept"}
BY RowsAfter DEF BlockAndRemove, AcqTypeOK

LEMMA PollKeeps ==
  ASSUME AcqInv, \/ \E r \in Rels : Verify(r) \/ ClientCompletes(r) \/ PollSave(r) \/ ViewRead(r)
                 \/ PollRead \/ ViewSave
  PROVE  AcqInv'
<1>0. AcqTypeOK /\ aReq \in RequestRecs
  BY DEF AcqInv
<1>1. ASSUME NEW r \in Rels, Verify(r) \/ PollSave(r) PROVE AcqInv'
  <2>1. CASE BlockAndRemove(r)
    <3>1. AcqTypeOK'
      BY <1>0, <1>1, <2>1, BlockTyped DEF Verify, PollSave, AcqTypeOK, FileStatus
    <3>. QED  BY <1>0, <1>1, <2>1, <3>1, BlockTyped, NothingLanded DEF Verify, PollSave, Landed
  <2>2. CASE /\ UNCHANGED <<aDenied, aFile, aClient>>
             /\ aRow' = aRow \/ aRow' = [aRow EXCEPT ![r] = "finished"]
    <3>1. AcqTypeOK'
      BY <1>0, <1>1, <2>2 DEF Verify, PollSave, AcqTypeOK
    <3>. QED  BY <1>0, <1>1, <2>2, <3>1, NothingLanded DEF Verify, PollSave, Landed
  <2>. QED  BY <1>1, <2>1, <2>2 DEF Verify, PollSave
<1>2. ASSUME NEW r \in Rels, ClientCompletes(r) \/ ViewRead(r) PROVE AcqInv'
  <2>1. AcqTypeOK'
    BY <1>0, <1>2, StatusTyped DEF ClientCompletes, ViewRead, AcqTypeOK
  <2>. QED  BY <1>0, <1>2, <2>1, NothingLanded DEF ClientCompletes, ViewRead, Landed
<1>3. CASE PollRead \/ ViewSave
  <2>1. AcqTypeOK'
    BY <1>0, <1>3 DEF PollRead, ViewSave, AcqTypeOK
  <2>. QED  BY <1>0, <1>3, <2>1, NothingLanded DEF PollRead, ViewSave, Landed
<1>. QED  BY <1>1, <1>2, <1>3

LEMMA UserKeeps ==
  ASSUME AcqInv,
         \/ \E r \in Rels : UserPause(r) \/ UserResume(r) \/ UserReset(r)
         \/ \E r \in Rels, b \in BOOLEAN : UserDelete(r, b)
         \/ \E r \in Rels, s \in Slots : EraseFromDisk(r, s)
         \/ \E s \in Slots : UserSkip(s)
         \/ EraseRow \/ AcqRestart
  PROVE  AcqInv'
<1>0. AcqTypeOK /\ aReq \in RequestRecs
  BY DEF AcqInv
<1>1. ASSUME NEW r \in Rels, UserPause(r) \/ UserResume(r) PROVE AcqInv'
  <2>1. AcqTypeOK'
    <3>1. AppliedStatus("downloading", LiveStatus(r)) \in {"downloading", "finished", "paused"}
      BY <1>0, StatusTyped
    <3>2. CASE UserPause(r)
      BY <1>0, <3>2 DEF UserPause, AcqTypeOK
    <3>3. CASE UserResume(r)
      BY <1>0, <3>1, <3>3 DEF UserResume, AcqTypeOK
    <3>. QED  BY <1>1, <3>2, <3>3
  <2>. QED  BY <1>0, <1>1, <2>1, NothingLanded DEF UserPause, UserResume, Landed
<1>2. ASSUME NEW r \in Rels, UserReset(r) PROVE AcqInv'
  <2>1. AcqTypeOK'
    BY <1>0, <1>2 DEF UserReset, AcqTypeOK
  <2>2. \A x \in Rels, s \in Slots : aFile'[x][s] \in {"imported", "kept"} => aFile[x][s] \in {"imported", "kept"}
    BY <1>0, <1>2 DEF UserReset, AcqTypeOK
  <2>. QED  BY <1>0, <1>2, <2>1, <2>2, NothingLanded DEF UserReset, Landed
<1>3. ASSUME NEW r \in Rels, NEW b \in BOOLEAN, UserDelete(r, b) PROVE AcqInv'
  <2>1. AcqTypeOK'
    BY <1>0, <1>3, RowsAfter DEF UserDelete, AcqTypeOK, FileStatus
  <2>. QED  BY <1>0, <1>3, <2>1, RowsAfter, NothingLanded DEF UserDelete, Landed
<1>4. ASSUME NEW r \in Rels, NEW s \in Slots, EraseFromDisk(r, s) PROVE AcqInv'
  <2>1. AcqTypeOK'
    BY <1>0, <1>4 DEF EraseFromDisk, AcqTypeOK
  <2>. QED  BY <1>0, <1>4, <2>1, NothingLanded DEF EraseFromDisk, Landed
<1>5. ASSUME NEW s \in Slots, UserSkip(s) PROVE AcqInv'
  <2>1. AcqTypeOK'
    BY <1>0, <1>5 DEF UserSkip, AcqTypeOK
  <2>. QED  BY <1>0, <1>5, <2>1, NothingLanded DEF UserSkip, Landed
<1>6. CASE EraseRow
  <2>1. PICK e \in aErase : aFile' = [aFile EXCEPT ![e[1]][e[2]] = "none"]
    BY <1>6 DEF EraseRow
  <2>2. e[1] \in Rels /\ e[2] \in Slots
    BY <1>0 DEF AcqTypeOK
  <2>3. /\ aFile' \in [Rels -> [Slots -> FileStatus]]
        /\ \A x \in Rels, s \in Slots : aFile'[x][s] \in {"imported", "kept"} => aFile[x][s] \in {"imported", "kept"}
    BY <1>0, <2>1, <2>2 DEF AcqTypeOK, FileStatus
  <2>4. AcqTypeOK'
    BY <1>0, <1>6, <2>3 DEF EraseRow, AcqTypeOK, FileStatus
  <2>. QED  BY <1>0, <1>6, <2>3, <2>4, NothingLanded DEF EraseRow, Landed
<1>7. CASE AcqRestart
  <2>1. AcqTypeOK' /\ aReq' \in RequestRecs
    BY <1>0, <1>7 DEF AcqRestart, AcqTypeOK, NoDownload, RequestRecs
  <2>. QED  BY <1>7, <2>1, NothingLanded DEF AcqRestart, Landed
<1>. QED  BY <1>1, <1>2, <1>3, <1>4, <1>5, <1>6, <1>7

LEMMA SweepKeeps ==
  ASSUME AcqInv, \/ \E r \in Rels : ImportBegin(r) \/ ImportAmbiguous(r)
                 \/ ImportSweepStep \/ \E r \in Rels, s \in Slots : ReconcileOrphan(r, s)
  PROVE  AcqInv'
<1>0. AcqTypeOK /\ aReq \in RequestRecs /\ aImport \in SUBSET SweepRecs /\ ImportedOnDisk /\ SweepLanded
  BY DEF AcqInv
<1>1. ASSUME NEW r \in Rels, ImportAmbiguous(r) \/ ImportBegin(r), UNCHANGED aImport PROVE AcqInv'
  <2>0. aFile' = [aFile EXCEPT ![r] = [s \in Slots |-> IF s \in LinkedSlots(r) THEN "failed" ELSE aFile[r][s]]]
        \/ aFile' = aFile
    BY <1>0, <1>1 DEF ImportAmbiguous, ImportBegin, AcqTypeOK
  <2>2. /\ aFile' \in [Rels -> [Slots -> FileStatus]]
        /\ \A x \in Rels, s \in Slots : aFile'[x][s] \in {"imported", "kept"} => aFile[x][s] \in {"imported", "kept"}
    <3>. DEFINE g == [s \in Slots |-> IF s \in LinkedSlots(r) THEN "failed" ELSE aFile[r][s]]
    <3>1. /\ g \in [Slots -> FileStatus]
          /\ \A s \in Slots : g[s] \in {"imported", "kept"} => aFile[r][s] \in {"imported", "kept"}
      BY <1>0 DEF AcqTypeOK, FileStatus
    <3>2. aFile \in [Rels -> [Slots -> FileStatus]] /\ (aFile' = [aFile EXCEPT ![r] = g] \/ aFile' = aFile)
      BY <1>0, <2>0 DEF AcqTypeOK, FileStatus
    <3>. HIDE DEF g
    <3>. QED  BY <3>1, <3>2
  <2>1. AcqTypeOK'
    BY <1>0, <1>1, <2>2 DEF ImportAmbiguous, ImportBegin, AcqTypeOK, FileStatus
  <2>. QED  BY <1>0, <1>1, <2>1, <2>2, NothingLanded DEF ImportAmbiguous, ImportBegin, Landed
<1>2. ASSUME NEW r \in Rels, ImportBegin(r), UNCHANGED aFile,
             aImport' = {[rel |-> r, todo |-> LinkedSlots(r), done |-> {}, ok |-> TRUE]}
      PROVE  AcqInv'
  <2>1. AcqTypeOK' /\ aReq' \in RequestRecs
    BY <1>0, <1>2 DEF ImportBegin, AcqTypeOK
  <2>2. aImport' \in SUBSET SweepRecs
    BY <1>2 DEF SweepRecs, LinkedSlots
  <2>3. ImportedOnDisk' /\ SweepLanded'
    BY <1>0, <1>2 DEF ImportBegin, ImportedOnDisk, SweepLanded
  <2>. QED  BY <2>1, <2>2, <2>3 DEF AcqInv
<1>3. ASSUME NEW i \in aImport, NEW s \in i.todo, LinkIntoLibrary(i, s) PROVE AcqInv'
  <2>1. i.rel \in Rels /\ s \in Slots
    BY <1>0 DEF SweepRecs
  <2>2. AcqTypeOK'
    BY <1>0, <1>3, <2>1 DEF LinkIntoLibrary, AcqTypeOK
  <2>. QED  BY <1>0, <1>3, <2>2, NothingLanded DEF LinkIntoLibrary, Landed
<1>4. ASSUME NEW i \in aImport, NEW s \in i.todo, NEW st \in {"imported", "failed"}, FinalizeFile(i, s, st)
      PROVE  AcqInv'
  <2>1. i \in SweepRecs /\ i.rel \in Rels /\ s \in Slots
    BY <1>0 DEF SweepRecs
  <2>2. /\ st = "imported" => <<i.rel, s>> \in Landed
        /\ aFile' = [aFile EXCEPT ![i.rel][s] = Stamped(aFile[i.rel][s], st)]
        /\ aImport' = {[i EXCEPT !.todo = i.todo \ {s}, !.done = i.done \cup {s}, !.ok = i.ok /\ st = "imported"]}
        /\ UNCHANGED <<aRow, aClient, aDisk, aDenied, aSkipped, aReq, aVerify, aPoll, aView, aErase, aHist, aErased, aCount>>
    BY <1>0, <1>4, <2>1 DEF FinalizeFile, Finalize, Landed, AcqTypeOK
  <2>3. /\ Stamped(aFile[i.rel][s], st) \in FileStatus
        /\ Stamped(aFile[i.rel][s], st) \in {"imported", "kept"} => st = "imported"
    BY <1>0, <2>1 DEF AcqTypeOK, FileStatus, Stamped
  <2>4. AcqTypeOK'
    BY <1>0, <2>1, <2>2, <2>3 DEF AcqTypeOK, FileStatus
  <2>5. ImportedOnDisk'
    BY <1>0, <2>1, <2>2, <2>3 DEF ImportedOnDisk, AcqTypeOK, Landed
  <2>. DEFINE ok == i.ok /\ st = "imported"
              next == [i EXCEPT !.todo = i.todo \ {s}, !.done = i.done \cup {s}, !.ok = ok]
  <2>6. /\ i.todo \ {s} \in SUBSET Slots /\ i.done \cup {s} \in SUBSET Slots /\ ok \in BOOLEAN
        /\ ok => i.ok /\ st = "imported"
    BY <2>1 DEF SweepRecs
  <2>. HIDE DEF ok
  <2>7. next \in SweepRecs /\ next.rel = i.rel /\ next.done = i.done \cup {s} /\ next.ok = ok
    BY <2>1, <2>6 DEF SweepRecs
  <2>8. aImport' = {next}
    BY <2>2 DEF ok
  <2>. HIDE DEF next
  <2>9. SweepLanded'
    <3>1. SUFFICES ASSUME next.ok, NEW x \in next.done PROVE <<next.rel, x>> \in Landed'
      BY <2>8 DEF SweepLanded
    <3>2. ok
      BY <2>7, <3>1
    <3>3. Landed' = Landed
      BY <2>2 DEF Landed
    <3>. QED  BY <1>0, <2>2, <2>6, <2>7, <3>1, <3>2, <3>3 DEF SweepLanded
  <2>. QED  BY <1>0, <2>2, <2>4, <2>5, <2>7, <2>8, <2>9 DEF AcqInv
<1>5. ASSUME NEW i \in aImport, ImportEnd(i) PROVE AcqInv'
  <2>1. i.rel \in Rels
    BY <1>0 DEF SweepRecs
  <2>2. /\ aFile' \in [Rels -> [Slots -> FileStatus]]
        /\ \A x \in Rels, s \in Slots : aFile'[x][s] \in {"imported", "kept"} => aFile[x][s] \in {"imported", "kept"}
    <3>1. aFile' \in {FilesAfterRemove(i.rel), FilesAfterDelete(i.rel)} \/ aFile' = aFile
      BY <1>5 DEF ImportEnd
    <3>. QED  BY <1>0, <2>1, <3>1, RowsAfter DEF AcqTypeOK, FileStatus
  <2>3. /\ aHist' \in [Rels -> {"none", "downloaded", "imported", "failed"}]
        /\ \A r \in Rels : aHist'[r] = "imported" => aHist[r] = "imported" \/ (r = i.rel /\ AllImported(r))
    <3>1. aHist' = [aHist EXCEPT ![i.rel] = CASE AllImported(i.rel) -> "imported"
                                              [] Progress(i.rel, "failed") # {} -> "failed"
                                              [] OTHER -> "downloaded"]
      BY <1>5 DEF ImportEnd, RecordImported
    <3>. QED  BY <1>0, <2>1, <3>1 DEF AcqTypeOK
  <2>4. AllImported(i.rel) => \E s \in Slots : <<i.rel, s>> \in Landed
    BY <1>0, <2>1 DEF AllImported, Progress, LinkedSlots, ImportedOnDisk, Landed
  <2>5. AcqTypeOK'
    <3>1. /\ aClient' \in [Rels -> {"absent", "stopped", "running", "complete"}]
          /\ aRow' \in [Rels -> {"none", "downloading", "finished", "paused"}]
      BY <1>0, <1>5, <2>1 DEF ImportEnd, AcqTypeOK
    <3>2. UNCHANGED <<aDisk, aDenied, aSkipped, aReq, aVerify, aPoll, aView, aErase, aErased, aCount>>
      BY <1>5 DEF ImportEnd
    <3>. QED  BY <1>0, <2>2, <2>3, <3>1, <3>2 DEF AcqTypeOK, FileStatus
  <2>6. Landed' = Landed
    BY <1>5 DEF ImportEnd, Landed
  <2>7. ImportedOnDisk'
    <3>1. ASSUME NEW r \in Rels, NEW s \in Slots, aFile'[r][s] \in {"imported", "kept"}
          PROVE  <<r, s>> \in Landed'
      BY <1>0, <2>2, <2>6, <3>1 DEF ImportedOnDisk, Landed
    <3>2. ASSUME NEW r \in Rels, aHist'[r] = "imported" PROVE \E s \in Slots : <<r, s>> \in Landed'
      BY <1>0, <2>3, <2>4, <2>6, <3>2 DEF ImportedOnDisk, Landed
    <3>. QED  BY <3>1, <3>2 DEF ImportedOnDisk, Landed
  <2>. QED  BY <1>0, <1>5, <2>5, <2>7 DEF AcqInv, ImportEnd, SweepLanded
<1>6. ASSUME NEW r \in Rels, NEW s \in Slots, ReconcileOrphan(r, s) PROVE AcqInv'
  <2>1. AcqTypeOK'
    BY <1>0, <1>6 DEF ReconcileOrphan, AcqTypeOK
  <2>2. ImportedOnDisk'
    BY <1>0, <1>6 DEF ReconcileOrphan, ImportedOnDisk, AcqTypeOK
  <2>. QED  BY <1>0, <1>6, <2>1, <2>2 DEF ReconcileOrphan, AcqInv, SweepLanded, Landed
<1>7. ASSUME NEW r \in Rels, ImportBegin(r) \/ ImportAmbiguous(r) PROVE AcqInv'
  BY <1>1, <1>2, <1>7 DEF ImportBegin, ImportAmbiguous
<1>8. ASSUME ImportSweepStep PROVE AcqInv'
  BY <1>3, <1>4, <1>5, <1>8 DEF ImportSweepStep, LinkEpisodeVideo, LinkMovieVideo
<1>. QED  BY <1>6, <1>7, <1>8

LEMMA AcqInvNext == AcqInv /\ [AcqNext]_aVars => AcqInv'
<1>. SUFFICES ASSUME AcqInv, [AcqNext]_aVars PROVE AcqInv'
  OBVIOUS
<1>1. ASSUME NEW r \in Rels, Request(r) \/ AutoDownloadShow(r) \/ AutoDownloadMovie(r) \/ DownloadStep(r) PROVE AcqInv'
  BY <1>1, RequestKeepsAcq DEF Request, AutoDownloadShow, AutoDownloadMovie
<1>2. CASE UNCHANGED aVars
  BY <1>2 DEF aVars, AcqInv, AcqTypeOK, ImportedOnDisk, SweepLanded, Landed
<1>. QED  BY <1>1, <1>2, PollKeeps, UserKeeps, SweepKeeps DEF AcqNext

\* The action of LibraryKept.
KeepsLibrary ==
  /\ ImportedOnDisk'
  /\ \A i \in aImport : ImportEnd(i) /\ aClient' # aClient =>
       \A s \in i.done : <<i.rel, s>> \in aDisk \cup aErased

LEMMA CleanupAfterLanding == AcqInv /\ [AcqNext]_aVars => [KeepsLibrary]_aVars
<1>. SUFFICES ASSUME AcqInv, [AcqNext]_aVars PROVE KeepsLibrary
  OBVIOUS
<1>1. ImportedOnDisk'
  BY AcqInvNext DEF AcqInv
<1>2. ASSUME NEW i \in aImport, ImportEnd(i), aClient' # aClient, NEW s \in i.done
      PROVE  <<i.rel, s>> \in aDisk \cup aErased
  <2>1. i.ok
    BY <1>2 DEF ImportEnd
  <2>. QED  BY <2>1 DEF AcqInv, SweepLanded, Landed
<1>. QED  BY <1>1, <1>2 DEF KeepsLibrary

\* Rows and history never say imported of a file that has not reached the library, and the
\* client's copy is cleaned up only after everything the sweep was to import from it has
\* (torrents/service.py).
THEOREM LibraryStaysWhole == AcqSpec => []AcqTypeOK /\ LibraryKept
<1>1. AcqInit => AcqInv
  BY AcqInvInit
<1>2. AcqInv /\ [AcqNext]_aVars => AcqInv'
  BY AcqInvNext
<1>3. AcqInv => AcqTypeOK
  BY DEF AcqInv
<1>4. AcqInv /\ [AcqNext]_aVars => [KeepsLibrary]_aVars
  BY CleanupAfterLanding
<1>. QED  BY <1>1, <1>2, <1>3, <1>4, PTL DEF AcqSpec, LibraryKept, KeepsLibrary

(***************************************************************************)
(* The files of a title: rows, links and moves (movies/service.py,         *)
(* imports/files.py, media_service.py).                                    *)
(***************************************************************************)
\* The file x, where it lies, has its row under that name, or its import is about to add it.
NamedByRow ==
  lLib # Nothing => \A l \in LLibs, n \in LSlots :
     LET x == lDisk[l][n] IN
     x # Nothing /\ x \notin lTouched => lRows[n] = x \/ (lImp[x].pc = "row" /\ lImp[x].slot = n)

\* No row has the name an import is to write, but the row it is to rename.
PlanHolds(i) ==
  /\ i.lib \in LLibs /\ i.slot \in LSlots
  /\ i.pc = "reuse" => i.dup \in LSlots /\ i.row \in LSources
  /\ lLib # Nothing =>
       /\ i.pc # "reuse" => lRows[i.slot] = Nothing
       /\ i.pc = "reuse" => /\ i.slot = i.dup \/ lRows[i.slot] = Nothing
                            /\ lRows[i.dup] \in {Nothing, i.row}
                            /\ \A n \in LSlots : lRows[n] = i.row => n = i.dup
PlansHold == \A s \in RunningImports : PlanHolds(lImp[s])

\* A source has one row at most, and only when its import is over.
RowsOfImports ==
  /\ \A m, n \in LSlots : lRows[m] # Nothing /\ lRows[m] = lRows[n] => m = n
  /\ \A n \in LSlots : lRows[n] # Nothing => lImp[lRows[n]].pc = "imported"
  /\ lDel.pc = "row" => lDel.row \in lTouched
  /\ lLib = Nothing => lRows = Empty

AloneInTitle == \A s, t \in RunningImports : s = t

\* The name n is that of the row of c; once the title is gone, no running import renames
\* or replaces another file under it.
Owns(n, c) ==
  IF lLib # Nothing THEN lRows[n] = c
  ELSE \A s \in RunningImports :
         /\ lImp[s].slot = n => lImp[s].pc = "row" \/ (lImp[s].pc = "reuse" /\ lImp[s].dup = n)
         /\ lImp[s].pc = "reuse" /\ lImp[s].dup = n => lImp[s].row = c

HasContent(l, n, c) == lDisk[l][n] # Nothing /\ SameContent(lDisk[l][n], c)

\* Before the move ends, c is where its row says and, when it has been linked, there too.
AtSource(c) ==
  \E n \in LSlots :
     /\ lRows[n] = c /\ lDisk[lLib][n] = c
     /\ n \in lMove.done \ lMove.errors \/ lMove.pc = "set" => HasContent(lMove.to, n, c)

\* After it, c is outside the directory that is about to be removed.
AtTarget(c) ==
  \E l \in LLibs \ {lMove.to}, n \in LSlots :
     /\ lLib # Nothing => l = lLib
     /\ HasContent(l, n, c) /\ Owns(n, c)

MoveKeeps ==
  /\ lMove.pc \in {"link", "set"} /\ lLib # Nothing =>
       /\ lMove.to \in LLibs /\ lMove.to # lLib
       /\ \A c \in lMove.had \ lTouched : AtSource(c)
  /\ lMove.pc = "remove" =>
       /\ lMove.to \in LLibs /\ lMove.to # lLib
       /\ \A c \in lMove.had \ lTouched : AtTarget(c)

FilesInv ==
  /\ LibraryTypeOK /\ NamedByRow /\ PlansHold /\ RowsOfImports /\ AloneInTitle /\ MoveKeeps

LEMMA FilesConstants ==
  /\ LSlots \subseteq Nat /\ IsFiniteSet(LSlots) /\ Nothing \notin LSources /\ Nothing \notin LLibs /\ Nothing \notin LSlots
BY LibraryAssumption, FS_Interval DEF LSlots, Nothing

\* The import of s gets the status pc.
LEMMA StatusSet ==
  ASSUME LibraryTypeOK, NEW s \in LSources, NEW pc \in {"idle", "link", "reuse", "row", "imported", "failed"},
         lImp' = [lImp EXCEPT ![s].pc = pc]
  PROVE  /\ lImp' \in [LSources -> [pc : {"idle", "link", "reuse", "row", "imported", "failed"},
                            lib : LLibs \cup {Nothing}, slot : LSlots \cup {Nothing},
                            dup : LSlots \cup {Nothing}, row : LSources \cup {Nothing}]]
         /\ \A x \in LSources \ {s} : lImp'[x] = lImp[x]
         /\ lImp'[s].pc = pc /\ lImp'[s].slot = lImp[s].slot /\ lImp'[s].lib = lImp[s].lib
         /\ lImp'[s].dup = lImp[s].dup /\ lImp'[s].row = lImp[s].row
<1>. DEFINE i == [lImp[s] EXCEPT !.pc = pc]
<1>1. /\ i \in [pc : {"idle", "link", "reuse", "row", "imported", "failed"},
                lib : LLibs \cup {Nothing}, slot : LSlots \cup {Nothing},
                dup : LSlots \cup {Nothing}, row : LSources \cup {Nothing}]
      /\ i.pc = pc /\ i.slot = lImp[s].slot /\ i.lib = lImp[s].lib /\ i.dup = lImp[s].dup /\ i.row = lImp[s].row
  BY DEF LibraryTypeOK
<1>2. lImp' = [lImp EXCEPT ![s] = i]
  OBVIOUS
<1>. HIDE DEF i
<1>. QED  BY <1>1, <1>2 DEF LibraryTypeOK

LEMMA NoneBelowOne == ASSUME NEW n \in Nat, NEW m \in Nat, n < m, m <= 1 PROVE n = 0
OBVIOUS

LEMMA MinOfSlots == ASSUME NEW S \in SUBSET LSlots, S # {} PROVE Min(S) \in S
BY FilesConstants, MinOfNaturals

LEMMA FilesInvInit == LibraryInit => FilesInv
BY LibraryAssumption, FilesConstants
   DEF LibraryInit, FilesInv, LibraryTypeOK, NamedByRow, PlansHold, RowsOfImports, AloneInTitle, MoveKeeps, Empty,
       NoImport, NoMove, NoDelete, RunningImports

\* A step of a title in a library that leaves every untouched row, and the files under its
\* name, as they are.
LEMMA RowsStand ==
  ASSUME FilesInv, lLib # Nothing, lLib' = lLib, lMove' = lMove, lTouched \subseteq lTouched',
         \A n \in LSlots : lRows[n] \in LSources \ lTouched' =>
            lRows'[n] = lRows[n] /\ \A l \in LLibs : lDisk'[l][n] = lDisk[l][n]
  PROVE  MoveKeeps'
<1>. USE FilesConstants DEF FilesInv, LibraryTypeOK
<1>1. ASSUME lMove.pc \in {"link", "set"}, NEW c \in lMove.had \ lTouched'
      PROVE  AtSource(c)'
  <2>1. lMove.to \in LLibs /\ AtSource(c) /\ c \in LSources
    BY <1>1 DEF MoveKeeps
  <2>2. PICK n \in LSlots : /\ lRows[n] = c /\ lDisk[lLib][n] = c
                            /\ n \in lMove.done \ lMove.errors \/ lMove.pc = "set" => HasContent(lMove.to, n, c)
    BY <2>1 DEF AtSource
  <2>. QED  BY <1>1, <2>1, <2>2 DEF AtSource, HasContent, SameContent
<1>2. ASSUME lMove.pc = "remove", NEW c \in lMove.had \ lTouched'
      PROVE  AtTarget(c)'
  <2>1. lMove.to \in LLibs /\ AtTarget(c) /\ c \in LSources
    BY <1>2 DEF MoveKeeps
  <2>2. PICK l \in LLibs \ {lMove.to}, n \in LSlots : l = lLib /\ HasContent(l, n, c) /\ Owns(n, c)
    BY <2>1 DEF AtTarget
  <2>3. lRows'[n] = c /\ lDisk'[l][n] = lDisk[l][n]
    BY <1>2, <2>1, <2>2 DEF Owns
  <2>. QED  BY <2>2, <2>3 DEF AtTarget, HasContent, SameContent, Owns
<1>. QED  BY <1>1, <1>2 DEF MoveKeeps

\* A step of a deleted title that leaves the files under a name that a file owns.
LEMMA OwnersStand ==
  ASSUME FilesInv, lLib = Nothing, lLib' = lLib, lMove' = lMove, lTouched \subseteq lTouched',
         \A n \in LSlots, c \in LSources \ lTouched' : Owns(n, c) =>
            Owns(n, c)' /\ \A l \in LLibs : lDisk'[l][n] = lDisk[l][n]
  PROVE  MoveKeeps'
<1>. USE FilesConstants DEF FilesInv, LibraryTypeOK
<1>1. ASSUME lMove.pc = "remove", NEW c \in lMove.had \ lTouched'
      PROVE  AtTarget(c)'
  <2>1. lMove.to \in LLibs /\ AtTarget(c) /\ c \in LSources
    BY <1>1 DEF MoveKeeps
  <2>2. PICK l \in LLibs \ {lMove.to}, n \in LSlots : HasContent(l, n, c) /\ Owns(n, c)
    BY <2>1 DEF AtTarget
  <2>3. Owns(n, c)' /\ lDisk'[l][n] = lDisk[l][n]
    BY <1>1, <2>1, <2>2
  <2>. QED  BY <2>2, <2>3 DEF AtTarget, HasContent, SameContent
<1>. QED  BY <1>1 DEF MoveKeeps

(***************************************************************************)
(* The imports.                                                            *)
(***************************************************************************)
LEMMA PlanTyped ==
  ASSUME FilesInv, NEW s \in LSources, lLib # Nothing, FreeSlots(s) # {}
  PROVE  LET i == Planned(s) IN
         /\ i.pc \in {"link", "reuse"} /\ i.lib = lLib /\ i.slot \in LSlots
         /\ i.dup \in LSlots \cup {Nothing} /\ i.row \in LSources \cup {Nothing}
         /\ i \in [pc : {"link", "reuse"}, lib : LLibs, slot : LSlots, dup : LSlots \cup {Nothing}, row : LSources \cup {Nothing}]
         /\ PlanHolds(i)
<1>. USE FilesConstants DEF FilesInv, LibraryTypeOK, Rows
<1>1. FreeSlots(s) \in SUBSET LSlots /\ Duplicates(s) \in SUBSET Rows
  BY DEF FreeSlots, Duplicates
<1>2. Min(FreeSlots(s)) \in FreeSlots(s)
  BY <1>1, MinOfSlots
<1>3. CASE Duplicates(s) = {}
  <2>1. Min(FreeSlots(s)) \in LSlots /\ lRows[Min(FreeSlots(s))] = Nothing
    BY <1>1, <1>2, <1>3 DEF FreeSlots
  <2>. QED  BY <1>3, <2>1 DEF Planned, PlanHolds
<1>4. CASE Duplicates(s) # {}
  <2>. DEFINE dup == Min(Duplicates(s))
  <2>1. dup \in LSlots /\ lRows[dup] \in LSources
    BY <1>1, <1>4, MinOfSlots
  <2>2. Min(FreeSlots(s)) \in LSlots
    BY <1>1, <1>2
  <2>3. Min(FreeSlots(s)) = dup \/ lRows[Min(FreeSlots(s))] = Nothing
    BY <1>1, <1>2, <1>4 DEF FreeSlots
  <2>4. \A n \in LSlots : lRows[n] = lRows[dup] => n = dup
    BY <2>1 DEF RowsOfImports
  <2>. QED  BY <1>4, <2>1, <2>2, <2>3, <2>4 DEF Planned, PlanHolds
<1>. QED  BY <1>3, <1>4

LEMMA ImportKeepsFiles ==
  ASSUME FilesInv, MaxImports <= 1, NEW s \in LSources, ImportDirectory(s)
  PROVE  FilesInv'
<1>. USE FilesConstants DEF FilesInv, LibraryTypeOK
<1>. DEFINE i == Planned(s)
<1>1. /\ i.pc \in {"link", "reuse"} /\ PlanHolds(i)
      /\ i \in [pc : {"link", "reuse"}, lib : LLibs, slot : LSlots, dup : LSlots \cup {Nothing}, row : LSources \cup {Nothing}]
  BY PlanTyped DEF ImportDirectory
<1>. HIDE DEF i
<1>2. /\ lImp' = [lImp EXCEPT ![s] = i] /\ lImp[s].pc = "idle" /\ lLib # Nothing
      /\ Cardinality(RunningImports) < MaxImports
      /\ lRoot' = lRoot \cup {lLib} /\ UNCHANGED <<lDisk, lRows, lLib, lMove, lDel, lTouched, lDeletes, lMoves>>
  BY DEF ImportDirectory, i
<1>3. RunningImports = {}
  <2>1. IsFiniteSet(RunningImports)
    BY LibraryAssumption, FS_Subset DEF RunningImports
  <2>2. Cardinality(RunningImports) \in Nat /\ MaxImports \in Nat
    BY <2>1, FS_CardinalityType, LibraryAssumption
  <2>3. Cardinality(RunningImports) = 0
    BY ONLY <1>2, <2>2, MaxImports <= 1, NoneBelowOne
  <2>. QED  BY <2>1, <2>3, FS_EmptySet
<1>4. RunningImports' = {s}
  BY <1>1, <1>2, <1>3 DEF RunningImports
<1>5. LibraryTypeOK'
  BY <1>1, <1>2
<1>6. NamedByRow'
  BY <1>1, <1>2 DEF NamedByRow
<1>7. PlansHold' /\ AloneInTitle'
  BY <1>1, <1>2, <1>4 DEF PlansHold, PlanHolds, AloneInTitle
<1>8. RowsOfImports'
  BY <1>1, <1>2 DEF RowsOfImports
<1>9. MoveKeeps'
  BY <1>2, RowsStand
<1>. QED  BY <1>5, <1>6, <1>7, <1>8, <1>9

\* A running import is the only one, and its plan holds.
LEMMA TheImport ==
  ASSUME FilesInv, NEW s \in LSources, lImp[s].pc \in {"link", "reuse", "row"}
  PROVE  RunningImports = {s} /\ PlanHolds(lImp[s])
BY DEF FilesInv, AloneInTitle, PlansHold, RunningImports

LEMMA LinkKeepsFiles ==
  ASSUME FilesInv, NEW s \in LSources, LinkVideo(s)
  PROVE  FilesInv'
<1>. USE FilesConstants DEF FilesInv, LibraryTypeOK
<1>. DEFINE i == lImp[s]
<1>1. /\ i.pc = "link" /\ RunningImports = {s} /\ PlanHolds(i)
      /\ UNCHANGED <<lRoot, lRows, lLib, lMove, lDel, lTouched, lDeletes, lMoves>>
  BY TheImport DEF LinkVideo
<1>2. i.lib \in LLibs /\ i.slot \in LSlots /\ (lLib # Nothing => lRows[i.slot] = Nothing)
  BY <1>1 DEF PlanHolds
<1>3. PICK pc \in {"row", "failed"} : lImp' = [lImp EXCEPT ![s].pc = pc] /\ (pc = "failed" => lDisk' = lDisk)
  BY DEF LinkVideo
<1>4. /\ \A l \in LLibs, n \in LSlots : n # i.slot => lDisk'[l][n] = lDisk[l][n]
      /\ \A l \in LLibs : lDisk'[l][i.slot] # lDisk[l][i.slot] => lDisk'[l][i.slot] = s /\ pc = "row"
      /\ lDisk' \in [LLibs -> [LSlots -> LSources \cup {Nothing}]]
  <2>1. \/ lDisk' = lDisk
        \/ pc = "row" /\ lDisk' = [lDisk EXCEPT ![i.lib][i.slot] = s]
    <3>1. CASE lImp' = [lImp EXCEPT ![s].pc = "row"] /\ lDisk' = Placed(lDisk, i.lib, i.slot, s)
      BY <1>2, <1>3, <3>1, StatusSet DEF Placed
    <3>2. CASE lImp' = [lImp EXCEPT ![s].pc = "failed"] /\ UNCHANGED lDisk
      BY <3>2
    <3>. QED  BY <3>1, <3>2 DEF LinkVideo
  <2>. QED  BY <1>2, <2>1
<1>5. LibraryTypeOK'
  BY <1>1, <1>3, <1>4, StatusSet
<1>6. /\ RunningImports' \subseteq {s} /\ \A x \in LSources \ {s} : lImp'[x] = lImp[x]
      /\ lImp'[s].pc = pc /\ lImp'[s].slot = i.slot /\ lImp'[s].lib = i.lib /\ lImp'[s].dup = i.dup /\ lImp'[s].row = i.row
  BY <1>1, <1>3, StatusSet DEF RunningImports
<1>7. NamedByRow'
  BY <1>1, <1>2, <1>4, <1>6 DEF NamedByRow
<1>8. PlansHold' /\ AloneInTitle'
  BY <1>1, <1>2, <1>6 DEF PlansHold, PlanHolds, AloneInTitle, RunningImports
<1>9. RowsOfImports'
  BY <1>1, <1>6 DEF RowsOfImports
<1>10. MoveKeeps'
  <2>1. CASE lLib # Nothing
    BY <1>1, <1>2, <1>4, <2>1, RowsStand
  <2>2. CASE lLib = Nothing
    <3>1. ASSUME NEW n \in LSlots, NEW c \in LSources, Owns(n, c) PROVE n # i.slot /\ Owns(n, c)'
      BY <1>1, <1>6, <2>2, <3>1 DEF Owns, RunningImports
    <3>. QED  BY <1>1, <1>4, <2>2, <3>1, OwnersStand
  <2>. QED  BY <2>1, <2>2
<1>. QED  BY <1>5, <1>7, <1>8, <1>9, <1>10

LEMMA RowKeepsFiles ==
  ASSUME FilesInv, NEW s \in LSources, AddFileRow(s)
  PROVE  FilesInv'
<1>. USE FilesConstants DEF FilesInv, LibraryTypeOK
<1>. DEFINE i == lImp[s]
<1>1. /\ i.pc = "row" /\ RunningImports = {s} /\ PlanHolds(i)
      /\ UNCHANGED <<lDisk, lRoot, lLib, lMove, lDel, lTouched, lDeletes, lMoves>>
  BY TheImport DEF AddFileRow
<1>2. i.lib \in LLibs /\ i.slot \in LSlots /\ (lLib # Nothing => lRows[i.slot] = Nothing)
  BY <1>1 DEF PlanHolds
<1>3. PICK pc \in {"imported", "failed"} : lImp' = [lImp EXCEPT ![s].pc = pc]
  BY DEF AddFileRow
<1>4. /\ RunningImports' = {} /\ \A x \in LSources \ {s} : lImp'[x] = lImp[x]
      /\ lImp'[s].pc = pc
  BY <1>1, <1>3, StatusSet DEF RunningImports
<1>5. CASE lLib # Nothing
  <2>1. lRows' = [lRows EXCEPT ![i.slot] = s] /\ pc = "imported"
    BY <1>2, <1>3, <1>4, <1>5 DEF AddFileRow
  <2>2. LibraryTypeOK'
    BY <1>1, <1>2, <1>3, <2>1, StatusSet
  <2>3. NamedByRow'
    <3>1. ASSUME NEW l \in LLibs, NEW n \in LSlots, lDisk[l][n] # Nothing, lDisk[l][n] \notin lTouched
          PROVE  LET x == lDisk[l][n] IN lRows'[n] = x \/ (lImp'[x].pc = "row" /\ lImp'[x].slot = n)
      <4>1. lDisk[l][n] \in LSources /\ (lRows[n] = lDisk[l][n] \/ (lImp[lDisk[l][n]].pc = "row" /\ lImp[lDisk[l][n]].slot = n))
        BY <1>5, <3>1 DEF NamedByRow
      <4>. QED  BY <1>1, <1>2, <1>4, <1>5, <2>1, <4>1
    <3>. QED  BY <1>1, <3>1 DEF NamedByRow
  <2>4. RowsOfImports'
    BY <1>1, <1>2, <1>4, <1>5, <2>1 DEF RowsOfImports
  <2>5. MoveKeeps'
    BY <1>1, <1>2, <1>5, <2>1, RowsStand
  <2>. QED  BY <1>4, <2>2, <2>3, <2>4, <2>5 DEF PlansHold, AloneInTitle
<1>6. CASE lLib = Nothing
  <2>1. lRows' = lRows
    BY <1>6 DEF AddFileRow
  <2>2. LibraryTypeOK'
    BY <1>1, <1>2, <1>3, <2>1, StatusSet
  <2>3. NamedByRow' /\ RowsOfImports'
    BY <1>1, <1>4, <1>6, <2>1 DEF NamedByRow, RowsOfImports, Empty
  <2>4. MoveKeeps'
    BY <1>1, <1>4, <1>6, <2>1, OwnersStand DEF Owns
  <2>. QED  BY <1>4, <2>2, <2>3, <2>4 DEF PlansHold, AloneInTitle
<1>. QED  BY <1>5, <1>6

LEMMA ReuseKeepsFiles ==
  ASSUME FilesInv, NEW s \in LSources, ReuseSlot(s)
  PROVE  FilesInv'
<1>. USE FilesConstants DEF FilesInv, LibraryTypeOK
<1>. DEFINE i == lImp[s]
            moved == lDisk[i.lib][i.dup]
<1>1. /\ i.pc = "reuse" /\ RunningImports = {s} /\ PlanHolds(i)
      /\ UNCHANGED <<lRoot, lLib, lMove, lDel, lDeletes, lMoves>>
      /\ lTouched' = IF i.slot = i.dup THEN lTouched ELSE lTouched \cup ({moved, i.row} \ {Nothing})
      /\ lDisk' = IF i.slot = i.dup \/ moved = Nothing THEN lDisk
                  ELSE [lDisk EXCEPT ![i.lib][i.slot] = moved, ![i.lib][i.dup] = Nothing]
  BY TheImport DEF ReuseSlot
<1>2. i.lib \in LLibs /\ i.slot \in LSlots /\ i.dup \in LSlots /\ i.row \in LSources
  BY <1>1 DEF PlanHolds
<1>3. PICK pc \in {"imported", "failed"} : lImp' = [lImp EXCEPT ![s].pc = pc]
  BY DEF ReuseSlot
<1>4. /\ RunningImports' = {} /\ \A x \in LSources \ {s} : lImp'[x] = lImp[x]
      /\ lImp'[s].pc = pc
  BY <1>1, <1>3, StatusSet DEF RunningImports
<1>5. /\ lDisk' \in [LLibs -> [LSlots -> LSources \cup {Nothing}]]
      /\ \A l \in LLibs, n \in LSlots :
           \/ lDisk'[l][n] = lDisk[l][n]
           \/ n \in {i.slot, i.dup} /\ i.slot # i.dup /\ lDisk'[l][n] \in lTouched' \cup {Nothing}
  BY <1>1, <1>2
<1>6. /\ lRows' = lRows \/ lRows' = [n \in LSlots |-> IF n = i.slot THEN i.row ELSE IF lRows[n] = i.row THEN Nothing ELSE lRows[n]]
      /\ lRows' # lRows => \E n \in LSlots : lRows[n] = i.row
  BY DEF ReuseSlot
<1>7. lRows' \in [LSlots -> LSources \cup {Nothing}]
  BY <1>2, <1>6
<1>8. LibraryTypeOK'
  <2>1. lTouched' \subseteq LSources
    BY <1>1, <1>2
  <2>2. lImp' \in [LSources -> [pc : {"idle", "link", "reuse", "row", "imported", "failed"},
                            lib : LLibs \cup {Nothing}, slot : LSlots \cup {Nothing},
                            dup : LSlots \cup {Nothing}, row : LSources \cup {Nothing}]]
    BY <1>3, StatusSet
  <2>. QED  BY <1>1, <1>5, <1>7, <2>1, <2>2
<1>9. PlansHold' /\ AloneInTitle'
  BY <1>4 DEF PlansHold, AloneInTitle
<1>10. CASE lLib # Nothing
  <2>1. /\ i.slot = i.dup \/ lRows[i.slot] = Nothing
        /\ lRows[i.dup] \in {Nothing, i.row} /\ \A n \in LSlots : lRows[n] = i.row => n = i.dup
    BY <1>1, <1>10 DEF PlanHolds
  <2>2. \A n \in LSlots : lRows[n] \in LSources \ lTouched' =>
            lRows'[n] = lRows[n] /\ \A l \in LLibs : lDisk'[l][n] = lDisk[l][n]
    <3>1. ASSUME NEW n \in LSlots, lRows[n] \in LSources \ lTouched' PROVE lRows'[n] = lRows[n]
      BY <1>1, <1>2, <1>6, <2>1, <3>1
    <3>2. ASSUME NEW n \in LSlots, lRows[n] \in LSources \ lTouched', NEW l \in LLibs PROVE lDisk'[l][n] = lDisk[l][n]
      BY <1>1, <1>2, <1>5, <2>1, <3>2
    <3>. QED  BY <3>1, <3>2
  <2>3. MoveKeeps'
    BY <1>1, <1>10, <2>2, RowsStand
  <2>4. NamedByRow'
    <3>1. ASSUME NEW l \in LLibs, NEW n \in LSlots, lDisk'[l][n] # Nothing, lDisk'[l][n] \notin lTouched'
          PROVE  LET x == lDisk'[l][n] IN lRows'[n] = x \/ (lImp'[x].pc = "row" /\ lImp'[x].slot = n)
      <4>1. lDisk'[l][n] = lDisk[l][n] /\ lDisk[l][n] \in LSources \ lTouched
        <5>1. lDisk'[l][n] = lDisk[l][n]
          BY <1>5, <3>1
        <5>. QED  BY <1>1, <3>1, <5>1
      <4>2. lRows[n] = lDisk[l][n] \/ (lImp[lDisk[l][n]].pc = "row" /\ lImp[lDisk[l][n]].slot = n)
        BY <1>10, <4>1 DEF NamedByRow
      <4>3. CASE lRows[n] = lDisk[l][n]
        BY <2>2, <3>1, <4>1, <4>3
      <4>4. CASE lImp[lDisk[l][n]].pc = "row" /\ lImp[lDisk[l][n]].slot = n
        <5>1. lDisk[l][n] # s
          BY <1>1, <4>4
        <5>. QED  BY <1>4, <4>1, <4>4, <5>1
      <4>. QED  BY <4>2, <4>3, <4>4
    <3>. QED  BY <3>1 DEF NamedByRow
  <2>5. RowsOfImports'
    BY <1>1, <1>2, <1>4, <1>6, <1>10, <2>1 DEF RowsOfImports
  <2>. QED  BY <1>8, <1>9, <2>3, <2>4, <2>5
<1>11. CASE lLib = Nothing
  <2>1. lRows = Empty /\ lRows' = lRows
    BY <1>2, <1>6, <1>11 DEF RowsOfImports, Empty
  <2>2. NamedByRow' /\ RowsOfImports'
    BY <1>1, <1>4, <1>11, <2>1 DEF NamedByRow, RowsOfImports, Empty
  <2>3. MoveKeeps'
    <3>1. ASSUME NEW n \in LSlots, NEW c \in LSources \ lTouched', Owns(n, c)
          PROVE  Owns(n, c)' /\ \A l \in LLibs : lDisk'[l][n] = lDisk[l][n]
      BY <1>1, <1>2, <1>4, <1>5, <1>11, <3>1 DEF Owns
    <3>. QED  BY <1>1, <1>11, <3>1, OwnersStand
  <2>. QED  BY <1>8, <1>9, <2>2, <2>3
<1>. QED  BY <1>10, <1>11

(***************************************************************************)
(* The move.                                                               *)
(***************************************************************************)
LEMMA PlansAndRowsStand ==
  ASSUME FilesInv, UNCHANGED <<lRows, lImp, lDel, lTouched>>, lLib' # Nothing <=> lLib # Nothing
  PROVE  PlansHold' /\ RowsOfImports' /\ AloneInTitle'
BY DEF FilesInv, PlansHold, PlanHolds, RunningImports, RowsOfImports, AloneInTitle

LEMMA MoveKeepsFiles ==
  ASSUME FilesInv, MoveLibrary
  PROVE  FilesInv'
<1>. USE FilesConstants DEF FilesInv, LibraryTypeOK
<1>1. /\ lMove.pc = "idle" /\ lLib # Nothing /\ lMoves' = lMoves + 1 /\ lMoves < MaxMoves
      /\ UNCHANGED <<lDisk, lRows, lImp, lDel, lTouched, lDeletes>>
  BY DEF MoveLibrary
<1>2. PICK to \in LLibs \ {lLib} :
        IF lLib \notin lRoot
        THEN lLib' = to /\ UNCHANGED <<lRoot, lMove>>
        ELSE /\ lRoot' = lRoot \cup {to}
             /\ lMove' = [NoMove EXCEPT !.pc = "link", !.to = to,
                                        !.had = {lDisk[lLib][n] : n \in FilesIn(lLib) \cap Rows}]
             /\ UNCHANGED lLib
  BY DEF MoveLibrary
<1>. DEFINE had == {lDisk[lLib][n] : n \in FilesIn(lLib) \cap Rows}
<1>3. had \in SUBSET LSources
  BY <1>1 DEF FilesIn
<1>4. lLib' # Nothing /\ lLib' \in LLibs
  BY <1>1, <1>2
<1>5. LibraryTypeOK'
  <2>1. lMoves' \in 0..MaxMoves
    BY <1>1, LibraryAssumption
  <2>2. lMove' \in [pc : {"idle", "link", "set", "remove"}, to : LLibs \cup {Nothing},
                done : SUBSET LSlots, errors : SUBSET LSlots, had : SUBSET LSources]
    BY <1>2, <1>3 DEF NoMove
  <2>. QED  BY <1>1, <1>2, <1>4, <2>1, <2>2
<1>6. NamedByRow' /\ PlansHold' /\ RowsOfImports' /\ AloneInTitle'
  BY <1>1, <1>4, PlansAndRowsStand DEF NamedByRow
<1>7. MoveKeeps'
  <2>1. CASE lLib \notin lRoot
    BY <1>1, <1>2, <2>1 DEF MoveKeeps
  <2>2. CASE lLib \in lRoot
    <3>1. /\ lMove'.pc = "link" /\ lMove'.to = to /\ lMove'.had = had /\ lMove'.done = {} /\ lLib' = lLib
      BY <1>2, <2>2 DEF NoMove
    <3>2. ASSUME NEW c \in had \ lTouched PROVE AtSource(c)'
      <4>1. PICK n \in FilesIn(lLib) \cap Rows : c = lDisk[lLib][n]
        OBVIOUS
      <4>2. n \in LSlots /\ lDisk[lLib][n] = c /\ c # Nothing /\ lRows[n] # Nothing
        BY <4>1 DEF FilesIn, Rows
      <4>3. lRows[n] = c \/ (lImp[c].pc = "row" /\ lImp[c].slot = n)
        BY <1>1, <3>2, <4>2 DEF NamedByRow
      <4>4. lRows[n] = c
        BY <1>1, <1>3, <3>2, <4>2, <4>3 DEF PlansHold, PlanHolds, RunningImports
      <4>. QED  BY <1>1, <3>1, <4>2, <4>4 DEF AtSource
    <3>. QED  BY <1>1, <1>2, <3>1, <3>2 DEF MoveKeeps
  <2>. QED  BY <2>1, <2>2
<1>. QED  BY <1>5, <1>6, <1>7

LEMMA LinkTreeKeepsFiles ==
  ASSUME FilesInv, LinkTree
  PROVE  FilesInv'
<1>. USE FilesConstants DEF FilesInv, LibraryTypeOK
<1>. DEFINE m == Min(Unlinked)
<1>1. lLib # Nothing /\ m \in FilesIn(lLib) /\ m \in LSlots /\ lMove.pc = "link"
  <2>1. Unlinked # {} /\ Unlinked \in SUBSET FilesIn(lLib) /\ Unlinked \in SUBSET LSlots
    BY DEF LinkTree, Unlinked, FilesIn
  <2>2. m \in Unlinked
    BY <2>1, MinOfSlots
  <2>. QED  BY <2>1, <2>2 DEF LinkTree, Unlinked
<1>2. lMove.to \in LLibs /\ lMove.to # lLib
  BY <1>1 DEF MoveKeeps
<1>3. PICK errors \in SUBSET LSlots :
        /\ lMove' = [lMove EXCEPT !.done = @ \cup {m}, !.errors = errors]
        /\ \/ errors = lMove.errors /\ lDisk' = Placed(lDisk, lMove.to, m, lDisk[lLib][m])
           \/ errors = lMove.errors \cup {m} /\ lDisk' = lDisk
  <2>1. CASE lMove' = [lMove EXCEPT !.done = @ \cup {m}] /\ lDisk' = Placed(lDisk, lMove.to, m, lDisk[lLib][m])
    BY <2>1
  <2>2. CASE lMove' = [lMove EXCEPT !.done = @ \cup {m}, !.errors = @ \cup {m}] /\ lDisk' = lDisk
    BY <1>1, <2>2
  <2>. QED  BY <2>1, <2>2 DEF LinkTree
<1>. HIDE DEF m
<1>4. UNCHANGED <<lRoot, lRows, lLib, lImp, lDel, lTouched, lDeletes, lMoves>>
  BY DEF LinkTree
<1>5. /\ lDisk' \in [LLibs -> [LSlots -> LSources \cup {Nothing}]]
      /\ \A l \in LLibs, n \in LSlots : l # lMove.to \/ n # m => lDisk'[l][n] = lDisk[l][n]
      /\ \/ lDisk'[lMove.to][m] = lDisk[lMove.to][m]
         \/ lDisk'[lMove.to][m] = lDisk[lLib][m]
      /\ m \notin errors => lDisk'[lMove.to][m] # Nothing /\ SameContent(lDisk'[lMove.to][m], lDisk[lLib][m])
  BY <1>1, <1>2, <1>3 DEF Placed, FilesIn, SameContent
<1>6. /\ lMove'.pc = "link" /\ lMove'.to = lMove.to /\ lMove'.had = lMove.had
      /\ lMove'.done = lMove.done \cup {m} /\ lMove'.errors = errors
      /\ lMove' \in [pc : {"idle", "link", "set", "remove"}, to : LLibs \cup {Nothing},
                done : SUBSET LSlots, errors : SUBSET LSlots, had : SUBSET LSources]
  BY <1>1, <1>3
<1>7. LibraryTypeOK'
  BY <1>4, <1>5, <1>6
<1>8. NamedByRow'
  <2>1. ASSUME NEW l \in LLibs, NEW n \in LSlots
        PROVE  \E k \in LLibs : lDisk'[l][n] = lDisk[k][n]
    BY <1>1, <1>2, <1>5
  <2>. QED  BY <1>1, <1>4, <2>1 DEF NamedByRow
<1>9. MoveKeeps'
  <2>1. ASSUME NEW c \in lMove.had \ lTouched PROVE AtSource(c)'
    <3>1. PICK n \in LSlots :
             /\ lRows[n] = c /\ lDisk[lLib][n] = c
             /\ n \in lMove.done \ lMove.errors => HasContent(lMove.to, n, c)
      BY <1>1, <2>1 DEF MoveKeeps, AtSource
    <3>2. lDisk'[lLib][n] = c
      BY <1>1, <1>2, <1>5, <3>1
    <3>3. ASSUME n \in (lMove.done \cup {m}) \ errors
          PROVE  lDisk'[lMove.to][n] # Nothing /\ SameContent(lDisk'[lMove.to][n], c)
      <4>1. CASE n = m
        BY <1>5, <3>1, <3>3, <4>1
      <4>2. CASE n # m
        BY <1>2, <1>3, <1>5, <3>1, <3>3, <4>2 DEF HasContent
      <4>. QED  BY <4>1, <4>2
    <3>. QED  BY <1>4, <1>6, <3>1, <3>2, <3>3 DEF AtSource, HasContent, SameContent
  <2>. QED  BY <1>1, <1>2, <1>4, <1>6, <2>1 DEF MoveKeeps
<1>. QED  BY <1>4, <1>7, <1>8, <1>9, PlansAndRowsStand

LEMMA LinkTreeEndsKeepsFiles ==
  ASSUME FilesInv, LinkTreeEnds
  PROVE  FilesInv'
<1>. USE FilesConstants DEF FilesInv, LibraryTypeOK
<1>1. lMove.pc = "link" /\ UNCHANGED <<lDisk, lRoot, lRows, lLib, lImp, lDel, lTouched, lDeletes, lMoves>>
  BY DEF LinkTreeEnds
<1>2. NamedByRow' /\ PlansHold' /\ RowsOfImports' /\ AloneInTitle'
  BY <1>1, PlansAndRowsStand DEF NamedByRow
<1>3. CASE MayFinish /\ lLib # Nothing
  <2>1. lMove' = [lMove EXCEPT !.pc = "set"] /\ FilesIn(lLib) \subseteq lMove.done /\ lMove.errors = {}
    BY <1>3 DEF LinkTreeEnds, MayFinish, Unlinked
  <2>2. LibraryTypeOK'
    BY <1>1, <2>1
  <2>3. ASSUME NEW c \in lMove.had \ lTouched PROVE AtSource(c)'
    <3>1. PICK n \in LSlots :
             /\ lRows[n] = c /\ lDisk[lLib][n] = c
             /\ n \in lMove.done \ lMove.errors => HasContent(lMove.to, n, c)
      BY <1>1, <1>3, <2>3 DEF MoveKeeps, AtSource
    <3>2. HasContent(lMove.to, n, c)
      BY <2>1, <2>3, <3>1 DEF FilesIn
    <3>. QED  BY <1>1, <2>1, <3>1, <3>2 DEF AtSource, HasContent, SameContent
  <2>. QED  BY <1>1, <1>2, <1>3, <2>1, <2>2, <2>3 DEF MoveKeeps
<1>4. CASE ~(MayFinish /\ lLib # Nothing)
  <2>1. lMove' = NoMove
    BY <1>4 DEF LinkTreeEnds
  <2>. QED  BY <1>1, <1>2, <2>1 DEF NoMove, MoveKeeps
<1>. QED  BY <1>3, <1>4

LEMMA SetKeepsFiles ==
  ASSUME FilesInv, SetLibrary
  PROVE  FilesInv'
<1>. USE FilesConstants DEF FilesInv, LibraryTypeOK
<1>1. lMove.pc = "set" /\ UNCHANGED <<lDisk, lRoot, lRows, lImp, lDel, lTouched, lDeletes, lMoves>>
  BY DEF SetLibrary
<1>2. CASE lLib = Nothing
  <2>1. lMove' = NoMove /\ lLib' = lLib
    BY <1>2 DEF SetLibrary
  <2>. QED  BY <1>1, <2>1, PlansAndRowsStand DEF NoMove, MoveKeeps, NamedByRow
<1>3. CASE lLib # Nothing
  <2>1. lLib' = lMove.to /\ lMove' = [lMove EXCEPT !.pc = "remove", !.to = lLib]
    BY <1>3 DEF SetLibrary
  <2>2. lMove.to \in LLibs /\ lMove.to # lLib
    BY <1>1, <1>3 DEF MoveKeeps
  <2>3. LibraryTypeOK' /\ lLib' # Nothing
    BY <1>1, <1>3, <2>1, <2>2
  <2>4. ASSUME NEW c \in lMove.had \ lTouched PROVE AtTarget(c)'
    <3>1. PICK n \in LSlots : lRows[n] = c /\ HasContent(lMove.to, n, c)
      BY <1>1, <1>3, <2>4 DEF MoveKeeps, AtSource
    <3>2. lMove.to \in LLibs \ {lMove'.to}
      BY <2>1, <2>2
    <3>. QED  BY <1>1, <2>1, <2>3, <3>1, <3>2 DEF AtTarget, HasContent, SameContent, Owns
  <2>5. MoveKeeps'
    BY <1>1, <1>3, <2>1, <2>2, <2>4 DEF MoveKeeps
  <2>. QED  BY <1>1, <1>3, <2>3, <2>5, PlansAndRowsStand DEF NamedByRow
<1>. QED  BY <1>2, <1>3

LEMMA RemoveKeepsFiles ==
  ASSUME FilesInv, RemoveSource
  PROVE  FilesInv'
<1>. USE FilesConstants DEF FilesInv, LibraryTypeOK
<1>1. /\ lMove.pc = "remove" /\ lMove' = NoMove /\ lRoot' = lRoot \ {lMove.to}
      /\ lDisk' = [lDisk EXCEPT ![lMove.to] = Empty]
      /\ UNCHANGED <<lRows, lLib, lImp, lDel, lTouched, lDeletes, lMoves>>
  BY DEF RemoveSource
<1>2. /\ lDisk' \in [LLibs -> [LSlots -> LSources \cup {Nothing}]]
      /\ \A l \in LLibs, n \in LSlots : lDisk'[l][n] \in {lDisk[l][n], Nothing}
  BY <1>1 DEF Empty
<1>3. LibraryTypeOK' /\ MoveKeeps'
  BY <1>1, <1>2 DEF NoMove, MoveKeeps
<1>4. NamedByRow'
  <2>1. ASSUME NEW l \in LLibs, NEW n \in LSlots, lDisk'[l][n] # Nothing PROVE lDisk'[l][n] = lDisk[l][n]
    BY <1>2, <2>1
  <2>. QED  BY <1>1, <2>1 DEF NamedByRow
<1>. QED  BY <1>1, <1>3, <1>4, PlansAndRowsStand

(***************************************************************************)
(* The deletions.                                                          *)
(***************************************************************************)
\* A step that only takes files away, and rows whose sources it has marked as touched.
LEMMA DeletionKeepsFiles ==
  ASSUME FilesInv, lLib # Nothing, LibraryTypeOK', UNCHANGED <<lLib, lImp, lMove>>,
         lTouched \subseteq lTouched', lDel'.pc = "row" => lDel'.row \in lTouched',
         \A n \in LSlots : lRows'[n] \in {lRows[n], Nothing},
         \A l \in LLibs, n \in LSlots : lDisk'[l][n] \in {lDisk[l][n], Nothing},
         \A n \in LSlots : lRows[n] \in LSources \ lTouched' =>
            lRows'[n] = lRows[n] /\ \A l \in LLibs : lDisk'[l][n] = lDisk[l][n]
  PROVE  FilesInv'
<1>. USE FilesConstants DEF FilesInv, LibraryTypeOK
<1>1. MoveKeeps'
  BY RowsStand
<1>2. NamedByRow'
  BY DEF NamedByRow
<1>3. PlansHold' /\ AloneInTitle'
  <2>1. RunningImports' = RunningImports
    BY DEF RunningImports
  <2>2. ASSUME NEW s \in RunningImports PROVE PlanHolds(lImp[s])'
    <3>1. PlanHolds(lImp[s]) /\ s \in LSources
      BY <2>2 DEF PlansHold, RunningImports
    <3>2. \A n \in LSlots : lRows'[n] = lRows[n] \/ lRows'[n] = Nothing
      OBVIOUS
    <3>3. PICK i : i = lImp[s] /\ i = lImp'[s]
      OBVIOUS
    <3>4. PlanHolds(i)
      BY <3>1, <3>3
    <3>5. PlanHolds(i)'
      BY ONLY <3>2, <3>4, FilesConstants, lLib' = lLib DEF PlanHolds
    <3>. QED  BY <3>3, <3>5 DEF PlanHolds
  <2>. QED  BY <2>1, <2>2 DEF PlansHold, AloneInTitle
<1>4. RowsOfImports'
  BY DEF RowsOfImports
<1>. QED  BY <1>1, <1>2, <1>3, <1>4

LEMMA DeleteKeepsFiles ==
  ASSUME FilesInv, (\E n \in LSlots : DeleteLibraryFile(n)) \/ DeleteFileRow \/ DeleteDirectory \/ DeleteShow
                   \/ DeleteShowRow
  PROVE  FilesInv'
<1>. USE FilesConstants DEF FilesInv, LibraryTypeOK
<1>1. ASSUME Deleting PROVE lLib # Nothing /\ lDeletes' \in 0..MaxLDeletes
  BY <1>1, LibraryAssumption DEF Deleting
<1>2. ASSUME NEW n \in LSlots, DeleteLibraryFile(n) PROVE FilesInv'
  <2>1. /\ lLib # Nothing /\ lDeletes' \in 0..MaxLDeletes /\ lRows[n] # Nothing
        /\ lDisk' = [lDisk EXCEPT ![lLib][n] = Nothing]
        /\ lTouched' = lTouched \cup ({lDisk[lLib][n], lRows[n]} \ {Nothing})
        /\ lDel' = [pc |-> "row", row |-> lRows[n]]
        /\ UNCHANGED <<lRoot, lRows, lLib, lImp, lMove, lMoves>>
    BY <1>1, <1>2 DEF DeleteLibraryFile, Rows
  <2>2. /\ lDisk' \in [LLibs -> [LSlots -> LSources \cup {Nothing}]]
        /\ \A l \in LLibs, k \in LSlots : lDisk'[l][k] \in {lDisk[l][k], Nothing}
        /\ \A l \in LLibs, k \in LSlots \ {n} : lDisk'[l][k] = lDisk[l][k]
    BY <2>1
  <2>3. LibraryTypeOK'
    BY <2>1, <2>2
  <2>. QED  BY <2>1, <2>2, <2>3, DeletionKeepsFiles
<1>3. ASSUME DeleteFileRow PROVE FilesInv'
  <2>1. /\ lDel.row \in lTouched /\ lRows' = [n \in LSlots |-> IF lRows[n] = lDel.row THEN Nothing ELSE lRows[n]]
        /\ lDel' = NoDelete
        /\ UNCHANGED <<lDisk, lRoot, lLib, lImp, lMove, lTouched, lDeletes, lMoves>>
    BY <1>3 DEF DeleteFileRow, RowsOfImports
  <2>2. LibraryTypeOK'
    BY <2>1 DEF NoDelete
  <2>3. CASE lLib # Nothing
    BY <2>1, <2>2, <2>3, DeletionKeepsFiles DEF NoDelete
  <2>4. CASE lLib = Nothing
    <3>1. lRows' = lRows
      BY <2>1, <2>4 DEF RowsOfImports, Empty
    <3>2. NamedByRow' /\ RowsOfImports' /\ PlansHold' /\ AloneInTitle'
      BY <2>1, <2>4, <3>1
         DEF NamedByRow, RowsOfImports, Empty, PlansHold, PlanHolds, AloneInTitle, RunningImports, NoDelete
    <3>3. MoveKeeps'
      BY <2>1, <2>4, <3>1, OwnersStand DEF Owns, RunningImports
    <3>. QED  BY <2>2, <3>2, <3>3
  <2>. QED  BY <2>3, <2>4
<1>4. ASSUME DeleteDirectory \/ DeleteShow PROVE FilesInv'
  <2>1. /\ lLib # Nothing /\ lDeletes' \in 0..MaxLDeletes
        /\ lDisk' = [lDisk EXCEPT ![lLib] = Empty] /\ lRoot' = lRoot \ {lLib}
        /\ lTouched' = lTouched \cup {lDisk[lLib][n] : n \in FilesIn(lLib)} \cup {lRows[n] : n \in Rows}
        /\ lDel' = lDel \/ lDel' = [NoDelete EXCEPT !.pc = "title"]
        /\ UNCHANGED <<lRows, lLib, lImp, lMove, lMoves>>
    BY <1>1, <1>4 DEF DeleteDirectory, DeleteShow
  <2>2. /\ lDisk' \in [LLibs -> [LSlots -> LSources \cup {Nothing}]]
        /\ \A l \in LLibs, k \in LSlots : lDisk'[l][k] \in {lDisk[l][k], Nothing}
    BY <2>1 DEF Empty
  <2>3. lTouched' \subseteq LSources /\ \A n \in LSlots : lRows[n] # Nothing => lRows[n] \in lTouched'
    BY <2>1 DEF FilesIn, Rows
  <2>4. LibraryTypeOK' /\ (lDel'.pc = "row" => lDel'.row \in lTouched')
    BY <2>1, <2>2, <2>3 DEF NoDelete, RowsOfImports
  <2>5. \A n \in LSlots : lRows[n] \in LSources \ lTouched' =>
            lRows'[n] = lRows[n] /\ \A l \in LLibs : lDisk'[l][n] = lDisk[l][n]
    BY <2>3
  <2>. QED  BY <2>1, <2>2, <2>4, <2>5, DeletionKeepsFiles
<1>5. ASSUME DeleteShowRow PROVE FilesInv'
  <2>1. /\ lRows' = Empty /\ lLib' = Nothing /\ lDel' = NoDelete
        /\ UNCHANGED <<lDisk, lRoot, lImp, lMove, lTouched, lDeletes, lMoves>>
    BY <1>5 DEF DeleteShowRow
  <2>2. LibraryTypeOK' /\ NamedByRow' /\ RowsOfImports' /\ AloneInTitle'
    BY <2>1 DEF NoDelete, NamedByRow, RowsOfImports, AloneInTitle, RunningImports, Empty
  <2>3. PlansHold'
    BY <2>1 DEF PlansHold, PlanHolds, RunningImports
  <2>4. ASSUME NEW n \in LSlots, NEW c \in LSources, Owns(n, c) PROVE Owns(n, c)'
    <3>1. CASE lLib = Nothing
      BY <2>1, <2>4, <3>1 DEF Owns, RunningImports
    <3>2. CASE lLib # Nothing
      <4>1. ASSUME NEW s \in RunningImports
            PROVE  /\ lImp[s].slot = n => lImp[s].pc = "reuse" /\ lImp[s].dup = n
                   /\ lImp[s].pc = "reuse" /\ lImp[s].dup = n => lImp[s].row = c
        BY <2>4, <3>2, <4>1 DEF Owns, PlansHold, PlanHolds, RunningImports
      <4>. QED  BY <2>1, <4>1 DEF Owns, RunningImports
    <3>. QED  BY <3>1, <3>2
  <2>5. MoveKeeps'
    <3>1. ASSUME lMove.pc = "remove", NEW c \in lMove.had \ lTouched PROVE AtTarget(c)'
      <4>1. PICK l \in LLibs \ {lMove.to}, n \in LSlots : HasContent(l, n, c) /\ Owns(n, c)
        BY <3>1 DEF MoveKeeps, AtTarget
      <4>2. Owns(n, c)'
        BY <2>4, <3>1, <4>1
      <4>. QED  BY <2>1, <4>1, <4>2 DEF AtTarget, HasContent, SameContent
    <3>. QED  BY <2>1, <3>1 DEF MoveKeeps
  <2>. QED  BY <2>2, <2>3, <2>5
<1>. QED  BY <1>2, <1>3, <1>4, <1>5

LEMMA FilesInvNext ==
  ASSUME FilesInv, MaxImports <= 1, [LibraryNext]_lVars
  PROVE  FilesInv'
<1>1. CASE UNCHANGED lVars
  BY <1>1 DEF FilesInv, LibraryTypeOK, NamedByRow, PlansHold, PlanHolds, RunningImports, RowsOfImports, AloneInTitle,
              MoveKeeps, AtSource, AtTarget, HasContent, SameContent, Owns, lVars
<1>2. ASSUME NEW s \in LSources, ImportDirectory(s) \/ LinkVideo(s) \/ AddFileRow(s) \/ ReuseSlot(s) PROVE FilesInv'
  BY <1>2, ImportKeepsFiles, LinkKeepsFiles, RowKeepsFiles, ReuseKeepsFiles
<1>3. CASE MoveLibrary \/ LinkTree \/ LinkTreeEnds \/ SetLibrary \/ RemoveSource
  BY <1>3, MoveKeepsFiles, LinkTreeKeepsFiles, LinkTreeEndsKeepsFiles, SetKeepsFiles, RemoveKeepsFiles
<1>4. CASE (\E n \in LSlots : DeleteLibraryFile(n)) \/ DeleteFileRow \/ DeleteDirectory \/ DeleteShow \/ DeleteShowRow
  BY <1>4, DeleteKeepsFiles
<1>. QED  BY <1>1, <1>2, <1>3, <1>4 DEF LibraryNext

\* When the old directory goes, what the move found is elsewhere.
LEMMA NothingLostByRemoval ==
  ASSUME FilesInv, [LibraryNext]_lVars
  PROVE  RemoveSource => \A c \in lMove.had \ lTouched : OnLibraryDisk(c) => OnLibraryDisk(c)'
<1>1. ASSUME RemoveSource, NEW c \in lMove.had \ lTouched PROVE OnLibraryDisk(c)'
  <2>1. PICK l \in LLibs \ {lMove.to}, n \in LSlots : HasContent(l, n, c)
    BY <1>1 DEF FilesInv, MoveKeeps, RemoveSource, AtTarget
  <2>2. lDisk'[l][n] = lDisk[l][n]
    BY <1>1, <2>1 DEF FilesInv, LibraryTypeOK, RemoveSource
  <2>. QED  BY <2>1, <2>2 DEF OnLibraryDisk, HasContent, SameContent
<1>. QED  BY <1>1

(***************************************************************************)
(* Well-formed files, rows and plans, whatever number of imports overlap.  *)
(***************************************************************************)
FilesTyped ==
  /\ LibraryTypeOK
  /\ \A s \in RunningImports :
        /\ lImp[s].lib \in LLibs /\ lImp[s].slot \in LSlots
        /\ lImp[s].pc = "reuse" => lImp[s].dup \in LSlots /\ lImp[s].row \in LSources

LEMMA FilesTypedInit == LibraryInit => FilesTyped
BY FilesInvInit DEF FilesInv, PlansHold, PlanHolds, FilesTyped

\* A step of an import that only sets its status.
LEMMA StatusKeepsTyped ==
  ASSUME FilesTyped, NEW s \in LSources, NEW pc \in {"row", "imported", "failed"},
         lImp' = [lImp EXCEPT ![s].pc = pc], s \in RunningImports,
         lDisk' \in [LLibs -> [LSlots -> LSources \cup {Nothing}]], lRows' \in [LSlots -> LSources \cup {Nothing}],
         lTouched' \subseteq LSources, UNCHANGED <<lRoot, lLib, lMove, lDel, lDeletes, lMoves>>
  PROVE  FilesTyped'
<1>1. LibraryTypeOK'
  BY StatusSet DEF FilesTyped, LibraryTypeOK
<1>. QED  BY <1>1, StatusSet DEF FilesTyped, RunningImports

\* A step that leaves the imports alone.
LEMMA OthersKeepTyped ==
  ASSUME FilesTyped, LibraryTypeOK', lImp' = lImp
  PROVE  FilesTyped'
BY DEF FilesTyped, RunningImports

LEMMA FilesTypedNext ==
  ASSUME FilesTyped, [LibraryNext]_lVars
  PROVE  FilesTyped'
<1>. USE FilesConstants
<1>. DEFINE Disks == [LLibs -> [LSlots -> LSources \cup {Nothing}]]
<1>1. CASE UNCHANGED lVars
  BY <1>1 DEF FilesTyped, LibraryTypeOK, RunningImports, lVars
<1>2. ASSUME NEW s \in LSources, ImportDirectory(s) PROVE FilesTyped'
  <2>. DEFINE i == Planned(s)
  <2>1. /\ lImp' = [lImp EXCEPT ![s] = i] /\ lLib \in LLibs /\ lRoot' = lRoot \cup {lLib} /\ FreeSlots(s) # {}
        /\ UNCHANGED <<lDisk, lRows, lLib, lMove, lDel, lTouched, lDeletes, lMoves>>
    BY <1>2 DEF ImportDirectory, FilesTyped, LibraryTypeOK
  <2>2. FreeSlots(s) \in SUBSET LSlots /\ Duplicates(s) \in SUBSET LSlots /\ \A n \in Duplicates(s) : lRows[n] \in LSources
    BY DEF FreeSlots, Duplicates, Rows, FilesTyped, LibraryTypeOK
  <2>3. Min(FreeSlots(s)) \in LSlots /\ (Duplicates(s) # {} => Min(Duplicates(s)) \in LSlots /\ lRows[Min(Duplicates(s))] \in LSources)
    BY <2>1, <2>2, MinOfSlots
  <2>4. /\ i \in [pc : {"link", "reuse"}, lib : LLibs, slot : LSlots, dup : LSlots \cup {Nothing}, row : LSources \cup {Nothing}]
        /\ i.pc = "reuse" => i.dup \in LSlots /\ i.row \in LSources
    BY <2>1, <2>3 DEF Planned
  <2>. HIDE DEF i
  <2>5. LibraryTypeOK'
    BY <2>1, <2>4 DEF FilesTyped, LibraryTypeOK
  <2>6. lImp'[s] = i /\ \A x \in LSources \ {s} : lImp'[x] = lImp[x]
    BY <2>1 DEF FilesTyped, LibraryTypeOK
  <2>. QED  BY <2>4, <2>5, <2>6 DEF FilesTyped, RunningImports
<1>3. ASSUME NEW s \in LSources, LinkVideo(s) PROVE FilesTyped'
  <2>. DEFINE i == lImp[s]
  <2>1. s \in RunningImports /\ i.lib \in LLibs /\ i.slot \in LSlots
    BY <1>3 DEF LinkVideo, FilesTyped, RunningImports
  <2>2. PICK pc \in {"row", "failed"} : lImp' = [lImp EXCEPT ![s].pc = pc]
    BY <1>3 DEF LinkVideo
  <2>3. lDisk' = lDisk \/ lDisk' = [lDisk EXCEPT ![i.lib][i.slot] = s]
    BY <1>3 DEF LinkVideo, Placed
  <2>4. lDisk' \in Disks
    BY <2>3 DEF FilesTyped, LibraryTypeOK
  <2>. QED  BY <1>3, <2>1, <2>2, <2>4, StatusKeepsTyped DEF LinkVideo, FilesTyped, LibraryTypeOK
<1>4. ASSUME NEW s \in LSources, AddFileRow(s) PROVE FilesTyped'
  <2>1. s \in RunningImports
    BY <1>4 DEF AddFileRow, RunningImports
  <2>2. PICK pc \in {"imported", "failed"} : lImp' = [lImp EXCEPT ![s].pc = pc]
    BY <1>4 DEF AddFileRow
  <2>3. lRows' = lRows \/ lRows' = [lRows EXCEPT ![lImp[s].slot] = s]
    BY <1>4 DEF AddFileRow
  <2>4. lRows' \in [LSlots -> LSources \cup {Nothing}]
    BY <2>3 DEF FilesTyped, LibraryTypeOK
  <2>. QED  BY <1>4, <2>1, <2>2, <2>4, StatusKeepsTyped DEF AddFileRow, FilesTyped, LibraryTypeOK
<1>5. ASSUME NEW s \in LSources, ReuseSlot(s) PROVE FilesTyped'
  <2>. DEFINE i == lImp[s]
              moved == lDisk[i.lib][i.dup]
  <2>1. s \in RunningImports /\ i.lib \in LLibs /\ i.slot \in LSlots /\ i.dup \in LSlots /\ i.row \in LSources
    BY <1>5 DEF ReuseSlot, FilesTyped, RunningImports
  <2>2. PICK pc \in {"imported", "failed"} : lImp' = [lImp EXCEPT ![s].pc = pc]
    BY <1>5 DEF ReuseSlot
  <2>3. moved \in LSources \cup {Nothing}
    <3>1. lDisk \in Disks
      BY DEF FilesTyped, LibraryTypeOK
    <3>. QED  BY ONLY <2>1, <3>1
  <2>4. lDisk' \in Disks
    <3>1. lDisk' = lDisk \/ lDisk' = [lDisk EXCEPT ![i.lib][i.slot] = moved, ![i.lib][i.dup] = Nothing]
      BY <1>5 DEF ReuseSlot
    <3>. QED  BY <2>3, <3>1 DEF FilesTyped, LibraryTypeOK
  <2>5. lTouched' \subseteq LSources
    <3>1. lTouched' = lTouched \/ lTouched' = lTouched \cup ({moved, i.row} \ {Nothing})
      BY <1>5 DEF ReuseSlot
    <3>. QED  BY <2>1, <2>3, <3>1 DEF FilesTyped, LibraryTypeOK
  <2>6. lRows' \in [LSlots -> LSources \cup {Nothing}]
    <3>1. lRows' = lRows \/ lRows' = [n \in LSlots |-> IF n = i.slot THEN i.row ELSE IF lRows[n] = i.row THEN Nothing ELSE lRows[n]]
      BY <1>5 DEF ReuseSlot
    <3>. QED  BY <2>1, <3>1 DEF FilesTyped, LibraryTypeOK
  <2>7. UNCHANGED <<lRoot, lLib, lMove, lDel, lDeletes, lMoves>>
    BY <1>5 DEF ReuseSlot
  <2>. QED  BY <2>1, <2>2, <2>4, <2>5, <2>6, <2>7, StatusKeepsTyped
<1>6. CASE MoveLibrary
  <2>1. PICK to \in LLibs \ {lLib} :
        IF lLib \notin lRoot
        THEN lLib' = to /\ UNCHANGED <<lRoot, lMove>>
        ELSE /\ lRoot' = lRoot \cup {to}
             /\ lMove' = [NoMove EXCEPT !.pc = "link", !.to = to,
                                        !.had = {lDisk[lLib][n] : n \in FilesIn(lLib) \cap Rows}]
             /\ UNCHANGED lLib
    BY <1>6 DEF MoveLibrary
  <2>2. {lDisk[lLib][n] : n \in FilesIn(lLib) \cap Rows} \in SUBSET LSources
    BY <1>6 DEF FilesIn, MoveLibrary, FilesTyped, LibraryTypeOK
  <2>3. lMove' \in [pc : {"idle", "link", "set", "remove"}, to : LLibs \cup {Nothing},
                done : SUBSET LSlots, errors : SUBSET LSlots, had : SUBSET LSources]
    BY <2>1, <2>2 DEF NoMove, FilesTyped, LibraryTypeOK
  <2>4. lMoves' \in 0..MaxMoves
    BY <1>6, LibraryAssumption DEF MoveLibrary, FilesTyped, LibraryTypeOK
  <2>5. lRoot' \subseteq LLibs /\ lLib' \in LLibs \cup {Nothing}
    BY <2>1 DEF FilesTyped, LibraryTypeOK
  <2>6. UNCHANGED <<lDisk, lRows, lImp, lDel, lTouched, lDeletes>>
    BY <1>6 DEF MoveLibrary
  <2>. QED  BY <2>3, <2>4, <2>5, <2>6, OthersKeepTyped DEF FilesTyped, LibraryTypeOK
<1>7. CASE LinkTree
  <2>. DEFINE m == Min(Unlinked)
  <2>1. Unlinked \in SUBSET LSlots /\ Unlinked # {} /\ lLib \in LLibs
    BY <1>7 DEF LinkTree, Unlinked, FilesIn, FilesTyped, LibraryTypeOK
  <2>2. m \in LSlots
    BY <2>1, MinOfSlots
  <2>3. lDisk' = lDisk \/ lDisk' = [lDisk EXCEPT ![lMove.to][m] = lDisk[lLib][m]]
    BY <1>7 DEF LinkTree, Placed
  <2>4. lMove' = [lMove EXCEPT !.done = @ \cup {m}] \/ lMove' = [lMove EXCEPT !.done = @ \cup {m}, !.errors = @ \cup {m}]
    BY <1>7 DEF LinkTree
  <2>. HIDE DEF m
  <2>5. lDisk' \in Disks
    BY <2>1, <2>2, <2>3 DEF FilesTyped, LibraryTypeOK
  <2>6. lMove' \in [pc : {"idle", "link", "set", "remove"}, to : LLibs \cup {Nothing},
                done : SUBSET LSlots, errors : SUBSET LSlots, had : SUBSET LSources]
    <3>1. lMove \in [pc : {"idle", "link", "set", "remove"}, to : LLibs \cup {Nothing},
                done : SUBSET LSlots, errors : SUBSET LSlots, had : SUBSET LSources]
      BY DEF FilesTyped, LibraryTypeOK
    <3>2. lMove.done \cup {m} \in SUBSET LSlots /\ lMove.errors \cup {m} \in SUBSET LSlots
      BY <2>2, <3>1
    <3>. QED  BY <2>4, <3>1, <3>2
  <2>. QED  BY <1>7, <2>5, <2>6, OthersKeepTyped DEF LinkTree, FilesTyped, LibraryTypeOK
<1>8. CASE LinkTreeEnds \/ SetLibrary \/ RemoveSource
  <2>1. lMove' \in [pc : {"idle", "link", "set", "remove"}, to : LLibs \cup {Nothing},
                done : SUBSET LSlots, errors : SUBSET LSlots, had : SUBSET LSources]
    <3>1. CASE lMove' = NoMove
      BY <3>1 DEF NoMove
    <3>2. CASE lMove' = [lMove EXCEPT !.pc = "set"]
      BY <3>2 DEF FilesTyped, LibraryTypeOK
    <3>3. CASE lMove' = [lMove EXCEPT !.pc = "remove", !.to = lLib]
      BY <3>3 DEF FilesTyped, LibraryTypeOK
    <3>. QED  BY <1>8, <3>1, <3>2, <3>3 DEF LinkTreeEnds, SetLibrary, RemoveSource
  <2>2. lDisk' \in Disks
    BY <1>8 DEF LinkTreeEnds, SetLibrary, RemoveSource, Empty, FilesTyped, LibraryTypeOK
  <2>. QED  BY <1>8, <2>1, <2>2, OthersKeepTyped DEF LinkTreeEnds, SetLibrary, RemoveSource, FilesTyped, LibraryTypeOK
<1>9. ASSUME Deleting PROVE lLib \in LLibs /\ lDeletes' \in 0..MaxLDeletes
  BY <1>9, LibraryAssumption DEF Deleting, FilesTyped, LibraryTypeOK
<1>10. ASSUME NEW n \in LSlots, DeleteLibraryFile(n) PROVE FilesTyped'
  <2>1. lDisk' \in Disks /\ lTouched' \subseteq LSources
    BY <1>9, <1>10 DEF DeleteLibraryFile, FilesTyped, LibraryTypeOK
  <2>2. lDel' \in [pc : {"idle", "row", "title"}, row : LSources \cup {Nothing}]
    BY <1>10 DEF DeleteLibraryFile, FilesTyped, LibraryTypeOK
  <2>. QED  BY <1>9, <1>10, <2>1, <2>2, OthersKeepTyped DEF DeleteLibraryFile, FilesTyped, LibraryTypeOK
<1>11. CASE DeleteFileRow \/ DeleteShowRow
  BY <1>11, OthersKeepTyped DEF DeleteFileRow, DeleteShowRow, NoDelete, Empty, FilesTyped, LibraryTypeOK
<1>12. CASE DeleteDirectory \/ DeleteShow
  <2>1. lDisk' = [lDisk EXCEPT ![lLib] = Empty] /\ lRoot' = lRoot \ {lLib}
    BY <1>12 DEF DeleteDirectory, DeleteShow
  <2>2. lTouched' = lTouched \cup {lDisk[lLib][n] : n \in FilesIn(lLib)} \cup {lRows[n] : n \in Rows}
    BY <1>12 DEF DeleteDirectory, DeleteShow
  <2>3. lTouched' \subseteq LSources
    BY <1>9, <1>12, <2>2 DEF DeleteDirectory, DeleteShow, FilesIn, Rows, FilesTyped, LibraryTypeOK
  <2>4. lDisk' \in Disks
    BY <2>1 DEF Empty, FilesTyped, LibraryTypeOK
  <2>5. lDel' \in [pc : {"idle", "row", "title"}, row : LSources \cup {Nothing}]
    BY <1>12 DEF DeleteDirectory, DeleteShow, NoDelete, FilesTyped, LibraryTypeOK
  <2>. QED  BY <1>9, <1>12, <2>1, <2>3, <2>4, <2>5, OthersKeepTyped
            DEF DeleteDirectory, DeleteShow, FilesTyped, LibraryTypeOK
<1>13. ASSUME NEW s \in LSources, ImportDirectory(s) \/ LinkVideo(s) \/ AddFileRow(s) \/ ReuseSlot(s) PROVE FilesTyped'
  BY <1>2, <1>3, <1>4, <1>5, <1>13
<1>14. CASE MoveLibrary \/ LinkTree \/ LinkTreeEnds \/ SetLibrary \/ RemoveSource
  BY <1>6, <1>7, <1>8, <1>14
<1>15. CASE (\E n \in LSlots : DeleteLibraryFile(n)) \/ DeleteFileRow \/ DeleteDirectory \/ DeleteShow \/ DeleteShowRow
  BY <1>10, <1>11, <1>12, <1>15
<1>. QED  BY <1>1, <1>13, <1>14, <1>15 DEF LibraryNext

\* The title's files, rows, imports, move and deletion are well formed in every reachable
\* state, whatever number of imports overlap (movies/service.py, movies/repository.py).
THEOREM FilesStayTyped == LibrarySpec => []LibraryTypeOK
<1>1. LibraryInit => FilesTyped
  BY FilesTypedInit
<1>2. FilesTyped /\ [LibraryNext]_lVars => FilesTyped'
  BY FilesTypedNext
<1>3. FilesTyped => LibraryTypeOK
  BY DEF FilesTyped
<1>. QED  BY <1>1, <1>2, <1>3, PTL DEF LibrarySpec

\* While imports of the title take turns, what a move to another library found in the old
\* one is in the new one, or elsewhere in the libraries, when the old directory is removed
\* (movies/service.py, _link_tree).  Two overlapping imports may write one name, and then a
\* move does lose a file: the hypothesis is needed.
THEOREM MovesKeepFiles ==
  ASSUME MaxImports <= 1
  PROVE  LibrarySpec => MoveLosesNothing
<1>1. LibraryInit => FilesInv
  BY FilesInvInit
<1>2. FilesInv /\ [LibraryNext]_lVars => FilesInv'
  BY FilesInvNext
<1>3. FilesInv /\ [LibraryNext]_lVars =>
        [RemoveSource => \A c \in lMove.had \ lTouched : OnLibraryDisk(c) => OnLibraryDisk(c)']_lVars
  BY NothingLostByRemoval
<1>. QED  BY <1>1, <1>2, <1>3, PTL DEF LibrarySpec, MoveLosesNothing

(***************************************************************************)
(* What the viewer did (playback, viewing sync): the list, the pickers and *)
(* the decisions a user made by hand.                                      *)
(***************************************************************************)
RequestPcs == {"idle", "write", "commit", "remove", "add", "spread"}
Values == {"none", "part", "done"}
ViewRequests == [pc : RequestPcs, file : VFiles \cup {0}, val : Values, was : Values,
                 plan : {"keep", "derive", "delete"}, media : SUBSET VItems, pos : SUBSET Nat,
                 order : Seq(VItems)]

UsedPositions == {vPos[i] : i \in InList}

\* Two items of the list never have one position (its unique index).
PositionsDistinct == \A i, j \in InList : vPos[i] = vPos[j] => i = j

\* What a request that holds the lock of the list has planned still fits the list.
AddFits(r) ==
  r.pc = "add" =>
    /\ \E i \in VItems, q \in 0..VMaxPos : r.media = {i} /\ r.pos = {q}
    /\ Cardinality(InList) < VMaxItems
SpreadFits(r) ==
  r.pc = "spread" =>
    /\ InList \subseteq ToSet(r.order) /\ IsInjective(r.order) /\ Len(r.order) <= VMaxPos + 1
ListFits(d) ==
  LET r == vReq[d] IN
  r.pc \in {"add", "spread"} =>
    /\ vLock = d /\ \A i \in VItems : vPos[i] \notin r.pos
    /\ AddFits(r) /\ SpreadFits(r)

ViewInv ==
  /\ ViewingTypeOK /\ vLast \in Seq(VFiles)
  /\ vReq \in [VDevices -> ViewRequests]
  /\ \A d \in VDevices : vReq[d].pc \in {"write", "commit"} => vReq[d].file \in VFiles
  /\ \A d \in VDevices : ListFits(d)
  /\ PositionsDistinct /\ Cardinality(InList) <= VMaxItems

LEMMA ViewConstants ==
  /\ VEps \in Nat /\ VFiles \subseteq Nat \ {0} /\ IsFiniteSet(VFiles) /\ VItems \subseteq Nat /\ IsFiniteSet(VItems)
  /\ 0 \in VItems /\ VTitles \subseteq VItems /\ VShow \in VItems
  /\ \A f \in VFiles : VFileOf[f] \in VTitles
  /\ VMaxItems \in Nat /\ VMaxPos \in Nat /\ VMaxReqs \in Nat /\ RowsUnlocked \notin VDevices
<1>1. VEps \in Nat /\ VMaxItems \in Nat /\ VMaxPos \in Nat /\ VMaxReqs \in Nat /\ RowsUnlocked \notin VDevices
  BY ViewingAssumption DEF RowsUnlocked
<1>2. Len(VFileOf) \in Nat /\ \A f \in VFiles : VFileOf[f] \in VTitles
  BY ViewingAssumption DEF VFiles, VTitles
<1>3. VFiles \subseteq Nat \ {0} /\ IsFiniteSet(VFiles)
  <2>. DEFINE n == Len(VFileOf)
  <2>1. n \in Nat /\ VFiles = 1..n
    BY <1>2 DEF VFiles
  <2>. HIDE DEF n
  <2>2. IsFiniteSet(1..n) /\ 1..n \subseteq Nat \ {0}
    BY <2>1, FS_Interval
  <2>. QED  BY <2>1, <2>2
<1>4. VItems = 0 .. (VEps + 1)
  BY <1>1 DEF VItems, VTitles, VShow
<1>5. IsFiniteSet(VItems) /\ VItems \subseteq Nat /\ 0 \in VItems /\ VTitles \subseteq VItems /\ VShow \in VItems
  BY <1>1, <1>4, FS_Interval DEF VTitles, VShow
<1>. QED  BY <1>1, <1>2, <1>3, <1>5

LEMMA NoRequestTyped == NoReq \in ViewRequests /\ NoReq.pc = "idle"
BY DEF NoReq, ViewRequests, RequestPcs, Values

(***************************************************************************)
(* The files with progress, last updated last.                             *)
(***************************************************************************)
LEMMA WithoutFileIs ==
  ASSUME NEW last \in Seq(VFiles), IsInjective(last), NEW watched \in VFiles
  PROVE  LET w == WithoutFile(last, watched) IN
         w \in Seq(VFiles) /\ IsInjective(w) /\ ToSet(w) = ToSet(last) \ {watched}
<1>1. CASE ~ \E i \in 1..Len(last) : last[i] = watched
  BY <1>1 DEF WithoutFile, RemoveFirst, ToSet
<1>2. CASE \E i \in 1..Len(last) : last[i] = watched
  <2>. DEFINE I == {i \in 1..Len(last) : last[i] = watched}
  <2>1. SelectInSeq(last, LAMBDA v : v = watched) = Min(I)
    BY <1>2 DEF SelectInSeq
  <2>2. I \in SUBSET Nat /\ I # {}
    BY <1>2
  <2>3. Min(I) \in I
    BY <2>2, MinOfNaturals
  <2>. DEFINE k == Min(I)
  <2>4. k \in 1..Len(last) /\ last[k] = watched
    BY <2>3
  <2>5. WithoutFile(last, watched) = RemoveAt(last, k)
    BY <1>2, <2>1 DEF WithoutFile, RemoveFirst
  <2>. HIDE DEF k, I
  <2>. DEFINE w == RemoveAt(last, k)
              n == Len(last)
  <2>6. /\ w \in Seq(VFiles) /\ Len(w) = n - 1
        /\ \A i \in 1 .. (n - 1) : w[i] = IF i < k THEN last[i] ELSE last[i + 1]
    <3>1. n \in Nat /\ k \in 1..n
      BY <2>4
    <3>. DEFINE a == SubSeq(last, 1, k - 1)
                b == SubSeq(last, k + 1, n)
    <3>2. a \in Seq(VFiles) /\ Len(a) = k - 1 /\ \A i \in 1 .. (k - 1) : a[i] = last[i]
      BY <3>1
    <3>3. b \in Seq(VFiles) /\ Len(b) = n - k /\ \A i \in 1 .. (n - k) : b[i] = last[k + i]
      BY <3>1
    <3>4. w = a \o b
      BY DEF RemoveAt
    <3>. HIDE DEF a, b, w, n
    <3>5. w \in Seq(VFiles) /\ Len(w) = n - 1
      <4>1. w \in Seq(VFiles) /\ Len(w) = Len(a) + Len(b)
        BY <3>2, <3>3, <3>4, ConcatProperties
      <4>2. Len(a) + Len(b) = n - 1
        BY <3>1, <3>2, <3>3
      <4>. QED  BY <4>1, <4>2
    <3>6. ASSUME NEW i \in 1 .. (n - 1) PROVE w[i] = IF i < k THEN last[i] ELSE last[i + 1]
      <4>1. CASE i < k
        BY <3>1, <3>2, <3>3, <3>4, <4>1
      <4>2. CASE ~(i < k)
        <5>1. i - (k - 1) \in 1 .. (n - k) /\ w[i] = b[i - (k - 1)] /\ k + (i - (k - 1)) = i + 1
          BY <3>1, <3>2, <3>3, <3>4, <4>2
        <5>. QED  BY <3>3, <4>2, <5>1
      <4>. QED  BY <4>1, <4>2
    <3>. QED  BY <3>5, <3>6
  <2>7. n \in Nat /\ DOMAIN last = 1..n /\ k \in 1..n /\ \A i, j \in 1..n : last[i] = last[j] => i = j
    BY <2>4 DEF IsInjective
  <2>. HIDE DEF w, n
  <2>8. DOMAIN w = 1 .. (n - 1)
    BY <2>6, <2>7
  <2>9. IsInjective(w)
    <3>1. ASSUME NEW i \in 1 .. (n - 1), NEW j \in 1 .. (n - 1), w[i] = w[j] PROVE i = j
      <4>1. (IF i < k THEN i ELSE i + 1) \in 1..n /\ (IF j < k THEN j ELSE j + 1) \in 1..n
        BY <2>7
      <4>2. (IF i < k THEN i ELSE i + 1) = (IF j < k THEN j ELSE j + 1)
        BY <2>6, <2>7, <3>1, <4>1
      <4>. QED  BY <2>7, <4>2
    <3>. QED  BY <2>8, <3>1 DEF IsInjective
  <2>10. ToSet(w) = ToSet(last) \ {watched}
    <3>1. ASSUME NEW i \in 1 .. (n - 1) PROVE w[i] \in ToSet(last) \ {watched}
      <4>1. (IF i < k THEN i ELSE i + 1) \in 1..n /\ (IF i < k THEN i ELSE i + 1) # k
        BY <2>7
      <4>2. w[i] = last[IF i < k THEN i ELSE i + 1]
        BY <2>6
      <4>. QED  BY <2>4, <2>7, <4>1, <4>2 DEF ToSet
    <3>2. ASSUME NEW j \in 1..n, last[j] # watched PROVE \E i \in 1 .. (n - 1) : w[i] = last[j]
      <4>1. j # k
        BY <2>4, <3>2
      <4>2. CASE j < k
        <5>1. j \in 1 .. (n - 1) /\ w[j] = last[j]
          BY <2>6, <2>7, <4>2
        <5>. QED  BY <5>1
      <4>3. CASE j > k
        <5>1. j - 1 \in 1 .. (n - 1) /\ ~(j - 1 < k) /\ (j - 1) + 1 = j
          BY <2>7, <4>3
        <5>2. w[j - 1] = last[j]
          BY <2>6, <5>1
        <5>. QED  BY <5>1, <5>2
      <4>. QED  BY <2>7, <4>1, <4>2, <4>3
    <3>3. ToSet(w) = {w[i] : i \in 1 .. (n - 1)} /\ ToSet(last) = {last[i] : i \in 1..n}
      BY <2>7, <2>8 DEF ToSet
    <3>4. ToSet(w) \subseteq ToSet(last) \ {watched}
      BY <3>1, <3>3
    <3>5. ToSet(last) \ {watched} \subseteq ToSet(w)
      BY <3>2, <3>3
    <3>. QED  BY <3>4, <3>5
  <2>. QED  BY <2>5, <2>6, <2>9, <2>10 DEF w
<1>. QED  BY <1>1, <1>2

\* After an upsert or a deletion each file with progress stands once in the order of updates.
LEMMA RecordedIs ==
  ASSUME NEW last \in Seq(VFiles), IsInjective(last), NEW watched \in VFiles, NEW val
  PROVE  LET q == Recorded(last, watched, val) IN
         /\ q \in Seq(VFiles) /\ IsInjective(q)
         /\ ToSet(q) = IF val = "none" THEN ToSet(last) \ {watched} ELSE ToSet(last) \cup {watched}
<1>. DEFINE w == WithoutFile(last, watched)
<1>1. w \in Seq(VFiles) /\ IsInjective(w) /\ ToSet(w) = ToSet(last) \ {watched}
  BY WithoutFileIs
<1>2. CASE val = "none"
  BY <1>1, <1>2 DEF Recorded
<1>3. CASE val # "none"
  <2>. HIDE DEF w
  <2>. DEFINE q == Append(w, watched)
  <2>1. /\ q \in Seq(VFiles) /\ Len(w) \in Nat /\ Len(q) = Len(w) + 1 /\ DOMAIN q = 1 .. (Len(w) + 1)
        /\ DOMAIN w = 1 .. Len(w) /\ q[Len(w) + 1] = watched /\ \A i \in 1 .. Len(w) : q[i] = w[i]
    BY <1>1
  <2>. HIDE DEF q
  <2>2. ToSet(q) = ToSet(w) \cup {watched}
    BY <2>1 DEF ToSet
  <2>3. IsInjective(q)
    <3>1. \A i \in 1 .. Len(w) : w[i] # watched
      BY <1>1, <2>1 DEF ToSet
    <3>2. \A i, j \in 1 .. Len(w) : w[i] = w[j] => i = j
      BY <1>1, <2>1 DEF IsInjective
    <3>. QED  BY <2>1, <3>1, <3>2 DEF IsInjective
  <2>4. Recorded(last, watched, val) = q
    BY <1>3 DEF Recorded, q, w
  <2>. QED  BY <1>1, <1>3, <2>1, <2>2, <2>3, <2>4
<1>. QED  BY <1>2, <1>3

(***************************************************************************)
(* The list.                                                               *)
(***************************************************************************)
\* The last position is that of an item, and -1 in an empty list.
LEMMA LastPosition ==
  ASSUME ViewingTypeOK
  PROVE  LastPos \in Off..VMaxPos /\ \A i \in VItems : vPos[i] <= LastPos
<1>. USE ViewConstants
<1>. DEFINE S == {vPos[i] + 1 : i \in VItems}
<1>1. \A i \in VItems : vPos[i] \in Off..VMaxPos /\ vPos[i] + 1 \in 0 .. (VMaxPos + 1)
  BY DEF ViewingTypeOK, Off
<1>2. S \in SUBSET Nat /\ S \subseteq 0 .. (VMaxPos + 1) /\ S # {}
  BY <1>1
<1>3. Max(S) \in S /\ \A y \in S : Max(S) >= y
  <2>. HIDE DEF S
  <2>. QED  BY <1>2, MaxOfBounded
<1>4. PICK k \in VItems : \A i \in VItems : vPos[k] + 1 >= vPos[i] + 1
  BY <1>3
<1>5. \A i \in VItems : vPos[i] <= vPos[k]
  BY <1>1, <1>4 DEF Off
<1>. QED  BY <1>1, <1>5 DEF LastPos

\* The unique index bounds the items of the list.
LEMMA ListIsFinite ==
  ASSUME ViewingTypeOK
  PROVE  /\ IsFiniteSet(InList) /\ InList \in SUBSET VItems /\ Cardinality(InList) \in Nat
         /\ \A i \in InList : vPos[i] \in 0..VMaxPos
BY ViewConstants, FS_Subset, FS_CardinalityType DEF InList, ViewingTypeOK, Off

LEMMA ListIsBounded ==
  ASSUME ViewingTypeOK, PositionsDistinct
  PROVE  Cardinality(InList) <= VMaxPos + 1
<1>. USE ViewConstants
<1>. DEFINE f == [i \in InList |-> vPos[i]]
<1>1. IsFiniteSet(InList) /\ \A i \in InList : vPos[i] \in 0..VMaxPos
  BY ListIsFinite
<1>2. f \in [InList -> 0..VMaxPos] /\ \A i, j \in InList : f[i] = f[j] => i = j
  BY <1>1 DEF PositionsDistinct
<1>3. IsFiniteSet(0..VMaxPos) /\ Cardinality(0..VMaxPos) = VMaxPos + 1
  BY FS_Interval
<1>4. f \in Injection(InList, 0..VMaxPos)
  BY <1>2 DEF Injection, IsInjective
<1>. HIDE DEF f
<1>. QED  BY <1>1, <1>3, <1>4, FS_Injection DEF ExistsInjection

(***************************************************************************)
(* The two queries for the next episode.                                   *)
(***************************************************************************)
LEMMA RecencyIs ==
  ASSUME ViewInv, NEW f \in VFiles
  PROVE  Recency(f) \in 0..Len(vLast) /\ (Recency(f) # 0 <=> vProg[f] = "part")
<1>. USE ViewConstants DEF ViewInv, ViewingTypeOK
<1>1. vLast \in Seq(VFiles) /\ Len(vLast) \in Nat /\ DOMAIN vLast = 1..Len(vLast)
  OBVIOUS
<1>2. CASE vProg[f] = "part"
  <2>1. f \in ToSet(vLast)
    BY <1>2
  <2>2. \E i \in 1..Len(vLast) : vLast[i] = f
    BY <1>1, <2>1 DEF ToSet
  <2>. DEFINE c == CHOOSE i \in 1..Len(vLast) : vLast[i] = f
  <2>3. c \in 1..Len(vLast)
    BY <2>2
  <2>4. Recency(f) = c
    BY <1>2 DEF Recency
  <2>. HIDE DEF c
  <2>. QED  BY <1>1, <1>2, <2>3, <2>4
<1>3. CASE vProg[f] # "part"
  BY <1>1, <1>3 DEF Recency
<1>. QED  BY <1>2, <1>3

\* The picked file is the last updated of the unfinished ones, if there is one.
LEMMA PickFileIs ==
  ASSUME ViewInv, NEW m, FilesOf(m) # {}
  PROVE  PickFile(m) \in FilesOf(m) /\ \A g \in FilesOf(m) : Recency(PickFile(m)) >= Recency(g)
<1>. DEFINE n == Len(vLast)
            R == {Recency(g) : g \in FilesOf(m)}
            F == {g \in FilesOf(m) : Recency(g) = Max(R)}
<1>1. FilesOf(m) \in SUBSET VFiles /\ VFiles = 1..Len(VFileOf) /\ Len(VFileOf) \in Nat /\ n \in Nat
  BY ViewingAssumption DEF FilesOf, VFiles, ViewInv
<1>2. \A g \in FilesOf(m) : Recency(g) \in 0..n
  BY <1>1, RecencyIs
<1>3. Max(R) \in R /\ \A y \in R : Max(R) >= y
  <2>1. R \in SUBSET Nat /\ R \subseteq 0..n /\ R # {}
    BY <1>1, <1>2
  <2>. HIDE DEF R
  <2>. QED  BY <1>1, <2>1, MaxOfBounded
<1>4. Max(F) \in F /\ \A y \in F : Max(F) >= y
  <2>1. F \in SUBSET Nat /\ F \subseteq 0..Len(VFileOf) /\ F # {}
    <3>1. PICK g \in FilesOf(m) : Max(R) = Recency(g)
      BY <1>3
    <3>2. g \in F
      BY <3>1
    <3>3. F \in SUBSET VFiles
      BY <1>1
    <3>. HIDE DEF F
    <3>. QED  BY <1>1, <3>2, <3>3
  <2>. HIDE DEF F
  <2>. QED  BY <1>1, <2>1, MaxOfBounded
<1>. DEFINE top == Max(F)
<1>5. top \in FilesOf(m) /\ Recency(top) = Max(R)
  BY <1>4
<1>6. ASSUME NEW g \in FilesOf(m)
      PROVE  Recency(top) > Recency(g) \/ (Recency(top) = Recency(g) /\ top >= g)
  <2>1. Max(R) >= Recency(g) /\ Max(R) \in Nat /\ Recency(g) \in Nat
    BY <1>2, <1>3
  <2>2. CASE Recency(g) = Max(R)
    <3>1. g \in F
      BY <2>2
    <3>. QED  BY <1>4, <1>5, <2>2, <3>1
  <2>3. CASE Recency(g) # Max(R)
    BY <1>5, <2>1, <2>3
  <2>. QED  BY <2>2, <2>3
<1>. HIDE DEF top, F, R
<1>7. /\ PickFile(m) \in FilesOf(m)
      /\ \A g \in FilesOf(m) : Recency(PickFile(m)) > Recency(g) \/ (Recency(PickFile(m)) = Recency(g) /\ PickFile(m) >= g)
  BY <1>5, <1>6 DEF PickFile
<1>. QED
  <2>1. ASSUME NEW g \in FilesOf(m) PROVE Recency(PickFile(m)) >= Recency(g)
    <3>1. Recency(PickFile(m)) \in Nat /\ Recency(g) \in Nat
      BY <1>1, <1>2, <1>7
    <3>2. Recency(PickFile(m)) > Recency(g) \/ Recency(PickFile(m)) = Recency(g)
      BY <1>7
    <3>. QED  BY <3>1, <3>2
  <2>. QED  BY <1>7, <2>1

LEMMA FirstEpIs ==
  ASSUME NEW S \in SUBSET (1..VEps), S # {}
  PROVE  FirstEp(S) \in S
<1>1. S \in SUBSET Nat
  BY ViewConstants
<1>2. Min(S) \in S /\ \A y \in S : Min(S) <= y
  BY <1>1, MinOfNaturals
<1>. QED  BY <1>2 DEF FirstEp

LEMMA TheQueriesAgree == ViewInv => ListSound /\ PickersAgree
<1>. SUFFICES ASSUME ViewInv PROVE ListSound /\ PickersAgree
  OBVIOUS
<1>1. ListSound
  BY DEF ViewInv, ListSound, ListFits
<1>2. ASSUME NEW s \in BOOLEAN, NEW u \in UpNext(s)
      PROVE  /\ ~Watched(u[1]) /\ (s \/ ShowItem = <<"next", u[1]>>)
             /\ (\E f \in FilesOf(u[1]) : vProg[f] = "part") => u[2] \in ListContinue
  <2>. DEFINE m == FirstEp(Candidates(s))
  <2>1. Candidates(s) # {} /\ u = <<m, PickFile(m)>>
    BY <1>2 DEF UpNext
  <2>2. Candidates(s) \in SUBSET (1..VEps)
    BY DEF Candidates
  <2>3. m \in Candidates(s)
    BY <2>1, <2>2, FirstEpIs
  <2>4. ~Watched(m) /\ FilesOf(m) # {}
    BY <2>3 DEF Candidates
  <2>5. s \/ ShowItem = <<"next", m>>
    BY <2>1 DEF ShowItem
  <2>. HIDE DEF m
  <2>6. ASSUME NEW f \in FilesOf(m), vProg[f] = "part" PROVE PickFile(m) \in ListContinue
    <3>1. f \in VFiles /\ PickFile(m) \in VFiles /\ Recency(PickFile(m)) >= Recency(f)
      BY <2>4, PickFileIs DEF FilesOf
    <3>2. Len(vLast) \in Nat
      BY DEF ViewInv
    <3>3. Recency(f) \in 0..Len(vLast) /\ Recency(f) # 0 /\ Recency(PickFile(m)) \in 0..Len(vLast)
      BY <2>6, <3>1, RecencyIs
    <3>4. Recency(PickFile(m)) # 0
      BY <3>1, <3>2, <3>3
    <3>5. vProg[PickFile(m)] = "part"
      BY <3>1, <3>4, RecencyIs
    <3>. QED  BY <3>1, <3>5 DEF ListContinue, ViewInv, ViewingTypeOK
  <2>. QED  BY <2>1, <2>4, <2>5, <2>6
<1>3. ShowItem[1] = "next" /\ ShowActivity(FALSE) => UpNext(FALSE) # {}
  BY DEF ShowItem, UpNext
<1>. QED  BY <1>1, <1>2, <1>3 DEF PickersAgree

(***************************************************************************)
(* The steps.                                                              *)
(***************************************************************************)
\* Progress and watch states are well formed, and the count of requests.
ProgressTyped ==
  /\ vProg \in [VFiles -> Values] /\ vLast \in Seq(VFiles)
  /\ ToSet(vLast) = {f \in VFiles : vProg[f] # "none"} /\ IsInjective(vLast)
  /\ vWatch \in [VTitles -> {"none", "derived"} \cup Manual]
  /\ vReqs \in 0..VMaxReqs

LEMMA ProgressIsTyped == ViewInv => ProgressTyped
BY DEF ViewInv, ViewingTypeOK, ProgressTyped, Values

\* A step that takes items off the list at most, and neither takes the lock nor frees another's.
LEMMA QuietStep ==
  ASSUME ViewInv, NEW d \in VDevices, NEW r \in ViewRequests,
         r.pc \notin {"add", "spread"}, r.pc \in {"write", "commit"} => r.file \in VFiles,
         Become(d, r), ProgressTyped',
         vPos' \in [VItems -> Off..VMaxPos], \A i \in VItems : vPos'[i] \in {vPos[i], Off},
         vLock' \in VDevices \cup {RowsUnlocked}, vLock # d => vLock' = vLock
  PROVE  ViewInv'
<1>. USE ViewConstants
<1>1. /\ vReq' \in [VDevices -> ViewRequests] /\ vReq'[d] = r /\ \A e \in VDevices \ {d} : vReq'[e] = vReq[e]
      /\ \A e \in VDevices : vReq'[e].pc \in RequestPcs
  BY DEF Become, ViewInv, ViewRequests
<1>2. ViewingTypeOK' /\ vLast' \in Seq(VFiles)
  BY <1>1 DEF ViewInv, ViewingTypeOK, ProgressTyped, Values, RequestPcs
<1>3. /\ InList' \subseteq InList /\ \A i \in InList' : vPos'[i] = vPos[i]
  BY DEF InList
<1>4. IsFiniteSet(InList) /\ Cardinality(InList) \in Nat /\ Cardinality(InList') <= Cardinality(InList) /\ Cardinality(InList') \in Nat
  <2>1. IsFiniteSet(InList) /\ Cardinality(InList) \in Nat
    BY ListIsFinite DEF ViewInv
  <2>. QED  BY <1>3, <2>1, FS_Subset, FS_CardinalityType
<1>5. \A e \in VDevices : vReq'[e].pc \in {"write", "commit"} => vReq'[e].file \in VFiles
  BY <1>1 DEF ViewInv
<1>6. ASSUME NEW e \in VDevices PROVE ListFits(e)'
  <2>1. CASE e = d
    BY <1>1, <2>1 DEF ListFits
  <2>2. CASE e # d
    <3>1. vReq'[e] = vReq[e] /\ ListFits(e) /\ vReq[e] \in ViewRequests
      BY <1>1, <2>2 DEF ViewInv
    <3>2. CASE vReq[e].pc \in {"add", "spread"}
      <4>1. vLock = e /\ \A i \in VItems : vPos[i] \notin vReq[e].pos
        BY <3>1, <3>2 DEF ListFits
      <4>2. Off \notin vReq[e].pos
        BY <3>1 DEF ViewRequests, Off
      <4>3. vLock' = e /\ \A i \in VItems : vPos'[i] \notin vReq[e].pos
        BY <2>2, <4>1, <4>2
      <4>4. AddFits(vReq[e])'
        BY <1>1, <1>4, <2>2, <3>1, <3>2 DEF AddFits, ListFits, ViewInv
      <4>5. SpreadFits(vReq[e])'
        BY <1>1, <1>3, <2>2, <3>1, <3>2 DEF SpreadFits, ListFits
      <4>. QED  BY <3>1, <4>3, <4>4, <4>5 DEF ListFits
    <3>3. CASE vReq[e].pc \notin {"add", "spread"}
      BY <3>1, <3>3 DEF ListFits
    <3>. QED  BY <3>2, <3>3
  <2>. QED  BY <2>1, <2>2
<1>7. PositionsDistinct'
  BY <1>3 DEF ViewInv, PositionsDistinct
<1>8. Cardinality(InList)' <= VMaxItems
  BY <1>4 DEF ViewInv
<1>. QED  BY <1>1, <1>2, <1>5, <1>6, <1>7, <1>8 DEF ViewInv

\* A step of a new request on what the list and its lock do not depend on.
LEMMA NewQuietRequest ==
  ASSUME ViewInv, NEW d \in VDevices, NEW r \in ViewRequests,
         r.pc \notin {"add", "spread"}, r.pc \in {"write", "commit"} => r.file \in VFiles,
         Become(d, r), ProgressTyped', UNCHANGED <<vPos, vLock>>
  PROVE  ViewInv'
BY QuietStep DEF ViewInv, ViewingTypeOK

LEMMA NewRequestIs ==
  ASSUME ViewInv, NEW d \in VDevices, NewRequest(d)
  PROVE  vReq[d] = NoReq /\ vReqs' \in 0..VMaxReqs /\ (vReq' = vReq => Become(d, NoReq))
BY ViewConstants DEF ViewInv, ViewingTypeOK, NewRequest, Become

LEMMA ProgressSteps ==
  ASSUME ViewInv, NEW d \in VDevices,
         \/ \E f \in VFiles : DeleteProgress(d, f) \/ (\E val \in {"part", "done"} : UpsertProgress(d, f, val))
         \/ StageProgress(d) \/ DeleteAllProgress(d) \/ DeleteAllViewingState(d)
  PROVE  ViewInv'
<1>. USE ViewConstants, NoRequestTyped, ProgressIsTyped
<1>1. ASSUME NEW f \in VFiles, NEW r \in ViewRequests, NewRequest(d), UNCHANGED <<viewVars, vPos, vLock>>,
             r.pc = "write", r.file = f, Become(d, r)
      PROVE  ViewInv'
  <2>1. ProgressTyped'
    BY <1>1, NewRequestIs DEF ProgressTyped, viewVars
  <2>. QED  BY <1>1, <2>1, NewQuietRequest
<1>2. ASSUME NEW f \in VFiles, DeleteProgress(d, f) PROVE ViewInv'
  <2>. DEFINE r == [NoReq EXCEPT !.pc = "write", !.file = f, !.was = vProg[f]]
  <2>1. vProg[f] \in Values
    BY DEF ProgressTyped
  <2>2. r \in ViewRequests /\ r.pc = "write" /\ r.file = f
    BY <2>1 DEF NoReq, ViewRequests, RequestPcs, Values
  <2>3. Become(d, r) /\ NewRequest(d) /\ UNCHANGED <<viewVars, vPos, vLock>>
    BY <1>2 DEF DeleteProgress
  <2>. HIDE DEF r
  <2>. QED  BY <1>1, <2>2, <2>3
<1>3. ASSUME NEW f \in VFiles, NEW val \in {"part", "done"}, UpsertProgress(d, f, val) PROVE ViewInv'
  <2>1. CASE Become(d, [NoReq EXCEPT !.pc = "write", !.file = f, !.val = val, !.was = vProg[f]])
    <3>. DEFINE r == [NoReq EXCEPT !.pc = "write", !.file = f, !.val = val, !.was = vProg[f]]
    <3>1. vProg[f] \in Values /\ val \in Values
      BY DEF ProgressTyped, Values
    <3>2. r \in ViewRequests /\ r.pc = "write" /\ r.file = f
      BY <3>1 DEF NoReq, ViewRequests, RequestPcs, Values
    <3>3. Become(d, r) /\ NewRequest(d) /\ UNCHANGED <<viewVars, vPos, vLock>>
      BY <1>3, <2>1 DEF UpsertProgress
    <3>. HIDE DEF r
    <3>. QED  BY <1>1, <3>2, <3>3
  <2>2. CASE Become(d, NoReq)
    <3>1. ProgressTyped'
      BY <1>3, NewRequestIs DEF ProgressTyped, viewVars, UpsertProgress
    <3>. QED  BY <1>3, <2>2, <3>1, NewQuietRequest DEF UpsertProgress
  <2>. QED  BY <1>3, <2>1, <2>2 DEF UpsertProgress
<1>4. ASSUME StageProgress(d) PROVE ViewInv'
  <2>. DEFINE plan == SyncPlan(VFileOf[vReq[d].file], vReq[d].val, vReq[d].was, [vProg EXCEPT ![vReq[d].file] = vReq[d].val])
              r == [vReq[d] EXCEPT !.pc = "commit", !.plan = plan]
  <2>1. plan \in {"keep", "derive", "delete"}
    BY DEF SyncPlan
  <2>2. vReq[d] \in ViewRequests /\ vReq[d].file \in VFiles
    BY <1>4 DEF StageProgress, ViewInv
  <2>. HIDE DEF plan
  <2>3. r \in ViewRequests /\ r.pc = "commit" /\ r.file \in VFiles
    BY <2>1, <2>2 DEF ViewRequests, RequestPcs
  <2>4. ProgressTyped'
    BY <1>4 DEF ProgressTyped, viewVars, StageProgress
  <2>5. Become(d, r) /\ UNCHANGED <<vPos, vLock>>
    BY <1>4 DEF StageProgress, plan
  <2>. HIDE DEF r
  <2>. QED  BY <2>3, <2>4, <2>5, NewQuietRequest
<1>5. ASSUME DeleteAllProgress(d) \/ DeleteAllViewingState(d) PROVE ViewInv'
  <2>1. /\ NewRequest(d) /\ UNCHANGED <<vPos, vLock, vReq>> /\ vProg' = [f \in VFiles |-> "none"] /\ vLast' = <<>>
        /\ vWatch' = vWatch \/ vWatch' = [m \in VTitles |-> "none"]
    BY <1>5 DEF DeleteAllProgress, DeleteAllViewingState
  <2>2. ToSet(<<>>) = {} /\ IsInjective(<<>>) /\ <<>> \in Seq(VFiles)
    BY DEF ToSet, IsInjective
  <2>3. ProgressTyped'
    BY <2>1, <2>2, NewRequestIs DEF ProgressTyped, Values
  <2>. QED  BY <2>1, <2>3, NewRequestIs, NewQuietRequest
<1>. QED  BY <1>2, <1>3, <1>4, <1>5

\* The write of a report leaves what the user has set by hand.
LEMMA SyncKeepsManual ==
  ASSUME vWatch \in [VTitles -> {"none", "derived"} \cup Manual], NEW m \in VTitles, NEW plan,
         SyncDerived(m, plan)
  PROVE  /\ vWatch' \in [VTitles -> {"none", "derived"} \cup Manual]
         /\ \A k \in VTitles : vWatch[k] \in Manual => vWatch'[k] = vWatch[k]
<1>. DEFINE w == CASE plan = "derive" /\ vWatch[m] \notin Manual -> "derived"
                   [] plan = "delete" /\ vWatch[m] = "derived" -> "none"
                   [] OTHER -> vWatch[m]
<1>1. w \in {"none", "derived"} \cup Manual /\ (vWatch[m] \in Manual => w = vWatch[m])
  BY DEF Manual
<1>2. vWatch' = [vWatch EXCEPT ![m] = w]
  BY DEF SyncDerived
<1>. HIDE DEF w
<1>. QED  BY <1>1, <1>2

LEMMA CommitStep ==
  ASSUME ViewInv, NEW d \in VDevices, CommitProgress(d)
  PROVE  ViewInv' /\ \A m \in VTitles : vWatch[m] \in Manual => vWatch'[m] = vWatch[m]
<1>. USE ViewConstants, NoRequestTyped
<1>. DEFINE r == vReq[d]
            m == VFileOf[r.file]
            n == IF r.val = "done" /\ r.was # "done" THEN [NoReq EXCEPT !.pc = "remove", !.media = {m}] ELSE NoReq
<1>1. r \in ViewRequests /\ r.file \in VFiles /\ m \in VTitles /\ r.val \in Values
  BY DEF CommitProgress, ViewInv, ViewRequests
<1>2. ProgressTyped
  BY ProgressIsTyped
<1>3. /\ vWatch' \in [VTitles -> {"none", "derived"} \cup Manual]
      /\ \A k \in VTitles : vWatch[k] \in Manual => vWatch'[k] = vWatch[k]
  BY <1>1, <1>2, SyncKeepsManual DEF CommitProgress, ProgressTyped
<1>4. /\ vLast' \in Seq(VFiles) /\ IsInjective(vLast')
      /\ ToSet(vLast') = IF r.val = "none" THEN ToSet(vLast) \ {r.file} ELSE ToSet(vLast) \cup {r.file}
  BY <1>1, <1>2, RecordedIs DEF CommitProgress, ProgressTyped
<1>5. ProgressTyped'
  BY <1>1, <1>2, <1>3, <1>4 DEF CommitProgress, ProgressTyped
<1>6. n \in ViewRequests /\ n.pc \in {"idle", "remove"}
  BY <1>1 DEF NoReq, ViewRequests, RequestPcs, Values
<1>7. Become(d, n) /\ UNCHANGED <<vPos, vLock>>
  BY DEF CommitProgress
<1>. HIDE DEF n
<1>8. ViewInv'
  BY <1>5, <1>6, <1>7, NewQuietRequest
<1>. QED  BY <1>3, <1>8

LEMMA WatchSteps ==
  ASSUME ViewInv, NEW d \in VDevices,
         \/ \E seen \in BOOLEAN : \/ \E s \in BOOLEAN : SetSeasonWatched(d, seen, s) \/ SetShowWatched(d, seen, s)
                                  \/ \E m \in VTitles : SetWatched(d, m, seen)
         \/ \E m \in VTitles : ClearWatchedOverride(d, m)
  PROVE  ViewInv'
<1>. USE ViewConstants, NoRequestTyped, ProgressIsTyped
<1>1. ASSUME NEW titles, NEW items \in SUBSET VItems, NEW seen \in BOOLEAN, SetManual(d, titles, items, seen)
      PROVE  ViewInv'
  <2>. DEFINE n == IF seen THEN [NoReq EXCEPT !.pc = "remove", !.media = items] ELSE NoReq
  <2>1. n \in ViewRequests /\ n.pc \in {"idle", "remove"}
    BY DEF NoReq, ViewRequests, RequestPcs, Values
  <2>2. ProgressTyped'
    BY <1>1, NewRequestIs DEF ProgressTyped, SetManual, Manual
  <2>3. Become(d, n) /\ UNCHANGED <<vPos, vLock>>
    BY <1>1 DEF SetManual
  <2>. HIDE DEF n
  <2>. QED  BY <2>1, <2>2, <2>3, NewQuietRequest
<1>2. ASSUME NEW seen \in BOOLEAN, NEW s \in BOOLEAN, SetSeasonWatched(d, seen, s) \/ SetShowWatched(d, seen, s)
      PROVE  ViewInv'
  <2>1. /\ \A S \in {1..VSpecials, (VSpecials + 1)..VEps, 1..VEps} : S \subseteq VTitles /\ S \cup {VShow} \subseteq VItems
    BY ViewingAssumption DEF VTitles, VItems
  <2>2. CASE SetSeasonWatched(d, seen, s)
    BY <1>1, <2>1, <2>2 DEF SetSeasonWatched
  <2>3. CASE SetShowWatched(d, seen, s)
    BY <1>1, <2>1, <2>3 DEF SetShowWatched
  <2>. QED  BY <1>2, <2>2, <2>3
<1>3. ASSUME NEW seen \in BOOLEAN, NEW m \in VTitles, SetWatched(d, m, seen) PROVE ViewInv'
  BY <1>1, <1>3 DEF SetWatched
<1>4. ASSUME NEW m \in VTitles, ClearWatchedOverride(d, m) PROVE ViewInv'
  <2>1. ProgressTyped'
    BY <1>4, NewRequestIs DEF ProgressTyped, ClearWatchedOverride
  <2>. QED  BY <1>4, <2>1, NewRequestIs, NewQuietRequest DEF ClearWatchedOverride
<1>. QED  BY <1>2, <1>3, <1>4

LEMMA RemovalSteps ==
  ASSUME ViewInv, NEW d \in VDevices,
         AutoRemoveWatched(d) \/ (\E i \in VItems : RemoveItem(d, i)) \/ DeleteWatchlist(d) \/ RequestDies(d)
  PROVE  ViewInv'
<1>. USE ViewConstants, NoRequestTyped, ProgressIsTyped
<1>1. vPos \in [VItems -> Off..VMaxPos] /\ vLock \in VDevices \cup {RowsUnlocked} /\ Off \in Off..VMaxPos
  BY DEF ViewInv, ViewingTypeOK, Off
<1>2. CASE AutoRemoveWatched(d)
  <2>1. ProgressTyped' /\ Become(d, NoReq) /\ vLock' = vLock
    BY <1>2 DEF ProgressTyped, AutoRemoveWatched, viewVars
  <2>2. vPos' \in [VItems -> Off..VMaxPos] /\ \A i \in VItems : vPos'[i] \in {vPos[i], Off}
    BY <1>1, <1>2 DEF AutoRemoveWatched
  <2>. QED  BY <1>1, <2>1, <2>2, QuietStep
<1>3. ASSUME NEW i \in VItems, RemoveItem(d, i) PROVE ViewInv'
  <2>1. ProgressTyped' /\ Become(d, NoReq) /\ vLock' = vLock
    BY <1>3, NewRequestIs DEF ProgressTyped, RemoveItem, viewVars
  <2>2. vPos' \in [VItems -> Off..VMaxPos] /\ \A k \in VItems : vPos'[k] \in {vPos[k], Off}
    BY <1>1, <1>3 DEF RemoveItem
  <2>. QED  BY <1>1, <2>1, <2>2, QuietStep
<1>4. CASE DeleteWatchlist(d)
  <2>1. ProgressTyped' /\ Become(d, NoReq) /\ vLock' = vLock
    BY <1>4, NewRequestIs DEF ProgressTyped, DeleteWatchlist, viewVars
  <2>2. vPos' \in [VItems -> Off..VMaxPos] /\ \A k \in VItems : vPos'[k] \in {vPos[k], Off}
    BY <1>1, <1>4 DEF DeleteWatchlist
  <2>. QED  BY <1>1, <2>1, <2>2, QuietStep
<1>5. CASE RequestDies(d)
  <2>1. ProgressTyped' /\ Become(d, NoReq) /\ vPos' = vPos
    BY <1>5 DEF ProgressTyped, RequestDies, viewVars
  <2>2. vLock' \in VDevices \cup {RowsUnlocked} /\ (vLock # d => vLock' = vLock)
    BY <1>1, <1>5 DEF RequestDies
  <2>. QED  BY <1>1, <2>1, <2>2, QuietStep
<1>. QED  BY <1>2, <1>3, <1>4, <1>5

\* A request takes the free lock of the list.
LEMMA LockTaken ==
  ASSUME ViewInv, NEW d \in VDevices, NEW r \in ViewRequests, NewRequest(d), ListLockFree,
         vLock' = d, Become(d, r), UNCHANGED <<viewVars, vPos>>, r.pc \in {"add", "spread"},
         \A i \in VItems : vPos[i] \notin r.pos, AddFits(r), SpreadFits(r)
  PROVE  ViewInv'
<1>. USE ViewConstants
<1>1. /\ vReq' \in [VDevices -> ViewRequests] /\ vReq'[d] = r /\ \A e \in VDevices \ {d} : vReq'[e] = vReq[e]
      /\ \A e \in VDevices : vReq'[e].pc \in RequestPcs
  BY DEF Become, ViewInv, ViewRequests
<1>2. vReqs' \in 0..VMaxReqs
  BY NewRequestIs
<1>3. ViewingTypeOK' /\ vLast' \in Seq(VFiles)
  BY <1>1, <1>2 DEF ViewInv, ViewingTypeOK, RequestPcs, viewVars
<1>4. InList' = InList /\ PositionsDistinct' /\ Cardinality(InList)' <= VMaxItems
  BY DEF InList, ViewInv, PositionsDistinct
<1>5. \A e \in VDevices : vReq'[e].pc \in {"write", "commit"} => vReq'[e].file \in VFiles
  BY <1>1 DEF ViewInv
<1>6. ASSUME NEW e \in VDevices PROVE ListFits(e)'
  <2>1. CASE e = d
    <3>1. AddFits(r)' /\ SpreadFits(r)'
      BY <1>4 DEF AddFits, SpreadFits
    <3>. QED  BY <1>1, <2>1, <3>1 DEF ListFits
  <2>2. CASE e # d
    <3>1. vReq[e].pc \notin {"add", "spread"}
      BY DEF ViewInv, ListFits, ListLockFree
    <3>. QED  BY <1>1, <2>2, <3>1 DEF ListFits
  <2>. QED  BY <2>1, <2>2
<1>. QED  BY <1>1, <1>3, <1>4, <1>5, <1>6 DEF ViewInv

LEMMA AddStep ==
  ASSUME ViewInv, NEW d \in VDevices, NEW i \in VItems, AddItem(d, i)
  PROVE  ViewInv'
<1>. USE ViewConstants
<1>1. LastPos \in Off..VMaxPos /\ \A k \in VItems : vPos[k] <= LastPos
  BY LastPosition DEF ViewInv
<1>. DEFINE q == NextPosition
            items == {i}
            places == {q}
            r == [NoReq EXCEPT !.pc = "add", !.media = items, !.pos = places]
<1>2. q \in 0..VMaxPos
  BY <1>1 DEF AddItem, NextPosition, Off
<1>3. \A k \in VItems : vPos[k] # q
  <2>1. \A k \in VItems : vPos[k] \in Off..VMaxPos
    BY DEF ViewInv, ViewingTypeOK
  <2>. QED  BY <1>1, <2>1 DEF NextPosition, Off
<1>. HIDE DEF q
<1>4. r \in ViewRequests /\ r.pc = "add" /\ r.media = items /\ r.pos = places
  <2>1. places \in SUBSET Nat /\ items \in SUBSET VItems
    BY <1>2
  <2>. HIDE DEF places, items
  <2>. QED  BY <2>1, NoRequestTyped DEF ViewRequests, RequestPcs
<1>5. Become(d, r) /\ NewRequest(d) /\ ListLockFree /\ vLock' = d /\ UNCHANGED <<viewVars, vPos>> /\ Cardinality(InList) < VMaxItems
  BY DEF AddItem, q
<1>. HIDE DEF r
<1>6. AddFits(r) /\ SpreadFits(r)
  BY <1>2, <1>4, <1>5 DEF AddFits, SpreadFits
<1>. QED  BY <1>3, <1>4, <1>5, <1>6, LockTaken

LEMMA ReorderStep ==
  ASSUME ViewInv, NEW d \in VDevices, NEW order \in SetToSeqs(InList), ReorderItems(d, order)
  PROVE  ViewInv'
<1>. USE ViewConstants
<1>1. LastPos \in Off..VMaxPos /\ \A k \in VItems : vPos[k] <= LastPos
  BY LastPosition DEF ViewInv
<1>. DEFINE c == Cardinality(InList)
<1>2. c \in Nat /\ c <= VMaxPos + 1 /\ InList \in SUBSET VItems
  BY ListIsFinite, ListIsBounded DEF ViewInv
<1>3. order \in [1..c -> InList] /\ \A i, j \in 1..c : i # j => order[i] # order[j]
  BY DEF SetToSeqs
<1>. HIDE DEF c
<1>4. order \in Seq(VItems) /\ Len(order) = c /\ IsInjective(order)
  <2>1. order \in [1..c -> VItems]
    BY <1>2, <1>3
  <2>2. order \in Seq(VItems)
    BY <1>2, <2>1
  <2>. QED  BY <1>2, <1>3, <2>2 DEF IsInjective
<1>. DEFINE pos == {n - 1 + ReorderOffset : n \in 1..Len(order)}
            r == [NoReq EXCEPT !.pc = "spread", !.order = order, !.pos = pos]
<1>5. ReorderOffset \in Nat
  BY <1>1 DEF ReorderOffset, Off
<1>6. pos \in SUBSET Nat /\ \A p \in pos : p > LastPos
  BY <1>1, <1>2, <1>4, <1>5 DEF ReorderOffset, Off
<1>. HIDE DEF pos
<1>7. \A k \in VItems : vPos[k] \notin pos
  <2>1. \A k \in VItems : vPos[k] \in Off..VMaxPos
    BY DEF ViewInv, ViewingTypeOK
  <2>. QED  BY <1>1, <1>6, <2>1 DEF Off
<1>8. r \in ViewRequests /\ r.pc = "spread" /\ r.order = order /\ r.pos = pos
  BY <1>4, <1>6 DEF NoReq, ViewRequests, RequestPcs, Values
<1>9. Become(d, r) /\ NewRequest(d) /\ ListLockFree /\ vLock' = d /\ UNCHANGED <<viewVars, vPos>> /\ ToSet(order) = InList
  BY DEF ReorderItems, pos
<1>. HIDE DEF r
<1>10. AddFits(r) /\ SpreadFits(r)
  BY <1>2, <1>4, <1>8, <1>9 DEF AddFits, SpreadFits
<1>. QED  BY <1>7, <1>8, <1>9, <1>10, LockTaken

\* The request that holds the lock ends.
LEMMA LockGivenBack ==
  ASSUME ViewInv, NEW d \in VDevices, vReq[d].pc \in {"add", "spread"},
         vLock' = RowsUnlocked, Become(d, NoReq), UNCHANGED <<viewVars, vReqs>>,
         vPos' \in [VItems -> Off..VMaxPos], PositionsDistinct', Cardinality(InList)' <= VMaxItems
  PROVE  ViewInv'
<1>. USE ViewConstants, NoRequestTyped
<1>1. /\ vReq' \in [VDevices -> ViewRequests] /\ vReq'[d] = NoReq /\ \A e \in VDevices \ {d} : vReq'[e] = vReq[e]
      /\ \A e \in VDevices : vReq'[e].pc \in RequestPcs
  BY DEF Become, ViewInv, ViewRequests
<1>2. \A e \in VDevices : vReq'[e].pc \notin {"add", "spread"}
  <2>1. \A e \in VDevices : vReq[e].pc \in {"add", "spread"} => e = d
    BY DEF ViewInv, ListFits
  <2>. QED  BY <1>1, <2>1
<1>3. ViewingTypeOK' /\ vLast' \in Seq(VFiles)
  BY <1>1 DEF ViewInv, ViewingTypeOK, RequestPcs, viewVars
<1>4. \A e \in VDevices : vReq'[e].pc \in {"write", "commit"} => vReq'[e].file \in VFiles
  BY <1>1 DEF ViewInv
<1>. QED  BY <1>1, <1>2, <1>3, <1>4 DEF ViewInv, ListFits

LEMMA AddCommitStep ==
  ASSUME ViewInv, NEW d \in VDevices, AddCommit(d)
  PROVE  ViewInv'
<1>. USE ViewConstants
<1>. DEFINE r == vReq[d]
<1>1. r.pc = "add" /\ ListFits(d) /\ vPos \in [VItems -> Off..VMaxPos]
  BY DEF AddCommit, ViewInv, ViewingTypeOK
<1>2. PICK i \in VItems, q \in 0..VMaxPos : r.media = {i} /\ r.pos = {q}
  BY <1>1 DEF ListFits, AddFits
<1>3. /\ Cardinality(InList) < VMaxItems /\ \A k \in VItems : vPos[k] # q
  BY <1>1, <1>2 DEF ListFits, AddFits
<1>4. vPos' = [k \in VItems |-> IF k = i /\ vPos[k] = Off THEN q ELSE vPos[k]]
  BY <1>2, <1>3 DEF AddCommit
<1>5. vPos' \in [VItems -> Off..VMaxPos] /\ q # Off
  BY <1>1, <1>2, <1>4 DEF Off
<1>6. /\ InList' \subseteq InList \cup {i} /\ InList' = InList \cup {i}
      /\ \A k \in InList : vPos'[k] = vPos[k]
      /\ i \notin InList => vPos'[i] = q
  BY <1>4, <1>5 DEF InList
<1>7. PositionsDistinct'
  BY <1>3, <1>6 DEF ViewInv, PositionsDistinct, InList
<1>8. Cardinality(InList)' <= VMaxItems
  <2>1. IsFiniteSet(InList) /\ Cardinality(InList) \in Nat
    BY ListIsFinite DEF ViewInv
  <2>2. Cardinality(InList \cup {i}) \in {Cardinality(InList), Cardinality(InList) + 1}
    BY <2>1, FS_AddElement
  <2>. QED  BY <1>3, <1>6, <2>1, <2>2
<1>9. vLock' = RowsUnlocked /\ Become(d, NoReq) /\ UNCHANGED <<viewVars, vReqs>>
  BY DEF AddCommit
<1>. QED  BY <1>1, <1>5, <1>7, <1>8, <1>9, LockGivenBack

LEMMA ReorderCommitStep ==
  ASSUME ViewInv, NEW d \in VDevices, ReorderCommit(d)
  PROVE  ViewInv'
<1>. USE ViewConstants
<1>. DEFINE r == vReq[d]
            s == r.order
            at(i) == CHOOSE n \in 1..Len(s) : s[n] = i
<1>1. r.pc = "spread" /\ ListFits(d) /\ vPos \in [VItems -> Off..VMaxPos] /\ s \in Seq(VItems)
  BY DEF ReorderCommit, ViewInv, ViewingTypeOK, ViewRequests
<1>2. InList \subseteq ToSet(s) /\ Len(s) <= VMaxPos + 1 /\ Len(s) \in Nat /\ DOMAIN s = 1..Len(s)
  BY <1>1 DEF ListFits, SpreadFits
<1>3. \A i \in InList : at(i) \in 1..Len(s) /\ s[at(i)] = i
  <2>1. ASSUME NEW i \in InList PROVE \E n \in 1..Len(s) : s[n] = i
    BY <1>2 DEF ToSet
  <2>. QED  BY <2>1
<1>4. vPos' = [i \in VItems |-> IF i \in InList THEN at(i) - 1 ELSE vPos[i]]
  BY <1>2 DEF ReorderCommit, InList
<1>. HIDE DEF at
<1>5. \A i \in InList : at(i) - 1 \in 0..VMaxPos
  BY <1>2, <1>3
<1>6. vPos' \in [VItems -> Off..VMaxPos] /\ InList' = InList /\ \A i \in InList : vPos'[i] = at(i) - 1
  BY <1>1, <1>4, <1>5 DEF InList, Off
<1>7. PositionsDistinct'
  <2>1. ASSUME NEW i \in InList, NEW j \in InList, at(i) - 1 = at(j) - 1 PROVE i = j
    <3>1. at(i) = at(j)
      BY <1>2, <1>3, <2>1
    <3>. QED  BY <1>3, <3>1
  <2>. QED  BY <1>6, <2>1 DEF PositionsDistinct
<1>8. Cardinality(InList)' <= VMaxItems
  BY <1>6 DEF ViewInv
<1>9. vLock' = RowsUnlocked /\ Become(d, NoReq) /\ UNCHANGED <<viewVars, vReqs>>
  BY DEF ReorderCommit
<1>. QED  BY <1>1, <1>6, <1>7, <1>8, <1>9, LockGivenBack

LEMMA ViewInvInit == ViewingInit => ViewInv
<1>. SUFFICES ASSUME ViewingInit PROVE ViewInv
  OBVIOUS
<1>. USE ViewConstants, NoRequestTyped DEF ViewingInit
<1>1. ToSet(<<>>) = {} /\ IsInjective(<<>>) /\ <<>> \in Seq(VFiles)
  BY DEF ToSet, IsInjective
<1>2. InList = {}
  BY DEF InList
<1>3. Cardinality(InList) = 0
  BY <1>2, FS_EmptySet
<1>4. ViewingTypeOK
  BY <1>1 DEF ViewingTypeOK, Off, Manual, RowsUnlocked
<1>. QED  BY <1>1, <1>2, <1>3, <1>4 DEF ViewInv, ListFits, PositionsDistinct

LEMMA ViewInvNext == ViewInv /\ [ViewingNext]_vVars => ViewInv'
<1>. SUFFICES ASSUME ViewInv, [ViewingNext]_vVars PROVE ViewInv'
  OBVIOUS
<1>1. CASE UNCHANGED vVars
  BY <1>1 DEF vVars, ViewInv, ViewingTypeOK, ListFits, AddFits, SpreadFits, PositionsDistinct, InList
<1>2. ASSUME NEW d \in VDevices,
             \/ \E f \in VFiles : DeleteProgress(d, f) \/ (\E val \in {"part", "done"} : UpsertProgress(d, f, val))
             \/ StageProgress(d) \/ DeleteAllProgress(d) \/ DeleteAllViewingState(d)
      PROVE  ViewInv'
  BY <1>2, ProgressSteps
<1>3. ASSUME NEW d \in VDevices, CommitProgress(d) PROVE ViewInv'
  BY <1>3, CommitStep
<1>4. ASSUME NEW d \in VDevices,
         \/ \E seen \in BOOLEAN : \/ \E s \in BOOLEAN : SetSeasonWatched(d, seen, s) \/ SetShowWatched(d, seen, s)
                                  \/ \E m \in VTitles : SetWatched(d, m, seen)
         \/ \E m \in VTitles : ClearWatchedOverride(d, m)
      PROVE  ViewInv'
  BY <1>4, WatchSteps
<1>5. ASSUME NEW d \in VDevices,
             AutoRemoveWatched(d) \/ (\E i \in VItems : RemoveItem(d, i)) \/ DeleteWatchlist(d) \/ RequestDies(d)
      PROVE  ViewInv'
  BY <1>5, RemovalSteps
<1>6. ASSUME NEW d \in VDevices, NEW i \in VItems, AddItem(d, i) PROVE ViewInv'
  BY <1>6, AddStep
<1>7. ASSUME NEW d \in VDevices, NEW order \in SetToSeqs(InList), ReorderItems(d, order) PROVE ViewInv'
  BY <1>7, ReorderStep
<1>8. ASSUME NEW d \in VDevices, AddCommit(d) \/ ReorderCommit(d) PROVE ViewInv'
  BY <1>8, AddCommitStep, ReorderCommitStep
<1>. QED  BY <1>1, <1>2, <1>3, <1>4, <1>5, <1>6, <1>7, <1>8 DEF ViewingNext

\* What a user decided by hand about a title stands when its playback changes, and the
\* list, the recency order and the pickers of the next episode agree with the rows they
\* are read from in every reachable state (playback/repository.py, playback/completion.py).
THEOREM DecisionsStand == ViewingSpec => []ViewingTypeOK /\ ManualStands
<1>1. ViewingInit => ViewInv
  BY ViewInvInit
<1>2. ViewInv /\ [ViewingNext]_vVars => ViewInv'
  BY ViewInvNext
<1>3. ViewInv => ViewingTypeOK /\ ListSound /\ PickersAgree
  BY TheQueriesAgree DEF ViewInv
<1>4. ViewInv /\ [ViewingNext]_vVars =>
        [\A d \in VDevices : CommitProgress(d) => \A m \in VTitles : vWatch[m] \in Manual => vWatch'[m] = vWatch[m]]_vVars
  BY CommitStep
<1>. QED  BY <1>1, <1>2, <1>3, <1>4, PTL DEF ViewingSpec, ManualStands

(***************************************************************************)
(* The components side by side: a step of MCPipeline is a step of one of   *)
(* them and leaves the state of the others alone.                          *)
(***************************************************************************)
PipelineInv ==
  /\ part \in Parts
  /\ AcqInv /\ QueueInv /\ ArchiveInv /\ FilesTyped /\ UpgradesInv /\ ViewInv

LEMMA PipelineStep ==
  [PipelineNext]_<<part, pipeVars>> =>
    /\ [AcqNext]_aVars /\ [QueueNext]_qVars /\ [ArchiveNext]_xVars /\ [LibraryNext]_lVars
    /\ [UpgradesNext]_pVars /\ [ViewingNext]_vVars /\ UNCHANGED part
BY DEF PipelineNext, pipeVars

LEMMA PipelineInvInit == PipelineInit => PipelineInv
BY AcqInvInit, QueueInvInit, ArchiveInvInit, FilesTypedInit, UpgradesInvInit, ViewInvInit
   DEF PipelineInit, PipelineInv

LEMMA PipelineInvNext == PipelineInv /\ [PipelineNext]_<<part, pipeVars>> => PipelineInv'
BY PipelineStep, AcqInvNext, QueueInvNext, ArchiveInvNext, FilesTypedNext, UpgradesInvNext, ViewInvNext
   DEF PipelineInv

\* What every reachable state satisfies, component by component.
THEOREM PipelineInvariant == PipelineSpec => []PipelineInv
BY PipelineInvInit, PipelineInvNext, PTL DEF PipelineSpec

\* Every reachable state of every component is well typed: transfers, queue entries, archives,
\* files of a title, upgrades and playback rows.
THEOREM PipelineTyped == PipelineSpec => []PipelineTypeOK
<1>1. PipelineInv => PipelineTypeOK
  BY DEF PipelineInv, PipelineTypeOK, AcqInv, QueueInv, ArchiveInv, XTyped, FilesTyped, UpgradesInv, ViewInv
<1>. QED  BY <1>1, PipelineInvariant, PTL

\* In the behaviours of MCPipeline no change of an item is forgotten between the index, its
\* flushes and its rebuilds (imports/queue_hooks.py).
THEOREM PipelineChanges == PipelineSpec => []NoChangeForgotten
<1>1. PipelineInv => NoChangeForgotten
  BY DEF PipelineInv, QueueInv, OnItsWay, NoChangeForgotten
<1>. QED  BY <1>1, PipelineInvariant, PTL

\* What an archive has published is a whole extraction (imports/archive_publication.py).
THEOREM PipelineArchives == PipelineSpec => []PublishedWhole
<1>1. PipelineInv => PublishedWhole
  BY ArchiveInvWhole DEF PipelineInv
<1>. QED  BY <1>1, PipelineInvariant, PTL

\* At most one automatic transfer of a title is under way, in the behaviours of MCPipeline
\* (movies/service.py, shows/service.py).
THEOREM PipelineUpgrades == PipelineSpec => []OneAutoTransfer
<1>1. PipelineInv => OneAutoTransfer
  BY OneTransferAtMost DEF PipelineInv
<1>. QED  BY <1>1, PipelineInvariant, PTL

\* A transfer is cleaned up only when what it brought has reached the library, in the
\* behaviours of MCPipeline (torrents/service.py).
THEOREM PipelineLibrary == PipelineSpec => LibraryKept
<1>1. PipelineInv /\ [PipelineNext]_<<part, pipeVars>> => [KeepsLibrary]_aVars
  BY PipelineStep, CleanupAfterLanding DEF PipelineInv
<1>. QED  BY <1>1, PipelineInvariant, PTL DEF PipelineSpec, LibraryKept, KeepsLibrary

\* A move of a title's library loses no file while its imports take turns, in the behaviours
\* of MCPipeline (movies/service.py).
THEOREM PipelineMoves ==
  ASSUME MaxImports <= 1
  PROVE  PipelineSpec => MoveLosesNothing
<1>1. PipelineInit => FilesInv
  BY FilesInvInit DEF PipelineInit
<1>2. FilesInv /\ [PipelineNext]_<<part, pipeVars>> => FilesInv'
  BY PipelineStep, FilesInvNext
<1>3. FilesInv /\ [PipelineNext]_<<part, pipeVars>> =>
        [RemoveSource => \A c \in lMove.had \ lTouched : OnLibraryDisk(c) => OnLibraryDisk(c)']_lVars
  BY PipelineStep, NothingLostByRemoval
<1>. QED  BY <1>1, <1>2, <1>3, PTL DEF PipelineSpec, MoveLosesNothing

\* Decisions of the user stand and the lists agree with their rows, in the behaviours of
\* MCPipeline (playback/).
THEOREM PipelineDecisions == PipelineSpec => ManualStands
<1>1. PipelineInv => ListSound /\ PickersAgree
  BY TheQueriesAgree DEF PipelineInv
<1>2. PipelineInv /\ [PipelineNext]_<<part, pipeVars>> =>
        [\A d \in VDevices : CommitProgress(d) => \A m \in VTitles : vWatch[m] \in Manual => vWatch'[m] = vWatch[m]]_vVars
  BY PipelineStep, CommitStep DEF PipelineInv
<1>. QED  BY <1>1, <1>2, PipelineInvariant, PTL DEF PipelineSpec, ManualStands
=================================================================================
