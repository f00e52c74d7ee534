---------------------------- MODULE LibraryView ----------------------------
(* What the library pages show. The grid reads counters and flags stored   *)
(* with each title (media_state.py), which every import and deletion       *)
(* recomputes in its own transaction; the detail page walks the title's    *)
(* seasons and the disk, through a cache of directory listings. One show   *)
(* and, beside it, movies.                                                 *)
(*                                                                         *)
(* Transactions are READ COMMITTED: each statement takes a snapshot when   *)
(* it starts, waits for the row locks it needs, and then writes what its   *)
(* snapshot told it to write.                                              *)
EXTENDS Naturals, FiniteSets, SqlLogic

CONSTANTS YSeasons,    \* season -> its episodes
          YMovies,
          YTasks,      \* the imports and deletions under way at once
          YAttrs,      \* what the show's genre and year columns hold
          YMaxOps      \* bound: imports, deletions and skips

YEps == UNION {YSeasons[s] : s \in DOMAIN YSeasons}
Items == YEps \cup YMovies

ASSUME ViewAssumption ==
    /\ YMaxOps \in Nat /\ IsFiniteSet(Items) /\ YEps \cap YMovies = {}
    /\ \A a \in YAttrs : DOMAIN a = {"genre", "year"}

VARIABLES yRow,      \* item -> import_status of its file row, or "none"
          yDisk,     \* the items whose file is on disk
          ySkip,     \* the skipped episodes
          ySeason,   \* the skipped seasons
          yFlag,     \* Episode.downloaded, Movie.downloaded
          yCount,    \* wanted_episode_count, downloaded_episode_count, list_progress_status
          yTx,       \* the transaction of each task
          yCache,    \* disk_scan_cache: season -> listing, or none
          yScan,     \* a listing read and not yet stored
          yAttr, yOps

yVars == <<yRow, yDisk, ySkip, ySeason, yFlag, yCount, yTx, yCache, yScan, yAttr, yOps>>

Workers == YTasks \cup {"watcher"}
Nowhere == [valid |-> FALSE, files |-> {}]
NoTx == [at |-> "idle", items |-> {}, row |-> "none", skips |-> {}, scope |-> {},
         snap |-> {}, on |-> {}, off |-> {}, count |-> [wanted |-> 0, down |-> 0, status |-> "none"]]
Set(t, tx) == yTx' = [yTx EXCEPT ![t] = tx]
dbVars == <<yRow, ySkip, ySeason, yFlag, yCount>>
cacheVarsY == <<yCache, yScan>>

(************************ media_state: recomputation ************************)
(* The imported rows transaction t sees: committed ones, and its own write. *)
ImportedRows(t) ==
    {i \in Items : (IF i \in yTx[t].items THEN yTx[t].row ELSE yRow[i]) = "imported"}
LockedBy(t) == yTx[t].on \cup yTx[t].off \cup yTx[t].skips
LocksFree(t, rows) == \A u \in Workers \ {t} : rows \cap LockedBy(u) = {}

ProgressStatus(wanted, down) ==
    CASE wanted > 0 /\ down = wanted -> "complete"
      [] ~(wanted > 0 /\ down = wanted) /\ down > 0 -> "partial"
      [] OTHER -> "none"

(* refresh_episode_downloaded, refresh_movie_downloaded: UPDATE ... TRUE.   *)
StartUpdate(t, from, to, rows) ==
    /\ yTx[t].at = from
    /\ Set(t, [yTx[t] EXCEPT !.at = to, !.snap = rows])
    /\ UNCHANGED <<dbVars, yDisk, cacheVarsY, yAttr, yOps>>

SetsTrue(t) ==
    /\ yTx[t].at = "true" /\ LocksFree(t, yTx[t].snap)
    /\ Set(t, [yTx[t] EXCEPT !.at = "between", !.on = yTx[t].snap])
    /\ UNCHANGED <<dbVars, yDisk, cacheVarsY, yAttr, yOps>>

SetsFalse(t) ==
    /\ yTx[t].at = "false" /\ LocksFree(t, yTx[t].snap)
    /\ Set(t, [yTx[t] EXCEPT !.at = "count", !.off = yTx[t].snap,
                             !.on = yTx[t].on \ yTx[t].snap])
    /\ UNCHANGED <<dbVars, yDisk, cacheVarsY, yAttr, yOps>>

RefreshFlags(t) ==
    \/ StartUpdate(t, "staged", "true", ImportedRows(t) \cap yTx[t].scope)
    \/ SetsTrue(t)
    \/ StartUpdate(t, "between", "false", yTx[t].scope \ ImportedRows(t))
    \/ SetsFalse(t)

FlagsSeen(t) == ({i \in Items : yFlag[i]} \cup yTx[t].on) \ yTx[t].off

(* The skipped filter forgotten on the downloaded count.                    *)
CountersUnfiltered(t) ==
    LET wanted == YEps \ (ySkip \cup yTx[t].skips)
        down == YEps \cap FlagsSeen(t)
    IN [wanted |-> Cardinality(wanted), down |-> Cardinality(down),
        status |-> ProgressStatus(Cardinality(wanted), Cardinality(down))]

(* _update_show_progress_counters.                                          *)
Counters(t) ==
    LET wanted == YEps \ (ySkip \cup yTx[t].skips)
        down == wanted \cap FlagsSeen(t)
    IN [wanted |-> Cardinality(wanted), down |-> Cardinality(down),
        status |-> ProgressStatus(Cardinality(wanted), Cardinality(down))]

UpdateShowProgressCounters(t) ==
    /\ yTx[t].at = "count"
    /\ Set(t, [yTx[t] EXCEPT !.at = "commit", !.count = Counters(t)])
    /\ UNCHANGED <<dbVars, yDisk, cacheVarsY, yAttr, yOps>>

InvalidateDiskScanCache == yCache' = [s \in DOMAIN YSeasons |-> Nowhere]

CommitTx(t) ==
    LET tx == yTx[t] IN
    /\ tx.at = "commit"
    /\ yRow' = [i \in Items |-> IF i \in tx.items THEN tx.row ELSE yRow[i]]
    /\ ySkip' = ySkip \cup tx.skips
    /\ yFlag' = [i \in Items |-> IF i \in tx.scope THEN i \in FlagsSeen(t) ELSE yFlag[i]]
    /\ yCount' = IF tx.scope \cap YEps = {} THEN yCount ELSE tx.count
    /\ Set(t, NoTx)
    /\ IF tx.row = "imported" \/ t = "watcher" THEN InvalidateDiskScanCache ELSE UNCHANGED yCache
    /\ UNCHANGED <<yDisk, ySeason, yScan, yAttr, yOps>>

(* PostgreSQL ends a deadlock by aborting one of the transactions.          *)
Waits(t, u) ==
    u # t /\ yTx[t].at \in {"true", "false"} /\ yTx[t].snap \cap LockedBy(u) # {}
DeadlockAbort(t) ==
    /\ \E u \in Workers : Waits(t, u) /\ Waits(u, t)
    /\ Set(t, NoTx)
    /\ UNCHANGED <<dbVars, yDisk, cacheVarsY, yAttr, yOps>>

(*************************** imports and deletions **************************)
RowFree(i) == \A u \in YTasks : i \notin yTx[u].items
Scope(i) == IF i \in YMovies THEN {i} ELSE YEps
Stage(t, items, row, skips, scope) ==
    /\ yTx[t].at = "idle" /\ yOps < YMaxOps /\ yOps' = yOps + 1
    /\ Set(t, [NoTx EXCEPT !.at = "staged", !.items = items, !.row = row, !.skips = skips,
                           !.scope = scope])
    /\ UNCHANGED <<dbVars, cacheVarsY, yAttr>>

(* The tail of import_episode_from_file and import_movie_from_file.         *)
ImportFile(t, i) ==
    /\ RowFree(i)
    /\ Stage(t, {i}, "imported", {}, Scope(i))
    /\ yDisk' = yDisk \cup {i}

(* delete_episode_file, delete_movie_file.                                  *)
DeleteFile(t, i, fromDisk) ==
    /\ RowFree(i) /\ yRow[i] # "none"
    /\ Stage(t, {i}, "none", {}, Scope(i))
    /\ yDisk' = IF fromDisk THEN yDisk \ {i} ELSE yDisk

(* delete_season_files: the rows stay, the episodes are skipped.            *)
DeleteSeasonFiles(t, s) ==
    /\ LocksFree(t, YSeasons[s])
    /\ Stage(t, {}, "none", YSeasons[s], YEps)
    /\ yDisk' = yDisk \ YSeasons[s]

(* run_library_watcher: all titles, whatever changed, again and again.      *)
WatcherRound ==
    /\ yTx["watcher"].at = "idle"
    /\ Set("watcher", [NoTx EXCEPT !.at = "staged", !.scope = Items])
    /\ UNCHANGED <<dbVars, yDisk, cacheVarsY, yAttr, yOps>>

(******************************* user intent ********************************)
(* A mutated form: every video of the library is taken for the season's.    *)
FoundAnywhere(s) == yDisk
(* The files of a season's folders, and what _scan_season_video_files       *)
(* answers with.                                                            *)
Found(s) == YSeasons[s] \cap yDisk
Listing(s) == IF yCache[s].valid THEN yCache[s].files ELSE Found(s)
EpisodeDownloaded(e, listing) == yRow[e] # "none" /\ e \in listing

SetSeasonSkipped(s, skipped) ==
    LET kept == {e \in YSeasons[s] : EpisodeDownloaded(e, Listing(s))} IN
    /\ yOps < YMaxOps /\ yOps' = yOps + 1
    /\ \A u \in Workers : LockedBy(u) \cap YSeasons[s] = {}
    /\ ySeason' = IF skipped THEN ySeason \cup {s} ELSE ySeason \ {s}
    /\ ySkip' = IF skipped THEN ySkip \cup (YSeasons[s] \ kept)
                           ELSE ySkip \ (YSeasons[s] \ kept)
    /\ UNCHANGED <<yRow, yDisk, yFlag, yCount, yTx, cacheVarsY, yAttr>>

SetEpisodeSkipped(s, e, skipped) ==
    /\ yOps < YMaxOps /\ yOps' = yOps + 1
    /\ \A u \in Workers : e \notin LockedBy(u)
    /\ ySkip' = IF skipped THEN ySkip \cup {e} ELSE ySkip \ {e}
    /\ ySeason' = IF skipped THEN ySeason ELSE ySeason \ {s}
    /\ UNCHANGED <<yRow, yDisk, yFlag, yCount, yTx, cacheVarsY, yAttr>>

(***************************** the detail page ******************************)
(* A thread lists the directory; its answer is stored after an invalidation *)
(* that happened meanwhile as well.                                         *)
ScanReads(s) ==
    /\ yScan = <<>> /\ ~yCache[s].valid
    /\ yScan' = <<s, Found(s)>>
    /\ UNCHANGED <<dbVars, yDisk, yTx, yCache, yAttr, yOps>>
ScanStores ==
    /\ yScan # <<>>
    /\ yCache' = [yCache EXCEPT ![yScan[1]] = [valid |-> TRUE, files |-> yScan[2]]]
    /\ yScan' = <<>>
    /\ UNCHANGED <<dbVars, yDisk, yTx, yAttr, yOps>>
CacheTtl(s) ==
    /\ yCache[s].valid
    /\ yCache' = [yCache EXCEPT ![s] = Nowhere]
    /\ UNCHANGED <<dbVars, yDisk, yTx, yScan, yAttr, yOps>>

(* _show_to_public.                                                         *)
SeasonStatus(s) ==
    LET done == {e \in YSeasons[s] : EpisodeDownloaded(e, Listing(s))}
        accounted == YSeasons[s] = done \cup (ySkip \cap YSeasons[s])
    IN CASE s \in ySeason \/ YSeasons[s] \subseteq ySkip -> "skipped"
         [] ~(s \in ySeason \/ YSeasons[s] \subseteq ySkip) /\ accounted -> "downloaded"
         [] OTHER -> "wanted"
ShowStatus ==
    LET all == {SeasonStatus(s) : s \in DOMAIN YSeasons}
    IN CASE all = {"skipped"} -> "skipped"
         [] "downloaded" \in all /\ "wanted" \notin all -> "downloaded"
         [] OTHER -> "wanted"
DetailCounts ==
    LET wanted == YEps \ ySkip IN
    [wanted |-> Cardinality(wanted),
     down |-> Cardinality({e \in wanted : \E s \in DOMAIN YSeasons :
                   e \in YSeasons[s] /\ EpisodeDownloaded(e, Listing(s))})]

(********************************* the grid *********************************)
(* apply_list_filters and _apply_show_status_filters, for one value each.   *)
HasGenre(a) == IF a.genre = "null" THEN "null" ELSE Sql(a.genre = "g")
OfDecade(a) == IF a.year = "null" THEN "null" ELSE Sql(a.year = "d")
WantedEpisodes(clause) == clause = "true"
(* NOT alone is NULL on a title with no genres, and would hide it.          *)
Excluded(null, clause) == SqlOr({Sql(null), SqlNot(clause)}) = "true"
StatusClause(statuses) == Sql(yCount.status \in statuses)

GridStatus == IF yCount.status = "complete" THEN "downloaded" ELSE "wanted"

(****************************** specification *******************************)
ViewInit ==
    /\ yRow = [i \in Items |-> "pending"] /\ yDisk = {} /\ ySkip = {} /\ ySeason = {}
    /\ yFlag = [i \in Items |-> FALSE]
    /\ yCount = [wanted |-> Cardinality(YEps), down |-> 0, status |-> "none"]
    /\ yTx = [t \in Workers |-> NoTx]
    /\ yCache = [s \in DOMAIN YSeasons |-> Nowhere] /\ yScan = <<>>
    /\ yAttr \in YAttrs /\ yOps = 0

TxStep(t) ==
    RefreshFlags(t) \/ UpdateShowProgressCounters(t) \/ CommitTx(t) \/ DeadlockAbort(t)

ViewNext ==
    \/ \E t \in YTasks :
          \/ \E i \in Items : ImportFile(t, i) \/ (\E d \in BOOLEAN : DeleteFile(t, i, d))
          \/ \E s \in DOMAIN YSeasons : DeleteSeasonFiles(t, s)
    \/ \E t \in Workers : TxStep(t)
    \/ WatcherRound
    \/ \E s \in DOMAIN YSeasons :
          \/ ScanReads(s) \/ CacheTtl(s)
          \/ \E b \in BOOLEAN : SetSeasonSkipped(s, b)
          \/ \E e \in YSeasons[s], b \in BOOLEAN : SetEpisodeSkipped(s, e, b)
    \/ ScanStores

(* Transactions run on, listings expire, and the watcher, where enabled,    *)
(* polls forever; a transaction that a deadlock aborted is not retried.     *)
ViewFair ==
    /\ \A t \in Workers : WF_yVars(TxStep(t))
    /\ WF_yVars(ScanStores) /\ WF_yVars(WatcherRound)
    /\ \A s \in DOMAIN YSeasons : WF_yVars(CacheTtl(s))

ViewSpec == ViewInit /\ [][ViewNext]_yVars /\ ViewFair

\* Flags, counters and cached listings; a listing holds files of its season only (shows/service.py).
ViewTypeOK ==
    /\ yRow \in [Items -> {"none", "pending", "imported"}] /\ yDisk \subseteq Items
    /\ ySkip \subseteq YEps /\ ySeason \subseteq DOMAIN YSeasons
    /\ yFlag \in [Items -> BOOLEAN] /\ yAttr \in YAttrs /\ yOps \in 0 .. YMaxOps
    /\ yCount.status \in {"none", "partial", "complete"}
    /\ \A t \in Workers : yTx[t].at \in {"idle", "staged", "true", "between", "false", "count",
                                         "commit"}
    /\ \A s \in DOMAIN YSeasons : yCache[s].files \subseteq YSeasons[s]

(***************************** what is checked ******************************)
Quiet == \A t \in YTasks : yTx[t].at = "idle"
FlagsRight == \A i \in Items : yFlag[i] = (yRow[i] = "imported")
CountsRight ==
    LET wanted == YEps \ ySkip
        down == {e \in wanted : yFlag[e]}
    IN /\ yCount.wanted = Cardinality(wanted) /\ yCount.down = Cardinality(down)
       /\ WantedEpisodes(StatusClause({"complete"})) = (wanted # {} /\ wanted = down)
(* With nothing skipped, and each file on disk with an imported row, the    *)
(* grid and the detail page put the show in the same class.                 *)
StatusRight ==
    (/\ ySkip = {} /\ ySeason = {}
     /\ \A e \in YEps : (yRow[e] # "none" /\ e \in yDisk) = (yRow[e] = "imported"))
        => GridStatus = ShowStatus
CacheRight == \A s \in DOMAIN YSeasons : yCache[s].valid => yCache[s].files = YSeasons[s] \cap yDisk
OneSide(null, clause) == WantedEpisodes(clause) # Excluded(null, clause)

(* Once imports, deletions and skips stop, the watcher brings the grid back *)
(* to the rows: each downloaded flag says whether an imported file row      *)
(* exists, counters and the status filter follow the flags, cached listings *)
(* are those of the disk, however transactions overlapped, and the two      *)
(* pages agree on a show where rows and files do; and a title is always on  *)
(* exactly one side of a genre or decade filter, with or without a value in *)
(* the column.                                                              *)
ListConverges ==
    <>[](/\ FlagsRight /\ CountsRight /\ CacheRight /\ StatusRight
         /\ OneSide(yAttr.genre = "null", HasGenre(yAttr))
         /\ OneSide(yAttr.year = "null", OfDecade(yAttr)))

(* refresh_episode_downloaded leaves each flag as the rows say when no      *)
(* import or deletion is under way.                                         *)
FlagsFollowRows == Quiet /\ yTx["watcher"].at = "idle" => FlagsRight

(* The stored counters agree with the detail page whenever nothing is under *)
(* way and its listings are those of the disk.                              *)
CountersAgree ==
    Quiet /\ yTx["watcher"].at = "idle" /\ CacheRight => yCount.wanted = DetailCounts.wanted
=============================================================================
