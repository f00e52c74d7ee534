--------------------------- MODULE StorageHealth ---------------------------
(* The read-only storage-health surface of miramedia/storage: the summary  *)
(* counts, the paginated list of file rows and one file, all derived from  *)
(* the episode_file and movie_file tables and a probe of library roots.    *)
(*                                                                         *)
(* A row is classified twice, by SQL clauses (repository, states.*_clause) *)
(* and by Python (states.classify_sql_state).                              *)
EXTENDS Naturals, FiniteSets, FiniteSetsExt, SqlLogic

CONSTANTS WIds,        \* the file ids, positive integers; UUID order is their order
          WMovies,     \* those of movie_file; the others are of episode_file
          WCols,       \* the column values rows take
          WLibOf,      \* the library of each row's title
          WRoots,      \* the configured libraries
          WLimit,      \* the page limit
          WMaxChanges  \* bound: changes made by the rest of the application

ASSUME StorageAssumption ==
    /\ WIds \subseteq Nat \ {0} /\ IsFiniteSet(WIds) /\ WMovies \subseteq WIds
    /\ WCols \subseteq [status : {"pending", "imported", "failed_no_match", "failed_io",
                                  "ambiguous"},
                        error : {"null", "mismatch", "other"},
                        sha1 : BOOLEAN, torrent : BOOLEAN]
    /\ WLimit \in Nat \ {0} /\ WMaxChanges \in Nat

VARIABLES wRow,      \* the columns of each row the surface reads, or no row
          wPath,     \* the rows whose file is found under the library
          wRoot,     \* what each library root answers to a probe
          wCounts,   \* the last summary
          wWalk,     \* the listing a client pages through, and how often it saw each row
          wQuiet,    \* no row has changed since that listing, or summary, began
          wChanges

wVars == <<wRow, wPath, wRoot, wCounts, wWalk, wQuiet, wChanges>>

HealthStates == {"corrupt", "orphaned", "pending", "unknown", "healthy"}
NoRowHere == [status |-> "absent", error |-> "null", sha1 |-> FALSE, torrent |-> FALSE]
RowsOf == {i \in WIds : wRow[i] # NoRowHere}
Ghosts == {"failed_io", "failed_no_match"}

(***************************** the SQL clauses ******************************)
LikeMismatch(r) == IF r.error = "null" THEN "null" ELSE Sql(r.error = "mismatch")
ImportedClause(r) == Sql(r.status = "imported")
CorruptClause(r) == SqlAnd({ImportedClause(r), LikeMismatch(r)})
(* A NULL test forgotten: NOT (error LIKE ...) alone is NULL on no error.   *)
NotMismatchedNullBlind(r) == SqlNot(LikeMismatch(r))

NotMismatched(r) == SqlOr({Sql(r.error = "null"), SqlNot(LikeMismatch(r))})
UnknownClause(r) == SqlAnd({ImportedClause(r), Sql(~r.sha1), NotMismatched(r)})
HealthyClause(r) == SqlAnd({ImportedClause(r), Sql(r.sha1), NotMismatched(r)})
OrphanedClause(r) == SqlAnd({Sql(~r.torrent), Sql(r.status \in Ghosts)})
PendingClause(r) == SqlAnd({Sql(r.status # "imported"), SqlNot(OrphanedClause(r))})

Clause(state, r) ==
    CASE state = "corrupt" -> CorruptClause(r)
      [] state = "orphaned" -> OrphanedClause(r)
      [] state = "pending" -> PendingClause(r)
      [] state = "unknown" -> UnknownClause(r)
      [] state = "healthy" -> HealthyClause(r)

Rank == [corrupt |-> 0, orphaned |-> 1, pending |-> 2, unknown |-> 3, healthy |-> 4]

(* _state_rank_expr: CASE takes the first clause that is true.              *)
RankOf(r) == Min({Rank[s] : s \in {x \in HealthStates : Clause(x, r) = "true"}} \cup {4})

(************************** the classes of the page *************************)
ClassifySqlState(r) ==
    CASE r.status = "imported" /\ r.error = "mismatch" -> "corrupt"
      [] r.status = "imported" /\ r.error # "mismatch" /\ ~r.sha1 -> "unknown"
      [] r.status = "imported" /\ r.error # "mismatch" /\ r.sha1 -> "healthy"
      [] r.status \in Ghosts /\ ~r.torrent -> "orphaned"
      [] OTHER -> "pending"

(* probe_library_root; a library that no root is configured for has none.   *)
LibraryOk(i) == IF WLibOf[i] \in WRoots THEN Sql(wRoot[WLibOf[i]] = "ok") ELSE "null"

ApplyPathOverlay(state, i) ==
    CASE LibraryOk(i) = "false" -> "inaccessible"
      [] LibraryOk(i) = "true" /\ i \notin wPath
             /\ state \in {"corrupt", "unknown", "healthy"} -> "missing"
      [] OTHER -> state

FileItem(i) == ApplyPathOverlay(ClassifySqlState(wRow[i]), i)

(******************************* the listing ********************************)
OfKind(kind) == CASE kind = "movie" -> WMovies [] kind = "show" -> WIds \ WMovies
                  [] OTHER -> WIds

KeysSelect(state, kind) ==
    {i \in RowsOf \cap OfKind(kind) : state = "any" \/ Clause(state, wRow[i]) = "true"}

(* ORDER BY state_rank, file_id; with a filter the rank is one literal.     *)
PageOrder(state, i, j) ==
    LET rank(k) == IF state = "any" THEN RankOf(wRow[k]) ELSE Rank[state]
    IN rank(i) < rank(j) \/ (rank(i) = rank(j) /\ i < j)

(* How many of the keys come before i: the row number OFFSET counts from.   *)
Place(all, state, i) == Cardinality({j \in all : PageOrder(state, j, i)})

PaginateKeys(state, kind, offset) ==
    LET all == KeysSelect(state, kind) IN
    [keys |-> {i \in all : Place(all, state, i) \in offset .. offset + WLimit - 1},
     total |-> Cardinality(all)]

NextOffset(offset, page) ==
    LET span == Cardinality(page.keys) IN
    IF span > 0 /\ offset + span < page.total THEN offset + span ELSE 0

NoStorageWalk == [at |-> "idle", state |-> "any", kind |-> "any", offset |-> 0,
         keys |-> {}, next |-> 0, shown |-> [i \in WIds |-> 0], items |-> {}]

(* paginate_keys commits nothing and hydration reads the rows again, in     *)
(* further statements and after the session is released.                    *)
ListFiles(state, kind) ==
    LET page == PaginateKeys(state, kind, 0) IN
    /\ wWalk.at \in {"idle", "end"}
    /\ wWalk' = [NoStorageWalk EXCEPT !.at = "hydrate", !.state = state, !.kind = kind,
                             !.keys = page.keys, !.next = NextOffset(0, page)]
    /\ wQuiet' = TRUE /\ wCounts' = [h \in HealthStates |-> 0]
    /\ UNCHANGED <<wRow, wPath, wRoot, wChanges>>

NextPage ==
    LET page == PaginateKeys(wWalk.state, wWalk.kind, wWalk.next) IN
    /\ wWalk.at = "page"
    /\ wWalk' = [wWalk EXCEPT !.at = "hydrate", !.offset = wWalk.next, !.keys = page.keys,
                              !.next = NextOffset(wWalk.next, page)]
    /\ UNCHANGED <<wRow, wPath, wRoot, wCounts, wQuiet, wChanges>>

HydratePage ==
    LET found == wWalk.keys \cap RowsOf IN
    /\ wWalk.at = "hydrate"
    /\ wWalk' = [wWalk EXCEPT
          !.at = IF wWalk.next = 0 THEN "counts" ELSE "page",
          !.shown = [i \in WIds |-> @[i] + IF i \in found THEN 1 ELSE 0],
          !.items = @ \cup {<<i, FileItem(i)>> : i \in found}]
    /\ UNCHANGED <<wRow, wPath, wRoot, wCounts, wQuiet, wChanges>>

(* get_summary: one aggregate per table, the two added together.            *)
CountTable(ids) ==
    [h \in HealthStates |-> Cardinality({i \in ids : Clause(h, wRow[i]) = "true"})]

CountBuckets ==
    LET shows == CountTable(RowsOf \ WMovies)
        movies == CountTable(RowsOf \cap WMovies)
    IN [h \in HealthStates |-> shows[h] + movies[h]]

GetSummary ==
    /\ wWalk.at = "counts"
    /\ wCounts' = CountBuckets
    /\ wWalk' = [wWalk EXCEPT !.at = "end"]
    /\ UNCHANGED <<wRow, wPath, wRoot, wQuiet, wChanges>>

(* The rest of the application: imports, the integrity audit, deletions of  *)
(* torrents and of rows; files and roots that come and go.                  *)
RowChanges(i, r) ==
    /\ wChanges < WMaxChanges /\ r # wRow[i]
    /\ wRow' = [wRow EXCEPT ![i] = r]
    /\ wQuiet' = FALSE /\ wChanges' = wChanges + 1
    /\ UNCHANGED <<wPath, wRoot, wCounts, wWalk>>

DiskChanges ==
    /\ wChanges < WMaxChanges
    /\ \/ \E i \in WIds : wPath' = (wPath \ {i}) \cup ({i} \ wPath) /\ UNCHANGED wRoot
       \/ \E l \in WRoots : wRoot' = [wRoot EXCEPT ![l] = IF @ = "ok" THEN "missing" ELSE "ok"]
                            /\ UNCHANGED wPath
    /\ wChanges' = wChanges + 1
    /\ UNCHANGED <<wRow, wCounts, wWalk, wQuiet>>

StorageInit ==
    /\ wRow \in [WIds -> WCols] /\ wPath = WIds
    /\ wRoot = [l \in WRoots |-> "ok"]
    /\ wCounts = [h \in HealthStates |-> 0]
    /\ wWalk = NoStorageWalk /\ wQuiet = TRUE /\ wChanges = 0

StorageNext ==
    \/ \E state \in HealthStates \cup {"any"}, kind \in {"any", "show", "movie"} :
           ListFiles(state, kind)
    \/ NextPage \/ HydratePage \/ GetSummary
    \/ \E i \in WIds : \E r \in WCols \cup {NoRowHere} : RowChanges(i, r)
    \/ DiskChanges

StorageSpec == StorageInit /\ [][StorageNext]_wVars

\* The rows and a walk through one class of them (storage/service.py).
StorageTypeOK ==
    /\ wRow \in [WIds -> WCols \cup {NoRowHere}] /\ wPath \subseteq WIds
    /\ wRoot \in [WRoots -> {"ok", "missing"}]
    /\ wCounts \in [HealthStates -> 0 .. Cardinality(WIds)]
    /\ wWalk.at \in {"idle", "page", "hydrate", "counts", "end"}
    /\ wWalk.keys \subseteq WIds /\ wWalk.shown \in [WIds -> Nat] /\ wQuiet \in BOOLEAN /\ wChanges \in 0 .. WMaxChanges

(***************************** what is checked ******************************)
(* A client that follows next_offset to the end over rows nobody changes is *)
(* shown each row of the class it asked for exactly once, where the class   *)
(* is the one Python computes for the item, and the summary counts of the   *)
(* SQL clauses add up to the rows Python puts in each class: the two        *)
(* classifications of storage/states.py agree, NULL errors included.        *)
ListingMatchesCounts ==
    wWalk.at = "end" /\ wQuiet =>
        /\ \A i \in WIds : wWalk.shown[i] =
               IF i \in RowsOf \cap OfKind(wWalk.kind)
                  /\ wWalk.state \in {"any", ClassifySqlState(wRow[i])} THEN 1 ELSE 0
        /\ \A h \in HealthStates :
               wCounts[h] = Cardinality({i \in RowsOf : ClassifySqlState(wRow[i]) = h})
=============================================================================
