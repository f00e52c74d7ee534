----------------------------- MODULE Subtitles ------------------------------
(***************************************************************************)
(* Subtitles: the search for the missing languages of a title, started by  *)
(* a user or by the periodic scan of all titles, the deletion of a file,   *)
(* and the notices that an import sends to Bazarr.                         *)
(*                                                                         *)
(* A subtitle is a file next to the video; what is missing is read from    *)
(* the directory before the providers are asked, in a worker thread, and   *)
(* written after.                                                          *)
(***************************************************************************)
EXTENDS Integers, FiniteSets

CONSTANTS UTitles,       \* episodes and movies
          UEpisodes,     \* the episodes among them
          ULangs,        \* the desired languages
          UOffers,       \* per title: languages the providers have for it
          UUndated,      \* titles that providers list under another year
          USearches,     \* searches that users start
          USlots,        \* _BULK_SUBTITLE_SCAN_CONCURRENCY
          UMaxTroubles   \* bound on deletions and failures

ASSUME SubtitlesAssumption ==
  /\ UEpisodes \subseteq UTitles /\ UUndated \subseteq UTitles
  /\ UOffers \in [UTitles -> SUBSET ULangs] /\ USlots \in Nat \ {0}
  /\ UMaxTroubles \in Nat

VARIABLES uFile,     \* per title: languages with a file
          uVideo,    \* titles with a video on disk
          uRec,      \* per title: languages with a record
          uTask,     \* searches: one per title for the scan, and the users'
          uScan,     \* the scan: its step, and the titles of its chunk that wait
          uLock,     \* is a scan running
          uIds,      \* Bazarr numbers of the titles
          uNote,     \* per title: the notice of its import
          uTroubles

uVars == <<uFile, uVideo, uRec, uTask, uScan, uLock, uIds, uNote, uTroubles>>
noteVars == <<uIds, uNote>>

Searchers == UTitles \cup USearches
NoTitle == "notitle"
IdleSearch == [pc |-> "idle", t |-> NoTitle, miss |-> {}, got |-> {}, year |-> TRUE]
IdleScan == [pc |-> "idle", eps |-> {}, movies |-> {}]

\* Files, records, searches and the scan (subtitles/service.py).
SubtitlesTypeOK ==
  /\ uFile \in [UTitles -> SUBSET ULangs] /\ uVideo \subseteq UTitles /\ uRec \in [UTitles -> SUBSET ULangs]
  /\ \A k \in Searchers : uTask[k].pc \in {"idle", "queued", "status", "video", "ask", "save", "record"} /\ uTask[k].miss \subseteq ULangs
  /\ uScan.pc \in {"idle", "list", "episodes", "movies"} /\ uLock \in BOOLEAN
  /\ uIds \subseteq UTitles /\ uNote \in [UTitles -> {"none", "ids", "post", "told", "failed"}]
  /\ uTroubles \in 0..UMaxTroubles

SubtitlesInit ==
  /\ uFile = [t \in UTitles |-> {}] /\ uVideo = {} /\ uRec = [t \in UTitles |-> {}]
  /\ uTask = [k \in Searchers |-> IdleSearch] /\ uScan = IdleScan /\ uLock = FALSE
  /\ uIds = {} /\ uNote = [t \in UTitles |-> "none"] /\ uTroubles = 0

USometimes == uTroubles < UMaxTroubles /\ uTroubles' = uTroubles + 1
InSlot(k) == uTask[k].pc \notin {"idle", "queued"}
SlotFree == Cardinality({k \in UTitles : InSlot(k)}) < USlots
MissingLanguages(t) == ULangs \ uFile[t]

\* What the show and movie pages are shown of a title.
TitleStatus(t) == [downloaded |-> t \in uVideo, available |-> uFile[t], missing |-> MissingLanguages(t)]

(***************************************************************************)
(* One search.                                                             *)
(***************************************************************************)
Move(k, pc) == uTask' = [uTask EXCEPT ![k].pc = pc]
End(k) == uTask' = [uTask EXCEPT ![k] = IdleSearch]
OnlyTask == UNCHANGED <<uFile, uVideo, uRec, uScan, uLock, noteVars, uTroubles>>

\* get_*_subtitle_status: nothing missing, nothing to do.
ReadStatus(k) ==
  LET t == uTask[k].t IN
  /\ uTask[k].pc = "status"
  /\ IF MissingLanguages(t) = {} THEN End(k)
     ELSE uTask' = [uTask EXCEPT ![k].pc = "video", ![k].miss = MissingLanguages(t)]
  /\ OnlyTask

ResolveVideo(k) ==
  /\ uTask[k].pc = "video"
  /\ IF uTask[k].t \in uVideo THEN Move(k, "ask") ELSE End(k)
  /\ OnlyTask

Answer(t, year, langs) == IF year /\ t \in UUndated THEN {} ELSE UOffers[t] \cap langs
RetryNever(k) == FALSE
RetryWithoutYear(k) == uTask[k].year

\* The providers are asked with the year, and once more without it when none answers.
AskProviders(k) ==
  LET got == Answer(uTask[k].t, uTask[k].year, uTask[k].miss) IN
  /\ uTask[k].pc = "ask"
  /\ \/ got # {} /\ uTask' = [uTask EXCEPT ![k].pc = "save", ![k].got = got]
     \/ got = {} /\ RetryWithoutYear(k) /\ uTask' = [uTask EXCEPT ![k].year = FALSE]
     \/ got = {} /\ ~RetryWithoutYear(k) /\ End(k)
  /\ OnlyTask

SaveSubtitles(k) ==
  /\ uTask[k].pc = "save"
  /\ uFile' = [uFile EXCEPT ![uTask[k].t] = @ \cup uTask[k].got]
  /\ Move(k, "record")
  /\ UNCHANGED <<uVideo, uRec, uScan, uLock, noteVars, uTroubles>>

SaveRecords(k) ==
  /\ uTask[k].pc = "record"
  /\ uRec' = [uRec EXCEPT ![uTask[k].t] = @ \cup uTask[k].got]
  /\ End(k)
  /\ UNCHANGED <<uFile, uVideo, uScan, uLock, noteVars, uTroubles>>

\* A provider, the disk or the database fails: logged, and the search is over.
AfterFailure(k) == End(k)

SearchFails(k) ==
  /\ uTask[k].pc \in {"ask", "save", "record"} /\ USometimes
  /\ AfterFailure(k)
  /\ UNCHANGED <<uFile, uVideo, uRec, uScan, uLock, noteVars>>

StartSearch(k, t) ==
  /\ k \in USearches /\ uTask[k] = IdleSearch
  /\ uTask' = [uTask EXCEPT ![k] = [IdleSearch EXCEPT !.pc = "status", !.t = t]]
  /\ OnlyTask

(***************************************************************************)
(* The scan, one at a time: episodes with an imported file first, then the *)
(* movies that have a video, at most USlots searches at once.              *)
(***************************************************************************)
StartScan ==
  /\ ~uLock /\ uLock' = TRUE /\ uScan' = [IdleScan EXCEPT !.pc = "list"]
  /\ UNCHANGED <<uFile, uVideo, uRec, uTask, noteVars, uTroubles>>

Queue(ts) == uTask' = [k \in Searchers |-> IF k \in ts THEN [IdleSearch EXCEPT !.pc = "queued", !.t = k] ELSE uTask[k]]

EnumerateTargets ==
  /\ uScan.pc = "list"
  /\ uScan' = [pc |-> "episodes", eps |-> uVideo \cap UEpisodes, movies |-> uVideo \ UEpisodes]
  /\ Queue(uVideo \cap UEpisodes)
  /\ UNCHANGED <<uFile, uVideo, uRec, uLock, noteVars, uTroubles>>

EnumerateFails ==
  /\ uScan.pc = "list" /\ USometimes /\ uScan' = IdleScan /\ uLock' = FALSE
  /\ UNCHANGED <<uFile, uVideo, uRec, uTask, noteVars>>

ScanTitle(t) ==
  /\ uTask[t].pc = "queued" /\ SlotFree /\ Move(t, "status")
  /\ OnlyTask

ScanMovies ==
  /\ uScan.pc = "episodes" /\ \A t \in uScan.eps : uTask[t] = IdleSearch
  /\ uScan' = [uScan EXCEPT !.pc = "movies"] /\ Queue(uScan.movies)
  /\ UNCHANGED <<uFile, uVideo, uRec, uLock, noteVars, uTroubles>>

EndScan ==
  /\ uScan.pc = "movies" /\ \A t \in uScan.movies : uTask[t] = IdleSearch
  /\ uScan' = IdleScan /\ uLock' = FALSE
  /\ UNCHANGED <<uFile, uVideo, uRec, uTask, noteVars, uTroubles>>

(***************************************************************************)
(* Files come and go.                                                      *)
(***************************************************************************)
ImportVideo(t) ==
  /\ t \notin uVideo /\ uVideo' = uVideo \cup {t}
  /\ uNote' = [uNote EXCEPT ![t] = "ids"]
  /\ UNCHANGED <<uFile, uRec, uTask, uScan, uLock, uIds, uTroubles>>

\* delete_episode_subtitle_file, delete_movie_subtitle_file: the record stays.
DeleteSubtitle(t, l) ==
  /\ l \in uFile[t] /\ USometimes
  /\ uFile' = [uFile EXCEPT ![t] = @ \ {l}]
  /\ UNCHANGED <<uVideo, uRec, uTask, uScan, uLock, noteVars>>

\* notify_bazarr_*_imported: a number for the title, kept for good, then the notice.
GetArrIds(t) ==
  /\ uNote[t] = "ids" /\ uNote' = [uNote EXCEPT ![t] = "post"]
  /\ uIds' = uIds \cup {t}
  /\ UNCHANGED <<uFile, uVideo, uRec, uTask, uScan, uLock, uTroubles>>

NotifyBazarr(t) ==
  /\ uNote[t] = "post" /\ uNote' = [uNote EXCEPT ![t] = "told"]
  /\ UNCHANGED <<uFile, uVideo, uRec, uTask, uScan, uLock, uIds, uTroubles>>

NotifyFails(t) ==
  /\ uNote[t] \in {"ids", "post"} /\ USometimes /\ uNote' = [uNote EXCEPT ![t] = "failed"]
  /\ UNCHANGED <<uFile, uVideo, uRec, uTask, uScan, uLock, uIds>>

SearchStep(k) == ReadStatus(k) \/ ResolveVideo(k) \/ AskProviders(k) \/ SaveSubtitles(k) \/ SaveRecords(k)
ScanStep == StartScan \/ EnumerateTargets \/ ScanMovies \/ EndScan

SubtitlesNext ==
  \/ \E k \in Searchers : \/ SearchStep(k) \/ SearchFails(k)
                          \/ \E t \in UTitles : StartSearch(k, t)
  \/ \E t \in UTitles : \/ ScanTitle(t) \/ ImportVideo(t) \/ GetArrIds(t) \/ NotifyBazarr(t) \/ NotifyFails(t)
                        \/ \E l \in ULangs : DeleteSubtitle(t, l)
  \/ ScanStep \/ EnumerateFails

SubtitlesSpec == SubtitlesInit /\ [][SubtitlesNext]_uVars
SubtitlesFair ==
  /\ SubtitlesSpec
  /\ \A k \in Searchers : WF_uVars(SearchStep(k))
  /\ \A t \in UTitles : SF_uVars(ScanTitle(t))
  /\ WF_uVars(ScanStep)

(***************************************************************************)
(* Properties.                                                             *)
(***************************************************************************)

\* What the providers have for a title with a video arrives next to it in the end, through
\* the periodic scan, whatever single searches fail and files are deleted on the way.
WantedArrives ==
  \A t \in UTitles : <>[]TitleStatus(t).downloaded => <>[](TitleStatus(t).missing \cap UOffers[t] = {})

=============================================================================
