----------------------------- MODULE Acquisition -----------------------------
(***************************************************************************)
(* From a chosen release to a file in the library: TorrentService's        *)
(* download_and_link and its teardown, the decoy gates and the deny-list,  *)
(* the finished-download detector, the import sweeps of shows and movies,  *)
(* and the user's pause, resume, skip, reset and delete.                   *)
(*                                                                         *)
(* A step is the code between two awaits that let another task run: the    *)
(* calls of the download client run in a thread, and every statement of    *)
(* the database is a round trip.                                           *)
(***************************************************************************)
EXTENDS Naturals, FiniteSets

CONSTANTS Rels,      \* releases, one info-hash each
          Slots,     \* episodes and movies
          Targets,   \* [Rels -> SUBSET Slots]: what a release is for
          MovieRels, \* the releases of movies
          Decoys,    \* the releases without a video
          Opaque,    \* magnets: no file list before the download
          MaxRequests, MaxUser, MaxRestarts \* bounds on what the environment does

ASSUME AcquisitionAssumption == Targets \in [Rels -> SUBSET Slots]

VARIABLES
  aRow,     \* [Rels -> torrent row: none, downloading, finished or paused]
  aClient,  \* [Rels -> download client: absent, stopped, running or complete]
  aFile,    \* [Rels -> [Slots -> file row]]; a kept or lost row is an imported or
            \* failed one whose torrent is deleted
  aDisk,    \* the <<release, slot>> linked into the library
  aDenied,  \* torrent_block
  aSkipped, \* the slots the user has marked as skipped
  aReq,     \* download_and_link: [pc, rel, wanted]
  aVerify,  \* releases with a running post-add verifier
  aPoll,    \* the detector's finished releases, not saved yet
  aView,    \* a status refresh that has read and not saved: {} or {<<rel, status>>}
  aImport,  \* the sweep: {} or one [rel, todo, done, ok]
  aErase,   \* delete_*_file between the library's file and the row
  aHist,    \* [Rels -> torrent_history: none, downloaded, imported or failed]
  aErased,  \* history: what the user has removed from the library
  aCount    \* [requests, user, restarts], the bounded counters

aVars == <<aRow, aClient, aFile, aDisk, aDenied, aSkipped, aReq, aVerify, aPoll, aView,
           aImport, aErase, aHist, aErased, aCount>>

NoDownload == [pc |-> "idle", rel |-> {}, wanted |-> {}]

AcqInit ==
  /\ aRow = [r \in Rels |-> "none"] /\ aClient = [r \in Rels |-> "absent"]
  /\ aFile = [r \in Rels |-> [s \in Slots |-> "none"]]
  /\ aDisk = {} /\ aDenied = {} /\ aSkipped = {}
  /\ aReq = NoDownload /\ aVerify = {} /\ aPoll = {} /\ aView = {} /\ aImport = {}
  /\ aErase = {} /\ aErased = {} /\ aHist = [r \in Rels |-> "none"]
  /\ aCount = [requests |-> 0, user |-> 0, restarts |-> 0]

Bump(f, max) == aCount[f] < max /\ aCount' = [aCount EXCEPT ![f] = @ + 1]

\* The file rows that name the torrent, and the slots that have any file row.
LinkedSlots(r) == {s \in Slots : aFile[r][s] \in {"pending", "imported", "failed"}}
Occupied(s) == \E r \in Rels : aFile[r][s] # "none"

\* What the client says of a release; a stopped one still counts as downloading.
LiveStatus(r) == CASE aClient[r] = "absent" -> "unknown"
             [] aClient[r] = "complete" -> "finished"
             [] OTHER -> "downloading"

\* _apply_live_status on a row last read as st.
AppliedStatus(st, live) == IF st = "paused" \/ live = "unknown" THEN st ELSE live

\* remove_*_files_by_torrent_id.
FilesAfterRemove(r) ==
  [aFile EXCEPT ![r] = [s \in Slots |-> IF s \in LinkedSlots(r) THEN "none" ELSE @[s]]]

\* delete_torrent: the row goes, and with it the file rows that are not imported.
FilesAfterDelete(r) ==
  [aFile EXCEPT ![r] = [s \in Slots |-> CASE @[s] = "imported" -> "kept"
                                          [] @[s] \in {"kept", "lost"} -> @[s]
                                          [] OTHER -> "none"]]

(***************************************************************************)
(* download_and_link.                                                      *)
(***************************************************************************)
WantedSlots(r) == Targets[r] \ aSkipped

\* _preflight_reject: the file list of a magnet is not known yet.
KnownDecoy(r) == r \in Decoys /\ r \notin Opaque

\* Search results without the denied ones.
Offered(r) == r \notin aDenied

Requested(r) ==
  /\ aReq.pc = "idle" /\ Bump("requests", MaxRequests)
  /\ WantedSlots(r) # {} /\ Offered(r)
  /\ IF KnownDecoy(r)
     THEN aDenied' = aDenied \cup {r} /\ UNCHANGED aReq
     ELSE /\ aReq' = [pc |-> "add", rel |-> {r}, wanted |-> WantedSlots(r)]
          /\ UNCHANGED aDenied
  /\ UNCHANGED <<aRow, aClient, aFile, aDisk, aSkipped, aVerify, aPoll, aView, aImport, aErase, aHist, aErased>>

\* A user picks a search result.
Request(r) == Requested(r)

\* A torrent of the show that is not imported yet.
ShowBusy == \E x \in Rels \ MovieRels, s \in Slots : aFile[x][s] \in {"pending", "failed"}

\* The sweep over shows: nothing in progress, and an episode without any file row.
AutoDownloadShow(r) ==
  /\ r \notin MovieRels
  /\ ~ShowBusy /\ \E s \in WantedSlots(r) : ~Occupied(s)
  /\ Requested(r)

\* The sweep over movies: not downloaded, and no file row that still has a torrent.
AutoDownloadMovie(r) ==
  /\ r \in MovieRels
  /\ \A x \in MovieRels : aRow[x] = "none" \/ LinkedSlots(x) = {}
  /\ \A x \in Rels, s \in Targets[r] : <<x, s>> \notin aDisk
  /\ Requested(r)

RequestAt(pc, r) == aReq.pc = pc /\ aReq.rel = {r}

AddToClient(r) ==
  /\ RequestAt("add", r)
  /\ aClient' = [aClient EXCEPT ![r] = IF @ = "absent" THEN "running" ELSE @]
  /\ aReq' = [aReq EXCEPT !.pc = "gate"]
  /\ UNCHANGED <<aRow, aFile, aDisk, aDenied, aSkipped, aVerify, aPoll, aView, aImport, aErase, aHist, aErased, aCount>>

\* The deny-list is consulted again with the hash the client computed.
PostAddGate(r) ==
  /\ RequestAt("gate", r)
  /\ IF r \in aDenied
     THEN aClient' = [aClient EXCEPT ![r] = "absent"] /\ aReq' = NoDownload
     ELSE aReq' = [aReq EXCEPT !.pc = "save"] /\ UNCHANGED aClient
  /\ UNCHANGED <<aRow, aFile, aDisk, aDenied, aSkipped, aVerify, aPoll, aView, aImport, aErase, aHist, aErased, aCount>>

\* save_torrent inserts the row or updates the one with the same hash; then pause_download.
SaveAndPause(r) ==
  /\ RequestAt("save", r)
  /\ aClient' = [aClient EXCEPT ![r] = IF @ = "running" THEN "stopped" ELSE @]
  /\ aRow' = [aRow EXCEPT ![r] = AppliedStatus("downloading", LiveStatus(r))]
  /\ aReq' = [aReq EXCEPT !.pc = "link"]
  /\ UNCHANGED <<aFile, aDisk, aDenied, aSkipped, aVerify, aPoll, aView, aImport, aErase, aHist, aErased, aCount>>

\* _link_show and _link_movie: the skip flags are those of the start.
ToLink(r) == {s \in aReq.wanted : ~Occupied(s)}

LinkRows(r, slots) ==
  /\ RequestAt("link", r)
  /\ IF slots # {} /\ aRow[r] # "none"
     THEN /\ aFile' = [aFile EXCEPT ![r] = [s \in Slots |-> IF s \in slots THEN "pending" ELSE @[s]]]
          /\ aReq' = [aReq EXCEPT !.pc = "resume"]
     ELSE aReq' = [aReq EXCEPT !.pc = "cancel"] /\ UNCHANGED aFile
  /\ UNCHANGED <<aRow, aClient, aDisk, aDenied, aSkipped, aVerify, aPoll, aView, aImport, aErase, aHist, aErased, aCount>>

LinkShow(r) == r \notin MovieRels /\ LinkRows(r, ToLink(r))
LinkMovie(r) == r \in MovieRels /\ LinkRows(r, IF \E s \in aReq.wanted : Occupied(s) THEN {} ELSE aReq.wanted)

\* record_torrent_downloaded leaves the outcome of an earlier grab of the hash alone.
RecordDownloaded(r) == [aHist EXCEPT ![r] = IF @ = "none" THEN "downloaded" ELSE @]

\* The status is read again, so that a pause of the user since then is respected.
ResumeUnlessPaused(r) ==
  /\ RequestAt("resume", r)
  /\ IF aRow[r] \in {"paused", "none"}
     THEN UNCHANGED <<aClient, aRow>>
     ELSE /\ aClient' = [aClient EXCEPT ![r] = IF @ = "stopped" THEN "running" ELSE @]
          /\ aRow' = [aRow EXCEPT ![r] = AppliedStatus(@, LiveStatus(r))]
  /\ aVerify' = IF aRow[r] = "none" THEN aVerify ELSE aVerify \cup {r}
  /\ aHist' = RecordDownloaded(r)
  /\ aReq' = NoDownload
  /\ UNCHANGED <<aFile, aDisk, aDenied, aSkipped, aPoll, aView, aImport, aErase, aErased, aCount>>

\* The teardown after a failed link: the client's copy, then the rows.
CancelFailed(r) ==
  /\ RequestAt("cancel", r)
  /\ aClient' = [aClient EXCEPT ![r] = "absent"]
  /\ aReq' = [aReq EXCEPT !.pc = "drop"]
  /\ UNCHANGED <<aRow, aFile, aDisk, aDenied, aSkipped, aVerify, aPoll, aView, aImport, aErase, aHist, aErased, aCount>>

DropFailed(r) ==
  /\ RequestAt("drop", r)
  /\ aRow' = [aRow EXCEPT ![r] = "none"]
  /\ aFile' = IF r \in MovieRels THEN FilesAfterDelete(r)
              ELSE FilesAfterRemove(r)
  /\ aReq' = NoDownload
  /\ UNCHANGED <<aClient, aDisk, aDenied, aSkipped, aVerify, aPoll, aView, aImport, aErase, aHist, aErased, aCount>>

DownloadStep(r) ==
  \/ AddToClient(r) \/ PostAddGate(r) \/ SaveAndPause(r) \/ LinkShow(r) \/ LinkMovie(r)
  \/ ResumeUnlessPaused(r) \/ CancelFailed(r) \/ DropFailed(r)

(***************************************************************************)
(* The decoy gates.  _block_and_remove denies the hash and removes the     *)
(* file rows, the client's copy and the torrent row.                       *)
(***************************************************************************)
BlockAndRemove(r) ==
  /\ aDenied' = aDenied \cup {r}
  /\ aFile' = FilesAfterRemove(r)
  /\ aClient' = [aClient EXCEPT ![r] = "absent"]
  /\ aRow' = [aRow EXCEPT ![r] = "none"]

\* The post-add verifier has the file list, or gives up.
Verify(r) ==
  /\ r \in aVerify /\ aVerify' = aVerify \ {r}
  /\ \/ r \in Decoys /\ aClient[r] # "absent" /\ BlockAndRemove(r)
     \/ UNCHANGED <<aDenied, aFile, aClient, aRow>>
  /\ UNCHANGED <<aDisk, aSkipped, aReq, aPoll, aView, aImport, aErase, aHist, aErased, aCount>>

ClientCompletes(r) ==
  /\ aClient[r] = "running"
  /\ aClient' = [aClient EXCEPT ![r] = "complete"]
  /\ UNCHANGED <<aRow, aFile, aDisk, aDenied, aSkipped, aReq, aVerify, aPoll, aView, aImport, aErase, aHist, aErased, aCount>>

(***************************************************************************)
(* detect_finished_downloads, one tick at a time, and the refresh of one   *)
(* torrent by a GET.  Both save what they read before the client answered. *)
(***************************************************************************)
PollRead ==
  /\ aPoll = {}
  /\ aPoll' = {r \in Rels : aRow[r] = "downloading" /\ LiveStatus(r) = "finished"}
  /\ aPoll' # {}
  /\ UNCHANGED <<aRow, aClient, aFile, aDisk, aDenied, aSkipped, aReq, aVerify, aView, aImport, aErase, aHist, aErased, aCount>>

PollSave(r) ==
  /\ r \in aPoll /\ aPoll' = aPoll \ {r}
  /\ IF r \in Decoys /\ aClient[r] # "absent" \* reject_decoy_downloads
     THEN BlockAndRemove(r)
     ELSE aRow' = [aRow EXCEPT ![r] = "finished"] /\ UNCHANGED <<aDenied, aFile, aClient>>
  /\ UNCHANGED <<aDisk, aSkipped, aReq, aVerify, aView, aImport, aErase, aHist, aErased, aCount>>

ViewRead(r) ==
  /\ aView = {} /\ aRow[r] # "none" /\ Bump("user", MaxUser)
  /\ aView' = {<<r, AppliedStatus(aRow[r], LiveStatus(r))>>}
  /\ UNCHANGED <<aRow, aClient, aFile, aDisk, aDenied, aSkipped, aReq, aVerify, aPoll, aImport, aErase, aHist, aErased>>

ViewSave ==
  /\ \E v \in aView : aRow' = [aRow EXCEPT ![v[1]] = v[2]]
  /\ aView' = {}
  /\ UNCHANGED <<aClient, aFile, aDisk, aDenied, aSkipped, aReq, aVerify, aPoll, aImport, aErase, aHist, aErased, aCount>>

(***************************************************************************)
(* The import sweeps.  Every file row of a finished torrent is imported    *)
(* again, the imported ones too; the client's copy is removed when every   *)
(* outcome was a success and cleanup_after_import is set.                  *)
(***************************************************************************)

\* compute_import_progress
Progress(r, st) == {s \in LinkedSlots(r) : aFile[r][s] = st}
AllImported(r) == LinkedSlots(r) # {} /\ Progress(r, "imported") = LinkedSlots(r)

ImportReady(r) == LinkedSlots(r) # {} /\ ~AllImported(r)

ImportBegin(r) ==
  /\ aImport = {} /\ aRow[r] = "finished" /\ ImportReady(r)
  /\ IF aClient[r] = "complete" /\ r \notin Decoys
     THEN aImport' = {[rel |-> r, todo |-> LinkedSlots(r), done |-> {}, ok |-> TRUE]} /\ UNCHANGED aFile
     ELSE \* no video on disk: every row fails
          /\ aFile' = [aFile EXCEPT ![r] = [s \in Slots |-> IF s \in LinkedSlots(r) THEN "failed" ELSE @[s]]]
          /\ UNCHANGED aImport
  /\ UNCHANGED <<aRow, aClient, aDisk, aDenied, aSkipped, aReq, aVerify, aPoll, aView, aErase, aHist, aErased, aCount>>

\* A movie with several comparable videos is left to the user (ambiguous).
ImportAmbiguous(r) ==
  /\ aImport = {} /\ aRow[r] = "finished" /\ ImportReady(r) /\ r \in MovieRels
  /\ aClient[r] = "complete"
  /\ aFile' = [aFile EXCEPT ![r] = [s \in Slots |-> IF s \in LinkedSlots(r) THEN "failed" ELSE @[s]]]
  /\ UNCHANGED <<aRow, aClient, aDisk, aDenied, aSkipped, aReq, aVerify, aPoll, aView, aImport, aErase, aHist, aErased, aCount>>

\* import_*_from_file: link the video into its slot (or fail), ...
LinkIntoLibrary(i, s) ==
  /\ i \in aImport /\ s \in i.todo /\ <<i.rel, s>> \notin aDisk
  /\ aClient[i.rel] = "complete"
  /\ aDisk' = aDisk \cup {<<i.rel, s>>} /\ aErased' = aErased \ {<<i.rel, s>>}
  /\ UNCHANGED <<aRow, aClient, aFile, aDenied, aSkipped, aReq, aVerify, aPoll, aView, aImport, aErase, aHist, aCount>>

\* The status of a row that an import ends with st; a deleted row stays deleted.
Stamped(old, st) ==
  CASE old = "none" -> "none"
    [] old \in {"kept", "lost"} -> IF st = "imported" THEN "kept" ELSE "lost"
    [] OTHER -> st

\* Writes the row whatever became of the video.
FinalizeUnchecked(i, s, st) ==
  /\ aFile' = [aFile EXCEPT ![i.rel][s] = Stamped(@, st)]
  /\ aImport' = {[i EXCEPT !.todo = @ \ {s}, !.done = @ \cup {s}, !.ok = @ /\ st = "imported"]}

\* ... then finalize the row with the outcome.
Finalize(i, s, st) ==
  /\ st = "imported" => <<i.rel, s>> \in aDisk \cup aErased
  /\ aFile' = [aFile EXCEPT ![i.rel][s] = Stamped(@, st)]
  /\ aImport' = {[i EXCEPT !.todo = @ \ {s}, !.done = @ \cup {s}, !.ok = @ /\ st = "imported"]}

FinalizeFile(i, s, st) ==
  /\ i \in aImport /\ s \in i.todo
  /\ Finalize(i, s, st)
  /\ UNCHANGED <<aRow, aClient, aDisk, aDenied, aSkipped, aReq, aVerify, aPoll, aView, aErase, aHist, aErased, aCount>>

\* The outcome of the rows as they are when the import ends.
RecordImported(r) ==
  [aHist EXCEPT ![r] = CASE AllImported(r) -> "imported"
                         [] Progress(r, "failed") # {} -> "failed"
                         [] OTHER -> "downloaded"]

\* record_import_history, then cleanup_after_import, or not.
ImportEnd(i) ==
  /\ i \in aImport /\ i.todo = {}
  /\ aImport' = {} /\ aHist' = RecordImported(i.rel)
  /\ IF i.ok
     THEN \/ /\ aClient' = [aClient EXCEPT ![i.rel] = "absent"]
             /\ aRow' = [aRow EXCEPT ![i.rel] = "none"]
             /\ aFile' = FilesAfterDelete(i.rel)
          \/ UNCHANGED <<aClient, aRow, aFile>>
     ELSE UNCHANGED <<aClient, aRow, aFile>>
  /\ UNCHANGED <<aDisk, aDenied, aSkipped, aReq, aVerify, aPoll, aView, aErase, aErased, aCount>>

LinkEpisodeVideo(i, s) == i.rel \notin MovieRels /\ LinkIntoLibrary(i, s)
LinkMovieVideo(i, s) == i.rel \in MovieRels /\ LinkIntoLibrary(i, s)

ImportSweepStep ==
  \E i \in aImport :
     \/ \E s \in i.todo : LinkEpisodeVideo(i, s) \/ LinkMovieVideo(i, s)
     \/ \E s \in i.todo : FinalizeFile(i, s, "imported") \/ FinalizeFile(i, s, "failed")
     \/ ImportEnd(i)

\* reconcile_orphaned_failed_imports: a lost row whose file is in the library after all.
ReconcileOrphan(r, s) ==
  /\ aFile[r][s] = "lost" /\ <<r, s>> \in aDisk
  /\ aFile' = [aFile EXCEPT ![r][s] = "kept"]
  /\ UNCHANGED <<aRow, aClient, aDisk, aDenied, aSkipped, aReq, aVerify, aPoll, aView, aImport, aErase, aHist, aErased, aCount>>

(***************************************************************************)
(* The user, and restarts.                                                 *)
(***************************************************************************)
UserPause(r) ==
  /\ aRow[r] # "none" /\ Bump("user", MaxUser)
  /\ aClient' = [aClient EXCEPT ![r] = IF @ = "running" THEN "stopped" ELSE @]
  /\ aRow' = [aRow EXCEPT ![r] = "paused"]
  /\ UNCHANGED <<aFile, aDisk, aDenied, aSkipped, aReq, aVerify, aPoll, aView, aImport, aErase, aHist, aErased>>

UserResume(r) ==
  /\ aRow[r] = "paused"
  /\ aClient' = [aClient EXCEPT ![r] = IF @ = "stopped" THEN "running" ELSE @]
  /\ aRow' = [aRow EXCEPT ![r] = AppliedStatus("downloading", LiveStatus(r))]
  /\ UNCHANGED <<aFile, aDisk, aDenied, aSkipped, aReq, aVerify, aPoll, aView, aImport, aErase, aHist, aErased, aCount>>

UserDelete(r, block) ==
  /\ aRow[r] # "none" /\ Bump("user", MaxUser)
  /\ aDenied' = IF block THEN aDenied \cup {r} ELSE aDenied
  /\ aClient' = [aClient EXCEPT ![r] = "absent"]
  /\ aRow' = [aRow EXCEPT ![r] = "none"]
  /\ aFile' = FilesAfterDelete(r)
  /\ UNCHANGED <<aDisk, aSkipped, aReq, aVerify, aPoll, aView, aImport, aErase, aHist, aErased>>

UserSkip(s) ==
  /\ Bump("user", MaxUser)
  /\ aSkipped' = IF s \in aSkipped THEN aSkipped \ {s} ELSE aSkipped \cup {s}
  /\ UNCHANGED <<aRow, aClient, aFile, aDisk, aDenied, aReq, aVerify, aPoll, aView, aImport, aErase, aHist, aErased>>

\* reset_import_status makes every linked file pending again.
UserReset(r) ==
  /\ aRow[r] # "none" /\ LinkedSlots(r) # {} /\ Bump("user", MaxUser)
  /\ aFile' = [aFile EXCEPT ![r] = [s \in Slots |-> IF s \in LinkedSlots(r) THEN "pending" ELSE @[s]]]
  /\ UNCHANGED <<aRow, aClient, aDisk, aDenied, aSkipped, aReq, aVerify, aPoll, aView, aImport, aErase, aHist, aErased>>

\* delete_episode_file and delete_movie_file: the library's file, then the row, and
\* the torrent when that was its last file row.
EraseFromDisk(r, s) ==
  /\ aErase = {} /\ aFile[r][s] # "none" /\ Bump("user", MaxUser)
  /\ aDisk' = aDisk \ {<<r, s>>} /\ aErased' = aErased \cup {<<r, s>>}
  /\ aErase' = {<<r, s>>}
  /\ UNCHANGED <<aRow, aClient, aFile, aDenied, aSkipped, aReq, aVerify, aPoll, aView, aImport, aHist>>

EraseRow ==
  /\ \E e \in aErase : LET last == LinkedSlots(e[1]) = {e[2]} IN
       /\ aFile' = [aFile EXCEPT ![e[1]][e[2]] = "none"]
       /\ aClient' = IF last THEN [aClient EXCEPT ![e[1]] = "absent"] ELSE aClient
       /\ aRow' = IF last THEN [aRow EXCEPT ![e[1]] = "none"] ELSE aRow
  /\ aErase' = {}
  /\ UNCHANGED <<aDisk, aDenied, aSkipped, aReq, aVerify, aPoll, aView, aImport, aHist, aErased, aCount>>

\* Every task dies; start-up deletes the torrent rows without file rows.
AcqRestart ==
  /\ Bump("restarts", MaxRestarts)
  /\ aReq' = NoDownload /\ aVerify' = {} /\ aPoll' = {} /\ aView' = {} /\ aImport' = {} /\ aErase' = {}
  /\ aRow' = [r \in Rels |-> IF LinkedSlots(r) = {} THEN "none" ELSE aRow[r]]
  /\ UNCHANGED <<aClient, aFile, aDisk, aDenied, aSkipped, aHist, aErased>>

AcqNext ==
  \/ \E r \in Rels : Request(r) \/ AutoDownloadShow(r) \/ AutoDownloadMovie(r) \/ DownloadStep(r)
  \/ \E r \in Rels : Verify(r) \/ ClientCompletes(r) \/ PollSave(r) \/ ViewRead(r)
  \/ \E r \in Rels : ImportBegin(r) \/ ImportAmbiguous(r)
  \/ PollRead \/ ViewSave \/ ImportSweepStep \/ EraseRow \/ AcqRestart
  \/ \E r \in Rels : UserPause(r) \/ UserResume(r) \/ UserReset(r)
  \/ \E r \in Rels, b \in BOOLEAN : UserDelete(r, b)
  \/ \E r \in Rels, s \in Slots : EraseFromDisk(r, s) \/ ReconcileOrphan(r, s)
  \/ \E s \in Slots : UserSkip(s)

\* The scheduler's jobs run again and again, and every sweep takes the ready torrents
\* one after the other.
AcqSpec ==
  /\ AcqInit /\ [][AcqNext]_aVars
  /\ WF_aVars(\E r \in Rels : DownloadStep(r))
  /\ WF_aVars(PollRead) /\ WF_aVars(\E r \in Rels : PollSave(r))
  /\ WF_aVars(ViewSave) /\ WF_aVars(ImportSweepStep)
  /\ \A r \in Rels : SF_aVars(ImportBegin(r))

\* The rows of torrents and files, the client and the tasks between them (torrents/service.py).
AcqTypeOK ==
  /\ aRow \in [Rels -> {"none", "downloading", "finished", "paused"}]
  /\ aClient \in [Rels -> {"absent", "stopped", "running", "complete"}]
  /\ aFile \in [Rels -> [Slots -> {"none", "pending", "imported", "failed", "kept", "lost"}]]
  /\ aDisk \subseteq Rels \X Slots /\ aErase \subseteq Rels \X Slots
  /\ aErased \subseteq Rels \X Slots
  /\ aDenied \subseteq Rels /\ aVerify \subseteq Rels /\ aPoll \subseteq Rels
  /\ aSkipped \subseteq Slots
  /\ aReq.pc \in {"idle", "add", "gate", "save", "link", "resume", "cancel", "drop"}
  /\ aHist \in [Rels -> {"none", "downloaded", "imported", "failed"}]
  /\ aView \subseteq Rels \X {"downloading", "finished", "paused"}

(***************************************************************************)
(* A file row that says imported stands for a file in the library, unless  *)
(* the user has removed that file, and a history entry that says so for    *)
(* one at least: through repeated imports, resets, and deletions of the    *)
(* torrent in the middle of an import.                                     *)
(***************************************************************************)
ImportedOnDisk ==
  \A r \in Rels :
    /\ \A s \in Slots : aFile[r][s] \in {"imported", "kept"} => <<r, s>> \in aDisk \cup aErased
    /\ aHist[r] = "imported" => \E s \in Slots : <<r, s>> \in aDisk \cup aErased

(***************************************************************************)
(* Nothing the library was promised is lost on the way: the rows and the   *)
(* history never say imported of a file that is not there, and             *)
(* cleanup_after_import deletes the client's copy only when everything the *)
(* sweep was to import from it has reached the library.                    *)
(***************************************************************************)
LibraryKept ==
  [][/\ ImportedOnDisk'
     /\ \A i \in aImport : ImportEnd(i) /\ aClient' # aClient =>
          \A s \in i.done : <<i.rel, s>> \in aDisk \cup aErased]_aVars

(***************************************************************************)
(* The teardown of a request that could not link anything concerns "the    *)
(* just-created torrent": it takes away no file row of an earlier import.  *)
(***************************************************************************)
TeardownIsOwn ==
  [][\A r \in Rels, s \in Slots :
       DropFailed(r) /\ aFile[r][s] = "imported" => aFile'[r][s] # "none"]_aVars

(***************************************************************************)
(* A pause lasts until the user resumes: no refresh of the status takes a  *)
(* torrent out of paused.                                                  *)
(***************************************************************************)
PauseIsKept ==
  [][\A r \in Rels :
       aRow[r] = "paused" /\ aRow'[r] \in {"downloading", "finished"} => UserResume(r)]_aVars
==============================================================================
