---------------------------- MODULE TorrentClient ----------------------------
(***************************************************************************)
(* The built-in BitTorrent client: its session, the resume data with which *)
(* a transfer outlives the process, and the move of a finished payload     *)
(* from the incomplete to the completed root.                              *)
(*                                                                         *)
(* libtorrent is external: it downloads, serializes, moves and deletes in  *)
(* its own time.  Pausing a torrent only keeps it from downloading, which  *)
(* the model never promises.                                               *)
(***************************************************************************)
EXTENDS Naturals, FiniteSets

CONSTANTS MHashes,     \* info-hashes
          MTitle,      \* the title a download is saved under
          MSplit,      \* incomplete_torrent_path is set
          MMaxAdds, MMaxStops, MMaxFaults    \* bounds of the counters

NoHash == "nohash"
ASSUME ClientAssumption == MSplit \in BOOLEAN /\ NoHash \notin MHashes

VARIABLES
  mUp,        \* the process: "down", "loading", "up" or "closing"
  mSession,   \* per info-hash its torrent in the session
  mResume,    \* its .fastresume file
  mAlert,     \* save_resume_data_alert: the data serialized and not popped
  mCkpt,      \* history: transfers that resume data was saved of
  mFiles,     \* per info-hash and root: what lies there of the payload
  mDirs,      \* the <<root, title>> directories
  mSidecar,   \* <completed>/<title>.torrent: the info-hash in it
  mDelete,    \* payloads that libtorrent is still to delete
  mTried,     \* _move_attempts of the last _MOVE_RETRY_SECONDS
  mReap,      \* _pending_move_cleanup
  mAdd,       \* download_torrent: idle, past get_torrent_hash, or with its status
  mDrop,      \* remove_torrent waits for its directories to empty
  mRow,       \* the torrent row with the import state of its files
  mSeen,      \* rows whose status is finished
  mTold,      \* history: transfers that the last poll reported finished
  mCount      \* downloads asked for, stops and faults so far

saveVars == <<mResume, mAlert, mCkpt>>
diskVars == <<mFiles, mDirs, mSidecar, mDelete>>
moveVars == <<mTried, mReap>>
taskVars == <<mAdd, mDrop>>
rowVars == <<mRow, mSeen>>
mVars == <<mUp, mSession, saveVars, diskVars, moveVars, taskVars, rowVars, mTold, mCount>>

Roots == {"incomplete", "completed"}
Titles == {MTitle[h] : h \in MHashes}
Torrents == [st : {"absent", "metadata", "downloading", "complete"}, root : Roots, moving : BOOLEAN]
ResumeData == [st : {"none", "downloading", "complete"}, root : Roots]
Handle(st, root) == [st |-> st, root |-> root, moving |-> FALSE]
Sources == {"magnet", "file"}
Statuses == {"downloading", "finished"}
Counters == {"adds", "stops", "faults"}
Absent == Handle("absent", "completed")
NoResume == [st |-> "none", root |-> "completed"]

\* Session, resume data, payloads, directories and rows (torrents/backends/native.py).
ClientTypeOK ==
  /\ mUp \in {"down", "loading", "up", "closing"}
  /\ mSession \in [MHashes -> Torrents] /\ mResume \in [MHashes -> ResumeData] /\ mAlert \in [MHashes -> ResumeData]
  /\ mFiles \in [MHashes -> [Roots -> {"none", "part", "whole"}]] /\ mDirs \subseteq Roots \X Titles
  /\ mSidecar \in [Titles -> MHashes \cup {NoHash}]
  /\ mAdd \in [MHashes -> {"idle"} \cup Sources \cup Statuses]
  /\ mCount \in [Counters -> Nat] /\ mRow \in [MHashes -> {"none", "wanted", "imported"}]
  /\ \A set \in {mCkpt, mDelete, mTried, mReap, mDrop, mSeen, mTold} : set \subseteq MHashes

ClientInit ==
  /\ mUp = "up" /\ mSession = [h \in MHashes |-> Absent]
  /\ mResume = [h \in MHashes |-> NoResume] /\ mAlert = [h \in MHashes |-> NoResume]
  /\ mFiles = [h \in MHashes |-> [r \in Roots |-> "none"]] /\ mDirs = {} /\ mSidecar = [t \in Titles |-> NoHash]
  /\ mAdd = [h \in MHashes |-> "idle"] /\ mRow = [h \in MHashes |-> "none"]
  /\ mCkpt = {} /\ mDelete = {} /\ mTried = {} /\ mReap = {} /\ mDrop = {} /\ mSeen = {} /\ mTold = {}
  /\ mCount = [c \in Counters |-> 0]

MBump(f, max) == mCount[f] < max /\ mCount' = [mCount EXCEPT ![f] = @ + 1]
Present(h) == mSession[h].st # "absent"
InitialRoot == IF MSplit THEN "incomplete" ELSE "completed"

\* rmdir_empty_tree: a tree that holds a file stays untouched.
Fileless(d) == \A h \in MHashes : MTitle[h] = d[2] => mFiles[h][d[1]] = "none"

(***************************************************************************)
(* Status, and the move to the completed root.                             *)
(***************************************************************************)
\* Whatever the save path.
MoveStopped(h) == ~mSession[h].moving
MoveLanded(h) == ~mSession[h].moving /\ mSession[h].root = "completed"
StatusOf(h) ==
  CASE ~Present(h) -> "unknown"
    [] mSession[h].st = "complete" /\ MoveLanded(h) -> "finished"
    [] OTHER -> "downloading"

MoveDue(h) == mSession[h].st = "complete" /\ ~MoveLanded(h) /\ ~mSession[h].moving /\ h \notin mTried
SourceDir(h) == <<"incomplete", MTitle[h]>>
Prunes(h) == StatusOf(h) = "finished" /\ h \in mReap

\* A poll drives the move of a complete torrent, among the directories it finds.
Poll(h, dirs) ==
  /\ mTold' = IF StatusOf(h) = "finished" THEN mTold \cup {h} ELSE mTold \ {h}
  /\ IF MoveDue(h)
     THEN /\ mTried' = mTried \cup {h} /\ mDirs' = dirs
          /\ \/ mSession' = [mSession EXCEPT ![h].moving = TRUE] /\ mReap' = mReap \cup {h} /\ UNCHANGED mCount
             \/ MBump("faults", MMaxFaults) /\ UNCHANGED <<mSession, mReap>>
     ELSE /\ mDirs' = IF Prunes(h) /\ Fileless(SourceDir(h)) THEN dirs \ {SourceDir(h)} ELSE dirs
          /\ mReap' = IF Prunes(h) /\ SourceDir(h) \notin mDirs' THEN mReap \ {h} ELSE mReap
          /\ UNCHANGED <<mSession, mTried, mCount>>

\* The row keeps its status when the client does not know the torrent, and the pages that
\* list torrents do not save what they are told.
Saves(h, persist) ==
  mSeen' = CASE StatusOf(h) = "unknown" \/ ~persist -> mSeen
             [] StatusOf(h) = "finished" /\ persist -> mSeen \cup {h}
             [] OTHER -> mSeen \ {h}

GetTorrentStatus(h, persist) ==
  /\ mUp = "up" /\ mRow[h] # "none" /\ Poll(h, mDirs) /\ Saves(h, persist)
  /\ UNCHANGED <<mUp, saveVars, mFiles, mSidecar, mDelete, taskVars, mRow>>

MoveRetryDue(h) ==
  /\ h \in mTried /\ mTried' = mTried \ {h}
  /\ UNCHANGED <<mUp, mSession, saveVars, diskVars, mReap, taskVars, rowVars, mTold, mCount>>

(***************************************************************************)
(* A download.  get_torrent_hash writes the .torrent file beside the       *)
(* completed payloads, and download_torrent reads it from there.           *)
(***************************************************************************)
GetTorrentHash(h, source) ==
  /\ mUp = "up" /\ mAdd[h] = "idle" /\ MBump("adds", MMaxAdds) /\ mAdd' = [mAdd EXCEPT ![h] = source]
  /\ mSidecar' = IF source = "magnet" THEN mSidecar ELSE [mSidecar EXCEPT ![MTitle[h]] = h]
  /\ UNCHANGED <<mUp, mSession, saveVars, mFiles, mDirs, mDelete, moveVars, mDrop, rowVars, mTold>>

InitialDir(h) == <<InitialRoot, MTitle[h]>>

\* What is added is what the .torrent file says, whoever wrote it last; a duplicate is refused.
ToAdd(h) == IF mAdd[h] = "magnet" THEN {h} ELSE {g \in MHashes : mSidecar[MTitle[h]] = g /\ ~Present(g)}

\* libtorrent deletes the payload of a removed torrent before it adds the torrent again.
AddTorrent(h) ==
  LET new == ToAdd(h)
      st == IF mAdd[h] = "magnet" THEN "metadata" ELSE "downloading" IN
  /\ new \cap mDelete = {} /\ mTold' = mTold \ new /\ mDirs' = mDirs \cup {InitialDir(h)}
  /\ mSession' = [g \in MHashes |-> IF g \in new THEN Handle(st, InitialRoot) ELSE mSession[g]]
  /\ mAdd' = [mAdd EXCEPT ![h] = IF new = {} THEN "idle" ELSE "downloading"]
  /\ UNCHANGED <<moveVars, mCount>>

\* A torrent that is there already is used as it is; either way its status is asked for.
DownloadTorrent(h) ==
  /\ mUp = "up" /\ mAdd[h] \in Sources
  /\ \/ ~Present(h) /\ AddTorrent(h)
     \/ Present(h) /\ Poll(h, mDirs \cup {InitialDir(h)}) /\ mAdd' = [mAdd EXCEPT ![h] = StatusOf(h)]
  /\ UNCHANGED <<mUp, saveVars, mFiles, mSidecar, mDelete, mDrop, rowVars>>

\* The service saves the row, a new one or the one with the same hash.
SaveTorrent(h) ==
  /\ mUp = "up" /\ mAdd[h] \in Statuses /\ mAdd' = [mAdd EXCEPT ![h] = "idle"]
  /\ mRow' = [mRow EXCEPT ![h] = "wanted"] /\ mSeen' = IF mAdd[h] = "finished" THEN mSeen \cup {h} ELSE mSeen \ {h}
  /\ UNCHANGED <<mUp, mSession, saveVars, diskVars, moveVars, mDrop, mTold, mCount>>

(***************************************************************************)
(* Removal: by the user, after the import, or of a download that failed.   *)
(***************************************************************************)
RemoveTorrent(h, deleteData) ==
  /\ mUp = "up" /\ h \notin mDrop /\ mDrop' = mDrop \cup {h}
  /\ \/ mRow[h] # "none" /\ UNCHANGED mAdd
     \/ \* The hash was put on the deny-list meanwhile.
        mAdd[h] \in Statuses /\ deleteData /\ mAdd' = [mAdd EXCEPT ![h] = "idle"]
  /\ mSession' = [mSession EXCEPT ![h] = Absent] /\ mResume' = [mResume EXCEPT ![h] = NoResume]
  /\ mCkpt' = mCkpt \ {h} /\ mTold' = mTold \ {h}
  /\ mDelete' = IF deleteData /\ Present(h) THEN mDelete \cup {h} ELSE mDelete
  /\ UNCHANGED <<mUp, mAlert, mFiles, mDirs, mSidecar, moveVars, rowVars, mCount>>

\* The directories that are empty by now, or by the deadline, and the .torrent file; then the
\* row goes.
RemoveSidecarFile(h) == [mSidecar EXCEPT ![MTitle[h]] = NoHash]
SaveDirs(h) == Roots \X {MTitle[h]}
RemoveEnds(h, deleteData) ==
  /\ mUp = "up" /\ h \in mDrop /\ mDrop' = mDrop \ {h}
  /\ mDirs' = IF deleteData THEN mDirs \ {d \in SaveDirs(h) : Fileless(d)} ELSE mDirs
  /\ mSidecar' = IF deleteData THEN RemoveSidecarFile(h) ELSE mSidecar
  /\ mReap' = mReap \ {h} /\ mTried' = mTried \ {h}
  /\ mRow' = [mRow EXCEPT ![h] = "none"] /\ mSeen' = mSeen \ {h}
  /\ UNCHANGED <<mUp, mSession, saveVars, mFiles, mDelete, mAdd, mTold, mCount>>

\* The daily sweep, over a directory that is old enough.
PruneEmptyDirs(d) ==
  /\ mUp = "up" /\ d \in mDirs /\ Fileless(d) /\ mDirs' = mDirs \ {d}
  /\ UNCHANGED <<mUp, mSession, saveVars, mFiles, mSidecar, mDelete, moveVars, taskVars, rowVars, mTold, mCount>>

\* The import sweep, over the rows whose status is finished.
ImportFiles(h) ==
  /\ mUp = "up" /\ mRow[h] = "wanted" /\ h \in mSeen /\ mRow' = [mRow EXCEPT ![h] = "imported"]
  /\ UNCHANGED <<mUp, mSession, saveVars, diskVars, moveVars, taskVars, mSeen, mTold, mCount>>

(***************************************************************************)
(* Resume data.  save_resume_data asks every torrent for it and pops the   *)
(* answers until a deadline; what comes later waits for the next one.  It  *)
(* runs every five minutes, at any time here, and at shutdown.  A torrent  *)
(* without metadata has none.                                              *)
(***************************************************************************)
Serializes(h) ==
  /\ mUp \in {"up", "closing"} /\ mSession[h].st \in {"downloading", "complete"}
  /\ mAlert' = [mAlert EXCEPT ![h] = [st |-> mSession[h].st, root |-> mSession[h].root]]
  /\ UNCHANGED <<mUp, mSession, mResume, mCkpt, diskVars, moveVars, taskVars, rowVars, mTold, mCount>>

SaveResumeData(h) ==
  /\ mAlert[h] # NoResume
  /\ mResume' = [mResume EXCEPT ![h] = mAlert[h]] /\ mAlert' = [mAlert EXCEPT ![h] = NoResume]
  /\ mCkpt' = IF Present(h) THEN mCkpt \cup {h} ELSE mCkpt
  /\ UNCHANGED <<mUp, mSession, diskVars, moveVars, taskVars, rowVars, mTold, mCount>>

ClientShutdown ==
  /\ mUp = "up" /\ mUp' = "closing" /\ MBump("stops", MMaxStops)
  /\ mAdd' = [h \in MHashes |-> "idle"] /\ mDrop' = {}
  /\ UNCHANGED <<mSession, saveVars, diskVars, moveVars, rowVars, mTold>>

\* What a process leaves behind: a payload that was being moved lies in both places.
Torn(h) == IF mSession[h].moving THEN [Roots -> {"part", "whole"}] ELSE {mFiles[h]}
Left == {f \in [MHashes -> [Roots -> {"none", "part", "whole"}]] : \A h \in MHashes : f[h] \in Torn(h)}
ProcessGone ==
  /\ mUp' = "down" /\ mSession' = [h \in MHashes |-> Absent]
  /\ mAlert' = [h \in MHashes |-> NoResume] /\ mDelete' = {}
  /\ mTried' = {} /\ mReap' = {} /\ mAdd' = [h \in MHashes |-> "idle"] /\ mDrop' = {} /\ mFiles' \in Left
  /\ mDirs' = mDirs \cup {<<"completed", MTitle[h]>> : h \in {x \in MHashes : mSession[x].moving}}
  /\ UNCHANGED <<mResume, mCkpt, mSidecar, rowVars, mTold>>
ShutdownEnds == mUp = "closing" /\ ProcessGone /\ UNCHANGED mCount
ClientCrash == mUp # "down" /\ MBump("stops", MMaxStops) /\ ProcessGone

(***************************************************************************)
(* Start: load the resume data, then reconcile it with the rows.           *)
(***************************************************************************)
\* Data that does not fit the files is rejected, and the torrent starts anew.
Loaded(h) == IF mResume[h].st = "complete" /\ mFiles[h][mResume[h].root] # "whole"
             THEN Handle("downloading", mResume[h].root) ELSE Handle(mResume[h].st, mResume[h].root)

LoadResumeData(bad) ==
  /\ mUp = "down" /\ mUp' = "loading"
  /\ \A h \in bad : mResume[h] # NoResume
  /\ IF bad = {} THEN UNCHANGED mCount ELSE MBump("faults", MMaxFaults)
  /\ mSession' = [h \in MHashes |-> IF mResume[h] = NoResume \/ h \in bad THEN Absent ELSE Loaded(h)]
  /\ mCkpt' = mCkpt \ bad
  /\ UNCHANGED <<mResume, mAlert, diskVars, moveVars, taskVars, rowVars, mTold>>

\* No row, or every file of it is imported.
Unwanted(h) == mRow[h] # "wanted"
ResumeHashesToDrop == {h \in MHashes : mResume[h] # NoResume /\ Unwanted(h)}

ReconcileResumeData ==
  /\ mUp = "loading" /\ mUp' = "up"
  /\ \/ /\ mSession' = [h \in MHashes |-> IF h \in ResumeHashesToDrop THEN Absent ELSE mSession[h]]
        /\ mResume' = [h \in MHashes |-> IF h \in ResumeHashesToDrop THEN NoResume ELSE mResume[h]]
        /\ mCkpt' = {h \in mCkpt : mRow[h] = "wanted"} /\ UNCHANGED mCount
     \/ \* The rows could not be read: the sweep is skipped.
        MBump("faults", MMaxFaults) /\ UNCHANGED <<mSession, mResume, mCkpt>>
  /\ UNCHANGED <<mAlert, diskVars, moveVars, taskVars, rowVars, mTold>>

(***************************************************************************)
(* libtorrent.                                                             *)
(***************************************************************************)
Downloads(h) ==
  /\ mUp \in {"up", "loading"} /\ mSession[h].st \in {"metadata", "downloading"}
  /\ LET r == mSession[h].root
         next == IF mSession[h].st = "metadata" THEN "none" ELSE IF mFiles[h][r] = "none" THEN "part" ELSE "whole" IN
     /\ mSession' = [mSession EXCEPT ![h].st = IF next = "whole" THEN "complete" ELSE "downloading"]
     /\ mFiles' = IF next = "none" THEN mFiles ELSE [mFiles EXCEPT ![h][r] = next]
     /\ mDirs' = IF next = "none" THEN mDirs ELSE mDirs \cup {<<r, MTitle[h]>>}
  /\ UNCHANGED <<mUp, saveVars, mSidecar, mDelete, moveVars, taskVars, rowVars, mTold, mCount>>

\* A move that fails leaves the source, and perhaps some files at the target.
MoveEnds(h) ==
  /\ mSession[h].moving /\ mDirs' = mDirs \cup {<<"completed", MTitle[h]>>}
  /\ \/ /\ mSession' = [mSession EXCEPT ![h] = Handle(@.st, "completed")] /\ UNCHANGED mCount
        /\ mFiles' = [mFiles EXCEPT ![h] = [r \in Roots |-> IF r = "completed" THEN "whole" ELSE "none"]]
     \/ /\ mSession' = [mSession EXCEPT ![h].moving = FALSE] /\ MBump("faults", MMaxFaults)
        /\ mFiles' = [mFiles EXCEPT ![h]["completed"] = "part"]
  /\ UNCHANGED <<mUp, saveVars, mSidecar, mDelete, moveVars, taskVars, rowVars, mTold>>

DeletesFiles(h) ==
  /\ h \in mDelete /\ mDelete' = mDelete \ {h} /\ mFiles' = [mFiles EXCEPT ![h] = [r \in Roots |-> "none"]]
  /\ UNCHANGED <<mUp, mSession, saveVars, mDirs, mSidecar, moveVars, taskVars, rowVars, mTold, mCount>>

HandlerStep(h) ==
  \/ DownloadTorrent(h) \/ SaveTorrent(h) \/ ImportFiles(h) \/ SaveResumeData(h)
  \/ \E b \in BOOLEAN : GetTorrentStatus(h, b) \/ RemoveTorrent(h, b) \/ RemoveEnds(h, b)
  \/ \E source \in Sources : GetTorrentHash(h, source)
LibtorrentStep(h) == Downloads(h) \/ MoveEnds(h) \/ Serializes(h) \/ DeletesFiles(h)

ClientNext ==
  \/ \E h \in MHashes : HandlerStep(h) \/ LibtorrentStep(h) \/ MoveRetryDue(h)
  \/ \E d \in mDirs : PruneEmptyDirs(d)
  \/ ClientShutdown \/ ShutdownEnds \/ ClientCrash \/ ReconcileResumeData
  \/ \E bad \in SUBSET MHashes : LoadResumeData(bad)

ClientSpec == ClientInit /\ [][ClientNext]_mVars

\* Polls are scheduled, a minute passes, and libtorrent ends what it began.
ClientFair == \A h \in MHashes : WF_mVars(GetTorrentStatus(h, TRUE)) /\ WF_mVars(MoveRetryDue(h)) /\ WF_mVars(MoveEnds(h))

(***************************************************************************)
(* Properties.                                                             *)
(***************************************************************************)
Whole(h, r) == mFiles[h][r] = "whole" /\ <<r, MTitle[h]>> \in mDirs

\* What the last poll called finished lies whole in the completed root, from where it is imported
\* (_status_from_handle), and a transfer whose resume data was saved is in the session again
\* after a crash or a stop, as long as something of it is to be imported.
TransfersKept ==
  \A h \in MHashes :
    /\ Present(h) /\ h \in mTold => ~mSession[h].moving /\ Whole(h, "completed")
    /\ mUp = "up" /\ mRow[h] = "wanted" /\ h \in mCkpt => Present(h)

\* A complete payload is reported finished, though a move to the completed root may fail:
\* "a move that never lands is retried instead of wedging the torrent at 100%".
Waiting(h) == mUp = "up" /\ mRow[h] = "wanted" /\ mSession[h].st = "complete"
MovesLand == \A h \in MHashes : Waiting(h) ~> (~Waiting(h) \/ h \in mSeen)

\* "For .torrent file URLs, the file should already be downloaded by get_torrent_hash": what a
\* download adds is the torrent it was asked for (download_torrent).
DownloadAddsAsked == [][\A h \in MHashes : DownloadTorrent(h) => Present(h)']_mVars

=============================================================================
