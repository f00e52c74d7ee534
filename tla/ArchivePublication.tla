--------------------------- MODULE ArchivePublication ---------------------------
(***************************************************************************)
(* Extraction of a downloaded archive and publication of what it held.     *)
(*                                                                         *)
(* A worker extracts into a private staging directory beside the           *)
(* destination, moves it into a private container, hashes and marks the    *)
(* container, and renames it to a name made of the digest.  Whatever fails *)
(* on the way, the worker quarantines and deletes its own directories, by  *)
(* name and inode, while other processes may use the same parent.          *)
(***************************************************************************)
EXTENDS Naturals, Sequences, FiniteSets

CONSTANTS XWorkers,     \* concurrent imports
          XArchives,    \* archives in the destination directory
          XEntries,     \* [XArchives -> Seq of [path, size]]: what they hold
          XRetained,    \* archives of a supported format
          MaxEntries, MaxBytes,  \* MAX_ARCHIVE_ENTRIES, MAX_EXPANDED_BYTES
          XForeign,     \* directories of other processes
          MaxXCrashes

ASSUME ArchiveAssumption ==
  /\ MaxEntries \in Nat /\ MaxBytes \in Nat /\ MaxXCrashes \in Nat
  /\ XArchives # {} /\ XRetained \subseteq XArchives
  /\ \A a \in XArchives :
       /\ Len(XEntries[a]) \in Nat /\ DOMAIN XEntries[a] = 1..Len(XEntries[a])
       /\ \A e \in DOMAIN XEntries[a] : XEntries[a][e].size \in Nat

Gone == <<"gone">>
\* Inodes: the two directories a worker makes, and the foreign ones.
Staging(w) == <<"staging", w>>
Private(w) == <<"private", w>>
OwnDirs == {Staging(w) : w \in XWorkers} \cup {Private(w) : w \in XWorkers}
\* A directory of another process is an inode of its own.
ASSUME ForeignAssumption == XForeign \cap (OwnDirs \cup {Gone}) = {}

\* Names in the parent; the worker's two names, and what they are quarantined as.
Quarantine(n) == <<"quarantine", n>>
ParentNames == OwnDirs \cup {Quarantine(n) : n \in OwnDirs}

VARIABLES
  xName,    \* [ParentNames -> inode, or Gone]
  xDest,    \* [XArchives -> inode of the container named by that tree's digest, or Gone]
  xTree,    \* [inode -> set of the paths it holds]
  xPayload, \* [inode -> inode renamed to its payload directory, or Gone]
  xMarker,  \* [inode -> TRUE when the completion marker of its digest is in it]
  xPc, xArch, xNext, xBytes,  \* per worker: step, archive, next entry, bytes expanded
  xOk, xSafe,                 \* per worker: published, payload_verified or not installed
  xCrashes

xDirs == <<xName, xDest, xTree, xPayload, xMarker>>
xWork == <<xArch, xNext, xBytes>>
xVars == <<xDirs, xPc, xWork, xOk, xSafe, xCrashes>>

Inodes == OwnDirs \cup XForeign
Paths(a) == {XEntries[a][k].path : k \in DOMAIN XEntries[a]}
FirstPath(S) == CHOOSE a \in S : TRUE

ArchiveInit ==
  /\ xName = [n \in ParentNames |-> Gone] /\ xDest = [a \in XArchives |-> Gone]
  /\ xTree = [i \in Inodes |-> IF i \in XForeign THEN {"theirs"} ELSE {}]
  /\ xPayload = [i \in Inodes |-> Gone] /\ xMarker = [i \in Inodes |-> FALSE]
  /\ xPc = [w \in XWorkers |-> "idle"]
  /\ xArch = [w \in XWorkers |-> FirstPath(XArchives)]
  /\ xNext = [w \in XWorkers |-> 1] /\ xBytes = [w \in XWorkers |-> 0]
  /\ xOk = [w \in XWorkers |-> FALSE] /\ xSafe = [w \in XWorkers |-> TRUE]
  /\ xCrashes = 0

XGoto(w, pc) == xPc' = [xPc EXCEPT ![w] = pc]

\* is_complete_archive_container: right name, and a marker that says so.
CompleteContainer(a) == xDest[a] # Gone /\ xMarker[xDest[a]]

\* list_importable_files: complete containers hide everything else.
ListedFor == LET done == {a \in XArchives : CompleteContainer(a)}
          IN IF done = {} THEN XArchives ELSE {}

\* classify_archive: zip, tar, gzip and bzip2 are extracted, the others skipped.
Retained(a) == a \in XRetained

NewStaging(w) == xName' = [xName EXCEPT ![Staging(w)] = Staging(w)]

\* extract_archives: each listed archive of a retained format in turn.
StartExtract(w, a) ==
  /\ xPc[w] = "idle" /\ a \in ListedFor /\ Retained(a)
  /\ XGoto(w, "extract") /\ xArch' = [xArch EXCEPT ![w] = a]
  /\ NewStaging(w)
  /\ UNCHANGED <<xDest, xTree, xPayload, xMarker, xNext, xBytes, xOk, xSafe, xCrashes>>

\* register, _enforce_limits and consume, before the entry is written.
EntryAllowed(w) ==
  LET es == XEntries[xArch[w]] e == es[xNext[w]] IN
  /\ xNext[w] <= MaxEntries
  /\ \A k \in 1..(xNext[w] - 1) : es[k].path # e.path
  /\ xBytes[w] + e.size <= MaxBytes

ExtractEntry(w) ==
  /\ xPc[w] = "extract" /\ xNext[w] \in DOMAIN XEntries[xArch[w]] /\ EntryAllowed(w)
  /\ LET e == XEntries[xArch[w]][xNext[w]] IN
       /\ xTree' = [xTree EXCEPT ![Staging(w)] = @ \cup {e.path}]
       /\ xBytes' = [xBytes EXCEPT ![w] = @ + e.size]
  /\ xNext' = [xNext EXCEPT ![w] = @ + 1]
  /\ UNCHANGED <<xName, xDest, xPayload, xMarker, xPc, xArch, xOk, xSafe, xCrashes>>

\* A refused entry, a malformed archive, a full disk.
ExtractFails(w) ==
  /\ xPc[w] = "extract" /\ XGoto(w, "clean staging")
  /\ UNCHANGED <<xDirs, xWork, xOk, xSafe, xCrashes>>

\* collect_validated_regular_files, then the private container is made.
MakePrivate(w) ==
  /\ xPc[w] = "extract" /\ xNext[w] \notin DOMAIN XEntries[xArch[w]]
  /\ XGoto(w, "install") /\ xName' = [xName EXCEPT ![Private(w)] = Private(w)]
  /\ UNCHANGED <<xDest, xTree, xPayload, xMarker, xWork, xOk, xSafe, xCrashes>>

\* _assert_staging_identity
CheckStaging(w) ==
  /\ xPc[w] = "install"
  /\ XGoto(w, IF xName[Staging(w)] = Staging(w) THEN "rename" ELSE "clean private")
  /\ UNCHANGED <<xDirs, xWork, xOk, xSafe, xCrashes>>

\* The rename takes whatever bears the name by now.
InstallPayload(w) ==
  /\ xPc[w] = "rename"
  /\ xPayload' = [xPayload EXCEPT ![Private(w)] = xName[Staging(w)]]
  /\ xName' = [xName EXCEPT ![Staging(w)] = Gone]
  /\ xSafe' = [xSafe EXCEPT ![w] = FALSE]
  /\ XGoto(w, "verify")
  /\ UNCHANGED <<xDest, xTree, xMarker, xWork, xOk, xCrashes>>

\* _verify_installed_payload_identity, modes, canonical_tree_digest.
VerifyPayload(w) ==
  LET own == xPayload[Private(w)] = Staging(w) IN
  /\ xPc[w] = "verify"
  /\ xSafe' = [xSafe EXCEPT ![w] = own]
  /\ XGoto(w, IF own THEN "mark" ELSE "clean private")
  /\ UNCHANGED <<xDirs, xWork, xOk, xCrashes>>

MarkComplete(w) ==
  /\ xPc[w] = "mark" /\ XGoto(w, "publish")
  /\ xMarker' = [xMarker EXCEPT ![Private(w)] = TRUE]
  /\ UNCHANGED <<xName, xDest, xTree, xPayload, xWork, xOk, xSafe, xCrashes>>

\* Takes an existing container of the name for the same content.
MatchesByName(i) == TRUE

\* _published_container_matches: a payload directory, and the marker of the digest.
Matches(i) == xPayload[i] # Gone /\ xMarker[i]

Renamed(w) ==
  /\ xDest' = [xDest EXCEPT ![xArch[w]] = Private(w)]
  /\ xName' = [xName EXCEPT ![Private(w)] = Gone]
  /\ xOk' = [xOk EXCEPT ![w] = TRUE]
  /\ XGoto(w, "done")

\* Another container has the name: the same content, or a collision.
AlreadyThere(w) ==
  /\ xOk' = [xOk EXCEPT ![w] = Matches(xDest[xArch[w]])]
  /\ XGoto(w, "clean private")
  /\ UNCHANGED <<xName, xDest>>

\* atomic_rename_noreplace
Publish(w) ==
  /\ xPc[w] = "publish"
  /\ IF xDest[xArch[w]] = Gone THEN Renamed(w) ELSE AlreadyThere(w)
  /\ UNCHANGED <<xTree, xPayload, xMarker, xWork, xSafe, xCrashes>>

(***************************************************************************)
(* quarantine_owned_directory: check the inode behind the name, rename it, *)
(* check it again, and only then delete.                                   *)
(***************************************************************************)
Cleaning(w) == IF xPc[w] \in {"clean private", "move private", "drop private"}
               THEN Private(w) ELSE Staging(w)

AfterCleaning(w) ==
  IF Cleaning(w) = Private(w) /\ ~xOk[w] THEN "clean staging" ELSE "done"

QuarantineCheck(w) ==
  /\ xPc[w] \in {"clean private", "clean staging"}
  /\ XGoto(w, IF xName[Cleaning(w)] # Cleaning(w) THEN AfterCleaning(w)
              ELSE IF xPc[w] = "clean private" THEN "move private" ELSE "move staging")
  /\ UNCHANGED <<xDirs, xWork, xOk, xSafe, xCrashes>>

QuarantineMove(w) ==
  LET d == Cleaning(w) IN
  /\ xPc[w] \in {"move private", "move staging"}
  /\ xName' = [xName EXCEPT ![d] = Gone, ![Quarantine(d)] = xName[d]]
  /\ XGoto(w, IF xPc[w] = "move private" THEN "drop private" ELSE "drop staging")
  /\ UNCHANGED <<xDest, xTree, xPayload, xMarker, xWork, xOk, xSafe, xCrashes>>

\* What _rmtree_at_fd empties: the directory and the payload in it.
EmptiedDir(d) == {d} \cup ({xPayload[d]} \ {Gone})

AllowRecursive(w) == Cleaning(w) = Staging(w) \/ xSafe[w]

OwnInode(w, i) == i = Cleaning(w)

QuarantineDrop(w) ==
  LET i == xName[Quarantine(Cleaning(w))] IN
  /\ xPc[w] \in {"drop private", "drop staging"}
  /\ xTree' = IF OwnInode(w, i) /\ AllowRecursive(w)
              THEN [j \in Inodes |-> IF j \in EmptiedDir(i) THEN {} ELSE xTree[j]] ELSE xTree
  /\ XGoto(w, AfterCleaning(w))
  /\ UNCHANGED <<xName, xDest, xPayload, xMarker, xWork, xOk, xSafe, xCrashes>>

(***************************************************************************)
(* The environment: a crash leaves everything where it is; another process *)
(* replaces the directory behind a name, or leaves a container of its own  *)
(* under a digest's name.                                                  *)
(***************************************************************************)
XCrash(w) ==
  /\ xPc[w] \notin {"idle", "done", "crashed"} /\ xCrashes < MaxXCrashes
  /\ xCrashes' = xCrashes + 1 /\ XGoto(w, "crashed")
  /\ UNCHANGED <<xDirs, xWork, xOk, xSafe>>

Unused(f) == /\ \A n \in ParentNames : xName[n] # f
             /\ \A a \in XArchives : xDest[a] # f
             /\ \A i \in Inodes : xPayload[i] # f

Replace(n, f) ==
  /\ n \in OwnDirs /\ xName[n] = n /\ Unused(f)
  /\ xName' = [xName EXCEPT ![n] = f]
  /\ UNCHANGED <<xDest, xTree, xPayload, xMarker, xPc, xWork, xOk, xSafe, xCrashes>>

Clutter(a, f) ==
  /\ xDest[a] = Gone /\ Unused(f) /\ xDest' = [xDest EXCEPT ![a] = f]
  /\ UNCHANGED <<xName, xTree, xPayload, xMarker, xPc, xWork, xOk, xSafe, xCrashes>>

WorkerStep(w) ==
  \/ ExtractEntry(w) \/ ExtractFails(w) \/ MakePrivate(w) \/ CheckStaging(w)
  \/ InstallPayload(w) \/ VerifyPayload(w) \/ MarkComplete(w) \/ Publish(w)
  \/ QuarantineCheck(w) \/ QuarantineMove(w) \/ QuarantineDrop(w)

ArchiveNext ==
  \/ \E w \in XWorkers : WorkerStep(w) \/ XCrash(w) \/ \E a \in XArchives : StartExtract(w, a)
  \/ \E f \in XForeign : (\E n \in OwnDirs : Replace(n, f)) \/ \E a \in XArchives : Clutter(a, f)

ArchiveSpec == ArchiveInit /\ [][ArchiveNext]_xVars /\ \A w \in XWorkers : WF_xVars(WorkerStep(w))

ArchiveTypeOK ==
  /\ xName \in [ParentNames -> Inodes \cup {Gone}] /\ xDest \in [XArchives -> Inodes \cup {Gone}]
  /\ xPayload \in [Inodes -> Inodes \cup {Gone}] /\ xMarker \in [Inodes -> BOOLEAN]
  /\ xArch \in [XWorkers -> XArchives] /\ xBytes \in [XWorkers -> Nat]
  /\ xOk \in [XWorkers -> BOOLEAN] /\ xSafe \in [XWorkers -> BOOLEAN] /\ xCrashes \in 0..MaxXCrashes

Whole(a) == /\ CompleteContainer(a) /\ xPayload[xDest[a]] # Gone
            /\ xTree[xPayload[xDest[a]]] = Paths(a)

ContentWhole ==
  /\ \A a \in XArchives : CompleteContainer(a) => Whole(a)
  /\ \A w \in XWorkers : xOk[w] => Whole(xArch[w]) /\ xBytes[w] <= MaxBytes

\* Cleaning up never deletes what is not the worker's own, though another process may
\* replace the directory between the check of its inode and the rename.
ForeignKept == \A f \in XForeign : xTree[f] = {"theirs"}

\* An extraction that failed leaves no content: what remains under its names is empty
\* or foreign.
NothingLeft ==
  \A w \in XWorkers : xPc[w] = "done" =>
    \A n \in {Quarantine(Staging(w)), Staging(w)} :
      xName[n] = Gone \/ xName[n] \in XForeign \/ xTree[xName[n]] = {}

(***************************************************************************)
(* A reader of the destination, at any moment and after any crash, sees a  *)
(* complete tree: a container that passes for complete holds every entry   *)
(* of its archive, within the limits, and a worker that reported success   *)
(* left one; and what fails cleans up after itself and after nobody else.  *)
(***************************************************************************)
PublishedWhole == ContentWhole /\ ForeignKept /\ NothingLeft

(***************************************************************************)
(* Importing a directory extracts its archives first: an archive of a      *)
(* supported format that a failed or crashed extraction left behind is     *)
(* still listed for the next import.                                       *)
(***************************************************************************)
FailedIsListed ==
  \A a \in XRetained : (\A w \in XWorkers : xPc[w] \in {"idle", "done", "crashed"}) =>
    CompleteContainer(a) \/ a \in ListedFor
==============================================================================
