------------------------------ MODULE Integrity ------------------------------
(***************************************************************************)
(* The integrity audit: a scheduled sweep that hashes every imported file  *)
(* outside any transaction and then baselines the row or stamps a          *)
(* mismatch on it, if the row still is what it was before the hashing; and *)
(* the user who re-baselines or dismisses mismatches meanwhile.            *)
(***************************************************************************)
EXTENDS Naturals, FiniteSets, FiniteSetsExt

CONSTANTS NFiles,      \* file rows, in the order of their ids
          EpFiles,     \* the rows of episode_file; the others are of movie_file
          AuditChunk,  \* INTEGRITY_AUDIT_CHUNK_SIZE
          ListLimit,   \* the page size the client asks for (INTEGRITY_MISMATCH_DEFAULT_LIMIT)
          MaxAlters,   \* bound on imports, deletions and alterations of files and user actions
          MaxActions   \* bound on the actions of the user among them

Files == 1..NFiles
Contents == 1..2
None == 0

ASSUME IntegrityAssumption ==
  /\ NFiles \in Nat \ {0} /\ EpFiles \subseteq Files /\ AuditChunk \in Nat \ {0}
  /\ ListLimit \in Nat \ {0} /\ MaxAlters \in Nat /\ MaxActions \in Nat

VARIABLES
  iRow,     \* [Files -> [in, sha, err]]: imported?, sha1, the hash import_error complains of
  iDisk,    \* [Files -> content on disk, or None]
  iPhase,   \* of verify_imported_files: idle, episodes or movies
  iMaxId, iBudget,  \* per phase, read when the audit starts
  iCursor,  \* last_episode_id, last_movie_id
  iStep,    \* of a chunk: read, hash or apply
  iChunk,   \* the chunk's snapshots [id, sha, err, got]
  iUser,    \* the row read by the user's request: {} or {[id, sha, err, reset]}
  iList,    \* a client's walk through the mismatches [at, off, keys, total, seen, want];
            \* want is history: what was flagged when it began, {} once a flag went away
  iActed,   \* history: files the user has acted on since the chunk was read
  iAlters, iActions

iAudit == <<iPhase, iMaxId, iBudget, iCursor, iStep, iChunk>>
iVars == <<iRow, iDisk, iAudit, iUser, iList, iActed, iAlters, iActions>>

Phases == {"episodes", "movies"}
OfPhase(ph) == IF ph = "episodes" THEN EpFiles ELSE Files \ EpFiles
ImportedRows(ph) == {f \in OfPhase(ph) : iRow[f].in}

Absent == [in |-> FALSE, sha |-> None, err |-> None]

NoWalk == [at |-> "idle", off |-> 0, keys |-> {}, total |-> 0, seen |-> {}, want |-> {}]

IntegrityInit ==
  /\ iRow = [f \in Files |-> [Absent EXCEPT !.in = TRUE]]
  /\ iDisk = [f \in Files |-> 1]
  /\ iPhase = "idle" /\ iStep = "read" /\ iCursor = 0 /\ iChunk = {}
  /\ iMaxId = [ph \in Phases |-> 0] /\ iBudget = [ph \in Phases |-> 0]
  /\ iUser = {} /\ iList = NoWalk /\ iActed = {} /\ iAlters = 0 /\ iActions = 0

Bounded == iAlters + iActions < MaxAlters

\* Resolving the path of a row and reading its bytes: None if there is no file.
Resolved(f) == iDisk[f] # None
ComputeSha1(f) == iDisk[f]

(***************************************************************************)
(* The audit.                                                              *)
(***************************************************************************)
\* One audit at a time: an overlapping tick finds the lock taken and returns.
AuditStart ==
  /\ iPhase = "idle" /\ iPhase' = "episodes"
  /\ iMaxId' = [ph \in Phases |-> Max(ImportedRows(ph) \cup {0})]
  /\ iBudget' = [ph \in Phases |-> Cardinality(ImportedRows(ph))]
  /\ iCursor' = 0 /\ iStep' = "read" /\ iChunk' = {}
  /\ UNCHANGED <<iRow, iDisk, iUser, iList, iActed, iAlters, iActions>>

\* ORDER BY id DESC: the cursor jumps over what it has not seen.
LargestOf(S, n) == {f \in S : Cardinality({g \in S : g >= f}) <= n}

SmallestOf(S, n) == {f \in S : Cardinality({g \in S : g <= f}) <= n}

RowSnapshot(f) == [id |-> f, sha |-> iRow[f].sha, err |-> iRow[f].err, got |-> None]

\* The rows after the cursor, up to what the budget still allows.
ReadChunk(ph) ==
  LET left == {f \in ImportedRows(ph) : f > iCursor /\ f <= iMaxId[ph]}
      limit == IF iBudget[ph] < AuditChunk THEN iBudget[ph] ELSE AuditChunk
      rows == SmallestOf(left, limit)
  IN /\ iPhase = ph /\ iStep = "read" /\ rows # {}
     /\ iChunk' = {RowSnapshot(f) : f \in rows}
     /\ iCursor' = Max(rows)
     /\ iBudget' = [iBudget EXCEPT ![ph] = @ - Cardinality(rows)]
     /\ iStep' = "hash" /\ iActed' = {}
     /\ UNCHANGED <<iRow, iDisk, iPhase, iMaxId, iUser, iList, iAlters, iActions>>

EpisodeChunk == ReadChunk("episodes")
MovieChunk == ReadChunk("movies")

\* A file that cannot be found or read leaves the chunk.
Hash(s) ==
  /\ iStep = "hash" /\ s \in iChunk /\ s.got = None
  /\ iChunk' = (iChunk \ {s}) \cup
       (IF Resolved(s.id) THEN {[s EXCEPT !.got = ComputeSha1(s.id)]} ELSE {})
  /\ UNCHANGED <<iRow, iDisk, iPhase, iMaxId, iBudget, iCursor, iStep, iUser, iList, iActed,
                 iAlters, iActions>>

\* Compares the hash alone, not the error the snapshot saw.
ShaCurrent(s) == iRow[s.id].in /\ iRow[s.id].sha = s.sha

\* integrity_audit_snapshot_where
Current(s) == iRow[s.id].in /\ iRow[s.id].sha = s.sha /\ iRow[s.id].err = s.err

Audited(s) == IF s.sha = None
              THEN [iRow[s.id] EXCEPT !.sha = s.got]
              ELSE IF s.sha # s.got THEN [iRow[s.id] EXCEPT !.err = s.got] ELSE iRow[s.id]

Apply ==
  /\ iStep = "hash" /\ \A s \in iChunk : s.got # None
  /\ iRow' = [f \in Files |->
       IF \E s \in iChunk : s.id = f /\ Current(s)
       THEN Audited(CHOOSE s \in iChunk : s.id = f) ELSE iRow[f]]
  /\ iStep' = "read" /\ iChunk' = {}
  /\ UNCHANGED <<iDisk, iPhase, iMaxId, iBudget, iCursor, iUser, iList, iActed, iAlters, iActions>>

\* No budget or no row left: on to the movies, or done.
PhaseDone ==
  /\ iPhase # "idle" /\ iStep = "read"
  /\ \/ iBudget[iPhase] = 0
     \/ {f \in ImportedRows(iPhase) : f > iCursor /\ f <= iMaxId[iPhase]} = {}
  /\ iPhase' = IF iPhase = "episodes" THEN "movies" ELSE "idle"
  /\ iCursor' = 0
  /\ UNCHANGED <<iRow, iDisk, iMaxId, iBudget, iStep, iChunk, iUser, iList, iActed,
                 iAlters, iActions>>

(***************************************************************************)
(* The mismatch listing: the keys and the total of a page are one SQL      *)
(* snapshot, its rows a later read, and the client asks for the next page  *)
(* by offset.                                                              *)
(***************************************************************************)
Flagged == {f \in Files : iRow[f].in /\ iRow[f].err # None}

\* The walk is disturbed: what comes after a flag that is gone moves forward.
Unflagged == iList' = [iList EXCEPT !.want = {}]

\* Shows first, then movies, each by id.
Ahead(g, f) == \/ g \in EpFiles /\ f \notin EpFiles
               \/ (g \in EpFiles <=> f \in EpFiles) /\ g < f

PageKeys(off) ==
  {f \in Flagged : Cardinality({g \in Flagged : Ahead(g, f)}) \in off..off + ListLimit - 1}

ListMismatches ==
  /\ iList.at \in {"idle", "next"}
  /\ LET walk == IF iList.at = "idle" THEN [NoWalk EXCEPT !.want = Flagged] ELSE iList
     IN iList' = [walk EXCEPT !.at = "rows", !.keys = PageKeys(walk.off),
                              !.total = Cardinality(Flagged)]
  /\ UNCHANGED <<iRow, iDisk, iAudit, iUser, iActed, iAlters, iActions>>

\* The keys whose row still matches the predicate are answered; the path is resolved
\* with the session released.
AnswerPage ==
  LET rows == iList.keys \cap Flagged
      next == iList.off + Cardinality(iList.keys)
  IN /\ iList.at = "rows"
     /\ iList' = [iList EXCEPT
          !.at = IF iList.keys # {} /\ next < iList.total THEN "next" ELSE "end",
          !.off = next, !.keys = {}, !.seen = @ \cup {<<f, Resolved(f)>> : f \in rows}]
     /\ UNCHANGED <<iRow, iDisk, iAudit, iUser, iActed, iAlters, iActions>>

WalkEnds ==
  /\ iList.at = "end" /\ iList' = NoWalk
  /\ UNCHANGED <<iRow, iDisk, iAudit, iUser, iActed, iAlters, iActions>>

(***************************************************************************)
(* The user: rebaseline_file (reset) and dismiss_mismatch.                 *)
(***************************************************************************)
Rebaseline(f) ==
  /\ iUser = {} /\ iActions < MaxActions /\ Bounded /\ iRow[f].in /\ iRow[f].err # None
  /\ iUser' = {[id |-> f, sha |-> iRow[f].sha, err |-> iRow[f].err, reset |-> TRUE]}
  /\ iActions' = iActions + 1
  /\ UNCHANGED <<iRow, iDisk, iAudit, iList, iActed, iAlters>>

Dismiss(f) ==
  /\ iUser = {} /\ iActions < MaxActions /\ Bounded /\ iRow[f].in /\ iRow[f].err # None
  /\ iUser' = {[id |-> f, sha |-> iRow[f].sha, err |-> iRow[f].err, reset |-> FALSE]}
  /\ iActions' = iActions + 1
  /\ UNCHANGED <<iRow, iDisk, iAudit, iList, iActed, iAlters>>

\* clear_file_integrity_state; a row that changed since it was read is a conflict.
ClearState(u) ==
  /\ u \in iUser /\ iUser' = {}
  /\ IF Current(u)
     THEN /\ iRow' = [iRow EXCEPT ![u.id].err = None,
                                  ![u.id].sha = IF u.reset THEN None ELSE @]
          /\ iActed' = iActed \cup {u.id} /\ Unflagged
     ELSE UNCHANGED <<iRow, iActed, iList>>
  /\ UNCHANGED <<iDisk, iAudit, iAlters, iActions>>

(***************************************************************************)
(* The rest of the system and of the world.                                *)
(***************************************************************************)
AlterFile(f, c) ==
  /\ Bounded /\ iAlters' = iAlters + 1
  /\ c # iDisk[f] /\ iDisk' = [iDisk EXCEPT ![f] = c]
  /\ UNCHANGED <<iRow, iAudit, iUser, iList, iActed, iActions>>

\* A deletion takes the row along; a later import of the same file is a new row.
DeleteOrImport(f) ==
  /\ Bounded /\ iAlters' = iAlters + 1
  /\ iRow' = [iRow EXCEPT ![f] = IF @.in THEN Absent ELSE [Absent EXCEPT !.in = TRUE]]
  /\ iDisk' = [iDisk EXCEPT ![f] = IF iRow[f].in THEN None ELSE 1]
  /\ IF f \in Flagged THEN Unflagged ELSE UNCHANGED iList
  /\ UNCHANGED <<iAudit, iUser, iActed, iActions>>

AuditStep == \/ AuditStart \/ EpisodeChunk \/ MovieChunk \/ Apply \/ PhaseDone
             \/ \E s \in iChunk : Hash(s)

IntegrityNext ==
  \/ AuditStep \/ ListMismatches \/ AnswerPage \/ WalkEnds
  \/ \E f \in Files : Rebaseline(f) \/ Dismiss(f) \/ DeleteOrImport(f)
  \/ \E u \in iUser : ClearState(u)
  \/ \E f \in Files, c \in Contents \cup {None} : AlterFile(f, c)

\* The audit is scheduled for ever and runs to its end.
IntegritySpec == IntegrityInit /\ [][IntegrityNext]_iVars /\ WF_iVars(AuditStep)

\* The rows of the audit, its chunk and a walk through the listing (scheduler_tasks/integrity.py).
IntegrityTypeOK ==
  /\ iRow \in [Files -> [in : BOOLEAN, sha : Contents \cup {None}, err : Contents \cup {None}]]
  /\ iDisk \in [Files -> Contents \cup {None}]
  /\ iPhase \in Phases \cup {"idle"} /\ iStep \in {"read", "hash"}
  /\ iCursor \in 0..NFiles /\ iBudget \in [Phases -> 0..NFiles] /\ iMaxId \in [Phases -> 0..NFiles]
  /\ \A s \in iChunk : s.id \in Files /\ s.got \in Contents \cup {None}
  /\ iList.at \in {"idle", "rows", "next", "end"} /\ iList.off \in 0..NFiles
  /\ Cardinality(iUser) <= 1 /\ iActed \subseteq Files
  /\ iAlters \in 0..MaxAlters /\ iActions \in 0..MaxActions

(***************************************************************************)
(* A client that follows next_offset to the end sees every mismatch that   *)
(* was flagged when it began, if none was cleared on the way: new flags    *)
(* raised by a running audit repeat entries but hide none.                 *)
(***************************************************************************)
WalkSeesAll == iList.at = "end" => \A f \in iList.want : \E e \in iList.seen : e[1] = f

(***************************************************************************)
(* What the user decides stands against the audit that was hashing the     *)
(* file meanwhile: it never stamps or baselines a row the user has acted   *)
(* on since the audit read it; and meanwhile the listing loses nothing.    *)
(***************************************************************************)
UserActionStands ==
  [][/\ iStep = "hash" /\ iStep' = "read" => \A f \in iActed : iRow'[f] = iRow[f]
     /\ WalkSeesAll']_iVars

Unnoticed(f) == /\ iRow[f].in /\ iDisk[f] # None
                /\ iRow[f].sha = None \/ (iDisk[f] # iRow[f].sha /\ iRow[f].err = None)

(***************************************************************************)
(* No corruption goes unnoticed: whatever the chunking skips when rows     *)
(* come and go, every file on disk eventually has a baseline, and one      *)
(* whose bytes differ from it is eventually flagged.                       *)
(***************************************************************************)
CorruptionIsFlagged == \A f \in Files : []<>(~Unnoticed(f))
==============================================================================
