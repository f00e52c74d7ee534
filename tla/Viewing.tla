------------------------------ MODULE Viewing ------------------------------
(***************************************************************************)
(* What one user has watched: the playback progress of a file, the watch   *)
(* state of a movie or an episode (derived from progress, or set by hand), *)
(* and a custom list from which watched titles are removed.                *)
(*                                                                         *)
(* Title 0 is a movie; titles 1..VEps are the episodes of one show in the  *)
(* order of season and number, the first VSpecials of them specials.  A    *)
(* larger file number means a later import.  Requests of several devices   *)
(* interleave between their reads, their transaction and what follows it;  *)
(* rows written in a transaction are locked until it ends.                 *)
(***************************************************************************)
EXTENDS Integers, FiniteSets, Sequences, SequencesExt

CONSTANTS VDevices,    \* devices of the user
          VEps,        \* number of episodes
          VSpecials,   \* how many of them are specials
          VSkipped,    \* episodes marked skipped
          VFileOf,     \* the title of each imported file, a sequence
          VMaxItems,   \* max_items_per_list
          VMaxPos,     \* bound on the positions of list items
          VMaxReqs     \* bound on requests

ASSUME ViewingAssumption ==
  /\ VEps \in Nat /\ VSpecials \in 0..VEps /\ VSkipped \subseteq 1..VEps
  /\ VFileOf \in Seq(0..VEps) /\ "unlocked" \notin VDevices
  /\ VMaxItems \in Nat /\ VMaxPos \in Nat /\ VMaxReqs \in Nat

VARIABLES vProg,    \* playback_progress per file: "none", "part" or "done"
          vLast,    \* the files with progress, last updated last
          vWatch,   \* media_watch_state per title: "none", "derived", "seen", "unseen"
          vPos,     \* position of a title or of the show in the list, Off when absent
          vLock,    \* device that holds the row lock of the list
          vReq,     \* the request of each device
          vReqs     \* number of requests made

vVars == <<vProg, vLast, vWatch, vPos, vLock, vReq, vReqs>>
viewVars == <<vProg, vLast, vWatch>>

VTitles == 0..VEps
VShow == VEps + 1                        \* the show itself as an item of the list
VItems == VTitles \cup {VShow}
VFiles == 1..Len(VFileOf)
FilesOf(m) == {f \in VFiles : VFileOf[f] = m}
Off == -1
RowsUnlocked == "unlocked"
Manual == {"seen", "unseen"}
NoReq == [pc |-> "idle", file |-> 0, val |-> "none", was |-> "none", plan |-> "keep",
          media |-> {}, pos |-> {}, order |-> <<>>]
InList == {i \in VItems : vPos[i] # Off}
LastPos == CHOOSE q \in {vPos[i] : i \in VItems} : \A i \in VItems : vPos[i] <= q

\* Progress, watch states and list positions; a file has one progress row (playback/repository.py).
ViewingTypeOK ==
  /\ vProg \in [VFiles -> {"none", "part", "done"}]
  /\ ToSet(vLast) = {f \in VFiles : vProg[f] # "none"} /\ IsInjective(vLast)
  /\ vWatch \in [VTitles -> {"none", "derived"} \cup Manual]
  /\ vPos \in [VItems -> Off..VMaxPos]
  /\ vLock \in VDevices \cup {RowsUnlocked}
  /\ \A d \in VDevices : vReq[d].pc \in {"idle", "write", "commit", "remove", "add", "spread"}
  /\ vReqs \in 0..VMaxReqs

ViewingInit ==
  /\ vProg = [f \in VFiles |-> "none"] /\ vLast = <<>>
  /\ vWatch = [m \in VTitles |-> "none"] /\ vPos = [i \in VItems |-> Off]
  /\ vLock = RowsUnlocked /\ vReq = [d \in VDevices |-> NoReq] /\ vReqs = 0

NewRequest(d) == vReq[d] = NoReq /\ vReqs < VMaxReqs /\ vReqs' = vReqs + 1
Become(d, r) == vReq' = [vReq EXCEPT ![d] = r]
RowLocked(f) == \E d \in VDevices : vReq[d].pc = "commit" /\ vReq[d].file = f

(***************************************************************************)
(* The queries.                                                            *)
(***************************************************************************)
HasCompleted(m, prog) == \E f \in FilesOf(m) : prog[f] = "done"

Watched(m) == vWatch[m] = "seen" \/ (vWatch[m] # "unseen" /\ HasCompleted(m, vProg))

\* The unfinished files; the query returns them with the last updated first.
ListContinue == {f \in ToSet(vLast) : vProg[f] = "part"}

Recency(f) == IF vProg[f] = "part" THEN CHOOSE i \in 1..Len(vLast) : vLast[i] = f ELSE 0
PickFile(m) == CHOOSE f \in FilesOf(m) : \A g \in FilesOf(m) :
                  Recency(f) > Recency(g) \/ (Recency(f) = Recency(g) /\ f >= g)

\* The show is active when one of its episodes has a watch state or progress.
ShowActivity(specials) ==
  \E m \in 1..VEps : /\ specials \/ m > VSpecials
                     /\ vWatch[m] # "none" \/ \E f \in FilesOf(m) : vProg[f] # "none"

Candidates(specials) == {m \in 1..VEps : /\ FilesOf(m) # {} /\ ~Watched(m) /\ m \notin VSkipped
                                         /\ specials \/ m > VSpecials}
FirstEp(S) == CHOOSE m \in S : \A n \in S : m <= n

UpNext(specials) == IF ShowActivity(specials) /\ Candidates(specials) # {}
                    THEN {<<FirstEp(Candidates(specials)), PickFile(FirstEp(Candidates(specials)))>>} ELSE {}

HasImported == \E m \in (VSpecials + 1)..VEps : FilesOf(m) # {} /\ m \notin VSkipped

\* What the list shows for the show: its next episode, or why there is none.
ShowItem == IF Candidates(FALSE) # {} THEN <<"next", FirstEp(Candidates(FALSE))>>
            ELSE IF HasImported THEN <<"all_available_episodes_watched", 0>>
            ELSE <<"no_downloaded_episode_available", 0>>

(***************************************************************************)
(* Progress.  A report below the noise floor changes nothing, and one that *)
(* repeats the last within the coalescing window may be dropped.           *)
(***************************************************************************)
UpsertProgress(d, f, val) ==
  /\ NewRequest(d) /\ val \in {"part", "done"}
  /\ \/ Become(d, [NoReq EXCEPT !.pc = "write", !.file = f, !.val = val, !.was = vProg[f]])
     \/ vProg[f] = val /\ Become(d, NoReq)
  /\ UNCHANGED <<viewVars, vPos, vLock>>

DeleteProgress(d, f) ==
  /\ NewRequest(d)
  /\ Become(d, [NoReq EXCEPT !.pc = "write", !.file = f, !.was = vProg[f]])
  /\ UNCHANGED <<viewVars, vPos, vLock>>

\* _sync_derived_watch_state up to its write: what it has read decides it.
SyncPlan(m, val, was, prog) ==
  IF vWatch[m] \in Manual \/ (val = "none" /\ was = "none") THEN "keep"
  ELSE IF HasCompleted(m, prog) THEN "derive" ELSE "delete"

StageProgress(d) ==
  LET r == vReq[d] IN
  /\ r.pc = "write" /\ ~RowLocked(r.file)
  /\ Become(d, [r EXCEPT !.pc = "commit",
        !.plan = SyncPlan(VFileOf[r.file], r.val, r.was, [vProg EXCEPT ![r.file] = r.val])])
  /\ UNCHANGED <<viewVars, vPos, vLock, vReqs>>

SyncDerivedUnguarded(m, plan) ==
  vWatch' = [vWatch EXCEPT ![m] = CASE plan = "derive" -> "derived"
                                    [] plan = "delete" -> "none"
                                    [] OTHER -> @]

\* The write itself only touches a row that is still derived.
SyncDerived(m, plan) ==
  vWatch' = [vWatch EXCEPT ![m] = CASE plan = "derive" /\ @ \notin Manual -> "derived"
                                    [] plan = "delete" /\ @ = "derived" -> "none"
                                    [] OTHER -> @]

WithoutFile(last, file) == RemoveFirst(last, file)

\* Inserts a row beside the one there is.
RecordedTwice(last, file, val) == IF val = "none" THEN WithoutFile(last, file) ELSE Append(last, file)

\* The upsert of a file's progress makes it the last updated, the deletion drops it.
Recorded(last, file, val) ==
  IF val = "none" THEN WithoutFile(last, file) ELSE Append(WithoutFile(last, file), file)

CommitProgress(d) ==
  LET r == vReq[d]
      m == VFileOf[r.file] IN
  /\ r.pc = "commit"
  /\ vProg' = [vProg EXCEPT ![r.file] = r.val]
  /\ vLast' = Recorded(vLast, r.file, r.val)
  /\ SyncDerived(m, r.plan)
  /\ Become(d, IF r.val = "done" /\ r.was # "done"
               THEN [NoReq EXCEPT !.pc = "remove", !.media = {m}] ELSE NoReq)
  /\ UNCHANGED <<vPos, vLock, vReqs>>

DeleteAllProgress(d) ==
  /\ NewRequest(d) /\ \A f \in VFiles : ~RowLocked(f)
  /\ vProg' = [f \in VFiles |-> "none"] /\ vLast' = <<>>
  /\ UNCHANGED <<vWatch, vPos, vLock, vReq>>

DeleteAllViewingState(d) ==
  /\ NewRequest(d) /\ \A f \in VFiles : ~RowLocked(f)
  /\ vProg' = [f \in VFiles |-> "none"] /\ vLast' = <<>> /\ vWatch' = [m \in VTitles |-> "none"]
  /\ UNCHANGED <<vPos, vLock, vReq>>

(***************************************************************************)
(* The watch state set by hand.                                            *)
(***************************************************************************)
SetManual(d, titles, items, seen) ==
  /\ NewRequest(d)
  /\ vWatch' = [m \in VTitles |-> IF m \in titles THEN IF seen THEN "seen" ELSE "unseen" ELSE vWatch[m]]
  /\ Become(d, IF seen THEN [NoReq EXCEPT !.pc = "remove", !.media = items] ELSE NoReq)
  /\ UNCHANGED <<vProg, vLast, vPos, vLock>>

SetWatched(d, m, seen) == SetManual(d, {m}, {m}, seen)

\* Season 0 holds the specials: it is marked only when they are asked for.
SetSeasonWatched(d, seen, specials) ==
  LET eps == IF specials THEN 1..VSpecials ELSE (VSpecials + 1)..VEps IN SetManual(d, eps, eps, seen)

SetShowWatched(d, seen, specials) ==
  LET eps == IF specials THEN 1..VEps ELSE (VSpecials + 1)..VEps
  IN SetManual(d, eps, eps \cup {VShow}, seen)

ClearWatchedOverride(d, m) ==
  /\ NewRequest(d) /\ vWatch[m] \in Manual
  /\ vWatch' = [vWatch EXCEPT ![m] = "none"]
  /\ UNCHANGED <<vProg, vLast, vPos, vLock, vReq>>

\* auto_remove_watched_from_lists, a transaction of its own.
AutoRemoveWatched(d) ==
  /\ vReq[d].pc = "remove"
  /\ vPos' = [i \in VItems |-> IF i \in vReq[d].media THEN Off ELSE vPos[i]]
  /\ Become(d, NoReq)
  /\ UNCHANGED <<viewVars, vLock, vReqs>>

(***************************************************************************)
(* The list.  Adding and reordering lock its row; removing does not.       *)
(***************************************************************************)
ListLockFree == vLock = RowsUnlocked

NextPosition == LastPos + 1

AddItem(d, i) ==
  /\ NewRequest(d) /\ ListLockFree
  /\ i \notin InList /\ Cardinality(InList) < VMaxItems /\ NextPosition <= VMaxPos
  /\ vLock' = d
  /\ Become(d, [NoReq EXCEPT !.pc = "add", !.media = {i}, !.pos = {NextPosition}])
  /\ UNCHANGED <<viewVars, vPos>>

\* A clash with a unique index rolls the insertion back.
AddCommit(d) ==
  LET r == vReq[d] IN
  /\ r.pc = "add"
  /\ vPos' = [i \in VItems |-> IF i \in r.media /\ vPos[i] = Off /\ \A j \in VItems : vPos[j] \notin r.pos
                               THEN CHOOSE q \in r.pos : TRUE ELSE vPos[i]]
  /\ vLock' = RowsUnlocked /\ Become(d, NoReq)
  /\ UNCHANGED <<viewVars, vReqs>>

ReorderOffset == LastPos + 1

\* Every item is first moved past all positions in use, then to its place.
ReorderItems(d, order) ==
  /\ NewRequest(d) /\ ListLockFree /\ Len(order) > 0 /\ ToSet(order) = InList
  /\ vLock' = d
  /\ Become(d, [NoReq EXCEPT !.pc = "spread", !.order = order,
                !.pos = {n - 1 + ReorderOffset : n \in 1..Len(order)}])
  /\ UNCHANGED <<viewVars, vPos>>

ReorderCommit(d) ==
  LET r == vReq[d] IN
  /\ r.pc = "spread"
  /\ vPos' = [i \in VItems |-> IF vPos[i] # Off /\ i \in ToSet(r.order)
                               THEN (CHOOSE n \in 1..Len(r.order) : r.order[n] = i) - 1 ELSE vPos[i]]
  /\ vLock' = RowsUnlocked /\ Become(d, NoReq)
  /\ UNCHANGED <<viewVars, vReqs>>

RemoveItem(d, i) ==
  /\ NewRequest(d) /\ i \in InList
  /\ vPos' = [vPos EXCEPT ![i] = Off]
  /\ UNCHANGED <<viewVars, vLock, vReq>>

DeleteWatchlist(d) ==
  /\ NewRequest(d) /\ ListLockFree /\ InList # {}
  /\ vPos' = [i \in VItems |-> Off]
  /\ UNCHANGED <<viewVars, vLock, vReq>>

\* A request dies with its connection; its transaction is rolled back.
RequestDies(d) ==
  /\ vReq[d] # NoReq
  /\ Become(d, NoReq)
  /\ vLock' = IF vLock = d THEN RowsUnlocked ELSE vLock
  /\ UNCHANGED <<viewVars, vPos, vReqs>>

ViewingNext == \E d \in VDevices :
  \/ \E f \in VFiles : DeleteProgress(d, f) \/ \E val \in {"part", "done"} : UpsertProgress(d, f, val)
  \/ StageProgress(d) \/ CommitProgress(d) \/ AutoRemoveWatched(d)
  \/ DeleteAllProgress(d) \/ DeleteAllViewingState(d)
  \/ \E seen \in BOOLEAN : \/ \E s \in BOOLEAN : SetSeasonWatched(d, seen, s) \/ SetShowWatched(d, seen, s)
                           \/ \E m \in VTitles : SetWatched(d, m, seen)
  \/ \E m \in VTitles : ClearWatchedOverride(d, m)
  \/ \E i \in VItems : AddItem(d, i) \/ RemoveItem(d, i)
  \/ \E order \in SetToSeqs(InList) : ReorderItems(d, order)
  \/ AddCommit(d) \/ ReorderCommit(d) \/ DeleteWatchlist(d) \/ RequestDies(d)

ViewingSpec == ViewingInit /\ [][ViewingNext]_vVars

(***************************************************************************)
(* Properties.                                                             *)
(***************************************************************************)

\* Adding and reordering never clash with the unique index on positions, and the list
\* stays within its limit, whatever is removed in between.
ListSound ==
  /\ \A d \in VDevices, i \in VItems : vReq[d].pc \in {"add", "spread"} => vPos[i] \notin vReq[d].pos
  /\ Cardinality(InList) <= VMaxItems

\* The two queries for the next episode agree, they never offer an episode that counts as
\* watched, and a file with unfinished progress is the one that is resumed.
PickersAgree ==
  /\ \A s \in BOOLEAN : \A u \in UpNext(s) :
        /\ ~Watched(u[1]) /\ (s \/ ShowItem = <<"next", u[1]>>)
        /\ (\E f \in FilesOf(u[1]) : vProg[f] = "part") => u[2] \in ListContinue
  /\ ShowItem[1] = "next" /\ ShowActivity(FALSE) => UpNext(FALSE) # {}

\* What the user has set by hand stands: a progress report whose transaction overlaps
\* the user's decision never overwrites it; and whatever the devices' requests do to one
\* another, the list stays sound and the two pickers agree.
ManualStands ==
  [][/\ \A d \in VDevices : CommitProgress(d) =>
          \A m \in VTitles : vWatch[m] \in Manual => vWatch'[m] = vWatch[m]
     /\ ListSound' /\ PickersAgree']_vVars
=============================================================================
