-------------------------------- MODULE Feeds --------------------------------
(***************************************************************************)
(* The observe-only release feeds.  Pollers (runs of the scheduled task,   *)
(* in any worker process) claim one feed source at a time under a lease,   *)
(* fetch its page without a transaction, and record what they saw in a     *)
(* second transaction that starts by renewing the lease.                   *)
(*                                                                         *)
(* A row lock of feed_source is kept from the first update of a            *)
(* transaction to its commit; an update of a locked row waits.             *)
(***************************************************************************)
EXTENDS Naturals, Sequences, FiniteSets, FiniteSetsExt, SequencesExt

CONSTANTS Pollers,      \* concurrent runs of observe_release_feeds
          FSources,     \* rows of feed_source
          FItems,       \* items of the pages
          FDate,        \* [FItems -> 0..FLastDate]: pub_date, 0 when there is none
          FLastDate,    \* datetime.max
          FCutoff,      \* the retention floor of _maxage_cutoffs
          FMedia,       \* movies and shows of the library
          FHits,        \* [FItems -> SUBSET FMedia]: what ids or title match
          FDenied,      \* items on the deny list
          MaxCrashes,   \* bound on crashes of a poller
          MaxFeedErrors \* bound on those and on the errors of indexers and database together

NoOne == "no one"

ASSUME FeedsAssumption ==
  /\ FLastDate \in Nat /\ FDate \in [FItems -> 0..FLastDate]
  /\ FHits \in [FItems -> SUBSET FMedia]
  /\ FDenied \subseteq FItems /\ FCutoff \in Nat
  /\ NoOne \notin Pollers
  /\ MaxCrashes \in Nat /\ MaxFeedErrors \in Nat

VARIABLES
  fEnabled,  \* feed_source.enabled
  fOwner,    \* feed_source.lease_owner
  fExpired,  \* feed_source.lease_until is in the past
  fLock,     \* the row lock of a transaction in progress
  fMark,     \* feed_source.watermark_pub_date
  fDone,     \* the sources with a last_success_at
  fLater,    \* [FSources -> sources whose last_success_at is later]
  fRows,     \* [FSources -> [FItems -> Seq of decisions]]: rows of feed_item
  fOld,      \* [FSources -> rows past the retention of feed_item]
  fEligible, \* media with continuous download on
  fHave,     \* media downloaded or being downloaded
  fPc, fSnap,\* per poller: where it is, its claim and its page
  fCrashes, fErrors

fSuccess == <<fDone, fLater>>
fTable == <<fEnabled, fOwner, fExpired, fLock, fMark, fSuccess>>
fLibrary == <<fEligible, fHave>>
fBounds == <<fCrashes, fErrors>>
fVars == <<fTable, fRows, fOld, fLibrary, fPc, fSnap, fBounds>>

NoClaim == [src |-> NoOne, mark |-> 0, page |-> {}, new |-> <<>>, was |-> FALSE]

FeedsInit ==
  /\ fEnabled = {} /\ fDone = {} /\ fLater = [s \in FSources |-> {}]
  /\ fOwner = [s \in FSources |-> NoOne] /\ fLock = [s \in FSources |-> NoOne]
  /\ fExpired = [s \in FSources |-> FALSE] /\ fMark = [s \in FSources |-> 0]
  /\ fRows = [s \in FSources |-> [i \in FItems |-> <<>>]]
  /\ fOld = [s \in FSources |-> {}]
  /\ fEligible = FMedia /\ fHave = {}
  /\ fPc = [p \in Pollers |-> "idle"] /\ fSnap = [p \in Pollers |-> NoClaim]
  /\ fCrashes = 0 /\ fErrors = 0

Trouble == fCrashes + fErrors < MaxFeedErrors

Goto(p, pc, snap) ==
  /\ fPc' = [fPc EXCEPT ![p] = pc]
  /\ fSnap' = [fSnap EXCEPT ![p] = snap]

Drop(p) == Goto(p, "idle", NoClaim)

(***************************************************************************)
(* Binding and gates: an item is bound to the one eligible medium it hits. *)
(***************************************************************************)
Catalog == fEligible

Bound(i) == IF Cardinality(FHits[i] \cap Catalog) = 1 THEN FHits[i] \cap Catalog ELSE {}

Decision(i) == CASE Bound(i) = {} -> "unmatched"
                 [] Bound(i) # {} /\ Bound(i) \subseteq fHave -> "already_have"
                 [] Bound(i) # {} /\ ~(Bound(i) \subseteq fHave) /\ i \in FDenied -> "deny_listed"
                 [] OTHER -> "would_grab"

Kept(page) == {i \in page : FDate[i] = 0 \/ FDate[i] >= FCutoff}

Advanced(mark, page) == Max({mark} \cup {FDate[i] : i \in page})

(***************************************************************************)
(* poll_once: sync the sources with the indexers' listing, claim the one   *)
(* whose last success is the oldest, commit.                               *)
(***************************************************************************)
SyncSources(listed) ==
  /\ \A s \in FSources : fLock[s] = NoOne
  /\ fEnabled' = listed

\* Takes no lease over from a poller that died.
ClaimableFree(listed) == {s \in listed : fOwner[s] = NoOne}

Claimable(listed) == {s \in listed : fOwner[s] = NoOne \/ fExpired[s]}

\* ORDER BY last_success_at NULLS FIRST.
First(S) ==
  IF S \ fDone # {} THEN S \ fDone ELSE {s \in S : S \ {s} \subseteq fLater[s]}

ClaimSource(p, s) ==
  /\ fOwner' = [fOwner EXCEPT ![s] = p]
  /\ fExpired' = [fExpired EXCEPT ![s] = FALSE]
  /\ Goto(p, "fetch", [NoClaim EXCEPT !.src = s, !.mark = fMark[s]])

PollOnce(p) ==
  /\ fPc[p] = "idle"
  /\ \E listed \in {FSources, {}} :
       /\ listed = {} => Trouble
       /\ fErrors' = IF listed = {} THEN fErrors + 1 ELSE fErrors
       /\ SyncSources(listed)
       /\ IF Claimable(listed) = {}
          THEN UNCHANGED <<fOwner, fExpired, fPc, fSnap>>
          ELSE \E s \in First(Claimable(listed)) : ClaimSource(p, s)
  /\ UNCHANGED <<fLock, fMark, fSuccess, fRows, fOld, fLibrary, fCrashes>>

Holds(p) == fOwner[fSnap[p].src] = p

FreeLease(p) ==
  /\ fOwner' = IF Holds(p) THEN [fOwner EXCEPT ![fSnap[p].src] = NoOne] ELSE fOwner
  /\ fExpired' = IF Holds(p) THEN [fExpired EXCEPT ![fSnap[p].src] = FALSE] ELSE fExpired

Unlock(p) == fLock' = [s \in FSources |-> IF fLock[s] = p THEN NoOne ELSE fLock[s]]

\* record_poll_hold: the indexer failed, or its site is gone.
PollFails(p) ==
  /\ fPc[p] = "fetch" /\ fLock[fSnap[p].src] = NoOne
  /\ Trouble /\ fErrors' = fErrors + 1
  /\ FreeLease(p) /\ Drop(p)
  /\ UNCHANGED <<fEnabled, fLock, fMark, fSuccess, fRows, fOld, fLibrary, fCrashes>>

\* renew_lease: the update both extends the lease and locks the row until the commit.
RenewLease(p) ==
  /\ fExpired' = [fExpired EXCEPT ![fSnap[p].src] = FALSE]
  /\ fLock' = [fLock EXCEPT ![fSnap[p].src] = p]

\* The items a page may hold, in whatever order the indexer lists them.
Pages == SUBSET FItems

FetchOk(p, s) ==
  /\ fPc[p] = "fetch" /\ fSnap[p].src = s /\ fLock[s] = NoOne
  /\ IF Holds(p)
     THEN /\ RenewLease(p)
          /\ \E page \in Pages :
               Goto(p, "lookup", [fSnap[p] EXCEPT !.page = Kept(page), !.was = fExpired[s]])
     ELSE Drop(p) /\ UNCHANGED <<fExpired, fLock>>
  /\ UNCHANGED <<fEnabled, fOwner, fMark, fSuccess, fRows, fOld, fLibrary, fBounds>>

\* lookup_existing_identities, then bind and gate what is new.
Lookup(p) ==
  /\ fPc[p] = "lookup"
  /\ LET s == fSnap[p].src
         new == {i \in fSnap[p].page : fRows[s][i] = <<>>}
     IN Goto(p, "insert", [fSnap[p] EXCEPT !.new = [i \in new |-> Decision(i)]])
  /\ UNCHANGED <<fTable, fRows, fOld, fLibrary, fBounds>>

\* An IntegrityError rolls the whole transaction back, the renewal included.
InsertFails(p) ==
  /\ fPc[p] = "insert" /\ fSnap[p].new # <<>>
  /\ Trouble /\ fErrors' = fErrors + 1
  /\ Unlock(p)
  /\ fExpired' = [fExpired EXCEPT ![fSnap[p].src] = @ \/ (Holds(p) /\ fSnap[p].was)]
  /\ Goto(p, "insert", [fSnap[p] EXCEPT !.new = <<>>])
  /\ UNCHANGED <<fEnabled, fOwner, fMark, fSuccess, fRows, fOld, fLibrary, fCrashes>>

Added(s, new) ==
  [i \in FItems |-> IF i \in DOMAIN new THEN Append(fRows[s][i], new[i]) ELSE fRows[s][i]]

\* The success of s is now the latest.
Succeeded(s) ==
  /\ fDone' = fDone \cup {s}
  /\ fLater' = [x \in FSources |-> IF x = s \/ x \notin fDone THEN {} ELSE fLater[x] \cup {s}]

AdvanceMark(p) ==
  fMark' = [fMark EXCEPT ![fSnap[p].src] = Advanced(fSnap[p].mark, fSnap[p].page)]

\* Writes the cursor without asking whose lease it is.
RecordUnfenced(p) == AdvanceMark(p) /\ Succeeded(fSnap[p].src)

RecordPollSuccess(p) ==
  IF Holds(p) THEN AdvanceMark(p) /\ Succeeded(fSnap[p].src) ELSE UNCHANGED <<fMark, fSuccess>>

Purged(s, rows) == [i \in FItems |-> IF i \in fOld[s] THEN <<>> ELSE rows[i]]

\* bulk_insert_observations, record_poll_success, purge_stale_items, commit.
Finish(p) ==
  LET s == fSnap[p].src IN
  /\ fPc[p] = "insert" /\ fLock[s] \in {p, NoOne}
  /\ RecordPollSuccess(p) /\ FreeLease(p) /\ Unlock(p)
  /\ fRows' = [fRows EXCEPT ![s] = Purged(s, Added(s, fSnap[p].new))]
  /\ fOld' = [fOld EXCEPT ![s] = {}]
  /\ Drop(p)
  /\ UNCHANGED <<fEnabled, fLibrary, fBounds>>

\* Any other exception: release_lease and commit.
PollRaises(p) ==
  /\ fPc[p] \in {"fetch", "lookup"} /\ fLock[fSnap[p].src] \in {p, NoOne}
  /\ Trouble /\ fErrors' = fErrors + 1
  /\ FreeLease(p) /\ Unlock(p) /\ Drop(p)
  /\ UNCHANGED <<fEnabled, fMark, fSuccess, fRows, fOld, fLibrary, fCrashes>>

Crash(p) ==
  /\ fPc[p] # "idle" /\ Trouble /\ fCrashes < MaxCrashes /\ fCrashes' = fCrashes + 1
  /\ Unlock(p) /\ Drop(p)
  /\ UNCHANGED <<fEnabled, fOwner, fExpired, fMark, fSuccess, fRows, fOld, fLibrary, fErrors>>

\* _POLL_LEASE_SECONDS pass; a poll that outlives them counts as one of the errors.
LeaseExpires(s) ==
  LET outlived == \E p \in Pollers : fSnap[p].src = s /\ fOwner[s] = p IN
  /\ fOwner[s] # NoOne /\ fLock[s] = NoOne /\ ~fExpired[s]
  /\ outlived => Trouble
  /\ fErrors' = IF outlived THEN fErrors + 1 ELSE fErrors
  /\ fExpired' = [fExpired EXCEPT ![s] = TRUE]
  /\ UNCHANGED <<fEnabled, fOwner, fLock, fMark, fSuccess, fRows, fOld, fLibrary, fPc, fSnap, fCrashes>>

\* _FEED_ITEM_RETENTION_DAYS pass.
RowAges(s, i) ==
  /\ fRows[s][i] # <<>> /\ i \notin fOld[s]
  /\ fOld' = [fOld EXCEPT ![s] = @ \cup {i}]
  /\ UNCHANGED <<fTable, fRows, fLibrary, fPc, fSnap, fBounds>>

\* The library changes under the pollers.
LibraryChanges(m) ==
  /\ m \in fEligible /\ m \notin fHave
  /\ \/ fEligible' = fEligible \ {m} /\ UNCHANGED fHave
     \/ fHave' = fHave \cup {m} /\ UNCHANGED fEligible
  /\ UNCHANGED <<fTable, fRows, fOld, fPc, fSnap, fBounds>>

FeedsNext ==
  \/ \E p \in Pollers :
       \/ PollOnce(p) \/ PollFails(p) \/ Lookup(p) \/ InsertFails(p)
       \/ Finish(p) \/ PollRaises(p) \/ Crash(p)
       \/ \E s \in FSources : FetchOk(p, s)
  \/ \E s \in FSources : LeaseExpires(s) \/ \E i \in FItems : RowAges(s, i)
  \/ \E m \in FMedia : LibraryChanges(m)

\* The scheduler keeps starting polls, a poll that runs goes on, time passes.
FeedStep(p) == PollOnce(p) \/ Lookup(p) \/ Finish(p) \/ \E s \in FSources : FetchOk(p, s)

FeedsFair == /\ \A p \in Pollers : WF_fVars(FeedStep(p))
             /\ \A s \in FSources : WF_fVars(LeaseExpires(s))

FeedsSpec == FeedsInit /\ [][FeedsNext]_fVars /\ FeedsFair

\* Sources with their leases and watermarks, and the pollers (feeds/repository.py).
FeedsTypeOK ==
  /\ fEnabled \subseteq FSources
  /\ fOwner \in [FSources -> Pollers \cup {NoOne}] /\ fLock \in [FSources -> Pollers \cup {NoOne}]
  /\ fExpired \in [FSources -> BOOLEAN] /\ fMark \in [FSources -> Nat]
  /\ fDone \subseteq FSources /\ \A s \in FSources : fLater[s] \subseteq fDone \ {s}
  /\ \A s \in FSources : fOld[s] \subseteq FItems /\ DOMAIN fRows[s] = FItems
  /\ fPc \in [Pollers -> {"idle", "fetch", "lookup", "insert"}]
  /\ fCrashes \in 0..MaxCrashes /\ fErrors \in 0..MaxFeedErrors

ObservedOnce == \A s \in FSources, i \in FItems : Len(fRows[s][i]) <= 1

(***************************************************************************)
(* Two pollers of one source, one of which has outlived its lease, do no   *)
(* harm: they never both insert the same item (one that only its URL       *)
(* identifies has no unique index, so that this rests on the row lock that *)
(* renew_lease takes), and the watermark never moves back, also when the   *)
(* one that lost its lease records its result after the next one did.      *)
(***************************************************************************)
WatermarkNeverBack ==
  [][ObservedOnce' /\ \A s \in FSources : fMark'[s] >= fMark[s]]_fVars

(***************************************************************************)
(* No source is left out: whatever crashed with its lease, every source is *)
(* polled again and again, as long as fetches do not fail or outlive their *)
(* lease for ever (a source that always fails is always claimed first, and *)
(* starves the others).                                                    *)
(***************************************************************************)
SourcesPolled == \A s \in FSources : []<>(\E p \in Pollers : fSnap[p].src = s)
==============================================================================
