------------------------------ MODULE Requests ------------------------------
(***************************************************************************)
(* Media requests and their synchronisation with Seerr: the moderation of  *)
(* a request, the reconcile pass (pull, then push) that runs before every  *)
(* fulfilment, and the fulfilment of approved requests.                    *)
(*                                                                         *)
(* A row of Seerr has a number; a local row holds the number it is linked  *)
(* to.  Calls to Seerr are made after the local change is committed, and   *)
(* may fail.  Several fulfilment tasks overlap on the broker's loop.       *)
(***************************************************************************)
EXTENDS Integers, FiniteSets

CONSTANTS RRows,       \* local request rows
          RTasks,      \* fulfilment tasks
          RMaxUp,      \* bound on the requests of Seerr
          RMaxOps,     \* bound on what users and moderators do and on failures, together
          RMaxFails    \* bound on the failed calls to Seerr among them

NoTask == "notask"

ASSUME RequestsAssumption ==
  NoTask \notin RTasks /\ RMaxUp \in Nat /\ RMaxOps \in Nat /\ RMaxFails \in Nat

VARIABLES rRow,     \* the local rows: status and link
          rUp,      \* the requests of Seerr: status, available, and the row that made it
          rUps,     \* number of requests made in Seerr
          rMedia,   \* per row: is the title "absent", "wanted" or "ondisk"
          rCalls,   \* calls to Seerr that follow a committed change
          rTask,    \* the fulfilment tasks
          rLock,    \* holder of _reconcile_lock
          rMade,    \* per row: the requests of Seerr that reconcile made for it, and its creation
          rNew,     \* per row: where the push of its creation is
          rOps, rFails

rVars == <<rRow, rUp, rUps, rMedia, rCalls, rTask, rLock, rMade, rNew, rOps, rFails>>
upVars == <<rUp, rUps, rMade, rNew>>

Ups == 1..RMaxUp
NoLink == 0
ToPush == -1                            \* the request was made, Seerr is not yet told
NoRow == "norow"
Moderated == {"pending", "approved", "rejected", "downloading", "downloaded"}
Exists(r) == rRow[r].status \in Moderated
IdleTask == [pc |-> "idle", pull |-> {}, push |-> {}, row |-> NoRow, was |-> "none", up |-> NoLink, todo |-> {}]

\* The rows of media_request, the requests of Seerr and the tasks between them (requests/sync.py).
RequestsTypeOK ==
  /\ \A r \in RRows : /\ rRow[r].status \in Moderated \cup {"unused", "deleted"}
                      /\ rRow[r].link \in Ups \cup {NoLink} /\ rRow[r].native \in BOOLEAN
  /\ \A n \in Ups : rUp[n].st \in {"none", "pending", "approved", "declined"} /\ rUp[n].avail \in BOOLEAN
  /\ rUps \in 0..RMaxUp /\ rMedia \in [RRows -> {"absent", "wanted", "ondisk"}]
  /\ rCalls \subseteq {"approve", "decline", "delete", "available"} \X Ups
  /\ \A t \in RTasks : rTask[t].pc \in {"idle", "wait", "pull", "pushlist", "push", "link", "moderate", "list", "fulfil", "mark", "check"}
  /\ rLock \in RTasks \cup {NoTask} /\ rNew \in [RRows -> Ups \cup {NoLink, ToPush}]
  /\ rOps \in 0..RMaxOps /\ rFails \in 0..RMaxFails

\* A row may be there already, from before Seerr was configured.
RequestsInit ==
  /\ \E st \in [RRows -> {"unused", "pending", "approved"}] :
       rRow = [r \in RRows |-> [status |-> st[r], link |-> NoLink, native |-> TRUE]]
  /\ rUp = [n \in Ups |-> [st |-> "none", avail |-> FALSE]] /\ rUps = 0
  /\ rMedia = [r \in RRows |-> "absent"] /\ rCalls = {}
  /\ rTask = [t \in RTasks |-> IdleTask] /\ rLock = NoTask
  /\ rMade = [r \in RRows |-> [reconcile |-> 0, creation |-> 0]]
  /\ rNew = [r \in RRows |-> NoLink] /\ rOps = 0 /\ rFails = 0

Happens == rOps + rFails < RMaxOps
Operation == Happens /\ rOps' = rOps + 1
CallFails == Happens /\ rFails < RMaxFails /\ rFails' = rFails + 1
SetStatus(r, st) == rRow' = [rRow EXCEPT ![r].status = st]
CallSeerr(op, r) == rCalls' = IF rRow[r].link = NoLink THEN rCalls ELSE rCalls \cup {<<op, rRow[r].link>>}

(***************************************************************************)
(* Users and moderators.                                                   *)
(***************************************************************************)
NewUpstream(n) == n = rUps + 1 /\ n \in Ups

CreateRequest(r, st) ==
  /\ Operation /\ rRow[r].status = "unused"
  /\ SetStatus(r, st) /\ rNew' = [rNew EXCEPT ![r] = ToPush]
  /\ UNCHANGED <<rUp, rUps, rMade, rMedia, rCalls, rTask, rLock, rFails>>

\* _push_new, without the lock: the request is made in Seerr, then its number stored.
PushNew(r, n) ==
  /\ rNew[r] = ToPush /\ NewUpstream(n) /\ rUps' = n
  /\ rUp' = [rUp EXCEPT ![n] = [st |-> "pending", avail |-> FALSE]]
  /\ rMade' = [rMade EXCEPT ![r].creation = @ + 1]
  /\ rNew' = [rNew EXCEPT ![r] = n]
  /\ UNCHANGED <<rRow, rMedia, rCalls, rTask, rLock, rOps, rFails>>

PushNewLink(r) ==
  /\ rNew[r] \in Ups /\ rNew' = [rNew EXCEPT ![r] = NoLink]
  /\ IF Exists(r) /\ \A q \in RRows : rRow[q].link # rNew[r]
     THEN /\ rRow' = [rRow EXCEPT ![r].link = rNew[r]]
          /\ rCalls' = IF rRow[r].status = "approved" THEN rCalls \cup {<<"approve", rNew[r]>>} ELSE rCalls
     ELSE UNCHANGED <<rRow, rCalls>>
  /\ UNCHANGED <<rUp, rUps, rMade, rMedia, rTask, rLock, rOps, rFails>>

\* Seerr is not configured, cannot be reached or knows no such title.
PushNewSkipped(r) ==
  /\ rNew[r] = ToPush /\ rNew' = [rNew EXCEPT ![r] = NoLink]
  /\ UNCHANGED <<rRow, rUp, rUps, rMade, rMedia, rCalls, rTask, rLock, rOps, rFails>>

ApproveRequest(r) ==
  /\ Operation /\ Exists(r)
  /\ SetStatus(r, "approved") /\ CallSeerr("approve", r)
  /\ UNCHANGED <<upVars, rMedia, rTask, rLock, rFails>>

RejectRequest(r) ==
  /\ Operation /\ Exists(r)
  /\ SetStatus(r, "rejected") /\ CallSeerr("decline", r)
  /\ UNCHANGED <<upVars, rMedia, rTask, rLock, rFails>>

DeleteRequest(r) ==
  /\ Operation /\ Exists(r)
  /\ rRow' = [rRow EXCEPT ![r] = [status |-> "deleted", link |-> NoLink, native |-> @.native]]
  /\ CallSeerr("delete", r)
  /\ UNCHANGED <<upVars, rMedia, rTask, rLock, rFails>>

Applied(up, op) ==
  CASE op = "approve" -> [up EXCEPT !.st = "approved"]
    [] op = "decline" -> [up EXCEPT !.st = "declined"]
    [] op = "available" -> [up EXCEPT !.avail = TRUE]
    [] OTHER -> [up EXCEPT !.st = "none"]

SeerrCall(c) ==
  /\ c \in rCalls /\ rCalls' = rCalls \ {c}
  /\ rUp' = [rUp EXCEPT ![c[2]] = IF @.st = "none" THEN @ ELSE Applied(@, c[1])]
  /\ UNCHANGED <<rRow, rUps, rMedia, rTask, rLock, rMade, rNew, rOps, rFails>>

\* _safe_seerr logs the failure; the local change stays.
SeerrCallFails(c) ==
  /\ c \in rCalls /\ rCalls' = rCalls \ {c}
  /\ CallFails
  /\ UNCHANGED <<rRow, upVars, rMedia, rTask, rLock, rOps>>

SeerrUser(n) ==
  /\ Operation /\ NewUpstream(n) /\ rUps' = n
  /\ rUp' = [rUp EXCEPT ![n] = [st |-> "pending", avail |-> FALSE]]
  /\ UNCHANGED <<rRow, rMedia, rCalls, rTask, rLock, rMade, rNew, rFails>>

SeerrModerates(n, st) ==
  /\ Operation /\ rUp[n].st \notin {"none", st} /\ st \in {"approved", "declined"}
  /\ rUp' = [rUp EXCEPT ![n].st = st]
  /\ UNCHANGED <<rRow, rUps, rMedia, rCalls, rTask, rLock, rMade, rNew, rFails>>

DownloadCompletes(r) ==
  /\ rMedia[r] = "wanted" /\ rMedia' = [rMedia EXCEPT ![r] = "ondisk"]
  /\ UNCHANGED <<rRow, upVars, rCalls, rTask, rLock, rOps, rFails>>

(***************************************************************************)
(* Reconcile, under the process-wide lock: pull what Seerr has, then push  *)
(* the native rows that have no number yet.                                *)
(***************************************************************************)
StartTask(t) ==
  /\ rTask[t] = IdleTask
  /\ rTask' = [rTask EXCEPT ![t].pc = "wait"]
  /\ UNCHANGED <<rRow, upVars, rMedia, rCalls, rLock, rOps, rFails>>

NoReconcileLock == TRUE
ReconcileLockFree == rLock = NoTask

StartPull(t) ==
  /\ rTask[t].pc = "wait" /\ ReconcileLockFree /\ rLock' = t
  /\ rTask' = [rTask EXCEPT ![t].pc = "pull",
        ![t].pull = {[n |-> n, st |-> rUp[n].st, avail |-> rUp[n].avail] : n \in {m \in Ups : rUp[m].st # "none"}}]
  /\ UNCHANGED <<rRow, upVars, rMedia, rCalls, rOps, rFails>>

\* The list of Seerr cannot be read: nothing is pulled, the push goes on.
PullFails(t) ==
  /\ rTask[t].pc = "wait" /\ ReconcileLockFree /\ rLock' = t
  /\ CallFails
  /\ rTask' = [rTask EXCEPT ![t].pc = "pushlist"]
  /\ UNCHANGED <<rRow, upVars, rMedia, rCalls, rOps>>

MapSeerrStatus(sr) ==
  IF sr.avail THEN "downloaded"
  ELSE IF sr.st = "declined" THEN "rejected" ELSE sr.st

\* upsert_seerr_request: the row of that number takes its status, or a new row is made.
UpsertOne(t, sr) ==
  LET linked == {r \in RRows : rRow[r].link = sr.n} IN
  /\ rTask[t].pc = "pull" /\ sr \in rTask[t].pull
  /\ rTask' = [rTask EXCEPT ![t].pull = @ \ {sr}]
  /\ \/ /\ linked # {}
        /\ rRow' = [r \in RRows |-> IF r \in linked THEN [status |-> MapSeerrStatus(sr), link |-> sr.n, native |-> FALSE]
                                    ELSE rRow[r]]
     \/ /\ linked = {}
        /\ \E r \in RRows : /\ rRow[r].status = "unused"
                            /\ rRow' = [rRow EXCEPT ![r] = [status |-> MapSeerrStatus(sr), link |-> sr.n, native |-> FALSE]]
     \/ linked = {} /\ (\A r \in RRows : rRow[r].status # "unused") /\ UNCHANGED rRow
  /\ UNCHANGED <<upVars, rMedia, rCalls, rLock, rOps, rFails>>

PullDone(t) ==
  /\ rTask[t].pc = "pull" /\ rTask[t].pull = {}
  /\ rTask' = [rTask EXCEPT ![t].pc = "pushlist"]
  /\ UNCHANGED <<rRow, upVars, rMedia, rCalls, rLock, rOps, rFails>>

Unsynced == {r \in RRows : rRow[r].native /\ rRow[r].link = NoLink /\ rRow[r].status \in {"pending", "approved"}}

ListUnsynced(t) ==
  /\ rTask[t].pc = "pushlist"
  /\ rTask' = [rTask EXCEPT ![t].pc = "push", ![t].push = {[row |-> r, was |-> rRow[r].status] : r \in Unsynced}]
  /\ UNCHANGED <<rRow, upVars, rMedia, rCalls, rLock, rOps, rFails>>

PushCreate(t, x, n) ==
  /\ rTask[t].pc = "push" /\ x \in rTask[t].push
  /\ NewUpstream(n) /\ rUps' = n
  /\ rUp' = [rUp EXCEPT ![n] = [st |-> "pending", avail |-> FALSE]]
  /\ rMade' = [rMade EXCEPT ![x.row].reconcile = @ + 1]
  /\ rTask' = [rTask EXCEPT ![t].pc = "link", ![t].push = @ \ {x}, ![t].row = x.row, ![t].was = x.was, ![t].up = n]
  /\ UNCHANGED <<rRow, rNew, rMedia, rCalls, rLock, rOps, rFails>>

\* The title has no TMDB number, or Seerr refuses: the row is tried again next time.
PushFails(t, x) ==
  /\ rTask[t].pc = "push" /\ x \in rTask[t].push
  /\ CallFails
  /\ rTask' = [rTask EXCEPT ![t].push = @ \ {x}]
  /\ UNCHANGED <<rRow, upVars, rMedia, rCalls, rLock, rOps>>

\* The number is stored at once.  A row deleted meanwhile ends the reconcile.
PushLink(t) ==
  LET r == rTask[t].row IN
  /\ rTask[t].pc = "link"
  /\ IF Exists(r) /\ \A q \in RRows : rRow[q].link # rTask[t].up
     THEN /\ rRow' = [rRow EXCEPT ![r].link = rTask[t].up]
          /\ rTask' = [rTask EXCEPT ![t].pc = "moderate"] /\ UNCHANGED rLock
     ELSE /\ rTask' = [rTask EXCEPT ![t] = [IdleTask EXCEPT !.pc = "list"]]
          /\ rLock' = NoTask /\ UNCHANGED rRow
  /\ UNCHANGED <<upVars, rMedia, rCalls, rOps, rFails>>

\* The decision is carried over, as it was when the rows were listed.
PushModerate(t) ==
  /\ rTask[t].pc = "moderate"
  /\ rUp' = [rUp EXCEPT ![rTask[t].up].st = IF rTask[t].was = "approved" /\ @ # "none" THEN "approved" ELSE @]
  /\ rTask' = [rTask EXCEPT ![t].pc = "push", ![t].row = NoRow, ![t].up = NoLink, ![t].was = "none"]
  /\ UNCHANGED <<rRow, rUps, rMedia, rCalls, rLock, rMade, rNew, rOps, rFails>>

PushModerateFails(t) ==
  /\ rTask[t].pc = "moderate" /\ rTask[t].was = "approved"
  /\ CallFails
  /\ rTask' = [rTask EXCEPT ![t].pc = "push", ![t].row = NoRow, ![t].up = NoLink, ![t].was = "none"]
  /\ UNCHANGED <<rRow, upVars, rMedia, rCalls, rLock, rOps>>

ReconcileDone(t) ==
  /\ rTask[t].pc = "push" /\ rTask[t].push = {}
  /\ rTask' = [rTask EXCEPT ![t].pc = "list"] /\ rLock' = NoTask
  /\ UNCHANGED <<rRow, upVars, rMedia, rCalls, rOps, rFails>>

(***************************************************************************)
(* Fulfilment, outside the lock: the list is read once.                    *)
(***************************************************************************)
ListApproved(t) ==
  /\ rTask[t].pc = "list"
  /\ rTask' = [rTask EXCEPT ![t].pc = "fulfil",
        ![t].todo = {[row |-> r, fresh |-> rRow[r].status = "approved"] :
                       r \in {q \in RRows : rRow[q].status \in {"approved", "downloading"}}}]
  /\ UNCHANGED <<rRow, upVars, rMedia, rCalls, rLock, rOps, rFails>>

\* The title is added to the library; a fresh request also starts its download.
AddToLibrary(t, x) ==
  /\ rTask[t].pc = "fulfil" /\ x \in rTask[t].todo
  /\ rMedia' = [rMedia EXCEPT ![x.row] = IF x.fresh /\ @ = "absent" THEN "wanted" ELSE @]
  /\ rTask' = [rTask EXCEPT ![t].pc = IF x.fresh THEN "mark" ELSE "check", ![t].todo = @ \ {x}, ![t].row = x.row]
  /\ UNCHANGED <<rRow, upVars, rCalls, rLock, rOps, rFails>>

\* No provider or no number for the title, or the addition raises: logged, and the next one.
FulfilSkipped(t, x) ==
  /\ rTask[t].pc = "fulfil" /\ x \in rTask[t].todo
  /\ CallFails
  /\ rTask' = [rTask EXCEPT ![t].todo = @ \ {x}]
  /\ UNCHANGED <<rRow, upVars, rMedia, rCalls, rLock, rOps>>

MarkDownloading(t) ==
  LET r == rTask[t].row IN
  /\ rTask[t].pc = "mark"
  /\ IF Exists(r) THEN SetStatus(r, "downloading") /\ rTask' = [rTask EXCEPT ![t].pc = "check"]
     ELSE UNCHANGED rRow /\ rTask' = [rTask EXCEPT ![t].pc = "fulfil", ![t].row = NoRow]
  /\ UNCHANGED <<upVars, rMedia, rCalls, rLock, rOps, rFails>>

MarkDownloaded(t) ==
  LET r == rTask[t].row IN
  /\ rTask[t].pc = "check"
  /\ IF rMedia[r] = "ondisk" /\ Exists(r) THEN SetStatus(r, "downloaded") /\ CallSeerr("available", r)
     ELSE UNCHANGED <<rRow, rCalls>>
  /\ rTask' = [rTask EXCEPT ![t].pc = "fulfil", ![t].row = NoRow]
  /\ UNCHANGED <<upVars, rMedia, rLock, rOps, rFails>>

FulfilDone(t) ==
  /\ rTask[t].pc = "fulfil" /\ rTask[t].todo = {}
  /\ rTask' = [rTask EXCEPT ![t] = IdleTask]
  /\ UNCHANGED <<rRow, upVars, rMedia, rCalls, rLock, rOps, rFails>>

ReconcileStep(t) ==
  \/ StartTask(t) \/ StartPull(t) \/ PullDone(t) \/ ListUnsynced(t)
  \/ PushLink(t) \/ PushModerate(t) \/ ReconcileDone(t)
  \/ \E sr \in rTask[t].pull : UpsertOne(t, sr)
  \/ \E x \in rTask[t].push, n \in Ups : PushCreate(t, x, n)

FulfilStep(t) ==
  \/ ListApproved(t) \/ MarkDownloading(t) \/ MarkDownloaded(t) \/ FulfilDone(t)
  \/ \E x \in rTask[t].todo : AddToLibrary(t, x)

RequestsNext ==
  \/ \E r \in RRows : \/ \E st \in {"pending", "approved"} : CreateRequest(r, st)
                      \/ ApproveRequest(r) \/ RejectRequest(r) \/ DeleteRequest(r)
                      \/ DownloadCompletes(r) \/ PushNewLink(r) \/ PushNewSkipped(r)
                      \/ \E n \in Ups : PushNew(r, n)
  \/ \E c \in rCalls : SeerrCall(c) \/ SeerrCallFails(c)
  \/ \E n \in Ups : SeerrUser(n) \/ \E st \in {"approved", "declined"} : SeerrModerates(n, st)
  \/ \E t \in RTasks : \/ ReconcileStep(t) \/ FulfilStep(t) \/ PullFails(t) \/ PushModerateFails(t)
                       \/ \E x \in rTask[t].push : PushFails(t, x)
                       \/ \E x \in rTask[t].todo : FulfilSkipped(t, x)

RequestsSpec == RequestsInit /\ [][RequestsNext]_rVars

(***************************************************************************)
(* Properties.                                                             *)
(***************************************************************************)

\* However reconcile passes overlap, they make one request in Seerr for a row.
ReconcileCreatesOnce == \A r \in RRows : rMade[r].reconcile <= 1

\* Only a moderator takes an approval back: the reconcile pass brings the other side in
\* line with it, also after the call that should have told Seerr has failed.
ApprovalIsKept == [][\A r \in RRows : rRow[r].status = "approved" => rRow'[r].status # "pending"]_rVars

\* A row is made once in Seerr, by its creation or by a reconcile pass.
UpstreamOnce == \A r \in RRows : rMade[r].reconcile + rMade[r].creation <= 1

=============================================================================
