---------------------------- MODULE ViewingSync ----------------------------
(***************************************************************************)
(* The dry run of the viewing-state sync: every poll reads the cursors of  *)
(* the mapped users, fetches what each has played on the media server      *)
(* since, matches it with the library, decides what would be done with the *)
(* local state, and moves the cursors to the latest play it has seen.      *)
(*                                                                         *)
(* Time is the number of plays so far.  A server whose clock is wrong      *)
(* dates a play in the future; such plays are those of the users in SSkew. *)
(* The server keeps one state per item: its last play.                     *)
(***************************************************************************)
EXTENDS Integers, FiniteSets

CONSTANTS SPollers,    \* workers that may run the poll
          SUsers,      \* users of the media server that are mapped
          SSkew,       \* the users whose plays may be dated in the future
          SItems,      \* items of the media server
          SHits,       \* per item: titles found by imdb, by tmdb and by tvdb id
          SFiles,      \* titles with an imported file
          SMaxPlays,   \* bound on plays
          SMaxLocal,   \* bound on local changes
          SMaxFails    \* bound on failures and local changes together

ASSUME SyncAssumption ==
  /\ SSkew \subseteq SUsers
  /\ SMaxPlays \in Nat /\ SMaxLocal \in Nat /\ SMaxFails \in Nat

VARIABLES sPlay,     \* per user and item: the last play, its date and kind
          sClock,    \* number of plays so far
          sCursor,   \* viewing_sync_cursor
          sDigest,   \* date of the last proposal for a user's item, 0 when there is none
          sSeen,     \* the plays that were proposed or quarantined
          sLocal,    \* per user and title: date of the local progress, 0 when none, and manual
          sLocals,   \* number of local changes
          sPoll,     \* the poll of each worker
          sFails     \* failures so far

sVars == <<sPlay, sClock, sCursor, sDigest, sSeen, sLocal, sLocals, sPoll, sFails>>
serverVars == <<sPlay, sClock>>
localVars == <<sLocal, sLocals>>

STitles == UNION {SHits[i][n] : i \in SItems, n \in 1..3}
Never == 0
Future == SMaxPlays + 2
SDates == Never..Future
Kinds == {"part", "done", "unplayed"}
NoPoll == [pc |-> "idle", cursors |-> [u \in SUsers |-> Never], todo |-> {}, events |-> {},
           reach |-> [u \in SUsers |-> Never], out |-> {}]

\* Cursors, digests and what a poll has proposed (viewing_sync/service.py).
SyncTypeOK ==
  /\ \A u \in SUsers, i \in SItems : sPlay[u][i].at \in SDates /\ sPlay[u][i].kind \in Kinds
  /\ sClock \in 0..SMaxPlays
  /\ sCursor \in [SUsers -> SDates]
  /\ sDigest \in [SUsers \X SItems -> SDates]
  /\ sSeen \subseteq SUsers \X SItems \X SDates
  /\ \A u \in SUsers, t \in STitles : sLocal[u][t].at \in SDates /\ sLocal[u][t].manual \in BOOLEAN
  /\ \A p \in SPollers : sPoll[p].pc \in {"idle", "fetch", "commit"} /\ sPoll[p].todo \subseteq SUsers
  /\ sFails \in 0..SMaxFails

SyncInit ==
  /\ sPlay = [u \in SUsers |-> [i \in SItems |-> [at |-> Never, kind |-> "unplayed"]]]
  /\ sClock = 0 /\ sCursor = [u \in SUsers |-> Never]
  /\ sDigest = [x \in SUsers \X SItems |-> Never] /\ sSeen = {}
  /\ sLocal = [u \in SUsers |-> [t \in STitles |-> [at |-> Never, manual |-> FALSE]]]
  /\ sLocals = 0 /\ sPoll = [p \in SPollers |-> NoPoll] /\ sFails = 0

Trouble == sFails + sLocals < SMaxFails

(***************************************************************************)
(* The media server and the local state.                                   *)
(***************************************************************************)
RemotePlay(u, i, kind) ==
  /\ sClock < SMaxPlays /\ sClock' = sClock + 1
  /\ \E at \in {sClock + 1} \cup (IF u \in SSkew THEN {Future} ELSE {}) :
        sPlay' = [sPlay EXCEPT ![u][i] = [at |-> at, kind |-> kind]]
  /\ UNCHANGED <<sCursor, sDigest, sSeen, localVars, sPoll, sFails>>

LocalPlay(u, t) ==
  /\ sLocals < SMaxLocal /\ Trouble /\ sLocals' = sLocals + 1
  /\ sLocal' = [sLocal EXCEPT ![u][t].at = sClock]
  /\ UNCHANGED <<serverVars, sCursor, sDigest, sSeen, sPoll, sFails>>

LocalMark(u, t, manual) ==
  /\ sLocals < SMaxLocal /\ Trouble /\ sLocals' = sLocals + 1
  /\ sLocal[u][t].manual # manual
  /\ sLocal' = [sLocal EXCEPT ![u][t].manual = manual]
  /\ UNCHANGED <<serverVars, sCursor, sDigest, sSeen, sPoll, sFails>>

(***************************************************************************)
(* Matching: the first provider id that is found decides.                  *)
(***************************************************************************)
FirstHits(i) == IF SHits[i][1] # {} THEN SHits[i][1]
                ELSE IF SHits[i][2] # {} THEN SHits[i][2] ELSE SHits[i][3]
Matched(i) == Cardinality(FirstHits(i)) = 1
TitleOf(i) == CHOOSE t \in FirstHits(i) : TRUE
Playable(t) == t \in SFiles

(***************************************************************************)
(* build_proposal: what would be done with an event, given the local       *)
(* state.  Quarantined events are no proposals.                            *)
(***************************************************************************)
RemoteIsNewer(at, local) == local = Never \/ at > local
ClockSkew(at) == at > sClock + 1

BuildProposal(e) ==
  LET local == sLocal[e.user][TitleOf(e.item)] IN
  CASE ClockSkew(e.at) -> "quarantine"
    [] ~ClockSkew(e.at) /\ local.manual -> "skip_manual"
    [] ~ClockSkew(e.at) /\ ~local.manual /\ sDigest[<<e.user, e.item>>] = e.at -> "skip_no_op"
    [] OTHER -> IF ~RemoteIsNewer(e.at, local.at) THEN "skip_local_newer"
                ELSE IF e.kind = "unplayed" THEN "delete_progress"
                ELSE IF e.kind = "done" THEN "set_derived_watched" ELSE "upsert_progress"

Quarantined(e) ==
  \/ ~Matched(e.item)
  \/ ~Playable(TitleOf(e.item))
  \/ BuildProposal(e) = "quarantine"

(***************************************************************************)
(* A poll.                                                                 *)
(***************************************************************************)
StartPoll(p) ==
  /\ sPoll[p] = NoPoll
  /\ sPoll' = [sPoll EXCEPT ![p] = [NoPoll EXCEPT !.pc = "fetch", !.cursors = sCursor, !.todo = SUsers]]
  /\ UNCHANGED <<serverVars, sCursor, sDigest, sSeen, localVars, sFails>>

Events(u, since) == {[user |-> u, item |-> i, at |-> sPlay[u][i].at, kind |-> sPlay[u][i].kind] :
                       i \in {j \in SItems : sPlay[u][j].at # Never /\ sPlay[u][j].at >= since}}
Latest(events) == IF events = {} THEN Never
                  ELSE CHOOSE at \in {e.at : e \in events} : \A e \in events : e.at <= at

FetchUser(p, u) ==
  LET r == sPoll[p] new == Events(u, r.cursors[u]) IN
  /\ r.pc = "fetch" /\ u \in r.todo
  /\ sPoll' = [sPoll EXCEPT ![p].todo = @ \ {u}, ![p].events = @ \cup new,
                            ![p].reach[u] = Latest(new)]
  /\ UNCHANGED <<serverVars, sCursor, sDigest, sSeen, localVars, sFails>>

\* The request of one user fails after its retries: the others go on.
FetchFails(p, u) ==
  /\ sPoll[p].pc = "fetch" /\ u \in sPoll[p].todo
  /\ Trouble /\ sFails' = sFails + 1
  /\ sPoll' = [sPoll EXCEPT ![p].todo = @ \ {u}]
  /\ UNCHANGED <<serverVars, sCursor, sDigest, sSeen, localVars>>

\* _process_events_batch: the local state and the digests are read here.
ProcessEvents(p) ==
  LET r == sPoll[p] IN
  /\ r.pc = "fetch" /\ r.todo = {}
  /\ sPoll' = [sPoll EXCEPT ![p].pc = "commit",
        ![p].out = {[e |-> e, proposed |-> ~Quarantined(e)] : e \in r.events}]
  /\ UNCHANGED <<serverVars, sCursor, sDigest, sSeen, localVars, sFails>>

CursorsNow(r) == [u \in SUsers |-> sClock]
SetUserCursors(r) == [u \in SUsers |-> IF r.reach[u] # Never THEN r.reach[u] ELSE sCursor[u]]

PriorDigests(r) == [x \in SUsers \X SItems |->
  LET new == {o \in r.out : o.proposed /\ o.e.user = x[1] /\ o.e.item = x[2]}
  IN IF new = {} THEN sDigest[x] ELSE (CHOOSE o \in new : TRUE).e.at]

Inserted(r) == {<<o.e.user, o.e.item, o.e.at>> : o \in r.out}

CommitPoll(p) ==
  LET r == sPoll[p] IN
  /\ r.pc = "commit"
  /\ sCursor' = SetUserCursors(r)
  /\ sDigest' = PriorDigests(r)
  /\ sSeen' = sSeen \cup Inserted(r)
  /\ sPoll' = [sPoll EXCEPT ![p] = NoPoll]
  /\ UNCHANGED <<serverVars, localVars, sFails>>

\* An error rolls the transaction back, with the cursors.
PollFails(p) ==
  /\ sPoll[p] # NoPoll /\ Trouble /\ sFails' = sFails + 1
  /\ sPoll' = [sPoll EXCEPT ![p] = NoPoll]
  /\ UNCHANGED <<serverVars, sCursor, sDigest, sSeen, localVars>>

\* The retention forgets an old proposal, and with it the digest.
PurgeStaleRows(u, i) ==
  /\ sDigest[<<u, i>>] # Never /\ sDigest[<<u, i>>] < sClock
  /\ sDigest' = [sDigest EXCEPT ![<<u, i>>] = Never]
  /\ UNCHANGED <<serverVars, sCursor, sSeen, localVars, sPoll, sFails>>

PollStep(p) == StartPoll(p) \/ ProcessEvents(p) \/ CommitPoll(p) \/ \E u \in SUsers : FetchUser(p, u)

SyncNext ==
  \/ \E p \in SPollers : PollStep(p) \/ PollFails(p) \/ \E u \in SUsers : FetchFails(p, u)
  \/ \E u \in SUsers, i \in SItems : PurgeStaleRows(u, i) \/ \E k \in Kinds : RemotePlay(u, i, k)
  \/ \E u \in SUsers, t \in STitles : LocalPlay(u, t) \/ \E m \in BOOLEAN : LocalMark(u, t, m)

SyncFair == \A p \in SPollers : WF_sVars(PollStep(p))

SyncSpec == SyncInit /\ [][SyncNext]_sVars /\ SyncFair

(***************************************************************************)
(* Properties.                                                             *)
(***************************************************************************)
Superseded(u, i, at) == sPlay[u][i].at # at

\* Every play of a user whose plays are dated correctly is proposed or quarantined, or
\* superseded by a later play of the item, although users, polls and the server fail
\* and plays arrive during a fetch.
PlaysAreSeen ==
  \A u \in SUsers \ SSkew, i \in SItems, at \in 1..SMaxPlays :
    sPlay[u][i].at = at ~> (Superseded(u, i, at) \/ <<u, i, at>> \in sSeen)

=============================================================================
