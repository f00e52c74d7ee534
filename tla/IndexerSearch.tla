---------------------------- MODULE IndexerSearch ----------------------------
(***************************************************************************)
(* The streamed search over the indexers.                                  *)
(*                                                                         *)
(* A show-level search of a title with a colon runs one query per variant  *)
(* of the name at the same time, over one IndexerService and one database  *)
(* session.  Each query asks every backend; the native backend asks its    *)
(* sites in threads, and each site its mirrors.  Answers go to the client  *)
(* through a bounded queue that makes room by dropping the oldest item.    *)
(***************************************************************************)
EXTENDS Integers, FiniteSets, Sequences, SequencesExt, Sublists

CONSTANTS NQueries,      \* query variants of the search
          NBackends,     \* enabled backends: "prowlarr", "jackett", "native"
          NSites,        \* enabled native sites
          NMirrors,      \* the mirrors of a site, the active one first
          NQueueMax,     \* maxsize of chunk_queue
          NFanout,       \* _INDEXER_FANOUT_LIMIT
          NThreshold,    \* _BREAKER_THRESHOLD
          NMaxFaults

ASSUME IndexerSearchAssumption ==
  /\ NBackends \subseteq {"prowlarr", "jackett", "native"} /\ IsFiniteSet(NQueries)
  /\ NMirrors \in Seq(Range(NMirrors)) /\ NMirrors # <<>>
  /\ {NQueueMax, NFanout, NThreshold} \subseteq Nat \ {0} /\ NMaxFaults \in Nat

VARIABLES nPref,     \* per site: the mirror to try first
          nList,     \* the backends of the service
          nInit,     \* _initialized
          nQ,        \* the queries
          nJob,      \* per query and backend: its call
          nFetch,    \* per query, backend and site: the mirrors still to try
          nBreak,    \* consecutive failures of a backend
          nDb,       \* the query whose statement the session runs
          nQueue, nClient, nFaults

searchVars == <<nPref, nList, nInit, nQ, nJob, nFetch, nBreak, nDb>>
streamVars == <<nQueue, nClient>>
nVars == <<searchVars, streamVars, nFaults>>

NoQuery == "noquery"
Done == "done"
SiteSlots == 1..(Cardinality(NQueries) * Cardinality(NBackends))
IdleFetch == [st |-> "idle", rest |-> <<>>, again |-> FALSE]

\* The state of a streamed search, its queue never over maxsize (torrents/search_stream.py).
IndexerSearchTypeOK ==
  /\ nPref \in [NSites -> Range(NMirrors)] /\ nInit \in BOOLEAN /\ nList \in Seq(NBackends) /\ Len(nList) <= Cardinality(NQueries) * Cardinality(NBackends)
  /\ \A q \in NQueries : nQ[q].pc \in {"start", "sites", "fan", "save", "commit", "end", "failed", "cancelled"}
  /\ nJob \in [NQueries -> [SiteSlots -> {"none", "queued", "run", "ended"}]]
  /\ nBreak \in [NBackends -> 0..NThreshold] /\ nDb \in NQueries \cup {NoQuery}
  /\ Len(nQueue) <= NQueueMax /\ nClient \in {"wait", "persist", "ended", "left"}

IndexerSearchInit ==
  /\ nPref = [s \in NSites |-> NMirrors[1]]
  /\ nList = <<>> /\ nInit = FALSE
  /\ nQ = [q \in NQueries |-> [pc |-> "start", any |-> FALSE]]
  /\ nJob = [q \in NQueries |-> [k \in SiteSlots |-> "none"]]
  /\ nFetch = [q \in NQueries |-> [k \in SiteSlots |-> [s \in NSites |-> IdleFetch]]]
  /\ nBreak = [b \in NBackends |-> 0] /\ nDb = NoQuery /\ nQueue = <<>> /\ nClient = "wait" /\ nFaults = 0

NFault == nFaults < NMaxFaults /\ nFaults' = nFaults + 1
Aborted == nClient \in {"ended", "left"}

(***************************************************************************)
(* The queue to the client.                                                *)
(***************************************************************************)
PutUnbounded(item) == nQueue' = Append(nQueue, item)
SafePut(item) == nQueue' = Append(IF Len(nQueue) < NQueueMax THEN nQueue ELSE Tail(nQueue), item)

\* on_partial: nothing once the client is gone, nothing when no result is new or passes the gates.
OnPartial(q, some) == IF some /\ ~Aborted THEN SafePut(q) ELSE UNCHANGED nQueue

NextChunk ==
  /\ nClient = "wait" /\ nQueue # <<>> /\ nQueue' = Tail(nQueue)
  /\ nClient' = IF Head(nQueue) = Done THEN "ended" ELSE "persist"
  /\ UNCHANGED <<searchVars, nFaults>>

\* persist_chunk, over a session of its own; a failure is logged and the chunk shown.
PersistChunk ==
  /\ nClient = "persist" /\ nClient' = "wait"
  /\ UNCHANGED <<searchVars, nQueue, nFaults>>

\* The client closes the stream: abort is set and the queries are cancelled; threads run on.
Disconnect ==
  /\ ~Aborted /\ nClient' = "left"
  /\ nQ' = [q \in NQueries |-> IF nQ[q].pc \in {"end", "failed"} THEN nQ[q] ELSE [nQ[q] EXCEPT !.pc = "cancelled"]]
  /\ nDb' = NoQuery
  /\ UNCHANGED <<nPref, nList, nInit, nJob, nFetch, nBreak, nQueue, nFaults>>

(***************************************************************************)
(* A query.  asyncio.gather raises the first failure, and run_search then  *)
(* says done while the other query runs on.                                *)
(***************************************************************************)
Finished(q) == nQ[q].pc \in {"end", "failed"}
EndQuery(q, how) ==
  /\ nQ' = [nQ EXCEPT ![q].pc = how]
  /\ IF /\ \A p \in NQueries : nQ[p].pc # "failed"
        /\ how = "failed" \/ \A p \in NQueries \ {q} : nQ[p].pc = "end"
     THEN SafePut(Done) ELSE UNCHANGED nQueue

AppendAll(bs) == nList \o SetToSeq(bs)
Fanned == [k \in SiteSlots |-> IF k <= Len(nList') THEN "queued" ELSE "none"]

\* _ensure_initialized, up to the read of the sites.
EnsureInitialized(q) ==
  /\ nQ[q].pc = "start"
  /\ IF nInit THEN nList' = nList /\ nQ' = [nQ EXCEPT ![q].pc = "fan"] /\ nJob' = [nJob EXCEPT ![q] = Fanned] /\ UNCHANGED <<nInit, nDb, nQueue>>
     ELSE /\ nList' = AppendAll(NBackends \ {"native"})
          /\ \/ "native" \notin NBackends /\ nInit' = TRUE /\ nQ' = [nQ EXCEPT ![q].pc = "fan"] /\ nJob' = [nJob EXCEPT ![q] = Fanned]
                /\ UNCHANGED <<nDb, nQueue>>
             \/ "native" \in NBackends /\ nDb = NoQuery /\ nDb' = q
                /\ nQ' = [nQ EXCEPT ![q].pc = "sites"] /\ UNCHANGED <<nInit, nJob, nQueue>>
             \/ \* The session is at work for the other query: the statement is refused.
                "native" \in NBackends /\ nDb # NoQuery /\ EndQuery(q, "failed") /\ UNCHANGED <<nInit, nDb, nJob>>
  /\ UNCHANGED <<nPref, nFetch, nBreak, nClient, nFaults>>

NativeIndexer(q) ==
  /\ nQ[q].pc = "sites" /\ nDb' = NoQuery
  /\ nList' = Append(nList, "native") /\ nInit' = TRUE
  /\ nQ' = [nQ EXCEPT ![q].pc = "fan"] /\ nJob' = [nJob EXCEPT ![q] = Fanned]
  /\ UNCHANGED <<nPref, nFetch, nBreak, streamVars, nFaults>>

CircuitAllows(b) == nBreak[b] < NThreshold
Skipped(q, k) ==
  /\ nJob[q][k] = "queued" /\ nQ[q].pc = "fan" /\ ~CircuitAllows(nList[k]) /\ nJob' = [nJob EXCEPT ![q][k] = "ended"]
  /\ UNCHANGED <<nPref, nList, nInit, nQ, nFetch, nBreak, nDb, streamVars, nFaults>>

\* The preferred mirror first, then all others.
Ordered(s) == <<nPref[s]>> \o Filtered(NMirrors, LAMBDA u : u # nPref[s])

CallBackend(q, k) ==
  /\ nJob[q][k] = "queued" /\ nQ[q].pc = "fan" /\ CircuitAllows(nList[k])
  /\ Cardinality({j \in SiteSlots : nJob[q][j] = "run"}) < NFanout
  /\ nJob' = [nJob EXCEPT ![q][k] = "run"]
  /\ nFetch' = IF nList[k] # "native" THEN nFetch
               ELSE [nFetch EXCEPT ![q][k] = [s \in NSites |-> [IdleFetch EXCEPT !.st = "try", !.rest = Ordered(s)]]]
  /\ UNCHANGED <<nPref, nList, nInit, nQ, nBreak, nDb, streamVars, nFaults>>

Reset(b) == nBreak' = [nBreak EXCEPT ![b] = 0]
Ended(q, k) == nJob' = [nJob EXCEPT ![q][k] = "ended"]

\* Prowlarr and Jackett answer as a whole; Jackett swallows what its indexers raise.
Swallows(b) == b = "jackett"
BackendAnswers(q, k) ==
  /\ nJob[q][k] = "run" /\ nList[k] # "native" /\ Ended(q, k) /\ Reset(nList[k])
  /\ \E some \in BOOLEAN : OnPartial(q, some) /\ nQ' = [nQ EXCEPT ![q].any = @ \/ some]
  /\ UNCHANGED <<nPref, nList, nInit, nFetch, nDb, nClient, nFaults>>

BackendFails(q, k) ==
  /\ nJob[q][k] = "run" /\ nList[k] # "native" /\ ~Swallows(nList[k]) /\ Ended(q, k) /\ NFault
  /\ nBreak' = [nBreak EXCEPT ![nList[k]] = IF @ < NThreshold THEN @ + 1 ELSE @]
  /\ UNCHANGED <<nPref, nList, nInit, nQ, nFetch, nDb, streamVars>>

CircuitCools(b) ==
  /\ ~CircuitAllows(b) /\ Reset(b)
  /\ UNCHANGED <<nPref, nList, nInit, nQ, nJob, nFetch, nDb, streamVars, nFaults>>

\* A site: one mirror after the other, each with one more try for a passing fault.
Fetching(q, k, s) == nJob[q][k] = "run" /\ nFetch[q][k][s].st = "try"

FetchMirror(q, k, s) ==
  /\ Fetching(q, k, s) /\ nFetch[q][k][s].rest # <<>>
  /\ nFetch' = [nFetch EXCEPT ![q][k][s].st = "ok"] /\ nPref' = [nPref EXCEPT ![s] = Head(nFetch[q][k][s].rest)]
  /\ \E some \in BOOLEAN : OnPartial(q, some) /\ nQ' = [nQ EXCEPT ![q].any = @ \/ some]
  /\ UNCHANGED <<nList, nInit, nJob, nBreak, nDb, nClient, nFaults>>

SiteFails(q, k, s) ==
  /\ Fetching(q, k, s) /\ nFetch[q][k][s].rest # <<>> /\ NFault
  /\ \E retry \in BOOLEAN :
       nFetch' = [nFetch EXCEPT ![q][k][s] = IF retry /\ ~nFetch[q][k][s].again THEN [nFetch[q][k][s] EXCEPT !.again = TRUE]
                                             ELSE [nFetch[q][k][s] EXCEPT !.rest = Tail(nFetch[q][k][s].rest), !.again = FALSE]]
  /\ UNCHANGED <<nPref, nList, nInit, nQ, nJob, nBreak, nDb, streamVars>>

\* All sites have answered or failed, or the deadline passed: the threads are left alone.
NativeEnds(q, k) ==
  /\ nJob[q][k] = "run" /\ nList[k] = "native" /\ Ended(q, k) /\ Reset("native")
  /\ \/ \A s \in NSites : nFetch[q][k][s].st # "try" \/ nFetch[q][k][s].rest = <<>>
     \/ \E s \in NSites : Fetching(q, k, s) /\ nFetch[q][k][s].again
  /\ nFetch' = [nFetch EXCEPT ![q][k] = [s \in NSites |-> IdleFetch]]
  /\ UNCHANGED <<nPref, nList, nInit, nQ, nDb, streamVars, nFaults>>

\* The gather is over: results are saved over the session of the service.
Gathered(q) ==
  /\ nQ[q].pc = "fan" /\ \A k \in SiteSlots : nJob[q][k] \in {"none", "ended"}
  /\ IF ~nQ[q].any THEN EndQuery(q, "end") /\ UNCHANGED nDb
     ELSE IF nDb = NoQuery THEN nDb' = q /\ nQ' = [nQ EXCEPT ![q].pc = "commit"] /\ UNCHANGED nQueue
     ELSE EndQuery(q, "failed") /\ UNCHANGED nDb
  /\ UNCHANGED <<nPref, nList, nInit, nJob, nFetch, nBreak, nClient, nFaults>>

SaveResults(q) ==
  /\ nQ[q].pc = "commit" /\ nDb' = NoQuery /\ EndQuery(q, "end")
  /\ UNCHANGED <<nPref, nList, nInit, nJob, nFetch, nBreak, nClient, nFaults>>

\* search, search_movie, search_season and search_episode take the same steps.
QueryStep(q) ==
  \/ EnsureInitialized(q) \/ NativeIndexer(q) \/ Gathered(q) \/ SaveResults(q)
  \/ \E k \in SiteSlots : \/ Skipped(q, k) \/ CallBackend(q, k) \/ BackendAnswers(q, k) \/ NativeEnds(q, k)
                          \/ \E s \in NSites : FetchMirror(q, k, s)
ClientStep == NextChunk \/ PersistChunk

IndexerSearchNext ==
  \/ \E q \in NQueries : \/ QueryStep(q)
                         \/ \E k \in SiteSlots : BackendFails(q, k) \/ \E s \in NSites : SiteFails(q, k, s)
  \/ ClientStep \/ Disconnect \/ \E b \in NBackends : CircuitCools(b)

IndexerSearchSpec == IndexerSearchInit /\ [][IndexerSearchNext]_nVars
IndexerSearchFair == IndexerSearchSpec /\ WF_nVars(ClientStep) /\ \A q \in NQueries : WF_nVars(QueryStep(q))

(***************************************************************************)
(* Properties.                                                             *)
(***************************************************************************)

\* A stream comes to its end: the client reads the done event, or leaves first; though the
\* queue drops its oldest item, queries fail and the client is slow.  This needs a queue with
\* room for what a query that runs on sends behind an early done: with one slot less, the
\* done itself is the item that is dropped.
StreamEnds == <>Aborted

\* "Emits one SearchStreamChunk per indexer / native backend site as it completes": the client
\* reads the done event only when no backend of any query is still to answer.
DoneAfterAll == nClient = "ended" => \A q \in NQueries : Finished(q)

=============================================================================
