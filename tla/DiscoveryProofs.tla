---------------------------- MODULE DiscoveryProofs ----------------------------
(***************************************************************************)
(* The search for releases, the requests for them and their download,      *)
(* proved for any calls, rows, tasks, pollers, sources, backends, sites,   *)
(* releases, configurations, torrents and bounds: there is one shared      *)
(* browser however launches, teardowns, deaths and the shutdown            *)
(* interleave; the overlapping passes over the requests make at most one   *)
(* request in Seerr for a row; a poll that outlives its lease neither      *)
(* moves a watermark back nor inserts an item twice; no torrent that was   *)
(* reported finished is lost to a stop, a failed move or a save that came  *)
(* late; and the preview of the settings keeps what a search keeps, in the *)
(* order of its scores.  The last part proves the same of the composition  *)
(* that the runs of MCDiscovery check, with its type invariant.            *)
(***************************************************************************)
EXTENDS MCDiscovery, OrderLemmas, FiniteSetTheorems, TLAPS

(***************************************************************************)
(* The shared browser.  Whatever runs is the shared browser or the one     *)
(* that the holder of the launch lock is about to share; while it is       *)
(* launched there is no shared browser.                                    *)
(***************************************************************************)
CallRecords == [pc : {"idle", "lock", "external", "queued", "ensure", "launch", "get", "page", "done"},
                try : 1..2, on : Browsers \cup {NoBrowser}]

BrowserVarsTyped ==
  /\ bCall \in [Tasks -> CallRecords]
  /\ bShared \in Browsers \cup {NoBrowser} /\ bLive \subseteq Browsers
  /\ bLaunched \in 0..MaxLaunches

Launching == \A c \in Tasks : bCall[c].pc = "launch" => bLaunch = c /\ bShared = NoBrowser

Known == \A b \in bLive : b = bShared \/ \E c \in Tasks : bCall[c].pc = "launch" /\ bCall[c].on = b

BrowserInv == BrowserVarsTyped /\ Launching /\ Known

LEMMA BrowserInvInit == BrowserInit => BrowserInv
<1>1. [pc |-> "idle", try |-> 1, on |-> NoBrowser] \in CallRecords
  BY DEF CallRecords
<1>. QED
  BY <1>1, BrowserAssumption DEF BrowserInit, BrowserInv, BrowserVarsTyped, Launching, Known

\* A step that moves calls outside the launch and touches no browser.
LEMMA CallMoves ==
  ASSUME BrowserInv, UNCHANGED <<bShared, bLaunched, bLaunch>>, bLive' \subseteq bLive,
         bCall' \in [Tasks -> CallRecords],
         \A c \in Tasks : bCall'[c] = bCall[c] \/ (bCall[c].pc # "launch" /\ bCall'[c].pc # "launch")
  PROVE  BrowserInv'
BY DEF BrowserInv, BrowserVarsTyped, Launching, Known

LEMMA Moved ==
  ASSUME BrowserVarsTyped, NEW c \in Tasks, NEW pc \in {"idle", "lock", "external", "queued", "ensure", "get", "page", "done"},
         At(c, pc), bCall[c].pc # "launch"
  PROVE  /\ bCall' \in [Tasks -> CallRecords]
         /\ \A d \in Tasks : bCall'[d] = bCall[d] \/ (bCall[d].pc # "launch" /\ bCall'[d].pc # "launch")
<1>. DEFINE rec == [bCall[c] EXCEPT !.pc = pc]
<1>1. rec \in CallRecords /\ rec.pc = pc
  BY DEF BrowserVarsTyped, CallRecords
<1>2. bCall' = [bCall EXCEPT ![c] = rec]
  BY DEF At
<1>. HIDE DEF rec
<1>. QED  BY <1>1, <1>2 DEF BrowserVarsTyped

LEMMA BrowserInvNext == BrowserInv /\ [BrowserNext]_bVars => BrowserInv'
<1>. SUFFICES ASSUME BrowserInv, [BrowserNext]_bVars PROVE BrowserInv'
  OBVIOUS
<1>t. BrowserVarsTyped /\ Launching /\ Known
  BY DEF BrowserInv
<1>b. BCalls \subseteq Tasks /\ Warm \in Tasks
  BY DEF Tasks
<1>f. FreeSlot \notin Tasks
  BY BrowserAssumption DEF Tasks, Warm, FreeSlot
<1>r. [pc |-> "done", try |-> 1, on |-> NoBrowser] \in CallRecords
      /\ [pc |-> "ensure", try |-> 2, on |-> NoBrowser] \in CallRecords
  BY DEF CallRecords
<1>1. ASSUME NEW c \in BCalls,
             \/ Solve(c) \/ SolveInBackground(c) \/ TakeDomain(c) \/ DomainTimeout(c)
             \/ SolveExternally(c) \/ TakeSemaphore(c) \/ PageLoads(c)
      PROVE  BrowserInv'
  <2>1. \E pc \in {"lock", "external", "queued", "ensure", "get", "page", "done"} : At(c, pc)
    BY <1>1 DEF Solve, SolveInBackground, TakeDomain, DomainTimeout, SolveExternally, TakeSemaphore, PageLoads
  <2>2. bCall[c].pc # "launch" /\ UNCHANGED browserVars
    BY <1>1 DEF Solve, SolveInBackground, TakeDomain, DomainTimeout, SolveExternally, TakeSemaphore, PageLoads
  <2>. QED  BY <1>b, <1>t, <2>1, <2>2, Moved, CallMoves DEF browserVars
<1>2. ASSUME NEW c \in BCalls, SolvePage(c) \/ Fails(c) PROVE BrowserInv'
  <2>1. bCall' = [bCall EXCEPT ![c] = [pc |-> "done", try |-> 1, on |-> NoBrowser]]
        /\ bCall[c].pc # "launch" /\ UNCHANGED browserVars
    BY <1>2 DEF SolvePage, Fails, Return
  <2>2. bCall' \in [Tasks -> CallRecords]
        /\ \A d \in Tasks : bCall'[d] = bCall[d] \/ (bCall[d].pc # "launch" /\ bCall'[d].pc # "launch")
    BY <1>b, <1>r, <1>t, <2>1 DEF BrowserVarsTyped
  <2>. QED  BY <2>1, <2>2, CallMoves DEF browserVars
<1>3. ASSUME NEW c \in BCalls, PageStalls(c) PROVE BrowserInv'
  <2>1. bCall' = [bCall EXCEPT ![c] = [pc |-> "ensure", try |-> 2, on |-> NoBrowser]]
        /\ bCall[c].pc = "get" /\ bShared' = NoBrowser /\ bLive' = bLive \ {bShared}
        /\ UNCHANGED <<bLaunched, bLaunch>>
    BY <1>3 DEF PageStalls, TornDown
  <2>2. bCall' \in [Tasks -> CallRecords] /\ bCall'[c].pc = "ensure"
        /\ \A d \in Tasks \ {c} : bCall'[d] = bCall[d]
    BY <1>b, <1>r, <1>t, <2>1 DEF BrowserVarsTyped
  <2>. QED  BY <1>b, <1>t, <2>1, <2>2 DEF BrowserInv, BrowserVarsTyped, Launching, Known
<1>4. ASSUME NEW c \in Tasks, ReuseBrowser(c) PROVE BrowserInv'
  <2>1. bCall[c].pc = "ensure" /\ UNCHANGED <<bShared, bLive, bLaunched, bLaunch>>
    BY <1>4 DEF ReuseBrowser
  <2>2. CASE At(c, "done")
    BY <1>t, <2>1, <2>2, Moved, CallMoves
  <2>3. CASE bCall' = [bCall EXCEPT ![c].pc = "get", ![c].on = bShared]
    <3>. DEFINE rec == [bCall[c] EXCEPT !.pc = "get", !.on = bShared]
    <3>1. rec \in CallRecords /\ rec.pc = "get"
      BY <1>t DEF BrowserVarsTyped, CallRecords
    <3>2. bCall' = [bCall EXCEPT ![c] = rec]
      BY <2>3
    <3>. HIDE DEF rec
    <3>3. bCall' \in [Tasks -> CallRecords]
          /\ \A d \in Tasks : bCall'[d] = bCall[d] \/ (bCall[d].pc # "launch" /\ bCall'[d].pc # "launch")
      BY <1>t, <2>1, <3>1, <3>2 DEF BrowserVarsTyped
    <3>. QED  BY <2>1, <3>3, CallMoves
  <2>. QED  BY <1>4, <2>2, <2>3 DEF ReuseBrowser
<1>5. ASSUME NEW c \in Tasks, Launch(c) PROVE BrowserInv'
  <2>. DEFINE b == bLaunched + 1
              rec == [bCall[c] EXCEPT !.pc = "launch", !.on = b]
  <2>1. b \in Browsers /\ bCall[c].pc = "ensure" /\ bLaunch = FreeSlot
        /\ bLaunch' = c /\ bLaunched' = b /\ bShared' = NoBrowser /\ bLive' \subseteq (bLive \ {bShared}) \cup {b}
    BY <1>5, <1>t DEF Launch, LaunchLockFree, BrowserVarsTyped, Browsers, NoBrowser
  <2>2. rec \in CallRecords /\ rec.pc = "launch" /\ rec.on = b
    BY <1>t, <2>1 DEF BrowserVarsTyped, CallRecords
  <2>3. bCall' = [bCall EXCEPT ![c] = rec]
    BY <1>5 DEF Launch
  <2>. HIDE DEF rec
  <2>4. bCall' \in [Tasks -> CallRecords] /\ bCall'[c] = rec /\ \A d \in Tasks \ {c} : bCall'[d] = bCall[d]
    BY <1>t, <2>2, <2>3 DEF BrowserVarsTyped
  <2>5. \A d \in Tasks : bCall[d].pc # "launch"
    BY <1>f, <1>t, <2>1 DEF Launching
  <2>. QED
    BY <1>t, <2>1, <2>2, <2>4, <2>5, BrowserAssumption
       DEF BrowserInv, BrowserVarsTyped, Launching, Known, Browsers, NoBrowser
<1>6. ASSUME NEW c \in Tasks, LaunchDone(c) PROVE BrowserInv'
  <2>1. /\ bCall[c].pc = "launch" /\ bLaunch = c /\ bShared' = bCall[c].on /\ bCall[c].on \in bLive
        /\ UNCHANGED <<bLive, bLaunched>>
    BY <1>6, <1>t DEF LaunchDone, Launching
  <2>2. PICK pc \in {"done", "get"} : bCall' = [bCall EXCEPT ![c].pc = pc]
    BY <1>6 DEF LaunchDone, At
  <2>. DEFINE rec == [bCall[c] EXCEPT !.pc = pc]
  <2>3. rec \in CallRecords /\ rec.pc # "launch"
    BY <1>t DEF BrowserVarsTyped, CallRecords
  <2>4. bCall' = [bCall EXCEPT ![c] = rec]
    BY <2>2
  <2>. HIDE DEF rec
  <2>5. \A d \in Tasks : bCall[d].pc = "launch" => d = c
    BY <1>t, <2>1 DEF Launching
  <2>6. bCall' \in [Tasks -> CallRecords] /\ bCall'[c].pc # "launch" /\ \A d \in Tasks \ {c} : bCall'[d] = bCall[d]
    BY <1>t, <2>3, <2>4 DEF BrowserVarsTyped
  <2>7. BrowserVarsTyped'
    BY <1>t, <2>1, <2>6 DEF BrowserVarsTyped
  <2>8. Launching'
    BY <2>5, <2>6 DEF Launching
  <2>9. bLive \subseteq {bShared'}
    BY <1>t, <2>1, <2>5 DEF BrowserVarsTyped, Launching, Known, Browsers, NoBrowser
  <2>. QED  BY <2>1, <2>7, <2>8, <2>9 DEF BrowserInv, Known
<1>7. ASSUME NEW c \in Tasks, LaunchFails(c) PROVE BrowserInv'
  <2>1. /\ bCall[c].pc = "launch" /\ bLaunch = c /\ bLive' = bLive \ {bCall[c].on}
        /\ bCall' = [bCall EXCEPT ![c] = [pc |-> "done", try |-> 1, on |-> NoBrowser]]
        /\ UNCHANGED <<bShared, bLaunched>>
    BY <1>7, <1>t DEF LaunchFails, CleanupPartial, Launching
  <2>2. \A d \in Tasks : bCall[d].pc = "launch" => d = c
    BY <1>t, <2>1 DEF Launching
  <2>3. bCall' \in [Tasks -> CallRecords] /\ bCall'[c].pc # "launch" /\ \A d \in Tasks \ {c} : bCall'[d] = bCall[d]
    BY <1>r, <1>t, <2>1 DEF BrowserVarsTyped
  <2>. QED  BY <1>t, <2>1, <2>2, <2>3 DEF BrowserInv, BrowserVarsTyped, Launching, Known
<1>8. ASSUME NEW d \in Sites, HalfOpen(d) \/ CookiesExpire(d) PROVE BrowserInv'
  BY <1>8, <1>t, CallMoves DEF HalfOpen, CookiesExpire, browserVars, BrowserVarsTyped
<1>9. ASSUME NEW b \in Browsers, BrowserDies(b) PROVE BrowserInv'
  BY <1>9, <1>t, CallMoves DEF BrowserDies, BrowserVarsTyped
<1>10. ASSUME WarmUp PROVE BrowserInv'
  <2>1. At(Warm, "ensure") /\ bCall[Warm].pc # "launch" /\ UNCHANGED browserVars
    BY <1>10 DEF WarmUp
  <2>. QED  BY <1>b, <1>t, <2>1, Moved, CallMoves DEF browserVars
<1>11. ASSUME Shutdown PROVE BrowserInv'
  <2>1. bShared' = NoBrowser /\ bShared \notin bLive' /\ bLive' \subseteq bLive /\ UNCHANGED <<bCall, bLaunched, bLaunch>>
    BY <1>11 DEF Shutdown
  <2>. QED  BY <1>t, <2>1 DEF BrowserInv, BrowserVarsTyped, Launching, Known
<1>12. ASSUME UNCHANGED bVars PROVE BrowserInv'
  BY <1>12, <1>t, CallMoves DEF bVars, BrowserVarsTyped
<1>. QED
  BY <1>1, <1>2, <1>3, <1>4, <1>5, <1>6, <1>7, <1>8, <1>9, <1>10, <1>11, <1>12 DEF BrowserNext

(* The inductive invariant of the shared browser holds in every reachable  *)
(* state, for any calls, domains and bounds.                               *)
THEOREM BrowserInvariant == BrowserSpec => []BrowserInv
BY BrowserInvInit, BrowserInvNext, PTL DEF BrowserSpec

LEMMA AtMostOne == BrowserInv => OneBrowser
  <1>. SUFFICES ASSUME BrowserInv PROVE OneBrowser
    OBVIOUS
  <1>1. \A a, b \in bLive : a = b
    <2>. SUFFICES ASSUME NEW a \in bLive, NEW b \in bLive PROVE a = b
      OBVIOUS
    <2>1. NoBrowser \notin bLive
      BY DEF BrowserInv, BrowserVarsTyped, Browsers, NoBrowser
    <2>. QED  BY <2>1 DEF BrowserInv, Launching, Known
  <1>2. CASE bLive = {}
    BY <1>2, FS_EmptySet DEF OneBrowser
  <1>3. CASE bLive # {}
    <2>1. PICK a : bLive = {a}
      BY <1>1, <1>3
    <2>. QED  BY <2>1, FS_Singleton DEF OneBrowser
  <1>. QED  BY <1>2, <1>3

(* At most one Chromium runs, however the calls, the warm-up, the launches,*)
(* the tear-downs and the deaths of the process interleave.                *)
THEOREM OneChromium == BrowserSpec => []OneBrowser
BY AtMostOne, BrowserInvariant, PTL

(***************************************************************************)
(* The requests.  Between the list of the rows without a number and the    *)
(* number of the last of them one task holds the lock.  A row that         *)
(* reconcile made in Seerr has a number since, unless it was deleted or    *)
(* its number is about to be stored.                                       *)
(***************************************************************************)
RowRecords == [status : Moderated \cup {"unused", "deleted"}, link : Ups \cup {NoLink}, native : BOOLEAN]
Pulled == [n : Ups, st : {"pending", "approved", "declined"}, avail : BOOLEAN]
Reconciling == {"pull", "pushlist", "push", "link", "moderate"}
TaskRecords == [pc : Reconciling \cup {"idle", "wait", "list", "fulfil", "mark", "check"},
                pull : SUBSET Pulled, push : SUBSET [row : RRows, was : {"pending", "approved"}],
                row : RRows \cup {NoRow}, was : {"none", "pending", "approved"},
                up : Ups \cup {NoLink}, todo : SUBSET [row : RRows, fresh : BOOLEAN]]

RequestVarsTyped ==
  /\ rRow \in [RRows -> RowRecords] /\ rTask \in [RTasks -> TaskRecords]
  /\ rUp \in [Ups -> [st : {"none", "pending", "approved", "declined"}, avail : BOOLEAN]]
  /\ rUps \in 0..RMaxUp /\ rMade \in [RRows -> [reconcile : Nat, creation : Nat]]
  /\ rNew \in [RRows -> Ups \cup {NoLink, ToPush}]

\* What the position of a task says of it.
Positions ==
  \A t \in RTasks :
    /\ rTask[t].pc \in Reconciling => rLock = t
    /\ rTask[t].pc \notin {"push", "link", "moderate"} => rTask[t].push = {}
    /\ rTask[t].pc \in {"link", "mark", "check"} => rTask[t].row \in RRows

\* A number is given once, and a deleted row has none.
Numbered ==
  /\ \A r \in RRows : /\ rRow[r].link <= rUps /\ rNew[r] <= rUps
                      /\ rRow[r].status = "deleted" => rRow[r].link = NoLink
  /\ \A t \in RTasks : /\ rTask[t].up <= rUps
                       /\ \A sr \in rTask[t].pull : sr.n <= rUps

\* Who is about to store a number is the only one that has it, and its row was a request.
ToLink ==
  \A t \in RTasks : rTask[t].pc = "link" =>
    /\ rTask[t].up # NoLink /\ rRow[rTask[t].row].status # "unused"
    /\ \A r \in RRows : rRow[r].link # rTask[t].up /\ rNew[r] # rTask[t].up

\* What is left to push has not been made, each row once.
LeftToPush ==
  \A t \in RTasks : \A x \in rTask[t].push :
    /\ rMade[x.row].reconcile = 0 /\ rRow[x.row].status # "unused"
    /\ \A y \in rTask[t].push : y.row = x.row => y = x

MadeOnce ==
  \A r \in RRows :
    \/ rMade[r].reconcile = 0
    \/ /\ rMade[r].reconcile = 1
       /\ \/ rRow[r].link # NoLink \/ rRow[r].status = "deleted"
          \/ \E t \in RTasks : rTask[t].pc = "link" /\ rTask[t].row = r

RequestsInv == RequestVarsTyped /\ Positions /\ Numbered /\ ToLink /\ LeftToPush /\ MadeOnce

LEMMA RequestsInvInit == RequestsInit => RequestsInv
<1>. SUFFICES ASSUME RequestsInit PROVE RequestsInv
  OBVIOUS
<1>1. IdleTask \in TaskRecords /\ IdleTask.pc = "idle" /\ IdleTask.push = {} /\ IdleTask.pull = {} /\ IdleTask.up = NoLink
  BY DEF IdleTask, TaskRecords
<1>2. PICK st \in [RRows -> {"unused", "pending", "approved"}] :
        rRow = [r \in RRows |-> [status |-> st[r], link |-> NoLink, native |-> TRUE]]
  BY DEF RequestsInit
<1>3. rRow \in [RRows -> RowRecords]
  BY <1>2 DEF RowRecords, Moderated
<1>4. rUp \in [Ups -> [st : {"none", "pending", "approved", "declined"}, avail : BOOLEAN]]
  BY DEF RequestsInit
<1>5. rUps = 0 /\ 0 \in 0..RMaxUp /\ rMade = [r \in RRows |-> [reconcile |-> 0, creation |-> 0]]
      /\ rNew = [r \in RRows |-> NoLink] /\ rTask = [t \in RTasks |-> IdleTask]
  BY RequestsAssumption DEF RequestsInit
<1>6. RequestVarsTyped
  BY <1>1, <1>3, <1>4, <1>5 DEF RequestVarsTyped
<1>7. Positions /\ ToLink /\ LeftToPush
  BY <1>1, <1>5 DEF Positions, ToLink, LeftToPush, Reconciling
<1>8. Numbered
  BY <1>1, <1>2, <1>5 DEF Numbered, NoLink
<1>9. MadeOnce
  BY <1>5 DEF MadeOnce
<1>. QED  BY <1>6, <1>7, <1>8, <1>9 DEF RequestsInv

\* What a step does to the rows: numbers stay, as deletions do, and none is one about to be stored.
RowsMove ==
  \A r \in RRows :
    /\ rRow[r].status # "unused" => rRow'[r].status # "unused"
    /\ rRow[r].status = "deleted" => rRow'[r].status = "deleted"
    /\ rRow[r].link # NoLink => rRow'[r].link # NoLink \/ rRow'[r].status = "deleted"
    /\ rRow'[r].status = "deleted" => rRow'[r].link = NoLink
    /\ rRow'[r].link <= rUps' /\ rNew'[r] <= rUps'

NoneTakes(n) == \A r \in RRows : rRow'[r].link # n /\ rNew'[r] # n

\* A step that leaves the tasks alone.
LEMMA RowStep ==
  ASSUME RequestsInv, RequestVarsTyped', UNCHANGED <<rTask, rLock>>, rUps <= rUps', RowsMove,
         \A r \in RRows : rMade'[r].reconcile = rMade[r].reconcile,
         \A t \in RTasks : rTask[t].pc = "link" => NoneTakes(rTask[t].up)
  PROVE  RequestsInv'
<1>t. RequestVarsTyped /\ Positions /\ Numbered /\ ToLink /\ LeftToPush /\ MadeOnce
  BY DEF RequestsInv
<1>1. Positions'
  BY <1>t DEF Positions
<1>2. Numbered'
  <2>1. rUps \in Nat /\ rUps' \in Nat
    BY <1>t DEF RequestVarsTyped
  <2>2. \A t \in RTasks : rTask[t].up \in Nat /\ \A sr \in rTask[t].pull : sr.n \in Nat
    BY <1>t DEF RequestVarsTyped, TaskRecords, Pulled, Ups, NoLink
  <2>. QED  BY <1>t, <2>1, <2>2 DEF Numbered, RowsMove
<1>3. ToLink'
  BY <1>t DEF ToLink, RowsMove, NoneTakes, Positions
<1>4. LeftToPush'
  <2>1. \A t \in RTasks : \A x \in rTask[t].push : x.row \in RRows
    BY <1>t DEF RequestVarsTyped, TaskRecords
  <2>. QED  BY <1>t, <2>1 DEF LeftToPush, RowsMove
<1>5. MadeOnce'
  BY <1>t DEF MadeOnce, RowsMove
<1>. QED  BY <1>1, <1>2, <1>3, <1>4, <1>5 DEF RequestsInv

\* A step of one task that makes nothing in Seerr; the one that was to store a number has done so.
LEMMA TaskStep ==
  ASSUME RequestsInv, RequestVarsTyped', NEW t \in RTasks, NEW rec \in TaskRecords,
         rTask' = [rTask EXCEPT ![t] = rec], UNCHANGED <<rMade, rUps>>, RowsMove,
         \A u \in RTasks \ {t} : rTask[u].pc = "link" => NoneTakes(rTask[u].up),
         rTask[t].pc = "link" => \/ rRow'[rTask[t].row].link # NoLink
                                 \/ rRow'[rTask[t].row].status = "deleted",
         rLock' = rLock \/ rLock \in {NoTask, t},
         rec.pc # "link", rec.pc \in Reconciling => rLock' = t,
         rec.pc \notin {"push", "link", "moderate"} => rec.push = {},
         rec.pc \in {"mark", "check"} => rec.row \in RRows,
         rec.up <= rUps, \A sr \in rec.pull : sr.n <= rUps,
         \A x \in rec.push : /\ rMade[x.row].reconcile = 0 /\ rRow[x.row].status # "unused"
                             /\ \A y \in rec.push : y.row = x.row => y = x
  PROVE  RequestsInv'
<1>t. RequestVarsTyped /\ Positions /\ Numbered /\ ToLink /\ LeftToPush /\ MadeOnce
  BY DEF RequestsInv
<1>u. rTask'[t] = rec /\ \A u \in RTasks \ {t} : rTask'[u] = rTask[u]
  BY <1>t DEF RequestVarsTyped
<1>1. Positions'
  BY <1>t, <1>u, RequestsAssumption DEF Positions
<1>2. Numbered'
  BY <1>t, <1>u DEF Numbered, RowsMove
<1>3. ToLink'
  BY <1>t, <1>u DEF ToLink, RowsMove, NoneTakes, Positions
<1>4. LeftToPush'
  <2>1. \A u \in RTasks : \A x \in rTask'[u].push : x.row \in RRows
    BY DEF RequestVarsTyped, TaskRecords
  <2>. QED  BY <1>t, <1>u, <2>1 DEF LeftToPush, RowsMove
<1>5. MadeOnce'
  BY <1>t, <1>u DEF MadeOnce, RowsMove
<1>. QED  BY <1>1, <1>2, <1>3, <1>4, <1>5 DEF RequestsInv

\* A step changes one row, and takes no number but the one its creation got.
LEMMA OneRow ==
  ASSUME RequestsInv, NEW r \in RRows, rUps' = rUps,
         \A q \in RRows \ {r} : rRow'[q] = rRow[q] /\ rNew'[q] = rNew[q],
         rRow[r].status # "unused" => rRow'[r].status # "unused",
         rRow[r].status = "deleted" => rRow'[r].status = "deleted",
         rRow[r].link # NoLink => rRow'[r].link # NoLink \/ rRow'[r].status = "deleted",
         rRow'[r].status = "deleted" => rRow'[r].link = NoLink,
         rRow'[r].link \in {rRow[r].link, NoLink, rNew[r]}, rNew'[r] \in {rNew[r], NoLink, ToPush}
  PROVE  RowsMove /\ \A t \in RTasks : rTask[t].pc = "link" => NoneTakes(rTask[t].up)
<1>t. RequestVarsTyped /\ Positions /\ Numbered /\ ToLink
  BY DEF RequestsInv
<1>1. rUps \in Nat
  BY <1>t DEF RequestVarsTyped
<1>2. \A t \in RTasks : rTask[t].up \in Nat
  BY <1>t DEF RequestVarsTyped, TaskRecords, Ups, NoLink
<1>3. RowsMove
  BY <1>t, <1>1 DEF RowsMove, Numbered, NoLink, ToPush
<1>4. \A t \in RTasks : rTask[t].pc = "link" => NoneTakes(rTask[t].up)
  BY <1>t, <1>2 DEF ToLink, NoneTakes, NoLink, ToPush
<1>. QED  BY <1>3, <1>4

LEMMA NoRowMoves ==
  ASSUME RequestsInv, UNCHANGED <<rRow, rNew>>, rUps <= rUps', rUps' \in Nat
  PROVE  RowsMove /\ \A t \in RTasks : rTask[t].pc = "link" => NoneTakes(rTask[t].up)
<1>1. \A r \in RRows : rRow[r].link \in Int /\ rNew[r] \in Int /\ rUps \in Nat
  BY DEF RequestsInv, RequestVarsTyped, RowRecords, Ups, NoLink, ToPush
<1>. QED  BY <1>1 DEF RequestsInv, Numbered, ToLink, RowsMove, NoneTakes

LEMMA StatusSet ==
  ASSUME RequestVarsTyped, NEW r \in RRows, NEW st \in Moderated, SetStatus(r, st)
  PROVE  /\ rRow' \in [RRows -> RowRecords] /\ rRow'[r].status = st /\ rRow'[r].link = rRow[r].link
         /\ \A q \in RRows \ {r} : rRow'[q] = rRow[q]
<1>. DEFINE rec == [rRow[r] EXCEPT !.status = st]
<1>1. rec \in RowRecords /\ rec.status = st /\ rec.link = rRow[r].link
  BY DEF RequestVarsTyped, RowRecords
<1>2. rRow' = [rRow EXCEPT ![r] = rec]
  BY DEF SetStatus
<1>. HIDE DEF rec
<1>. QED  BY <1>1, <1>2 DEF RequestVarsTyped

(***************************************************************************)
(* The steps of users, moderators, Seerr and creations.                    *)
(***************************************************************************)
LEMMA StatusStep ==
  ASSUME RequestsInv, NEW r \in RRows, NEW st \in Moderated, SetStatus(r, st), rRow[r].status # "deleted",
         UNCHANGED <<rUp, rUps, rMade, rTask, rLock>>, rNew' = rNew \/ rNew' = [rNew EXCEPT ![r] = ToPush]
  PROVE  RequestsInv'
<1>1. RequestVarsTyped /\ "unused" \notin Moderated /\ "deleted" \notin Moderated /\ rUps \in Nat
  BY DEF RequestsInv, RequestVarsTyped, Moderated
<1>2. /\ rRow' \in [RRows -> RowRecords] /\ rRow'[r].status = st /\ rRow'[r].link = rRow[r].link
      /\ \A q \in RRows \ {r} : rRow'[q] = rRow[q]
  BY <1>1, StatusSet
<1>3. rNew' \in [RRows -> Ups \cup {NoLink, ToPush}] /\ rNew'[r] \in {rNew[r], ToPush}
      /\ \A q \in RRows \ {r} : rNew'[q] = rNew[q]
  BY <1>1 DEF RequestVarsTyped
<1>4. RequestVarsTyped'
  BY <1>1, <1>2, <1>3 DEF RequestVarsTyped
<1>5. RowsMove /\ \A t \in RTasks : rTask[t].pc = "link" => NoneTakes(rTask[t].up)
  BY <1>1, <1>2, <1>3, OneRow
<1>. QED  BY <1>1, <1>4, <1>5, RowStep

LEMMA UserStep ==
  ASSUME RequestsInv, NEW r \in RRows,
         \/ \E st \in {"pending", "approved"} : CreateRequest(r, st)
         \/ ApproveRequest(r) \/ RejectRequest(r) \/ DeleteRequest(r) \/ DownloadCompletes(r)
  PROVE  RequestsInv'
<1>t. RequestVarsTyped /\ rUps \in Nat
  BY DEF RequestsInv, RequestVarsTyped
<1>1. CASE \E st \in {"pending", "approved"} : CreateRequest(r, st)
  <2>1. PICK st \in {"pending", "approved"} : CreateRequest(r, st)
    BY <1>1
  <2>2. SetStatus(r, st) /\ rRow[r].status = "unused" /\ UNCHANGED <<rUp, rUps, rMade, rTask, rLock>>
        /\ rNew' = [rNew EXCEPT ![r] = ToPush] /\ st \in Moderated
    BY <2>1 DEF CreateRequest, Moderated
  <2>. QED  BY <2>2, StatusStep
<1>2. CASE ApproveRequest(r) \/ RejectRequest(r)
  <2>1. PICK st \in {"approved", "rejected"} : SetStatus(r, st)
    BY <1>2 DEF ApproveRequest, RejectRequest
  <2>2. st \in Moderated /\ rRow[r].status # "deleted" /\ UNCHANGED <<rUp, rUps, rMade, rTask, rLock, rNew>>
    BY <1>2 DEF ApproveRequest, RejectRequest, Exists, Moderated, upVars
  <2>. QED  BY <2>1, <2>2, StatusStep
<1>3. CASE DeleteRequest(r)
  <2>. DEFINE rec == [status |-> "deleted", link |-> NoLink, native |-> rRow[r].native]
  <2>1. rec \in RowRecords /\ rec.status = "deleted" /\ rec.link = NoLink
    BY <1>t DEF RequestVarsTyped, RowRecords
  <2>2. rRow' = [rRow EXCEPT ![r] = rec] /\ UNCHANGED <<rUp, rUps, rMade, rTask, rLock, rNew>>
    BY <1>3 DEF DeleteRequest, upVars
  <2>. HIDE DEF rec
  <2>3. /\ rRow' \in [RRows -> RowRecords] /\ rRow'[r] = rec /\ \A q \in RRows \ {r} : rRow'[q] = rRow[q]
    BY <1>t, <2>1, <2>2 DEF RequestVarsTyped
  <2>4. RequestVarsTyped'
    BY <1>t, <2>2, <2>3 DEF RequestVarsTyped
  <2>5. RowsMove /\ \A t \in RTasks : rTask[t].pc = "link" => NoneTakes(rTask[t].up)
    BY <1>t, <2>1, <2>2, <2>3, OneRow
  <2>. QED  BY <1>t, <2>2, <2>4, <2>5, RowStep
<1>4. CASE DownloadCompletes(r)
  <2>1. UNCHANGED <<rRow, rUp, rUps, rMade, rTask, rLock, rNew>>
    BY <1>4 DEF DownloadCompletes, upVars
  <2>2. RequestVarsTyped'
    BY <1>t, <2>1 DEF RequestVarsTyped
  <2>. QED  BY <1>t, <2>1, <2>2, NoRowMoves, RowStep
<1>. QED  BY <1>1, <1>2, <1>3, <1>4

LEMMA CreationStep ==
  ASSUME RequestsInv, NEW r \in RRows, PushNewLink(r) \/ PushNewSkipped(r) \/ \E n \in Ups : PushNew(r, n)
  PROVE  RequestsInv'
<1>t. RequestVarsTyped /\ rUps \in Nat
  BY DEF RequestsInv, RequestVarsTyped
<1>n. rRow[r].status = "deleted" => rRow[r].link = NoLink
  BY DEF RequestsInv, Numbered
<1>1. CASE PushNewLink(r)
  <2>1. rNew[r] \in Ups /\ rNew' = [rNew EXCEPT ![r] = NoLink] /\ UNCHANGED <<rUp, rUps, rMade, rTask, rLock>>
    BY <1>1 DEF PushNewLink
  <2>2. rNew' \in [RRows -> Ups \cup {NoLink, ToPush}] /\ rNew'[r] = NoLink
        /\ \A q \in RRows \ {r} : rNew'[q] = rNew[q]
    BY <1>t, <2>1 DEF RequestVarsTyped
  <2>3. CASE rRow' = [rRow EXCEPT ![r].link = rNew[r]] /\ Exists(r)
    <3>. DEFINE rec == [rRow[r] EXCEPT !.link = rNew[r]]
    <3>1. rec \in RowRecords /\ rec.link = rNew[r] /\ rec.status = rRow[r].status /\ rec.status # "deleted"
      BY <1>t, <2>1, <2>3 DEF RequestVarsTyped, RowRecords, Exists, Moderated
    <3>2. rRow' = [rRow EXCEPT ![r] = rec]
      BY <2>3
    <3>. HIDE DEF rec
    <3>3. /\ rRow' \in [RRows -> RowRecords] /\ rRow'[r] = rec /\ \A q \in RRows \ {r} : rRow'[q] = rRow[q]
      BY <1>t, <3>1, <3>2 DEF RequestVarsTyped
    <3>4. RequestVarsTyped'
      BY <1>t, <2>1, <2>2, <3>3 DEF RequestVarsTyped
    <3>5. rNew[r] # NoLink
      BY <2>1 DEF Ups, NoLink
    <3>6. RowsMove /\ \A t \in RTasks : rTask[t].pc = "link" => NoneTakes(rTask[t].up)
      BY <1>t, <2>1, <2>2, <3>1, <3>3, <3>5, OneRow
    <3>. QED  BY <1>t, <2>1, <3>4, <3>6, RowStep
  <2>4. CASE UNCHANGED rRow
    <3>1. RequestVarsTyped'
      BY <1>t, <2>1, <2>2, <2>4 DEF RequestVarsTyped
    <3>2. RowsMove /\ \A t \in RTasks : rTask[t].pc = "link" => NoneTakes(rTask[t].up)
      BY <1>t, <1>n, <2>1, <2>2, <2>4, OneRow
    <3>. QED  BY <1>t, <2>1, <3>1, <3>2, RowStep
  <2>. QED  BY <1>1, <2>3, <2>4 DEF PushNewLink
<1>2. CASE PushNewSkipped(r)
  <2>1. rNew' = [rNew EXCEPT ![r] = NoLink] /\ UNCHANGED <<rRow, rUp, rUps, rMade, rTask, rLock>>
    BY <1>2 DEF PushNewSkipped
  <2>2. rNew' \in [RRows -> Ups \cup {NoLink, ToPush}] /\ rNew'[r] = NoLink
        /\ \A q \in RRows \ {r} : rNew'[q] = rNew[q]
    BY <1>t, <2>1 DEF RequestVarsTyped
  <2>3. RequestVarsTyped'
    BY <1>t, <2>1, <2>2 DEF RequestVarsTyped
  <2>4. RowsMove /\ \A t \in RTasks : rTask[t].pc = "link" => NoneTakes(rTask[t].up)
    BY <1>t, <1>n, <2>1, <2>2, OneRow
  <2>. QED  BY <1>t, <2>1, <2>3, <2>4, RowStep
<1>3. ASSUME NEW n \in Ups, PushNew(r, n) PROVE RequestsInv'
  <2>1. n = rUps + 1 /\ rUps' = n /\ n \in 0..RMaxUp /\ rNew' = [rNew EXCEPT ![r] = n]
        /\ rUp' = [rUp EXCEPT ![n] = [st |-> "pending", avail |-> FALSE]] /\ UNCHANGED <<rRow, rTask, rLock>>
    BY <1>3, RequestsAssumption DEF PushNew, NewUpstream, Ups
  <2>. DEFINE rec == [rMade[r] EXCEPT !.creation = @ + 1]
  <2>2. rec \in [reconcile : Nat, creation : Nat] /\ rec.reconcile = rMade[r].reconcile
    BY <1>t DEF RequestVarsTyped
  <2>3. rMade' = [rMade EXCEPT ![r] = rec]
    BY <1>3 DEF PushNew
  <2>. HIDE DEF rec
  <2>4. rMade' \in [RRows -> [reconcile : Nat, creation : Nat]]
        /\ \A q \in RRows : rMade'[q].reconcile = rMade[q].reconcile
    BY <1>t, <2>2, <2>3 DEF RequestVarsTyped
  <2>5. RequestVarsTyped'
    BY <1>t, <2>1, <2>4 DEF RequestVarsTyped
  <2>6. /\ \A q \in RRows : rRow[q].link \in Int /\ rNew[q] \in Int
        /\ \A t \in RTasks : rTask[t].up \in Int
    BY <1>t DEF RequestVarsTyped, RowRecords, TaskRecords, Ups, NoLink, ToPush
  <2>7. RowsMove
    BY <1>t, <2>1, <2>6 DEF RequestsInv, RequestVarsTyped, Numbered, RowsMove
  <2>8. \A t \in RTasks : rTask[t].pc = "link" => NoneTakes(rTask[t].up)
    BY <1>t, <2>1, <2>6 DEF RequestsInv, RequestVarsTyped, Numbered, ToLink, NoneTakes
  <2>. QED  BY <1>t, <2>1, <2>4, <2>5, <2>7, <2>8, RowStep
<1>. QED  BY <1>1, <1>2, <1>3

LEMMA SeerrStep ==
  ASSUME RequestsInv,
         \/ \E c \in rCalls : SeerrCall(c) \/ SeerrCallFails(c)
         \/ \E n \in Ups : SeerrUser(n) \/ \E st \in {"approved", "declined"} : SeerrModerates(n, st)
  PROVE  RequestsInv'
<1>t. RequestVarsTyped /\ rUps \in Nat
  BY DEF RequestsInv, RequestVarsTyped
<1>1. UNCHANGED <<rRow, rNew, rTask, rLock, rMade>>
  BY DEF SeerrCall, SeerrCallFails, SeerrUser, SeerrModerates, upVars
<1>2. rUps' \in 0..RMaxUp /\ rUps <= rUps'
  BY <1>t, RequestsAssumption
     DEF SeerrCall, SeerrCallFails, SeerrUser, SeerrModerates, upVars, NewUpstream, Ups, RequestVarsTyped
<1>. DEFINE UpRecords == [st : {"none", "pending", "approved", "declined"}, avail : BOOLEAN]
<1>u. rUp \in [Ups -> UpRecords]
  BY <1>t DEF RequestVarsTyped
<1>3. rUp' \in [Ups -> UpRecords]
  <2>1. CASE \E c \in rCalls : SeerrCall(c)
    <3>1. PICK c \in rCalls : SeerrCall(c)
      BY <2>1
    <3>2. \A up \in UpRecords : Applied(up, c[1]) \in UpRecords
      BY DEF Applied
    <3>. HIDE DEF UpRecords
    <3>. QED  BY <1>u, <3>1, <3>2 DEF SeerrCall
  <2>2. CASE \E n \in Ups : \E st \in {"approved", "declined"} : SeerrModerates(n, st)
    <3>1. PICK n \in Ups, st \in {"approved", "declined"} : SeerrModerates(n, st)
      BY <2>2
    <3>. DEFINE rec == [rUp[n] EXCEPT !.st = st]
    <3>2. rec \in UpRecords
      BY <1>u
    <3>3. rUp' = [rUp EXCEPT ![n] = rec]
      BY <3>1 DEF SeerrModerates
    <3>. HIDE DEF rec, UpRecords
    <3>. QED  BY <1>u, <3>2, <3>3
  <2>3. CASE \E n \in Ups : SeerrUser(n)
    <3>1. [st |-> "pending", avail |-> FALSE] \in UpRecords
      OBVIOUS
    <3>. HIDE DEF UpRecords
    <3>. QED  BY <1>u, <2>3, <3>1 DEF SeerrUser
  <2>4. CASE \E c \in rCalls : SeerrCallFails(c)
    BY <1>u, <2>4 DEF SeerrCallFails, upVars
  <2>. QED  BY <2>1, <2>2, <2>3, <2>4
<1>4. RequestVarsTyped'
  BY <1>t, <1>1, <1>2, <1>3 DEF RequestVarsTyped
<1>5. rUps' \in Nat
  BY <1>2
<1>6. RowsMove /\ \A t \in RTasks : rTask[t].pc = "link" => NoneTakes(rTask[t].up)
  BY <1>1, <1>2, <1>5, NoRowMoves
<1>. QED  BY <1>1, <1>2, <1>4, <1>6, RowStep

(***************************************************************************)
(* The steps of a task.                                                    *)
(***************************************************************************)

\* It changes no row.
LEMMA TaskMoves ==
  ASSUME RequestsInv, NEW t \in RTasks, NEW rec \in TaskRecords,
         rTask' = [rTask EXCEPT ![t] = rec], UNCHANGED <<rRow, rUps, rMade, rNew>>,
         rUp' \in [Ups -> [st : {"none", "pending", "approved", "declined"}, avail : BOOLEAN]],
         rTask[t].pc # "link", rec.pc # "link",
         rLock' = rLock \/ rLock \in {NoTask, t}, rec.pc \in Reconciling => rLock' = t,
         rec.pc \notin {"push", "moderate"} => rec.push = {},
         rec.pc \in {"mark", "check"} => rec.row \in RRows,
         rec.up \in {rTask[t].up, NoLink}, rec.pull \subseteq rTask[t].pull, rec.push \subseteq rTask[t].push
  PROVE  RequestsInv'
<1>t. RequestVarsTyped /\ Numbered /\ LeftToPush /\ rUps \in Nat
  BY DEF RequestsInv, RequestVarsTyped
<1>1. RequestVarsTyped'
  BY <1>t DEF RequestVarsTyped
<1>2. RowsMove /\ \A u \in RTasks : rTask[u].pc = "link" => NoneTakes(rTask[u].up)
  BY <1>t, NoRowMoves
<1>3. rec.up <= rUps /\ \A sr \in rec.pull : sr.n <= rUps
  BY <1>t DEF Numbered, NoLink
<1>4. \A x \in rec.push : /\ rMade[x.row].reconcile = 0 /\ rRow[x.row].status # "unused"
                          /\ \A y \in rec.push : y.row = x.row => y = x
  BY <1>t DEF LeftToPush
<1>. HIDE DEF RowsMove
<1>. QED  BY <1>1, <1>2, <1>3, <1>4, TaskStep

LEMMA WaitStep ==
  ASSUME RequestsInv, NEW t \in RTasks, StartTask(t) \/ PullFails(t) \/ PullDone(t) \/ ReconcileDone(t) \/ FulfilDone(t)
  PROVE  RequestsInv'
<1>t. RequestVarsTyped /\ Positions /\ rTask[t] \in TaskRecords
  BY DEF RequestsInv, RequestVarsTyped
<1>1. UNCHANGED <<rRow, rUp, rUps, rMade, rNew>> /\ rTask[t].pc # "link"
  BY DEF StartTask, PullFails, PullDone, ReconcileDone, FulfilDone, upVars, IdleTask
<1>2. CASE FulfilDone(t)
  <2>1. IdleTask \in TaskRecords /\ IdleTask.pc = "idle" /\ IdleTask.push = {} /\ IdleTask.pull = {} /\ IdleTask.up = NoLink
    BY DEF IdleTask, TaskRecords
  <2>2. rTask' = [rTask EXCEPT ![t] = IdleTask] /\ rLock' = rLock
    BY <1>2 DEF FulfilDone
  <2>. QED  BY <1>t, <1>1, <2>1, <2>2, TaskMoves DEF Reconciling, RequestVarsTyped
<1>3. CASE ~FulfilDone(t)
  <2>1. PICK pc \in {"wait", "pushlist", "list"} : rTask' = [rTask EXCEPT ![t].pc = pc] /\ (pc = "pushlist" => rLock' = t)
    BY <1>3, <1>t DEF StartTask, PullFails, PullDone, ReconcileDone, Positions, Reconciling
  <2>. DEFINE rec == [rTask[t] EXCEPT !.pc = pc]
  <2>2. rec \in TaskRecords /\ rec.pc = pc /\ rec.push = rTask[t].push /\ rec.pull = rTask[t].pull /\ rec.up = rTask[t].up
    BY <1>t DEF TaskRecords, Reconciling
  <2>3. rTask' = [rTask EXCEPT ![t] = rec]
    BY <2>1
  <2>. HIDE DEF rec
  <2>4. rTask[t].push = {}
    BY <1>3, <1>t DEF StartTask, PullFails, PullDone, ReconcileDone, Positions, IdleTask
  <2>5. rLock' = rLock \/ rLock \in {NoTask, t}
    BY <1>3, <1>t DEF StartTask, PullFails, PullDone, ReconcileDone, Positions, Reconciling, ReconcileLockFree
  <2>. QED  BY <1>t, <1>1, <2>1, <2>2, <2>3, <2>4, <2>5, TaskMoves DEF Reconciling, RequestVarsTyped
<1>. QED  BY <1>2, <1>3

LEMMA PushStep ==
  ASSUME RequestsInv, NEW t \in RTasks,
         PushModerate(t) \/ PushModerateFails(t) \/ \E x \in rTask[t].push : PushFails(t, x)
  PROVE  RequestsInv'
<1>t. RequestVarsTyped /\ Positions /\ rTask[t] \in TaskRecords
  BY DEF RequestsInv, RequestVarsTyped
<1>1. UNCHANGED <<rRow, rUps, rMade, rNew, rLock>> /\ rTask[t].pc \in {"moderate", "push"} /\ rLock = t
  BY <1>t DEF PushModerate, PushModerateFails, PushFails, upVars, Positions, Reconciling
<1>2. rUp' \in [Ups -> [st : {"none", "pending", "approved", "declined"}, avail : BOOLEAN]]
  <2>1. CASE PushModerate(t)
    <3>. DEFINE n == rTask[t].up
                v == IF rTask[t].was = "approved" /\ rUp[n].st # "none" THEN "approved" ELSE rUp[n].st
                rec == [rUp[n] EXCEPT !.st = v]
    <3>1. rUp' = [rUp EXCEPT ![n] = rec]
      BY <2>1 DEF PushModerate
    <3>2. n \in Ups => v \in {"none", "pending", "approved", "declined"}
      BY <1>t DEF RequestVarsTyped
    <3>. HIDE DEF v
    <3>3. n \in Ups => rec \in [st : {"none", "pending", "approved", "declined"}, avail : BOOLEAN]
      BY <1>t, <3>2 DEF RequestVarsTyped
    <3>. HIDE DEF rec
    <3>. QED  BY <1>t, <3>1, <3>3 DEF RequestVarsTyped
  <2>2. CASE PushModerateFails(t) \/ \E x \in rTask[t].push : PushFails(t, x)
    BY <1>t, <2>2 DEF PushModerateFails, PushFails, upVars, RequestVarsTyped
  <2>. QED  BY <2>1, <2>2
<1>3. CASE PushModerate(t) \/ PushModerateFails(t)
  <2>. DEFINE rec == [rTask[t] EXCEPT !.pc = "push", !.row = NoRow, !.up = NoLink, !.was = "none"]
  <2>1. rec \in TaskRecords /\ rec.pc = "push" /\ rec.push = rTask[t].push /\ rec.pull = rTask[t].pull /\ rec.up = NoLink
    BY <1>t DEF TaskRecords, Reconciling
  <2>2. rTask' = [rTask EXCEPT ![t] = rec]
    BY <1>3 DEF PushModerate, PushModerateFails
  <2>. HIDE DEF rec
  <2>. QED  BY <1>1, <1>2, <2>1, <2>2, TaskMoves
<1>4. CASE \E x \in rTask[t].push : PushFails(t, x)
  <2>1. PICK x \in rTask[t].push : PushFails(t, x)
    BY <1>4
  <2>. DEFINE rec == [rTask[t] EXCEPT !.push = @ \ {x}]
  <2>2. rec \in TaskRecords /\ rec.pc = rTask[t].pc /\ rec.push \subseteq rTask[t].push /\ rec.pull = rTask[t].pull /\ rec.up = rTask[t].up
    BY <1>t DEF TaskRecords
  <2>3. rTask' = [rTask EXCEPT ![t] = rec] /\ rTask[t].pc = "push"
    BY <2>1 DEF PushFails
  <2>. HIDE DEF rec
  <2>. QED  BY <1>1, <1>2, <2>2, <2>3, TaskMoves
<1>. QED  BY <1>3, <1>4

LEMMA FulfilListStep ==
  ASSUME RequestsInv, NEW t \in RTasks,
         ListApproved(t) \/ \E x \in rTask[t].todo : AddToLibrary(t, x) \/ FulfilSkipped(t, x)
  PROVE  RequestsInv'
<1>t. RequestVarsTyped /\ Positions /\ rTask[t] \in TaskRecords
  BY DEF RequestsInv, RequestVarsTyped
<1>1. UNCHANGED <<rRow, rUp, rUps, rMade, rNew, rLock>> /\ rTask[t].pc \in {"list", "fulfil"} /\ rTask[t].push = {}
  BY <1>t DEF ListApproved, AddToLibrary, FulfilSkipped, upVars, Positions
<1>2. rUp' \in [Ups -> [st : {"none", "pending", "approved", "declined"}, avail : BOOLEAN]]
  BY <1>1, <1>t DEF RequestVarsTyped
<1>3. CASE ListApproved(t)
  <2>. DEFINE todo == {[row |-> r, fresh |-> rRow[r].status = "approved"] :
                          r \in {q \in RRows : rRow[q].status \in {"approved", "downloading"}}}
              rec == [rTask[t] EXCEPT !.pc = "fulfil", !.todo = todo]
  <2>1. todo \subseteq [row : RRows, fresh : BOOLEAN]
    <3>1. ASSUME NEW r \in RRows PROVE [row |-> r, fresh |-> rRow[r].status = "approved"] \in [row : RRows, fresh : BOOLEAN]
      <4>1. CASE rRow[r].status = "approved"
        BY <4>1
      <4>2. CASE rRow[r].status # "approved"
        BY <4>2
      <4>. QED  BY <4>1, <4>2
    <3>. QED  BY <3>1, Zenon
  <2>2. rTask' = [rTask EXCEPT ![t] = rec]
    BY <1>3 DEF ListApproved
  <2>. HIDE DEF todo
  <2>3. rec \in TaskRecords /\ rec.pc = "fulfil" /\ rec.push = {} /\ rec.pull = rTask[t].pull /\ rec.up = rTask[t].up
    BY <1>t, <1>1, <2>1 DEF TaskRecords
  <2>. HIDE DEF rec
  <2>. QED  BY <1>1, <1>2, <2>2, <2>3, TaskMoves DEF Reconciling
<1>4. ASSUME NEW x \in rTask[t].todo, AddToLibrary(t, x) PROVE RequestsInv'
  <2>1. PICK pc \in {"mark", "check"} : rTask' = [rTask EXCEPT ![t].pc = pc, ![t].todo = @ \ {x}, ![t].row = x.row]
    BY <1>4 DEF AddToLibrary
  <2>. DEFINE rec == [rTask[t] EXCEPT !.pc = pc, !.todo = @ \ {x}, !.row = x.row]
  <2>2. rec \in TaskRecords /\ rec.pc = pc /\ rec.push = {} /\ rec.pull = rTask[t].pull /\ rec.up = rTask[t].up /\ rec.row \in RRows
    BY <1>t, <1>1 DEF TaskRecords
  <2>3. rTask' = [rTask EXCEPT ![t] = rec]
    BY <2>1
  <2>. HIDE DEF rec
  <2>. QED  BY <1>1, <1>2, <2>2, <2>3, TaskMoves DEF Reconciling
<1>5. ASSUME NEW x \in rTask[t].todo, FulfilSkipped(t, x) PROVE RequestsInv'
  <2>. DEFINE rec == [rTask[t] EXCEPT !.todo = @ \ {x}]
  <2>1. rec \in TaskRecords /\ rec.pc = rTask[t].pc /\ rec.push = {} /\ rec.pull = rTask[t].pull /\ rec.up = rTask[t].up
    BY <1>t, <1>1 DEF TaskRecords
  <2>2. rTask' = [rTask EXCEPT ![t] = rec]
    BY <1>5 DEF FulfilSkipped
  <2>. HIDE DEF rec
  <2>. QED  BY <1>1, <1>2, <2>1, <2>2, TaskMoves DEF Reconciling
<1>. QED  BY <1>3, <1>4, <1>5

LEMMA MarkStep ==
  ASSUME RequestsInv, NEW t \in RTasks, MarkDownloading(t) \/ MarkDownloaded(t)
  PROVE  RequestsInv'
<1>t. RequestVarsTyped /\ Positions /\ rTask[t] \in TaskRecords /\ rUps \in Nat
  BY DEF RequestsInv, RequestVarsTyped
<1>. DEFINE r == rTask[t].row
<1>1. UNCHANGED <<rUp, rUps, rMade, rNew, rLock>> /\ rTask[t].pc \in {"mark", "check"} /\ rTask[t].push = {} /\ r \in RRows
  BY <1>t DEF MarkDownloading, MarkDownloaded, upVars, Positions
<1>2. rRow' = rRow \/ (Exists(r) /\ \E st \in {"downloading", "downloaded"} : SetStatus(r, st))
  BY DEF MarkDownloading, MarkDownloaded
<1>3. rRow' \in [RRows -> RowRecords]
      /\ RowsMove /\ \A u \in RTasks : rTask[u].pc = "link" => NoneTakes(rTask[u].up)
  <2>1. CASE rRow' = rRow
    <3>1. RowsMove /\ \A u \in RTasks : rTask[u].pc = "link" => NoneTakes(rTask[u].up)
      BY <1>t, <1>1, <2>1, NoRowMoves
    <3>. QED  BY <1>t, <2>1, <3>1 DEF RequestVarsTyped
  <2>2. CASE Exists(r) /\ \E st \in {"downloading", "downloaded"} : SetStatus(r, st)
    <3>1. PICK st \in {"downloading", "downloaded"} : SetStatus(r, st)
      BY <2>2
    <3>2. st \in Moderated /\ rRow[r].status # "deleted" /\ st \notin {"unused", "deleted"}
      BY <2>2 DEF Exists, Moderated
    <3>3. /\ rRow' \in [RRows -> RowRecords] /\ rRow'[r].status = st /\ rRow'[r].link = rRow[r].link
          /\ \A q \in RRows \ {r} : rRow'[q] = rRow[q]
      BY <1>t, <1>1, <3>1, <3>2, StatusSet
    <3>4. RowsMove /\ \A u \in RTasks : rTask[u].pc = "link" => NoneTakes(rTask[u].up)
      BY <1>1, <3>2, <3>3, OneRow
    <3>. QED  BY <3>3, <3>4
  <2>. QED  BY <1>2, <2>1, <2>2
<1>4. RequestVarsTyped' /\ \E rec \in TaskRecords :
        /\ rTask' = [rTask EXCEPT ![t] = rec] /\ rec.pc \in {"check", "fulfil"}
        /\ rec.push = rTask[t].push /\ rec.pull = rTask[t].pull /\ rec.up = rTask[t].up
        /\ rec.pc = "check" => rec.row \in RRows
  <2>. DEFINE goes == [rTask[t] EXCEPT !.pc = "check"]
              ends == [rTask[t] EXCEPT !.pc = "fulfil", !.row = NoRow]
  <2>1. /\ goes \in TaskRecords /\ goes.pc = "check" /\ goes.row \in RRows
        /\ goes.push = rTask[t].push /\ goes.pull = rTask[t].pull /\ goes.up = rTask[t].up
    BY <1>t, <1>1 DEF TaskRecords
  <2>2. /\ ends \in TaskRecords /\ ends.pc = "fulfil"
        /\ ends.push = rTask[t].push /\ ends.pull = rTask[t].pull /\ ends.up = rTask[t].up
    BY <1>t, <1>1 DEF TaskRecords
  <2>3. rTask' = [rTask EXCEPT ![t] = goes] \/ rTask' = [rTask EXCEPT ![t] = ends]
    BY DEF MarkDownloading, MarkDownloaded
  <2>. HIDE DEF goes, ends
  <2>. QED  BY <1>t, <1>1, <1>3, <2>1, <2>2, <2>3 DEF RequestVarsTyped
<1>5. PICK rec \in TaskRecords :
        /\ rTask' = [rTask EXCEPT ![t] = rec] /\ rec.pc \in {"check", "fulfil"}
        /\ rec.push = rTask[t].push /\ rec.pull = rTask[t].pull /\ rec.up = rTask[t].up
        /\ rec.pc = "check" => rec.row \in RRows
  BY <1>4
<1>6. rec.up <= rUps /\ \A sr \in rec.pull : sr.n <= rUps
  BY <1>5 DEF RequestsInv, Numbered
<1>. HIDE DEF r
<1>. QED  BY <1>1, <1>3, <1>4, <1>5, <1>6, TaskStep DEF Reconciling

LEMMA UpsertStep ==
  ASSUME RequestsInv, NEW t \in RTasks, NEW sr \in rTask[t].pull, UpsertOne(t, sr)
  PROVE  RequestsInv'
<1>t. RequestVarsTyped /\ Positions /\ Numbered /\ rTask[t] \in TaskRecords /\ rUps \in Nat
  BY DEF RequestsInv, RequestVarsTyped
<1>1. UNCHANGED <<rUp, rUps, rMade, rNew, rLock>> /\ rTask[t].pc = "pull" /\ rTask[t].push = {} /\ rLock = t
  BY <1>t DEF UpsertOne, upVars, Positions, Reconciling
<1>2. sr \in Pulled /\ sr.n \in Ups /\ sr.n # NoLink /\ sr.n <= rUps
  BY <1>t DEF TaskRecords, Pulled, Ups, NoLink, Numbered
<1>. DEFINE rec == [rTask[t] EXCEPT !.pull = @ \ {sr}]
            new == [status |-> MapSeerrStatus(sr), link |-> sr.n, native |-> FALSE]
<1>3. new \in RowRecords /\ new.status \notin {"unused", "deleted"} /\ new.link = sr.n
  <2>1. MapSeerrStatus(sr) \in {"downloaded", "rejected", "pending", "approved"}
    BY <1>2 DEF MapSeerrStatus, Pulled
  <2>. QED  BY <1>2, <2>1 DEF RowRecords, Moderated
<1>4. rec \in TaskRecords /\ rec.pc = "pull" /\ rec.push = {} /\ rec.pull \subseteq rTask[t].pull /\ rec.up = rTask[t].up
  BY <1>t, <1>1 DEF TaskRecords
<1>5. rTask' = [rTask EXCEPT ![t] = rec]
  BY DEF UpsertOne
<1>6. rRow' \in [RRows -> RowRecords]
      /\ \A r \in RRows : rRow'[r] = rRow[r] \/ (rRow'[r] = new /\ (rRow[r].link = sr.n \/ rRow[r].status = "unused"))
  <2>. HIDE DEF new
  <2>1. CASE rRow' = [r \in RRows |-> IF r \in {q \in RRows : rRow[q].link = sr.n} THEN new ELSE rRow[r]]
    BY <1>t, <1>3, <2>1 DEF RequestVarsTyped
  <2>2. CASE \E r \in RRows : rRow[r].status = "unused" /\ rRow' = [rRow EXCEPT ![r] = new]
    BY <1>t, <1>3, <2>2 DEF RequestVarsTyped
  <2>3. CASE rRow' = rRow
    BY <1>t, <2>3 DEF RequestVarsTyped
  <2>. QED  BY <2>1, <2>2, <2>3 DEF UpsertOne, new
<1>. HIDE DEF rec, new
<1>7. RequestVarsTyped'
  BY <1>t, <1>1, <1>4, <1>5, <1>6 DEF RequestVarsTyped
<1>8. \A u \in RTasks : rTask[u].pc # "link"
  BY <1>t, <1>1 DEF Positions, Reconciling
<1>9. rec.up <= rUps /\ \A x \in rec.pull : x.n <= rUps
  BY <1>t, <1>4 DEF Numbered
<1>10. \A r \in RRows : rRow[r].status = "deleted" => rRow[r].link # sr.n
  BY <1>t, <1>2 DEF Numbered
<1>11. RowsMove
  BY <1>t, <1>1, <1>2, <1>3, <1>6, <1>10 DEF RowsMove, Numbered
<1>. HIDE DEF RowsMove
<1>. QED  BY <1>1, <1>4, <1>5, <1>7, <1>8, <1>9, <1>11, TaskStep

LEMMA LinkStep ==
  ASSUME RequestsInv, NEW t \in RTasks, PushLink(t)
  PROVE  RequestsInv'
<1>t. RequestVarsTyped /\ Positions /\ Numbered /\ ToLink /\ LeftToPush /\ rTask[t] \in TaskRecords /\ rUps \in Nat
  BY DEF RequestsInv, RequestVarsTyped
<1>. DEFINE r == rTask[t].row
            n == rTask[t].up
<1>1. UNCHANGED <<rUp, rUps, rMade, rNew>> /\ rTask[t].pc = "link" /\ r \in RRows /\ rLock = t
      /\ n \in Ups /\ n # NoLink /\ n <= rUps /\ rRow[r].status # "unused"
      /\ \A q \in RRows : rRow[q].link # n
  BY <1>t DEF PushLink, upVars, Positions, Numbered, ToLink, Reconciling, TaskRecords
<1>2. \A u \in RTasks \ {t} : rTask[u].pc # "link"
  BY <1>t, <1>1 DEF Positions, Reconciling
<1>3. CASE Exists(r)
  <2>. DEFINE row == [rRow[r] EXCEPT !.link = n]
              rec == [rTask[t] EXCEPT !.pc = "moderate"]
  <2>1. row \in RowRecords /\ row.link = n /\ row.status = rRow[r].status /\ row.status \notin {"unused", "deleted"}
    BY <1>t, <1>1, <1>3 DEF RequestVarsTyped, RowRecords, Exists, Moderated
  <2>2. rec \in TaskRecords /\ rec.pc = "moderate" /\ rec.push = rTask[t].push /\ rec.pull = rTask[t].pull /\ rec.up = n
    BY <1>t DEF TaskRecords, Reconciling
  <2>3. rRow' = [rRow EXCEPT ![r] = row] /\ rTask' = [rTask EXCEPT ![t] = rec] /\ rLock' = t
    BY <1>1, <1>3 DEF PushLink
  <2>. HIDE DEF row, rec
  <2>4. rRow' \in [RRows -> RowRecords] /\ rRow'[r] = row /\ \A q \in RRows \ {r} : rRow'[q] = rRow[q]
    BY <1>t, <1>1, <2>1, <2>3 DEF RequestVarsTyped
  <2>5. RequestVarsTyped'
    BY <1>t, <1>1, <2>2, <2>3, <2>4 DEF RequestVarsTyped
  <2>6. RowsMove
    BY <1>t, <1>1, <2>1, <2>4 DEF RowsMove, Numbered
  <2>7. \A x \in rec.push : /\ rMade[x.row].reconcile = 0 /\ rRow[x.row].status # "unused"
                            /\ \A y \in rec.push : y.row = x.row => y = x
    BY <1>t, <2>2 DEF LeftToPush
  <2>8. rec.up <= rUps /\ \A sr \in rec.pull : sr.n <= rUps
    BY <1>t, <2>2 DEF Numbered
  <2>9. rRow'[r].link # NoLink
    BY <1>1, <2>1, <2>4
  <2>. HIDE DEF RowsMove
  <2>. QED  BY <1>1, <1>2, <2>2, <2>3, <2>5, <2>6, <2>7, <2>8, <2>9, TaskStep
<1>4. CASE ~Exists(r)
  <2>. DEFINE rec == [IdleTask EXCEPT !.pc = "list"]
  <2>1. rec \in TaskRecords /\ rec.pc = "list" /\ rec.push = {} /\ rec.pull = {} /\ rec.up = NoLink
    BY DEF IdleTask, TaskRecords
  <2>2. rTask' = [rTask EXCEPT ![t] = rec] /\ rLock' = NoTask /\ UNCHANGED rRow
    BY <1>4 DEF PushLink
  <2>. HIDE DEF rec
  <2>3. RequestVarsTyped'
    BY <1>t, <1>1, <2>1, <2>2 DEF RequestVarsTyped
  <2>4. rRow[r].status = "deleted"
    BY <1>t, <1>1, <1>4 DEF RequestVarsTyped, RowRecords, Exists
  <2>5. RowsMove
    BY <1>t, <1>1, <2>2, NoRowMoves
  <2>6. rec.up <= rUps
    BY <1>t, <2>1 DEF NoLink
  <2>. HIDE DEF RowsMove
  <2>. QED  BY <1>1, <1>2, <2>1, <2>2, <2>3, <2>4, <2>5, <2>6, TaskStep DEF Reconciling
<1>. QED  BY <1>3, <1>4

\* What Seerr has was given a number.
UpsMade == \A n \in Ups : rUp[n].st # "none" => n <= rUps

LEMMA PullStep ==
  ASSUME RequestsInv, UpsMade, NEW t \in RTasks, StartPull(t)
  PROVE  RequestsInv'
<1>t. RequestVarsTyped /\ Positions /\ Numbered /\ rTask[t] \in TaskRecords /\ rUps \in Nat
  BY DEF RequestsInv, RequestVarsTyped
<1>. DEFINE pull == {[n |-> n, st |-> rUp[n].st, avail |-> rUp[n].avail] : n \in {m \in Ups : rUp[m].st # "none"}}
            rec == [rTask[t] EXCEPT !.pc = "pull", !.pull = pull]
<1>1. UNCHANGED <<rRow, rUp, rUps, rMade, rNew>> /\ rTask[t].pc = "wait" /\ rTask[t].push = {}
      /\ rLock = NoTask /\ rLock' = t
  BY <1>t DEF StartPull, upVars, Positions, ReconcileLockFree
<1>2. pull \subseteq Pulled /\ \A sr \in pull : sr.n <= rUps
  BY <1>t DEF RequestVarsTyped, Pulled, UpsMade
<1>3. rTask' = [rTask EXCEPT ![t] = rec]
  BY DEF StartPull
<1>. HIDE DEF pull
<1>4. rec \in TaskRecords /\ rec.pc = "pull" /\ rec.push = {} /\ rec.pull = pull /\ rec.up = rTask[t].up
  BY <1>t, <1>1, <1>2 DEF TaskRecords, Reconciling
<1>. HIDE DEF rec
<1>5. RequestVarsTyped'
  BY <1>t, <1>1, <1>3, <1>4 DEF RequestVarsTyped
<1>6. RowsMove /\ \A u \in RTasks : rTask[u].pc = "link" => NoneTakes(rTask[u].up)
  BY <1>t, <1>1, NoRowMoves
<1>7. rec.up <= rUps /\ \A sr \in rec.pull : sr.n <= rUps
  BY <1>t, <1>2, <1>4 DEF Numbered
<1>. HIDE DEF RowsMove
<1>. QED  BY <1>1, <1>3, <1>4, <1>5, <1>6, <1>7, TaskStep

\* What is listed has no number: reconcile has not made it.
LEMMA ListStep ==
  ASSUME RequestsInv, NEW t \in RTasks, ListUnsynced(t)
  PROVE  RequestsInv'
<1>t. RequestVarsTyped /\ Positions /\ Numbered /\ MadeOnce /\ rTask[t] \in TaskRecords /\ rUps \in Nat
  BY DEF RequestsInv, RequestVarsTyped
<1>. DEFINE push == {[row |-> r, was |-> rRow[r].status] : r \in Unsynced}
            rec == [rTask[t] EXCEPT !.pc = "push", !.push = push]
<1>1. UNCHANGED <<rRow, rUp, rUps, rMade, rNew, rLock>> /\ rTask[t].pc = "pushlist" /\ rLock = t
  BY <1>t DEF ListUnsynced, upVars, Positions, Reconciling
<1>2. \A u \in RTasks : rTask[u].pc # "link"
  BY <1>t, <1>1 DEF Positions, Reconciling
<1>3. push \subseteq [row : RRows, was : {"pending", "approved"}]
  BY DEF Unsynced
<1>4. \A x \in push : /\ rMade[x.row].reconcile = 0 /\ rRow[x.row].status # "unused"
                      /\ \A y \in push : y.row = x.row => y = x
  BY <1>t, <1>2 DEF Unsynced, MadeOnce
<1>5. rTask' = [rTask EXCEPT ![t] = rec]
  BY DEF ListUnsynced
<1>. HIDE DEF push
<1>6. rec \in TaskRecords /\ rec.pc = "push" /\ rec.push = push /\ rec.pull = rTask[t].pull /\ rec.up = rTask[t].up
  BY <1>t, <1>3 DEF TaskRecords, Reconciling
<1>. HIDE DEF rec
<1>7. RequestVarsTyped'
  BY <1>t, <1>1, <1>5, <1>6 DEF RequestVarsTyped
<1>8. RowsMove
  BY <1>t, <1>1, NoRowMoves
<1>9. rec.up <= rUps /\ \A sr \in rec.pull : sr.n <= rUps
  BY <1>t, <1>6 DEF Numbered
<1>. HIDE DEF RowsMove
<1>. QED  BY <1>1, <1>2, <1>4, <1>5, <1>6, <1>7, <1>8, <1>9, TaskStep

LEMMA CreateStep ==
  ASSUME RequestsInv, NEW t \in RTasks, NEW x \in rTask[t].push, NEW n \in Ups, PushCreate(t, x, n)
  PROVE  RequestsInv'
<1>t. RequestVarsTyped /\ Positions /\ Numbered /\ ToLink /\ LeftToPush /\ MadeOnce
      /\ rTask[t] \in TaskRecords /\ rUps \in Nat
  BY DEF RequestsInv, RequestVarsTyped
<1>. DEFINE r == x.row
            rec == [rTask[t] EXCEPT !.pc = "link", !.push = @ \ {x}, !.row = x.row, !.was = x.was, !.up = n]
            made == [rMade[r] EXCEPT !.reconcile = @ + 1]
<1>1. UNCHANGED <<rRow, rNew, rLock>> /\ rTask[t].pc = "push" /\ rLock = t /\ n = rUps + 1 /\ rUps' = n
      /\ n \in 0..RMaxUp /\ n # NoLink /\ rUp' = [rUp EXCEPT ![n] = [st |-> "pending", avail |-> FALSE]]
  BY <1>t, RequestsAssumption DEF PushCreate, NewUpstream, Positions, Reconciling, Ups, NoLink
<1>2. \A u \in RTasks \ {t} : rTask[u].pc \notin Reconciling /\ rTask[u].push = {}
  BY <1>t, <1>1 DEF Positions, Reconciling
<1>3. x \in [row : RRows, was : {"pending", "approved"}] /\ r \in RRows /\ rMade[r].reconcile = 0
      /\ rRow[r].status # "unused" /\ \A y \in rTask[t].push : y.row = r => y = x
  BY <1>t DEF TaskRecords, LeftToPush
<1>4. /\ rec \in TaskRecords /\ rec.pc = "link" /\ rec.push = rTask[t].push \ {x}
      /\ rec.row = r /\ rec.up = n /\ rec.pull = rTask[t].pull
  BY <1>t, <1>3 DEF TaskRecords, Reconciling
<1>5. rTask' = [rTask EXCEPT ![t] = rec]
  BY DEF PushCreate
<1>6. made \in [reconcile : Nat, creation : Nat] /\ made.reconcile = 1
  BY <1>t, <1>3 DEF RequestVarsTyped
<1>7. rMade' = [rMade EXCEPT ![r] = made]
  BY DEF PushCreate
<1>. HIDE DEF rec, made, r
<1>8. rTask'[t] = rec /\ \A u \in RTasks \ {t} : rTask'[u] = rTask[u]
  BY <1>t, <1>5 DEF RequestVarsTyped
<1>9. rMade'[r].reconcile = 1 /\ \A q \in RRows \ {r} : rMade'[q] = rMade[q]
  BY <1>t, <1>3, <1>6, <1>7 DEF RequestVarsTyped
<1>10. RequestVarsTyped'
  BY <1>t, <1>1, <1>3, <1>4, <1>5, <1>6, <1>7 DEF RequestVarsTyped
<1>11. Positions'
  BY <1>t, <1>1, <1>2, <1>3, <1>4, <1>8 DEF Positions, Reconciling
<1>12. /\ \A q \in RRows : rRow[q].link \in Int /\ rNew[q] \in Int
       /\ \A u \in RTasks : rTask[u].up \in Int /\ \A sr \in rTask[u].pull : sr.n \in Int
  BY <1>t DEF RequestVarsTyped, RowRecords, TaskRecords, Pulled, Ups, NoLink, ToPush
<1>13. Numbered'
  BY <1>t, <1>1, <1>4, <1>8, <1>12 DEF Numbered
<1>14. ToLink'
  BY <1>t, <1>1, <1>2, <1>3, <1>4, <1>8, <1>12 DEF Numbered, ToLink, Reconciling
<1>15. LeftToPush'
  <2>1. \A y \in rec.push : y.row \in RRows /\ y.row # r
    BY <1>3, <1>4 DEF TaskRecords
  <2>. QED  BY <1>t, <1>1, <1>2, <1>4, <1>8, <1>9, <2>1 DEF LeftToPush
<1>16. MadeOnce'
  BY <1>t, <1>1, <1>2, <1>4, <1>8, <1>9 DEF MadeOnce, Reconciling
<1>. QED  BY <1>10, <1>11, <1>13, <1>14, <1>15, <1>16 DEF RequestsInv

LEMMA UpsMadeNext == RequestsInv /\ UpsMade /\ [RequestsNext]_rVars => UpsMade'
<1>. SUFFICES ASSUME RequestsInv, UpsMade, [RequestsNext]_rVars PROVE UpsMade'
  OBVIOUS
<1>t. rUps \in Nat /\ rUp \in [Ups -> [st : {"none", "pending", "approved", "declined"}, avail : BOOLEAN]]
      /\ \A n \in Ups : n \in Nat
  BY DEF RequestsInv, RequestVarsTyped, Ups
<1>1. ASSUME NEW n \in Ups, NewUpstream(n), rUps' = n, rUp' = [rUp EXCEPT ![n] = [st |-> "pending", avail |-> FALSE]]
      PROVE  UpsMade'
  BY <1>1, <1>t DEF UpsMade, NewUpstream
<1>3. ASSUME NEW r \in RRows,
             \/ \E st \in {"pending", "approved"} : CreateRequest(r, st)
             \/ ApproveRequest(r) \/ RejectRequest(r) \/ DeleteRequest(r)
             \/ DownloadCompletes(r) \/ PushNewLink(r) \/ PushNewSkipped(r)
      PROVE  UpsMade'
  BY <1>3 DEF UpsMade, CreateRequest, ApproveRequest, RejectRequest, DeleteRequest, DownloadCompletes,
              PushNewLink, PushNewSkipped, upVars
<1>4. ASSUME NEW r \in RRows, NEW n \in Ups, PushNew(r, n) PROVE UpsMade'
  BY <1>1, <1>4 DEF PushNew
<1>5. ASSUME NEW c \in rCalls, SeerrCall(c) \/ SeerrCallFails(c) PROVE UpsMade'
  <2>1. CASE SeerrCall(c)
    <3>. DEFINE n == c[2]
                v == IF rUp[n].st = "none" THEN rUp[n] ELSE Applied(rUp[n], c[1])
    <3>1. rUp' = [rUp EXCEPT ![n] = v] /\ rUps' = rUps
      BY <2>1 DEF SeerrCall
    <3>2. rUp[n].st = "none" => v = rUp[n]
      OBVIOUS
    <3>. HIDE DEF v
    <3>. QED  BY <1>t, <3>1, <3>2 DEF UpsMade
  <2>2. CASE SeerrCallFails(c)
    BY <2>2 DEF SeerrCallFails, upVars, UpsMade
  <2>. QED  BY <1>5, <2>1, <2>2
<1>6. ASSUME NEW n \in Ups, SeerrUser(n) PROVE UpsMade'
  BY <1>1, <1>6 DEF SeerrUser
<1>7. ASSUME NEW n \in Ups, NEW st \in {"approved", "declined"}, SeerrModerates(n, st) PROVE UpsMade'
  <2>. DEFINE v == [rUp[n] EXCEPT !.st = st]
  <2>1. rUp' = [rUp EXCEPT ![n] = v] /\ rUps' = rUps /\ rUp[n].st # "none"
    BY <1>7 DEF SeerrModerates
  <2>. HIDE DEF v
  <2>. QED  BY <1>t, <2>1 DEF UpsMade
<1>8. ASSUME NEW t \in RTasks,
             \/ StartTask(t) \/ StartPull(t) \/ PullDone(t) \/ ListUnsynced(t) \/ PushLink(t) \/ ReconcileDone(t)
             \/ FulfilStep(t) \/ PullFails(t) \/ PushModerateFails(t)
             \/ (\E sr \in rTask[t].pull : UpsertOne(t, sr)) \/ (\E x \in rTask[t].push : PushFails(t, x))
             \/ (\E x \in rTask[t].todo : FulfilSkipped(t, x))
      PROVE  UpsMade'
  <2>1. UNCHANGED upVars
    BY <1>8 DEF StartTask, StartPull, PullDone, ListUnsynced, PushLink, ReconcileDone, FulfilStep, ListApproved,
                MarkDownloading, MarkDownloaded, FulfilDone, AddToLibrary, PullFails, PushModerateFails,
                UpsertOne, PushFails, FulfilSkipped
  <2>. QED  BY <2>1 DEF upVars, UpsMade
<1>9. ASSUME NEW t \in RTasks, PushModerate(t) PROVE UpsMade'
  <2>. DEFINE n == rTask[t].up
              v == [rUp[n] EXCEPT !.st = IF rTask[t].was = "approved" /\ @ # "none" THEN "approved" ELSE @]
  <2>1. rUp' = [rUp EXCEPT ![n] = v] /\ rUps' = rUps
    BY <1>9 DEF PushModerate
  <2>2. n \in Ups /\ rUp[n].st = "none" => v.st = "none"
    BY <1>t
  <2>. HIDE DEF v
  <2>. QED  BY <1>t, <2>1, <2>2 DEF UpsMade
<1>10. ASSUME NEW t \in RTasks, NEW x \in rTask[t].push, NEW n \in Ups, PushCreate(t, x, n) PROVE UpsMade'
  BY <1>1, <1>10 DEF PushCreate
<1>11. ASSUME UNCHANGED rVars PROVE UpsMade'
  BY <1>11 DEF rVars, UpsMade
<1>. QED
  BY <1>3, <1>4, <1>5, <1>6, <1>7, <1>8, <1>9, <1>10, <1>11 DEF RequestsNext, ReconcileStep

LEMMA RequestsInvNext == RequestsInv /\ UpsMade /\ [RequestsNext]_rVars => RequestsInv'
<1>. SUFFICES ASSUME RequestsInv, UpsMade, [RequestsNext]_rVars PROVE RequestsInv'
  OBVIOUS
<1>1. ASSUME UNCHANGED rVars PROVE RequestsInv'
  BY <1>1 DEF rVars, RequestsInv, RequestVarsTyped, Positions, Numbered, ToLink, LeftToPush, MadeOnce
<1>. QED
  BY <1>1, UserStep, CreationStep, SeerrStep, WaitStep, PullStep, UpsertStep, ListStep, CreateStep, PushStep,
     LinkStep, FulfilListStep, MarkStep
     DEF RequestsNext, ReconcileStep, FulfilStep

(* The inductive invariant of the requests holds in every reachable state, *)
(* for any rows, tasks and bounds.                                         *)
THEOREM RequestsInvariant == RequestsSpec => [](RequestsInv /\ UpsMade)
<1>1. RequestsInit => UpsMade
  BY DEF RequestsInit, UpsMade
<1>. QED  BY <1>1, RequestsInvInit, RequestsInvNext, UpsMadeNext, PTL DEF RequestsSpec

LEMMA MadeAtMostOnce == RequestsInv => ReconcileCreatesOnce
BY DEF RequestsInv, RequestVarsTyped, MadeOnce, ReconcileCreatesOnce

(* However passes overlap, fail and meet deletions, moderation and the     *)
(* creation of the row, they make at most one request in Seerr for it.     *)
THEOREM ReconcileOnce == RequestsSpec => []ReconcileCreatesOnce
BY MadeAtMostOnce, RequestsInvariant, PTL

(***************************************************************************)
(* The feed pollers.  Who records under the lease has read the watermark   *)
(* that is still there; who inserts has held the row lock since it looked  *)
(* up what is new.                                                         *)
(***************************************************************************)
Decisions == {"unmatched", "already_have", "deny_listed", "would_grab"}
FeedNews == UNION {[D -> Decisions] : D \in SUBSET FItems}
FeedDates == 0..FLastDate
PollClaims == [src : FSources \cup {NoOne}, mark : FeedDates, page : SUBSET FItems, new : FeedNews,
           was : BOOLEAN]

FeedsTyped ==
  /\ fOwner \in [FSources -> Pollers \cup {NoOne}] /\ fLock \in [FSources -> Pollers \cup {NoOne}]
  /\ fMark \in [FSources -> FeedDates] /\ fExpired \in [FSources -> BOOLEAN]
  /\ fRows \in [FSources -> [FItems -> Seq(Decisions)]]
  /\ fPc \in [Pollers -> {"idle", "fetch", "lookup", "insert"}]
  /\ fSnap \in [Pollers -> PollClaims]

\* A poll has a source, and while it owns the lease the watermark it read is the current one.
MarkRead ==
  \A p \in Pollers : fPc[p] # "idle" =>
    /\ fSnap[p].src \in FSources
    /\ fOwner[fSnap[p].src] = p => fSnap[p].mark = fMark[fSnap[p].src]

\* The renewal locks the row until the commit.
RowLocked ==
  \A p \in Pollers : fPc[p] = "lookup" \/ (fPc[p] = "insert" /\ DOMAIN fSnap[p].new # {}) =>
    fLock[fSnap[p].src] = p

\* What a poll is about to insert is not there.
FreshRows ==
  \A p \in Pollers : fPc[p] = "insert" =>
    \A i \in DOMAIN fSnap[p].new : fRows[fSnap[p].src][i] = <<>>

FeedsInv == FeedsTyped /\ MarkRead /\ RowLocked /\ FreshRows /\ ObservedOnce

(***************************************************************************)
(* What a poll records: its page never takes the watermark back.           *)
(***************************************************************************)
LEMMA AdvancedDate ==
  ASSUME NEW mark \in FeedDates, NEW page \in SUBSET FItems
  PROVE  Advanced(mark, page) \in FeedDates /\ Advanced(mark, page) >= mark
<1>. DEFINE S == {mark} \cup {FDate[i] : i \in page}
<1>1. S \in SUBSET Nat /\ S \subseteq 0..FLastDate /\ S # {} /\ mark \in S /\ FLastDate \in Nat
  BY FeedsAssumption DEF FeedDates
<1>2. Max(S) \in S /\ \A y \in S : Max(S) >= y
  <2>. HIDE DEF S
  <2>. QED  BY <1>1, MaxOfBounded
<1>. QED  BY <1>1, <1>2 DEF Advanced, FeedDates

LEMMA NoNews == <<>> \in FeedNews /\ DOMAIN <<>> = {}
<1>1. <<>> \in [{} -> Decisions] /\ DOMAIN <<>> = {}
  OBVIOUS
<1>. QED  BY <1>1 DEF FeedNews

(***************************************************************************)
(* The first state, and every step: one step of the proof per action.      *)
(***************************************************************************)
LEMMA FeedsInvInit == FeedsInit => FeedsInv
<1>1. ASSUME FeedsInit PROVE FeedsTyped
  BY <1>1, FeedsAssumption, NoNews DEF FeedsInit, FeedsTyped, NoClaim, PollClaims, FeedDates
<1>2. ASSUME FeedsInit PROVE MarkRead /\ RowLocked /\ FreshRows /\ ObservedOnce
  BY <1>2 DEF FeedsInit, MarkRead, RowLocked, FreshRows, ObservedOnce
<1>. QED  BY <1>1, <1>2 DEF FeedsInv

LEMMA FeedsInvNext ==
  FeedsInv /\ [FeedsNext]_fVars => FeedsInv' /\ \A s \in FSources : fMark'[s] >= fMark[s]
<1>. SUFFICES ASSUME FeedsInv, [FeedsNext]_fVars
              PROVE  FeedsInv' /\ \A s \in FSources : fMark'[s] >= fMark[s]
  OBVIOUS
<1>. DEFINE Goal == FeedsInv' /\ \A s \in FSources : fMark'[s] >= fMark[s]
<1>t. FeedsTyped /\ MarkRead /\ RowLocked /\ FreshRows /\ ObservedOnce
  BY DEF FeedsInv
<1>m. ASSUME fMark' = fMark PROVE \A s \in FSources : fMark'[s] >= fMark[s]
  BY <1>m, <1>t DEF FeedsTyped, FeedDates
<1>n. NoClaim \in PollClaims /\ NoOne \notin Pollers
  BY FeedsAssumption, NoNews DEF NoClaim, PollClaims, FeedDates
<1>1. ASSUME NEW p \in Pollers, PollOnce(p) PROVE Goal
  <2>1. fMark' = fMark /\ UNCHANGED <<fLock, fRows>>
    BY <1>1 DEF PollOnce
  <2>2. CASE UNCHANGED <<fOwner, fExpired, fPc, fSnap>>
    BY <2>1, <2>2, <1>t, <1>m DEF FeedsInv, FeedsTyped, MarkRead, RowLocked, FreshRows, ObservedOnce
  <2>3. ASSUME NEW s \in FSources, ClaimSource(p, s) PROVE Goal
    <3>1. [NoClaim EXCEPT !.src = s, !.mark = fMark[s]] \in PollClaims
      BY <1>n, <1>t DEF NoClaim, PollClaims, FeedsTyped
    <3>2. FeedsTyped'
      BY <1>t, <2>1, <2>3, <3>1 DEF FeedsTyped, ClaimSource, Goto
    <3>3. fPc' = [fPc EXCEPT ![p] = "fetch"]
          /\ fSnap' = [fSnap EXCEPT ![p] = [NoClaim EXCEPT !.src = s, !.mark = fMark[s]]]
          /\ fOwner' = [fOwner EXCEPT ![s] = p]
      BY <2>3 DEF ClaimSource, Goto
    <3>4. fSnap'[p].src = s /\ fSnap'[p].mark = fMark[s] /\ fPc'[p] = "fetch"
      BY <3>3, <1>t DEF FeedsTyped, NoClaim
    <3>5. \A q \in Pollers \ {p} : fPc'[q] = fPc[q] /\ fSnap'[q] = fSnap[q]
      BY <3>3, <1>t DEF FeedsTyped
    <3>6. \A x \in FSources : fOwner'[x] = IF x = s THEN p ELSE fOwner[x]
      BY <3>3, <1>t DEF FeedsTyped
    <3>7. MarkRead'
      BY <1>t, <2>1, <3>4, <3>5, <3>6 DEF MarkRead
    <3>8. RowLocked' /\ FreshRows' /\ ObservedOnce'
      BY <1>t, <2>1, <3>4, <3>5 DEF RowLocked, FreshRows, ObservedOnce
    <3>. QED  BY <2>1, <3>2, <3>7, <3>8, <1>m DEF FeedsInv
  <2>4. \A listed \in {FSources, {}} : First(Claimable(listed)) \subseteq FSources
    BY DEF First, Claimable
  <2>. QED  BY <1>1, <2>2, <2>3, <2>4 DEF PollOnce
<1>d. ASSUME NEW p \in Pollers, fPc' = [fPc EXCEPT ![p] = "idle"], fSnap' = [fSnap EXCEPT ![p] = NoClaim],
             fLock' \in [FSources -> Pollers \cup {NoOne}], fOwner' \in [FSources -> Pollers \cup {NoOne}],
             fExpired' \in [FSources -> BOOLEAN], UNCHANGED <<fMark, fRows>>,
             \A q \in Pollers \ {p}, s \in FSources :
               (fLock[s] = q => fLock'[s] = q) /\ (fOwner'[s] = q => fOwner[s] = q)
      PROVE  Goal
  <2>1. FeedsTyped'
    BY <1>d, <1>t, <1>n DEF FeedsTyped
  <2>2. fPc'[p] = "idle" /\ \A q \in Pollers \ {p} : fPc'[q] = fPc[q] /\ fSnap'[q] = fSnap[q]
    BY <1>d, <1>t DEF FeedsTyped
  <2>3. MarkRead'
    BY <1>d, <1>t, <2>2 DEF MarkRead
  <2>4. RowLocked' /\ FreshRows' /\ ObservedOnce'
    BY <1>d, <1>t, <2>2 DEF RowLocked, FreshRows, ObservedOnce, MarkRead
  <2>. QED  BY <1>d, <1>m, <2>1, <2>3, <2>4 DEF FeedsInv
<1>f. ASSUME NEW p \in Pollers, fSnap[p].src \in FSources, FreeLease(p)
      PROVE  /\ fOwner' \in [FSources -> Pollers \cup {NoOne}] /\ fExpired' \in [FSources -> BOOLEAN]
             /\ \A q \in Pollers \ {p}, s \in FSources : fOwner'[s] = q => fOwner[s] = q
  BY <1>f, <1>t, <1>n DEF FreeLease, FeedsTyped
<1>k. ASSUME NEW p \in Pollers, Unlock(p)
      PROVE  /\ fLock' \in [FSources -> Pollers \cup {NoOne}]
             /\ \A q \in Pollers \ {p}, s \in FSources : fLock[s] = q => fLock'[s] = q
  BY <1>k, <1>t DEF Unlock, FeedsTyped
<1>2. ASSUME NEW p \in Pollers, PollFails(p) PROVE Goal
  <2>1. fSnap[p].src \in FSources
    BY <1>2, <1>t DEF PollFails, MarkRead
  <2>. QED  BY <1>2, <1>d, <1>f, <1>t, <2>1 DEF PollFails, Drop, Goto, FeedsTyped
<1>3. ASSUME NEW p \in Pollers, PollRaises(p) PROVE Goal
  <2>1. fSnap[p].src \in FSources
    BY <1>3, <1>t DEF PollRaises, MarkRead
  <2>. QED  BY <1>3, <1>d, <1>f, <1>k, <2>1 DEF PollRaises, Drop, Goto
<1>4. ASSUME NEW p \in Pollers, Crash(p) PROVE Goal
  BY <1>4, <1>d, <1>k, <1>t DEF Crash, Drop, Goto, FeedsTyped
<1>5. ASSUME NEW p \in Pollers, NEW s \in FSources, FetchOk(p, s) PROVE Goal
  <2>1. fPc[p] = "fetch" /\ fSnap[p].src = s /\ fLock[s] = NoOne /\ UNCHANGED <<fOwner, fMark, fRows>>
    BY <1>5 DEF FetchOk
  <2>2. CASE Holds(p)
    <3>1. PICK page \in Pages :
            Goto(p, "lookup", [fSnap[p] EXCEPT !.page = Kept(page), !.was = fExpired[s]])
      BY <1>5, <2>2 DEF FetchOk
    <3>. DEFINE snap == [fSnap[p] EXCEPT !.page = Kept(page), !.was = fExpired[s]]
    <3>2. snap \in PollClaims /\ snap.src = s /\ snap.mark = fSnap[p].mark
      BY <1>t, <2>1, <3>1 DEF FeedsTyped, PollClaims, Pages, Kept
    <3>3. fPc' = [fPc EXCEPT ![p] = "lookup"] /\ fSnap' = [fSnap EXCEPT ![p] = snap]
      BY <3>1 DEF Goto
    <3>. HIDE DEF snap
    <3>4. fLock' = [fLock EXCEPT ![s] = p] /\ fExpired' = [fExpired EXCEPT ![s] = FALSE]
      BY <1>5, <2>1, <2>2 DEF FetchOk, RenewLease
    <3>5. FeedsTyped'
      BY <1>t, <2>1, <3>2, <3>3, <3>4 DEF FeedsTyped
    <3>6. fPc'[p] = "lookup" /\ fSnap'[p] = snap
          /\ \A q \in Pollers \ {p} : fPc'[q] = fPc[q] /\ fSnap'[q] = fSnap[q]
      BY <1>t, <3>3 DEF FeedsTyped
    <3>7. MarkRead'
      BY <1>t, <2>1, <3>2, <3>6 DEF MarkRead
    <3>8. fLock'[s] = p /\ \A x \in FSources \ {s} : fLock'[x] = fLock[x]
      BY <1>t, <3>4 DEF FeedsTyped
    <3>9. RowLocked'
      BY <1>t, <1>n, <2>1, <3>2, <3>6, <3>8 DEF RowLocked, MarkRead
    <3>10. FreshRows' /\ ObservedOnce'
      BY <1>t, <2>1, <3>6 DEF FreshRows, ObservedOnce
    <3>. QED  BY <1>m, <2>1, <3>5, <3>7, <3>9, <3>10 DEF FeedsInv
  <2>3. CASE ~Holds(p)
    BY <1>5, <1>d, <1>t, <2>1, <2>3 DEF FetchOk, Drop, Goto, FeedsTyped
  <2>. QED  BY <2>2, <2>3
<1>6. ASSUME NEW p \in Pollers, Lookup(p) PROVE Goal
  <2>. DEFINE s == fSnap[p].src
              fresh == {i \in fSnap[p].page : fRows[s][i] = <<>>}
              news == [i \in fresh |-> Decision(i)]
              snap == [fSnap[p] EXCEPT !.new = news]
  <2>1. fPc[p] = "lookup" /\ fPc' = [fPc EXCEPT ![p] = "insert"] /\ fSnap' = [fSnap EXCEPT ![p] = snap]
        /\ UNCHANGED <<fTable, fRows>>
    BY <1>6 DEF Lookup, Goto
  <2>2. news \in FeedNews /\ DOMAIN news = fresh
    <3>1. fresh \in SUBSET FItems
      BY <1>t DEF FeedsTyped, PollClaims
    <3>2. \A i \in FItems : Decision(i) \in Decisions
      BY DEF Decision, Decisions
    <3>3. news \in [fresh -> Decisions]
      <4>. HIDE DEF fresh
      <4>. QED  BY <3>1, <3>2
    <3>. QED  BY <3>1, <3>3 DEF FeedNews
  <2>. HIDE DEF news
  <2>3. snap \in PollClaims /\ snap.src = s /\ snap.mark = fSnap[p].mark /\ snap.new = news
    BY <1>t, <2>2 DEF FeedsTyped, PollClaims
  <2>. HIDE DEF snap
  <2>4. FeedsTyped'
    BY <1>t, <2>1, <2>3 DEF FeedsTyped, fTable
  <2>5. fPc'[p] = "insert" /\ fSnap'[p] = snap
        /\ \A q \in Pollers \ {p} : fPc'[q] = fPc[q] /\ fSnap'[q] = fSnap[q]
    BY <1>t, <2>1 DEF FeedsTyped
  <2>6. MarkRead' /\ RowLocked'
    BY <1>t, <2>1, <2>3, <2>5 DEF MarkRead, RowLocked, fTable
  <2>7. FreshRows' /\ ObservedOnce'
    BY <1>t, <2>1, <2>2, <2>3, <2>5 DEF FreshRows, ObservedOnce
  <2>. QED  BY <1>m, <2>1, <2>4, <2>6, <2>7 DEF FeedsInv, fTable
<1>7. ASSUME NEW p \in Pollers, InsertFails(p) PROVE Goal
  <2>. DEFINE snap == [fSnap[p] EXCEPT !.new = <<>>]
  <2>1. fPc[p] = "insert" /\ fPc' = [fPc EXCEPT ![p] = "insert"] /\ fSnap' = [fSnap EXCEPT ![p] = snap]
        /\ Unlock(p) /\ UNCHANGED <<fOwner, fMark, fRows>>
    BY <1>7 DEF InsertFails, Goto
  <2>2. snap \in PollClaims /\ snap.src = fSnap[p].src /\ snap.mark = fSnap[p].mark /\ snap.new = <<>>
    BY <1>t, NoNews DEF FeedsTyped, PollClaims
  <2>. HIDE DEF snap
  <2>3. fExpired' \in [FSources -> BOOLEAN]
    BY <1>7, <1>t, Zenon DEF InsertFails, FeedsTyped, Holds
  <2>4. FeedsTyped'
    BY <1>t, <1>k, <2>1, <2>2, <2>3 DEF FeedsTyped
  <2>5. fPc'[p] = "insert" /\ fSnap'[p] = snap
        /\ \A q \in Pollers \ {p} : fPc'[q] = fPc[q] /\ fSnap'[q] = fSnap[q]
    BY <1>t, <2>1 DEF FeedsTyped
  <2>6. MarkRead'
    BY <1>t, <2>1, <2>2, <2>5 DEF MarkRead
  <2>7. RowLocked' /\ FreshRows' /\ ObservedOnce'
    BY <1>t, <1>k, <2>1, <2>2, <2>5, NoNews DEF RowLocked, FreshRows, ObservedOnce, MarkRead
  <2>. QED  BY <1>m, <2>1, <2>4, <2>6, <2>7 DEF FeedsInv
<1>8. ASSUME NEW p \in Pollers, Finish(p) PROVE Goal
  <2>. DEFINE s == fSnap[p].src
              rows == Purged(s, Added(s, fSnap[p].new))
  <2>1. fPc[p] = "insert" /\ fLock[s] \in {p, NoOne} /\ s \in FSources /\ FreeLease(p) /\ Unlock(p)
        /\ fPc' = [fPc EXCEPT ![p] = "idle"] /\ fSnap' = [fSnap EXCEPT ![p] = NoClaim]
        /\ fRows' = [fRows EXCEPT ![s] = rows] /\ RecordPollSuccess(p)
    BY <1>8, <1>t DEF Finish, Drop, Goto, MarkRead
  <2>2. rows \in [FItems -> Seq(Decisions)] /\ \A i \in FItems : Len(rows[i]) <= 1
    <3>1. ASSUME NEW i \in FItems
          PROVE  Added(s, fSnap[p].new)[i] \in Seq(Decisions) /\ Len(Added(s, fSnap[p].new)[i]) <= 1
      <4>1. CASE i \in DOMAIN fSnap[p].new
        <5>1. fRows[s][i] = <<>> /\ fSnap[p].new[i] \in Decisions
          BY <1>t, <2>1, <4>1 DEF FreshRows, FeedsTyped, PollClaims, FeedNews
        <5>2. Append(<<>>, fSnap[p].new[i]) \in Seq(Decisions) /\ Len(Append(<<>>, fSnap[p].new[i])) = 1
          BY <5>1
        <5>3. Added(s, fSnap[p].new)[i] = Append(<<>>, fSnap[p].new[i])
          BY <4>1, <5>1, Zenon DEF Added
        <5>. QED  BY <5>2, <5>3
      <4>2. CASE i \notin DOMAIN fSnap[p].new
        BY <1>t, <2>1, <4>2 DEF Added, FeedsTyped, ObservedOnce
      <4>. QED  BY <4>1, <4>2
    <3>2. <<>> \in Seq(Decisions) /\ Len(<<>>) <= 1
      OBVIOUS
    <3>. QED  BY <3>1, <3>2 DEF Purged
  <2>. HIDE DEF rows
  <2>3. fPc'[p] = "idle" /\ \A q \in Pollers \ {p} : fPc'[q] = fPc[q] /\ fSnap'[q] = fSnap[q]
    BY <1>t, <2>1 DEF FeedsTyped
  <2>4. fRows'[s] = rows /\ \A x \in FSources \ {s} : fRows'[x] = fRows[x]
    BY <1>t, <2>1 DEF FeedsTyped
  <2>5. fMark' \in [FSources -> FeedDates] /\ (\A x \in FSources : fMark'[x] >= fMark[x])
        /\ \A x \in FSources : fMark'[x] = fMark[x] \/ (x = s /\ fOwner[s] = p)
    <3>1. fSnap[p].mark \in FeedDates /\ fSnap[p].page \in SUBSET FItems
      BY <1>t DEF FeedsTyped, PollClaims
    <3>2. CASE Holds(p)
      <4>1. Advanced(fSnap[p].mark, fSnap[p].page) \in FeedDates
            /\ Advanced(fSnap[p].mark, fSnap[p].page) >= fSnap[p].mark
        BY <3>1, AdvancedDate
      <4>2. fSnap[p].mark = fMark[s] /\ fOwner[s] = p
        BY <1>t, <2>1, <3>2 DEF MarkRead, Holds
      <4>3. fMark' = [fMark EXCEPT ![s] = Advanced(fSnap[p].mark, fSnap[p].page)]
        BY <2>1, <3>2 DEF RecordPollSuccess, AdvanceMark
      <4>. QED  BY <1>t, <2>1, <4>1, <4>2, <4>3 DEF FeedsTyped, FeedDates
    <3>3. CASE ~Holds(p)
      BY <1>t, <2>1, <3>3 DEF RecordPollSuccess, FeedsTyped, FeedDates
    <3>. QED  BY <3>2, <3>3
  <2>6. FeedsTyped'
    BY <1>f, <1>k, <1>n, <1>t, <2>1, <2>2, <2>5 DEF FeedsTyped
  <2>7. MarkRead'
    <3>1. fOwner[s] = p => fOwner'[s] = NoOne
      BY <1>t, <2>1 DEF FreeLease, Holds, FeedsTyped
    <3>. QED  BY <1>f, <1>n, <1>t, <2>1, <2>3, <2>5, <3>1 DEF MarkRead
  <2>8. \A q \in Pollers \ {p} :
          fPc[q] = "insert" /\ DOMAIN fSnap[q].new # {} => fSnap[q].src \in FSources \ {s}
    BY <1>n, <1>t, <2>1 DEF RowLocked, MarkRead
  <2>9. RowLocked' /\ FreshRows'
    BY <1>k, <1>t, <2>1, <2>3, <2>4, <2>8 DEF RowLocked, FreshRows, MarkRead
  <2>10. ObservedOnce'
    BY <1>t, <2>2, <2>4 DEF ObservedOnce
  <2>. QED  BY <2>5, <2>6, <2>7, <2>9, <2>10 DEF FeedsInv
<1>9. ASSUME NEW s \in FSources, LeaseExpires(s) PROVE Goal
  <2>1. fExpired' = [fExpired EXCEPT ![s] = TRUE]
        /\ UNCHANGED <<fOwner, fLock, fMark, fRows, fPc, fSnap>>
    BY <1>9 DEF LeaseExpires
  <2>. QED  BY <1>m, <1>t, <2>1 DEF FeedsInv, FeedsTyped, MarkRead, RowLocked, FreshRows, ObservedOnce
<1>10. ASSUME NEW s \in FSources, NEW i \in FItems, RowAges(s, i) PROVE Goal
  BY <1>10, <1>m, <1>t DEF RowAges, fTable, FeedsInv, FeedsTyped, MarkRead, RowLocked, FreshRows, ObservedOnce
<1>11. ASSUME NEW m \in FMedia, LibraryChanges(m) PROVE Goal
  BY <1>11, <1>m, <1>t DEF LibraryChanges, fTable, FeedsInv, FeedsTyped, MarkRead, RowLocked, FreshRows, ObservedOnce
<1>12. CASE UNCHANGED fVars
  BY <1>12, <1>m, <1>t DEF fVars, fTable, FeedsInv, FeedsTyped, MarkRead, RowLocked, FreshRows, ObservedOnce
<1>. QED
  BY <1>1, <1>2, <1>3, <1>4, <1>5, <1>6, <1>7, <1>8, <1>9, <1>10, <1>11, <1>12 DEF FeedsNext

\* What every reachable state satisfies: who may write which watermark and which rows.
THEOREM FeedsInvariant == FeedsSpec => []FeedsInv
BY FeedsInvInit, FeedsInvNext, PTL DEF FeedsSpec

\* A poll that has outlived its lease neither moves a watermark back (record_poll_success) nor
\* inserts an item a second time (bulk_insert_observations).
THEOREM WatermarkStands == FeedsSpec => WatermarkNeverBack
<1>1. FeedsInv /\ [FeedsNext]_fVars
      => [ObservedOnce' /\ \A s \in FSources : fMark'[s] >= fMark[s]]_fVars
  BY FeedsInvNext DEF FeedsInv
<1>. QED  BY <1>1, FeedsInvariant, PTL DEF FeedsSpec, WatermarkNeverBack

(***************************************************************************)
(* The rest of the state of the browser, the requests and the feeds: with  *)
(* it the three type invariants hold, whatever the steps do.               *)
(***************************************************************************)
BrowserRest ==
  /\ bPids \subseteq Browsers /\ bProfiles \subseteq Browsers /\ bDirs \subseteq Browsers
  /\ bCount \in Nat /\ bLaunch \in Tasks \cup {FreeSlot}
  /\ bFails \in [Sites -> 0..BThreshold] /\ bOpen \in [Sites -> BOOLEAN] /\ bCookies \in [Sites -> BOOLEAN]
  /\ bLoop \in BOOLEAN

LEMMA BrowserRestInit == BrowserInit => BrowserRest
BY BrowserAssumption DEF BrowserInit, BrowserRest

LEMMA RecordTyped ==
  ASSUME BrowserRest, NEW c \in Tasks, NEW ok \in BOOLEAN, Record(c, ok)
  PROVE  bFails' \in [Sites -> 0..BThreshold] /\ bOpen' \in [Sites -> BOOLEAN]
<1>1. CASE c = Warm
  BY <1>1 DEF Record, BrowserRest
<1>2. CASE c # Warm
  <2>1. BSite[c] \in Sites
    BY <1>2 DEF Tasks, Sites
  <2>. DEFINE d == BSite[c]
  <2>2. bFails[d] \in 0..BThreshold /\ bOpen[d] \in BOOLEAN /\ BThreshold \in Nat \ {0}
    BY <2>1, BrowserAssumption DEF BrowserRest
  <2>3. CASE ok
    <3>1. bFails' = [bFails EXCEPT ![d] = 0] /\ bOpen' = [bOpen EXCEPT ![d] = FALSE]
      BY <1>2, <2>3, Zenon DEF Record, RecordSuccess
    <3>2. 0 \in 0..BThreshold
      BY <2>2
    <3>. HIDE DEF d
    <3>. QED  BY <3>1, <3>2 DEF BrowserRest
  <2>4. CASE ~ok
    <3>1. bFails' = [bFails EXCEPT ![d] = IF bFails[d] < BThreshold THEN bFails[d] + 1 ELSE bFails[d]]
          /\ bOpen' = [bOpen EXCEPT ![d] = bOpen[d] \/ bFails[d] + 1 >= BThreshold]
      BY <1>2, <2>4, Zenon DEF Record, RecordFailure
    <3>2. (IF bFails[d] < BThreshold THEN bFails[d] + 1 ELSE bFails[d]) \in 0..BThreshold
          /\ (bOpen[d] \/ bFails[d] + 1 >= BThreshold) \in BOOLEAN
      BY <2>2
    <3>. HIDE DEF d
    <3>. QED  BY <3>1, <3>2 DEF BrowserRest
  <2>. QED  BY <2>3, <2>4
<1>. QED  BY <1>1, <1>2

LEMMA CookiesTyped ==
  ASSUME BrowserRest, NEW c \in BCalls, NEW ok \in BOOLEAN, CacheCookies(BSite[c], ok)
  PROVE  bCookies' \in [Sites -> BOOLEAN]
<1>1. BSite[c] \in Sites
  BY DEF Sites
<1>. QED  BY <1>1 DEF CacheCookies, BrowserRest

LEMMA BrowserRestNext == BrowserInv /\ BrowserRest /\ [BrowserNext]_bVars => BrowserRest'
<1>. SUFFICES ASSUME BrowserInv, BrowserRest, [BrowserNext]_bVars PROVE BrowserRest'
  OBVIOUS
<1>c. BCalls \subseteq Tasks /\ bLive \subseteq Browsers /\ bLaunched \in 0..MaxLaunches
  BY DEF Tasks, BrowserInv, BrowserVarsTyped
<1>1. ASSUME NEW c \in BCalls,
             Solve(c) \/ SolveInBackground(c) \/ TakeDomain(c) \/ DomainTimeout(c) \/ TakeSemaphore(c) \/ PageLoads(c)
      PROVE  BrowserRest'
  BY <1>1 DEF Solve, SolveInBackground, TakeDomain, DomainTimeout, TakeSemaphore, PageLoads,
              browserVars, siteVars, BrowserRest
<1>2. ASSUME NEW c \in BCalls, SolveExternally(c) PROVE BrowserRest'
  <2>1. PICK ok \in BOOLEAN : Record(c, ok) /\ CacheCookies(BSite[c], ok)
    BY <1>2 DEF SolveExternally
  <2>2. UNCHANGED <<browserVars, bLoop>>
    BY <1>2 DEF SolveExternally
  <2>. QED  BY <1>c, <2>1, <2>2, RecordTyped, CookiesTyped DEF browserVars, BrowserRest
<1>3. ASSUME NEW c \in BCalls, PageStalls(c) PROVE BrowserRest'
  BY <1>3 DEF PageStalls, TornDown, siteVars, BrowserRest
<1>4. ASSUME NEW c \in BCalls, SolvePage(c) PROVE BrowserRest'
  <2>1. Record(c, TRUE) /\ CacheCookies(BSite[c], TRUE) /\ UNCHANGED <<browserVars, bLoop>>
    BY <1>4 DEF SolvePage, Return
  <2>. QED  BY <1>c, <2>1, RecordTyped, CookiesTyped DEF browserVars, BrowserRest
<1>5. ASSUME NEW c \in BCalls, Fails(c) PROVE BrowserRest'
  <2>1. Record(c, FALSE) /\ UNCHANGED <<browserVars, bCookies, bLoop>>
    BY <1>5 DEF Fails, Return
  <2>. QED  BY <1>c, <2>1, RecordTyped DEF browserVars, BrowserRest
<1>6. ASSUME NEW c \in Tasks, ReuseBrowser(c) PROVE BrowserRest'
  <2>1. UNCHANGED <<bPids, bProfiles, bDirs, bLaunch, siteVars, bLoop>> /\ (bCount' = bCount \/ bCount' = bCount + 1)
    BY <1>6 DEF ReuseBrowser
  <2>. QED  BY <2>1 DEF siteVars, BrowserRest
<1>7. ASSUME NEW c \in Tasks, Launch(c) PROVE BrowserRest'
  <2>. DEFINE b == bLaunched + 1
  <2>1. b \in Browsers /\ bLaunch' = c /\ bCount' = 0 /\ UNCHANGED <<siteVars, bLoop>>
        /\ bPids' \subseteq bPids /\ bProfiles' \subseteq bProfiles \cup {b} /\ bDirs' \subseteq bDirs \cup {b}
    BY <1>7 DEF Launch
  <2>. HIDE DEF b
  <2>. QED  BY <2>1 DEF siteVars, BrowserRest
<1>8. ASSUME NEW c \in Tasks, LaunchDone(c) PROVE BrowserRest'
  <2>. DEFINE b == bCall[c].on
  <2>1. b \in bLive /\ bPids' = bPids \cup {b} /\ bLaunch' = FreeSlot
        /\ (bCount' = bCount \/ bCount' = bCount + 1) /\ UNCHANGED <<bProfiles, bDirs, siteVars, bLoop>>
    BY <1>8 DEF LaunchDone, TrackChromium
  <2>. HIDE DEF b
  <2>. QED  BY <1>c, <2>1 DEF siteVars, BrowserRest
<1>9. ASSUME NEW c \in Tasks, LaunchFails(c) PROVE BrowserRest'
  <2>1. Record(c, FALSE) /\ bLaunch' = FreeSlot /\ bProfiles' \subseteq bProfiles /\ bDirs' \subseteq bDirs
        /\ UNCHANGED <<bPids, bCount, bCookies, bLoop>>
    BY <1>9 DEF LaunchFails, CleanupPartial
  <2>. QED  BY <2>1, RecordTyped DEF BrowserRest
<1>10. ASSUME NEW d \in Sites, HalfOpen(d) \/ CookiesExpire(d) PROVE BrowserRest'
  BY <1>10 DEF HalfOpen, CookiesExpire, browserVars, BrowserRest
<1>11. ASSUME NEW b \in Browsers, BrowserDies(b) PROVE BrowserRest'
  BY <1>11 DEF BrowserDies, siteVars, BrowserRest
<1>12. CASE WarmUp
  BY <1>12 DEF WarmUp, browserVars, siteVars, BrowserRest
<1>13. CASE Shutdown
  <2>1. bPids' = {} /\ bProfiles' = {} /\ bDirs' \subseteq bDirs /\ bLoop' = FALSE
        /\ UNCHANGED <<bCount, bLaunch, siteVars>>
    BY <1>13 DEF Shutdown
  <2>. QED  BY <2>1 DEF siteVars, BrowserRest
<1>14. CASE UNCHANGED bVars
  BY <1>14 DEF bVars, BrowserRest
<1>. QED
  BY <1>1, <1>2, <1>3, <1>4, <1>5, <1>6, <1>7, <1>8, <1>9, <1>10, <1>11, <1>12, <1>13, <1>14 DEF BrowserNext

LEMMA BrowserTypes == BrowserInv /\ BrowserRest => BrowserTypeOK
<1>1. ASSUME NEW call \in CallRecords
      PROVE  /\ call.pc \in {"idle", "lock", "external", "queued", "ensure", "launch", "get", "page", "done"}
             /\ call.try \in 1..2 /\ call.on \in Browsers \cup {NoBrowser}
  BY DEF CallRecords
<1>. QED  BY <1>1 DEF BrowserInv, BrowserVarsTyped, BrowserRest, BrowserTypeOK

RequestsRest ==
  /\ rMedia \in [RRows -> {"absent", "wanted", "ondisk"}]
  /\ rCalls \subseteq {"approve", "decline", "delete", "available"} \X Ups
  /\ rLock \in RTasks \cup {NoTask} /\ rOps \in 0..RMaxOps /\ rFails \in 0..RMaxFails

LEMMA RequestsRestInit == RequestsInit => RequestsRest
BY RequestsAssumption DEF RequestsInit, RequestsRest

LEMMA CallTyped ==
  ASSUME RequestVarsTyped, RequestsRest, NEW r \in RRows, NEW op \in {"approve", "decline", "delete", "available"}, CallSeerr(op, r)
  PROVE  rCalls' \subseteq {"approve", "decline", "delete", "available"} \X Ups
<1>1. rRow[r].link \in Ups \cup {NoLink}
  BY DEF RequestVarsTyped, RowRecords
<1>. QED  BY <1>1 DEF CallSeerr, RequestsRest

LEMMA OpCounted ==
  ASSUME RequestsRest, Operation
  PROVE  rOps' \in 0..RMaxOps
<1>1. rOps \in Nat /\ rFails \in Nat /\ RMaxOps \in Nat
  BY RequestsAssumption DEF RequestsRest
<1>2. rOps + rFails < RMaxOps /\ rOps' = rOps + 1
  BY DEF Operation, Happens
<1>. QED  BY <1>1, <1>2

LEMMA FailCounted ==
  ASSUME RequestsRest, CallFails
  PROVE  rFails' \in 0..RMaxFails
<1>1. rFails \in Nat /\ RMaxFails \in Nat
  BY RequestsAssumption DEF RequestsRest
<1>2. rFails < RMaxFails /\ rFails' = rFails + 1
  BY DEF CallFails
<1>. QED  BY <1>1, <1>2

LEMMA RequestsRestNext == RequestsInv /\ RequestsRest /\ [RequestsNext]_rVars => RequestsRest'
<1>. SUFFICES ASSUME RequestsInv, RequestsRest, [RequestsNext]_rVars PROVE RequestsRest'
  OBVIOUS
<1>t. RequestVarsTyped /\ Positions
  BY DEF RequestsInv
<1>1. ASSUME NEW r \in RRows, NEW st, CreateRequest(r, st) PROVE RequestsRest'
  BY <1>1, OpCounted DEF CreateRequest, RequestsRest
<1>2. ASSUME NEW r \in RRows, ApproveRequest(r) \/ RejectRequest(r) \/ DeleteRequest(r) PROVE RequestsRest'
  <2>1. Operation /\ UNCHANGED <<rMedia, rLock, rFails>>
        /\ (CallSeerr("approve", r) \/ CallSeerr("decline", r) \/ CallSeerr("delete", r))
    BY <1>2 DEF ApproveRequest, RejectRequest, DeleteRequest
  <2>2. rCalls' \subseteq {"approve", "decline", "delete", "available"} \X Ups
    BY <1>t, <2>1, CallTyped
  <2>. QED  BY <2>1, <2>2, OpCounted DEF RequestsRest
<1>3. ASSUME NEW r \in RRows, DownloadCompletes(r) PROVE RequestsRest'
  BY <1>3 DEF DownloadCompletes, RequestsRest
<1>4. ASSUME NEW r \in RRows, PushNewLink(r) PROVE RequestsRest'
  <2>1. rNew[r] \in Ups /\ (rCalls' = rCalls \/ rCalls' = rCalls \cup {<<"approve", rNew[r]>>})
        /\ UNCHANGED <<rMedia, rLock, rOps, rFails>>
    BY <1>4 DEF PushNewLink
  <2>. QED  BY <2>1 DEF RequestsRest
<1>5. ASSUME NEW r \in RRows, PushNewSkipped(r) \/ \E n \in Ups : PushNew(r, n) PROVE RequestsRest'
  BY <1>5 DEF PushNewSkipped, PushNew, RequestsRest
<1>6. ASSUME NEW c \in rCalls, SeerrCall(c) \/ SeerrCallFails(c) PROVE RequestsRest'
  <2>1. CASE SeerrCall(c)
    BY <2>1 DEF SeerrCall, RequestsRest
  <2>2. CASE SeerrCallFails(c)
    BY <2>2, FailCounted DEF SeerrCallFails, RequestsRest
  <2>. QED  BY <1>6, <2>1, <2>2
<1>7. ASSUME NEW n \in Ups, NEW st, SeerrUser(n) \/ SeerrModerates(n, st) PROVE RequestsRest'
  BY <1>7, OpCounted DEF SeerrUser, SeerrModerates, RequestsRest
<1>8. ASSUME NEW t \in RTasks, ReconcileStep(t) PROVE RequestsRest'
  <2>1. CASE StartTask(t) \/ PullDone(t) \/ ListUnsynced(t) \/ PushModerate(t) \/ \E sr \in rTask[t].pull : UpsertOne(t, sr)
    BY <2>1 DEF StartTask, PullDone, ListUnsynced, PushModerate, UpsertOne, RequestsRest
  <2>2. CASE StartPull(t)
    BY <2>2 DEF StartPull, RequestsRest
  <2>3. CASE PushLink(t) \/ ReconcileDone(t)
    <3>1. (rLock' = rLock \/ rLock' = NoTask) /\ UNCHANGED <<rMedia, rCalls, rOps, rFails>>
      BY <2>3 DEF PushLink, ReconcileDone
    <3>. QED  BY <3>1 DEF RequestsRest
  <2>4. CASE \E x \in rTask[t].push, n \in Ups : PushCreate(t, x, n)
    BY <2>4 DEF PushCreate, RequestsRest
  <2>. QED  BY <1>8, <2>1, <2>2, <2>3, <2>4 DEF ReconcileStep
<1>9. ASSUME NEW t \in RTasks, FulfilStep(t) PROVE RequestsRest'
  <2>1. CASE ListApproved(t) \/ MarkDownloading(t) \/ FulfilDone(t)
    BY <2>1 DEF ListApproved, MarkDownloading, FulfilDone, RequestsRest
  <2>2. CASE MarkDownloaded(t)
    <3>1. rTask[t].row \in RRows
      BY <1>t, <2>2 DEF MarkDownloaded, Positions
    <3>2. rCalls' = rCalls \/ CallSeerr("available", rTask[t].row)
      BY <2>2 DEF MarkDownloaded
    <3>3. rCalls' \subseteq {"approve", "decline", "delete", "available"} \X Ups
      BY <1>t, <3>1, <3>2, CallTyped DEF RequestsRest
    <3>4. UNCHANGED <<rMedia, rLock, rOps, rFails>>
      BY <2>2 DEF MarkDownloaded
    <3>. QED  BY <3>3, <3>4 DEF RequestsRest
  <2>3. ASSUME NEW x \in rTask[t].todo, AddToLibrary(t, x) PROVE RequestsRest'
    <3>1. rMedia' = [rMedia EXCEPT ![x.row] = "wanted"] \/ rMedia' = [rMedia EXCEPT ![x.row] = rMedia[x.row]]
      BY <2>3 DEF AddToLibrary
    <3>2. UNCHANGED <<rCalls, rLock, rOps, rFails>>
      BY <2>3 DEF AddToLibrary
    <3>. QED  BY <3>1, <3>2 DEF RequestsRest
  <2>. QED  BY <1>9, <2>1, <2>2, <2>3 DEF FulfilStep
<1>10. ASSUME NEW t \in RTasks, PullFails(t) PROVE RequestsRest'
  BY <1>10, FailCounted DEF PullFails, RequestsRest
<1>11. ASSUME NEW t \in RTasks, NEW x,
              PushModerateFails(t) \/ PushFails(t, x) \/ FulfilSkipped(t, x)
       PROVE  RequestsRest'
  BY <1>11, FailCounted DEF PushModerateFails, PushFails, FulfilSkipped, RequestsRest
<1>12. CASE UNCHANGED rVars
  BY <1>12 DEF rVars, RequestsRest
<1>. QED
  BY <1>1, <1>2, <1>3, <1>4, <1>5, <1>6, <1>7, <1>8, <1>9, <1>10, <1>11, <1>12 DEF RequestsNext

LEMMA RequestsTypes == RequestsInv /\ RequestsRest => RequestsTypeOK
<1>1. ASSUME NEW row \in RowRecords
      PROVE  /\ row.status \in Moderated \cup {"unused", "deleted"} /\ row.link \in Ups \cup {NoLink} /\ row.native \in BOOLEAN
  BY DEF RowRecords
<1>2. ASSUME NEW task \in TaskRecords
      PROVE  task.pc \in {"idle", "wait", "pull", "pushlist", "push", "link", "moderate", "list", "fulfil", "mark", "check"}
  BY DEF TaskRecords, Reconciling
<1>. QED  BY <1>1, <1>2 DEF RequestsInv, RequestVarsTyped, RequestsRest, RequestsTypeOK

FeedsRest ==
  /\ fEnabled \subseteq FSources /\ fDone \subseteq FSources
  /\ \A s \in FSources : fLater[s] \subseteq fDone \ {s}
  /\ fOld \in [FSources -> SUBSET FItems]
  /\ fCrashes \in 0..MaxCrashes /\ fErrors \in 0..MaxFeedErrors

LEMMA FeedsRestInit == FeedsInit => FeedsRest
BY FeedsAssumption DEF FeedsInit, FeedsRest

LEMMA Erring ==
  ASSUME FeedsRest, Trouble
  PROVE  fErrors + 1 \in 0..MaxFeedErrors
BY FeedsAssumption DEF FeedsRest, Trouble

LEMMA FeedsRestNext == FeedsInv /\ FeedsRest /\ [FeedsNext]_fVars => FeedsRest'
<1>. SUFFICES ASSUME FeedsInv, FeedsRest, [FeedsNext]_fVars PROVE FeedsRest'
  OBVIOUS
<1>1. ASSUME NEW p \in Pollers, PollOnce(p) PROVE FeedsRest'
  <2>1. PICK listed \in {FSources, {}} :
          /\ listed = {} => Trouble
          /\ fErrors' = IF listed = {} THEN fErrors + 1 ELSE fErrors
          /\ fEnabled' = listed
    BY <1>1 DEF PollOnce, SyncSources
  <2>2. UNCHANGED <<fSuccess, fOld, fCrashes>>
    BY <1>1 DEF PollOnce
  <2>. QED  BY <2>1, <2>2, Erring DEF fSuccess, FeedsRest
<1>2. ASSUME NEW p \in Pollers, PollFails(p) \/ InsertFails(p) \/ PollRaises(p) PROVE FeedsRest'
  <2>1. Trouble /\ fErrors' = fErrors + 1 /\ UNCHANGED <<fEnabled, fSuccess, fOld, fCrashes>>
    BY <1>2 DEF PollFails, InsertFails, PollRaises
  <2>. QED  BY <2>1, Erring DEF fSuccess, FeedsRest
<1>3. ASSUME NEW p \in Pollers, Lookup(p) \/ \E s \in FSources : FetchOk(p, s) PROVE FeedsRest'
  <2>1. UNCHANGED <<fEnabled, fSuccess, fOld, fBounds>>
    BY <1>3 DEF Lookup, FetchOk, fTable
  <2>. QED  BY <2>1 DEF fSuccess, fBounds, FeedsRest
<1>4. ASSUME NEW p \in Pollers, Finish(p) PROVE FeedsRest'
  <2>. DEFINE s == fSnap[p].src
  <2>1. s \in FSources
    BY <1>4 DEF Finish, FeedsInv, MarkRead
  <2>2. UNCHANGED <<fEnabled, fBounds>> /\ fOld' = [fOld EXCEPT ![s] = {}]
    BY <1>4 DEF Finish
  <2>3. Succeeded(s) \/ UNCHANGED fSuccess
    BY <1>4 DEF Finish, RecordPollSuccess
  <2>. HIDE DEF s
  <2>4. fDone' \subseteq FSources /\ \A x \in FSources : fLater'[x] \subseteq fDone' \ {x}
    <3>1. CASE Succeeded(s)
      BY <2>1, <3>1 DEF Succeeded, FeedsRest
    <3>2. CASE UNCHANGED fSuccess
      BY <3>2 DEF fSuccess, FeedsRest
    <3>. QED  BY <2>3, <3>1, <3>2
  <2>. QED  BY <2>1, <2>2, <2>4 DEF fBounds, FeedsRest
<1>5. ASSUME NEW p \in Pollers, Crash(p) PROVE FeedsRest'
  <2>1. fCrashes' = fCrashes + 1 /\ fCrashes < MaxCrashes
    BY <1>5 DEF Crash
  <2>2. UNCHANGED <<fEnabled, fSuccess, fOld, fErrors>>
    BY <1>5 DEF Crash
  <2>. QED  BY <2>1, <2>2, FeedsAssumption DEF fSuccess, FeedsRest
<1>6. ASSUME NEW s \in FSources, LeaseExpires(s) PROVE FeedsRest'
  <2>1. (fErrors' = fErrors \/ (Trouble /\ fErrors' = fErrors + 1)) /\ UNCHANGED <<fEnabled, fSuccess, fOld, fCrashes>>
    BY <1>6 DEF LeaseExpires
  <2>. QED  BY <2>1, Erring DEF fSuccess, FeedsRest
<1>7. ASSUME NEW s \in FSources, NEW i \in FItems, RowAges(s, i) PROVE FeedsRest'
  BY <1>7 DEF RowAges, fTable, fSuccess, fBounds, FeedsRest
<1>8. ASSUME NEW m \in FMedia, LibraryChanges(m) PROVE FeedsRest'
  BY <1>8 DEF LibraryChanges, fTable, fSuccess, fBounds, FeedsRest
<1>9. CASE UNCHANGED fVars
  BY <1>9 DEF fVars, fTable, fSuccess, fBounds, FeedsRest
<1>. QED
  BY <1>1, <1>2, <1>3, <1>4, <1>5, <1>6, <1>7, <1>8, <1>9 DEF FeedsNext

LEMMA FeedsTypes == FeedsInv /\ FeedsRest => FeedsTypeOK
<1>1. FeedDates \subseteq Nat
  BY FeedsAssumption DEF FeedDates
<1>. QED  BY <1>1 DEF FeedsInv, FeedsTyped, FeedsRest, FeedsTypeOK

(***************************************************************************)
(* The native torrent client.  What is told of a torrent is true of its    *)
(* payload, and what is saved of it survives the process.                  *)
(***************************************************************************)
SessionTold(h) ==
  /\ ~Present(h) => mSession[h] = Absent
  /\ mSession[h].moving => mSession[h].st = "complete" /\ mSession[h].root = "incomplete"
  /\ mUp = "down" => ~Present(h)
SavedTold(h) ==
  /\ mResume[h].st = "none" => mResume[h] = NoResume
  /\ mAlert[h].st = "none" => mAlert[h] = NoResume
  /\ h \in mCkpt => mResume[h] # NoResume /\ (mUp = "down" \/ Present(h))
PayloadTold(h) ==
  /\ mSession[h].st = "complete" => Whole(h, mSession[h].root)
  /\ \A r \in Roots : mFiles[h][r] # "none" => <<r, MTitle[h]>> \in mDirs
  /\ h \in mDelete => mUp # "down" /\ ~Present(h)
  /\ h \in mTold => Whole(h, "completed") /\ ~mSession[h].moving /\ h \notin mDelete
TransferTold(h) == SessionTold(h) /\ SavedTold(h) /\ PayloadTold(h)
ClientInv == ClientTypeOK /\ \A h \in MHashes : TransferTold(h)

LEMMA ClientInvInit == ClientInit => ClientInv
<1> SUFFICES ASSUME ClientInit PROVE ClientInv
  OBVIOUS
<1>1. ClientTypeOK
  BY DEF ClientInit, ClientTypeOK, Torrents, ResumeData, Absent, NoResume, Handle, Roots, Counters
<1>2. ASSUME NEW h \in MHashes PROVE TransferTold(h)
  BY DEF ClientInit, TransferTold, SessionTold, SavedTold, PayloadTold, Present, Absent, NoResume, Handle, Whole, Roots
<1>. QED  BY <1>1, <1>2 DEF ClientInv

\* The actions keep the types.
LEMMA ClientTypes == ClientInv /\ [ClientNext]_mVars => ClientTypeOK'
<1> SUFFICES ASSUME ClientTypeOK, \A h \in MHashes : SavedTold(h), [ClientNext]_mVars PROVE ClientTypeOK'
  BY DEF ClientInv, TransferTold
<1>u. ASSUME UNCHANGED mVars PROVE ClientTypeOK'
  BY <1>u DEF ClientTypeOK, mVars, saveVars, diskVars, moveVars, taskVars, rowVars
<1>b. ASSUME NEW f \in Counters, NEW max, MBump(f, max) PROVE mCount' \in [Counters -> Nat]
  BY <1>b DEF MBump, ClientTypeOK
<1>t. /\ "adds" \in Counters /\ "stops" \in Counters /\ "faults" \in Counters
      /\ Absent \in Torrents /\ NoResume \in ResumeData /\ InitialRoot \in Roots
      /\ \A r \in Roots, st \in {"absent", "metadata", "downloading", "complete"} : Handle(st, r) \in Torrents
  BY DEF Counters, Absent, NoResume, InitialRoot, Roots, Torrents, ResumeData, Handle
<1>d. \A h \in MHashes, r \in Roots : <<r, MTitle[h]>> \in Roots \X Titles
  BY DEF Titles
<1>p. ASSUME NEW h \in MHashes, NEW dirs \in SUBSET (Roots \X Titles), Poll(h, dirs)
      PROVE /\ mTold' \in SUBSET MHashes /\ mTried' \in SUBSET MHashes /\ mDirs' \in SUBSET (Roots \X Titles)
            /\ mSession' \in [MHashes -> Torrents] /\ mReap' \in SUBSET MHashes /\ mCount' \in [Counters -> Nat]
  <2>1. [mSession EXCEPT ![h].moving = TRUE] \in [MHashes -> Torrents]
    BY DEF ClientTypeOK, Torrents
  <2>2. CASE MoveDue(h)
    BY <1>p, <1>b, <1>t, <2>1, <2>2 DEF Poll, ClientTypeOK
  <2>3. CASE ~MoveDue(h)
    BY <1>p, <2>3 DEF Poll, ClientTypeOK
  <2>. QED  BY <2>2, <2>3
<1>1. ASSUME NEW h \in MHashes, NEW b \in BOOLEAN, GetTorrentStatus(h, b) PROVE ClientTypeOK'
  <2>1. mDirs \in SUBSET (Roots \X Titles)
    BY DEF ClientTypeOK
  <2>2. mSeen' \subseteq MHashes
    BY <1>1 DEF GetTorrentStatus, Saves, ClientTypeOK
  <2>. QED  BY <2>1, <2>2, <1>1, <1>p DEF GetTorrentStatus, ClientTypeOK, saveVars, taskVars
<1>2. ASSUME NEW h \in MHashes, MoveRetryDue(h) PROVE ClientTypeOK'
  BY <1>2 DEF MoveRetryDue, ClientTypeOK, saveVars, diskVars, taskVars, rowVars
<1>3. ASSUME NEW h \in MHashes, NEW source \in Sources, GetTorrentHash(h, source) PROVE ClientTypeOK'
  BY <1>3, <1>b, <1>t DEF GetTorrentHash, ClientTypeOK, saveVars, moveVars, rowVars
<1>4. ASSUME NEW h \in MHashes, DownloadTorrent(h) PROVE ClientTypeOK'
  <2>1. mDirs \cup {InitialDir(h)} \in SUBSET (Roots \X Titles)
    BY <1>d, <1>t DEF ClientTypeOK, InitialDir
  <2>2. CASE Poll(h, mDirs \cup {InitialDir(h)}) /\ mAdd' = [mAdd EXCEPT ![h] = StatusOf(h)] /\ Present(h)
    <3>1. StatusOf(h) \in Statuses
      BY <2>2 DEF StatusOf, Statuses
    <3>. QED  BY <2>1, <2>2, <3>1, <1>4, <1>p DEF DownloadTorrent, ClientTypeOK, saveVars, rowVars
  <2>3. CASE AddTorrent(h)
    <3>1. mSession' \in [MHashes -> Torrents]
      BY <2>3, <1>t DEF AddTorrent, ClientTypeOK
    <3>. QED  BY <2>1, <2>3, <3>1, <1>4 DEF DownloadTorrent, AddTorrent, ClientTypeOK, saveVars, moveVars, rowVars, Statuses
  <2>. QED  BY <1>4, <2>2, <2>3 DEF DownloadTorrent
<1>5. ASSUME NEW h \in MHashes, SaveTorrent(h) PROVE ClientTypeOK'
  BY <1>5 DEF SaveTorrent, ClientTypeOK, saveVars, diskVars, moveVars
<1>6. ASSUME NEW h \in MHashes, NEW b \in BOOLEAN, RemoveTorrent(h, b) PROVE ClientTypeOK'
  BY <1>6, <1>t DEF RemoveTorrent, ClientTypeOK, moveVars, rowVars
<1>7. ASSUME NEW h \in MHashes, NEW b \in BOOLEAN, RemoveEnds(h, b) PROVE ClientTypeOK'
  BY <1>7 DEF RemoveEnds, RemoveSidecarFile, ClientTypeOK, saveVars
<1>8. ASSUME NEW d \in mDirs, PruneEmptyDirs(d) PROVE ClientTypeOK'
  BY <1>8 DEF PruneEmptyDirs, ClientTypeOK, saveVars, moveVars, taskVars, rowVars
<1>9. ASSUME NEW h \in MHashes, ImportFiles(h) PROVE ClientTypeOK'
  BY <1>9 DEF ImportFiles, ClientTypeOK, saveVars, diskVars, moveVars, taskVars
<1>10. ASSUME NEW h \in MHashes, Serializes(h) PROVE ClientTypeOK'
  <2>1. [st |-> mSession[h].st, root |-> mSession[h].root] \in ResumeData
    BY <1>10 DEF Serializes, ClientTypeOK, Torrents, ResumeData
  <2>. QED  BY <1>10, <2>1 DEF Serializes, ClientTypeOK, diskVars, moveVars, taskVars, rowVars
<1>11. ASSUME NEW h \in MHashes, SaveResumeData(h) PROVE ClientTypeOK'
  BY <1>11, <1>t DEF SaveResumeData, ClientTypeOK, diskVars, moveVars, taskVars, rowVars
<1>12. ASSUME ClientShutdown PROVE ClientTypeOK'
  BY <1>12, <1>b, <1>t DEF ClientShutdown, ClientTypeOK, saveVars, diskVars, moveVars, rowVars
<1>13. ASSUME ProcessGone, mCount' \in [Counters -> Nat] PROVE ClientTypeOK'
  <2>1. mFiles' \in [MHashes -> [Roots -> {"none", "part", "whole"}]]
    BY <1>13 DEF ProcessGone, Left
  <2>2. mDirs' \subseteq Roots \X Titles
    <3>1. "completed" \in Roots
      BY DEF Roots
    <3>2. {<<"completed", MTitle[h]>> : h \in {x \in MHashes : mSession[x].moving}} \subseteq Roots \X Titles
      BY <1>d, <3>1
    <3>. QED  BY <1>13, <3>2 DEF ProcessGone, ClientTypeOK
  <2>. QED  BY <1>13, <1>t, <2>1, <2>2 DEF ProcessGone, ClientTypeOK, rowVars
<1>14. ASSUME ShutdownEnds PROVE ClientTypeOK'
  BY <1>13, <1>14 DEF ShutdownEnds, ClientTypeOK
<1>15. ASSUME ClientCrash PROVE ClientTypeOK'
  BY <1>13, <1>15, <1>b, <1>t DEF ClientCrash
<1>16. ASSUME ReconcileResumeData PROVE ClientTypeOK'
  BY <1>16, <1>b, <1>t DEF ReconcileResumeData, ClientTypeOK, diskVars, moveVars, taskVars, rowVars
<1>17. ASSUME NEW bad \in SUBSET MHashes, LoadResumeData(bad) PROVE ClientTypeOK'
  <2>1. mSession' \in [MHashes -> Torrents]
    <3>1. ASSUME NEW h \in MHashes, mResume[h] # NoResume PROVE Loaded(h) \in Torrents
      <4>1. mResume[h].st \in {"downloading", "complete"} /\ mResume[h].root \in Roots
        BY <3>1 DEF SavedTold, ClientTypeOK, ResumeData
      <4>. QED  BY <4>1, <1>t DEF Loaded
    <3>. QED  BY <1>17, <3>1, <1>t DEF LoadResumeData
  <2>2. mCount' \in [Counters -> Nat]
    BY <1>17, <1>b, <1>t DEF LoadResumeData, ClientTypeOK
  <2>. QED  BY <1>17, <2>1, <2>2 DEF LoadResumeData, ClientTypeOK, diskVars, moveVars, taskVars, rowVars
<1>18. ASSUME NEW h \in MHashes, Downloads(h) PROVE ClientTypeOK'
  <2>1. mSession[h].root \in Roots /\ mSession[h] \in Torrents
    BY DEF ClientTypeOK, Torrents
  <2>2. \A st \in {"downloading", "complete"} : [mSession EXCEPT ![h].st = st] \in [MHashes -> Torrents]
    BY <2>1 DEF ClientTypeOK, Torrents
  <2>3. mSession' \in [MHashes -> Torrents]
    BY <1>18, <2>2 DEF Downloads
  <2>. QED  BY <1>18, <1>d, <2>1, <2>3 DEF Downloads, ClientTypeOK, saveVars, moveVars, taskVars, rowVars
<1>19. ASSUME NEW h \in MHashes, MoveEnds(h) PROVE ClientTypeOK'
  <2>1. mSession[h] \in Torrents /\ "completed" \in Roots
    BY DEF ClientTypeOK, Torrents, Roots
  <2>2. /\ [mSession EXCEPT ![h] = Handle(@.st, "completed")] \in [MHashes -> Torrents]
        /\ [mSession EXCEPT ![h].moving = FALSE] \in [MHashes -> Torrents]
    BY <2>1 DEF ClientTypeOK, Torrents, Handle
  <2>3. mSession' \in [MHashes -> Torrents]
    BY <1>19, <2>2 DEF MoveEnds
  <2>4. mFiles' \in [MHashes -> [Roots -> {"none", "part", "whole"}]]
    <3>1. mFiles[h] \in [Roots -> {"none", "part", "whole"}]
      BY DEF ClientTypeOK
    <3>2. /\ [r \in Roots |-> IF r = "completed" THEN "whole" ELSE "none"] \in [Roots -> {"none", "part", "whole"}]
          /\ [mFiles[h] EXCEPT !["completed"] = "part"] \in [Roots -> {"none", "part", "whole"}]
      BY <3>1
    <3>3. \E f \in [Roots -> {"none", "part", "whole"}] : mFiles' = [mFiles EXCEPT ![h] = f]
      BY <1>19, <3>2 DEF MoveEnds
    <3>. QED  BY <3>3 DEF ClientTypeOK
  <2>5. mDirs' \subseteq Roots \X Titles
    BY <1>19, <2>1, <1>d DEF MoveEnds, ClientTypeOK
  <2>6. mCount' \in [Counters -> Nat]
    BY <1>19, <1>b, <1>t DEF MoveEnds, ClientTypeOK
  <2>. QED  BY <1>19, <2>3, <2>4, <2>5, <2>6 DEF MoveEnds, ClientTypeOK, saveVars, moveVars, taskVars, rowVars
<1>20. ASSUME NEW h \in MHashes, DeletesFiles(h) PROVE ClientTypeOK'
  BY <1>20 DEF DeletesFiles, ClientTypeOK, saveVars, moveVars, taskVars, rowVars
<1>. QED
  BY <1>u, <1>1, <1>2, <1>3, <1>4, <1>5, <1>6, <1>7, <1>8, <1>9, <1>10, <1>11, <1>12, <1>14, <1>15, <1>16, <1>17, <1>18, <1>19, <1>20
     DEF ClientNext, HandlerStep, LibtorrentStep

\* What the actions do to one transfer.
LEMMA ClientInvNext == ClientInv /\ [ClientNext]_mVars => ClientInv'
<1> SUFFICES ASSUME ClientInv, [ClientNext]_mVars, NEW g \in MHashes PROVE TransferTold(g)'
  BY ClientTypes DEF ClientInv
<1>0. ClientTypeOK /\ (\A h \in MHashes : TransferTold(h)) /\ ClientTypeOK'
  BY ClientTypes DEF ClientInv
<1>1. /\ mSession[g] \in Torrents /\ mResume[g] \in ResumeData /\ mAlert[g] \in ResumeData
      /\ mFiles[g] \in [Roots -> {"none", "part", "whole"}]
  BY <1>0 DEF ClientTypeOK
<1>s. SessionTold(g) /\ SavedTold(g) /\ PayloadTold(g)
  BY <1>0 DEF TransferTold
<1>u. ASSUME UNCHANGED mVars PROVE TransferTold(g)'
  BY <1>u, <1>0 DEF TransferTold, SessionTold, SavedTold, PayloadTold, Present, Whole, mVars, saveVars, diskVars, moveVars, taskVars, rowVars
<1>p. ASSUME NEW h \in MHashes, NEW dirs \in SUBSET (Roots \X Titles), mDirs \subseteq dirs, mUp = "up", Poll(h, dirs),
             UNCHANGED <<mUp, mResume, mAlert, mCkpt, mFiles, mDelete>>
      PROVE TransferTold(g)'
  <2>1. CASE MoveDue(h)
    <3>1. mDirs' = dirs /\ mTold' = mTold \ {h}
      BY <2>1, <1>p DEF Poll, MoveDue, StatusOf
    <3>2. mSession' = mSession \/ mSession' = [mSession EXCEPT ![h].moving = TRUE]
      BY <2>1, <1>p DEF Poll
    <3>3. mSession[h].st = "complete" /\ mSession[h].root = "incomplete"
      BY <2>1, <1>0 DEF MoveDue, MoveLanded, ClientTypeOK, Torrents, Roots
    <3>4. Present(g)' = Present(g) /\ mSession'[g].st = mSession[g].st /\ mSession'[g].root = mSession[g].root
      BY <3>2, <1>1, <1>0 DEF Present, ClientTypeOK, Torrents
    <3>5. g # h => mSession'[g] = mSession[g]
      BY <3>2, <1>0 DEF ClientTypeOK
    <3>6. SessionTold(g)'
      BY <3>3, <3>4, <3>5, <1>s, <1>p DEF SessionTold, Present
    <3>7. SavedTold(g)'
      BY <3>4, <1>s, <1>p DEF SavedTold
    <3>8. PayloadTold(g)'
      BY <3>1, <3>4, <3>5, <1>s, <1>p DEF PayloadTold, Whole
    <3>. QED  BY <3>6, <3>7, <3>8 DEF TransferTold
  <2>2. CASE ~MoveDue(h)
    <3>1. mSession' = mSession /\ (mDirs' = dirs \/ (mDirs' = dirs \ {SourceDir(h)} /\ Fileless(SourceDir(h))))
      BY <2>2, <1>p DEF Poll
    <3>2. \A r \in Roots : mFiles[g][r] # "none" => <<r, MTitle[g]>> \in mDirs'
      <4>1. \A r \in Roots : mFiles[g][r] # "none" /\ Fileless(SourceDir(h)) => <<r, MTitle[g]>> # SourceDir(h)
        BY DEF Fileless, SourceDir
      <4>. QED  BY <3>1, <4>1, <1>s, <1>p DEF PayloadTold
    <3>3. \A r \in Roots : Whole(g, r) => Whole(g, r)'
      BY <3>2, <1>p DEF Whole
    <3>4. mTold' \subseteq mTold \cup {h} /\ (h \in mTold' => StatusOf(h) = "finished")
      BY <1>p DEF Poll
    <3>5. g \in mTold' => Whole(g, "completed") /\ ~mSession[g].moving /\ g \notin mDelete
      <4>1. CASE g = h
        <5>1. StatusOf(h) = "finished" => Present(h) /\ mSession[h].st = "complete" /\ MoveLanded(h)
          <6>1. CASE ~Present(h)
            BY <6>1 DEF StatusOf, Present
          <6>2. CASE Present(h) /\ ~(mSession[h].st = "complete" /\ MoveLanded(h))
            BY <6>2 DEF StatusOf
          <6>. QED  BY <6>1, <6>2
        <5>. QED  BY <4>1, <5>1, <3>4, <1>s DEF MoveLanded, PayloadTold
      <4>. QED  BY <4>1, <3>4, <1>s DEF PayloadTold
    <3>6. PayloadTold(g)'
      BY <3>1, <3>2, <3>3, <3>5, <1>s, <1>1, <1>p DEF PayloadTold, Present, Torrents, Roots
    <3>7. SessionTold(g)' /\ SavedTold(g)'
      BY <3>1, <1>s, <1>p DEF SessionTold, SavedTold, Present
    <3>. QED  BY <3>6, <3>7 DEF TransferTold
  <2>. QED  BY <2>1, <2>2
<1>2. ASSUME NEW h \in MHashes, NEW b \in BOOLEAN, GetTorrentStatus(h, b) PROVE TransferTold(g)'
  <2>1. mDirs \in SUBSET (Roots \X Titles)
    BY <1>0 DEF ClientTypeOK
  <2>. QED  BY <2>1, <1>2, <1>p DEF GetTorrentStatus, saveVars
<1>4. ASSUME NEW h \in MHashes, DownloadTorrent(h) PROVE TransferTold(g)'
  <2>1. mDirs \cup {InitialDir(h)} \in SUBSET (Roots \X Titles)
    BY <1>0 DEF ClientTypeOK, InitialDir, InitialRoot, Titles, Roots
  <2>2. CASE Poll(h, mDirs \cup {InitialDir(h)})
    BY <2>1, <2>2, <1>4, <1>p DEF DownloadTorrent, saveVars
  <2>3. CASE ~Present(h) /\ AddTorrent(h)
    <3>1. ToAdd(h) \subseteq MHashes /\ \A x \in ToAdd(h) : ~Present(x)
      BY <2>3 DEF ToAdd
    <3>2. mDirs \subseteq mDirs'
      BY <2>3 DEF AddTorrent
    <3>3. \A r \in Roots : Whole(g, r) => Whole(g, r)'
      BY <3>2, <1>4 DEF Whole, DownloadTorrent
    <3>4. CASE g \in ToAdd(h)
      <4>1. mSession'[g].st \in {"metadata", "downloading"} /\ ~mSession'[g].moving /\ g \notin mTold' /\ g \notin mDelete
        BY <3>4, <2>3 DEF AddTorrent, Handle
      <4>. QED  BY <4>1, <3>2, <1>4, <1>s DEF TransferTold, SessionTold, SavedTold, PayloadTold, Present, DownloadTorrent, saveVars
    <3>5. CASE g \notin ToAdd(h)
      <4>1. mSession'[g] = mSession[g] /\ (g \in mTold' <=> g \in mTold)
        BY <3>5, <2>3 DEF AddTorrent
      <4>. QED  BY <4>1, <3>2, <3>3, <1>4, <1>s, <1>1 DEF TransferTold, SessionTold, SavedTold, PayloadTold, Present, DownloadTorrent, saveVars, Torrents, Roots
    <3>. QED  BY <3>4, <3>5
  <2>. QED  BY <1>4, <2>2, <2>3 DEF DownloadTorrent
<1>5. ASSUME NEW h \in MHashes,
             MoveRetryDue(h) \/ SaveTorrent(h) \/ ImportFiles(h) \/ \E source \in Sources : GetTorrentHash(h, source)
      PROVE TransferTold(g)'
  <2>1. UNCHANGED <<mUp, mSession, mResume, mAlert, mCkpt, mFiles, mDirs, mDelete, mTold>>
    BY <1>5 DEF MoveRetryDue, SaveTorrent, ImportFiles, GetTorrentHash, saveVars, diskVars
  <2>. QED  BY <2>1, <1>s DEF TransferTold, SessionTold, SavedTold, PayloadTold, Present, Whole
<1>6. ASSUME NEW h \in MHashes, NEW b \in BOOLEAN, RemoveTorrent(h, b) PROVE TransferTold(g)'
  <2>1. CASE g = h
    BY <2>1, <1>6, <1>0, <1>s DEF RemoveTorrent, ClientTypeOK, TransferTold, SessionTold, SavedTold, PayloadTold, Present, Whole, Absent, Handle, NoResume
  <2>2. CASE g # h
    <3>1. /\ mSession'[g] = mSession[g] /\ mResume'[g] = mResume[g] /\ (g \in mCkpt' <=> g \in mCkpt)
          /\ (g \in mTold' <=> g \in mTold) /\ (g \in mDelete' <=> g \in mDelete)
      BY <2>2, <1>6, <1>0 DEF RemoveTorrent, ClientTypeOK
    <3>. QED  BY <3>1, <1>6, <1>s DEF RemoveTorrent, TransferTold, SessionTold, SavedTold, PayloadTold, Present, Whole
  <2>. QED  BY <2>1, <2>2
<1>7. ASSUME UNCHANGED <<mUp, mSession, mResume, mAlert, mCkpt, mFiles, mDelete, mTold>>,
             \A r \in Roots : <<r, MTitle[g]>> \in mDirs /\ mFiles[g][r] # "none" => <<r, MTitle[g]>> \in mDirs'
      PROVE TransferTold(g)'
  <2>1. \A r \in Roots : Whole(g, r) => Whole(g, r)'
    BY <1>7 DEF Whole
  <2>. QED  BY <1>7, <2>1, <1>s, <1>1 DEF TransferTold, SessionTold, SavedTold, PayloadTold, Present, Torrents, Roots
<1>8. ASSUME NEW h \in MHashes, NEW b \in BOOLEAN, RemoveEnds(h, b) PROVE TransferTold(g)'
  <2>1. \A r \in Roots : mFiles[g][r] # "none" => ~Fileless(<<r, MTitle[g]>>)
    BY DEF Fileless
  <2>. QED  BY <2>1, <1>7, <1>8 DEF RemoveEnds, saveVars
<1>9. ASSUME NEW d \in mDirs, PruneEmptyDirs(d) PROVE TransferTold(g)'
  <2>1. \A r \in Roots : mFiles[g][r] # "none" => ~Fileless(<<r, MTitle[g]>>)
    BY DEF Fileless
  <2>. QED  BY <2>1, <1>7, <1>9 DEF PruneEmptyDirs, saveVars
<1>10. ASSUME NEW h \in MHashes, Serializes(h) PROVE TransferTold(g)'
  <2>1. mAlert'[g].st = "none" => mAlert'[g] = NoResume
    BY <1>10, <1>0, <1>s DEF Serializes, ClientTypeOK, SavedTold
  <2>. QED  BY <1>10, <2>1, <1>s DEF Serializes, diskVars, TransferTold, SessionTold, SavedTold, PayloadTold, Present, Whole
<1>11. ASSUME NEW h \in MHashes, SaveResumeData(h) PROVE TransferTold(g)'
  <2>1. SavedTold(g)'
    BY <1>11, <1>0, <1>s DEF SaveResumeData, ClientTypeOK, SavedTold, Present, NoResume
  <2>. QED  BY <1>11, <2>1, <1>s DEF SaveResumeData, diskVars, TransferTold, SessionTold, PayloadTold, Present, Whole
<1>12. ASSUME ClientShutdown PROVE TransferTold(g)'
  BY <1>12, <1>s DEF ClientShutdown, saveVars, diskVars, TransferTold, SessionTold, SavedTold, PayloadTold, Present, Whole
<1>13. ASSUME ProcessGone PROVE TransferTold(g)'
  <2>1. mSession'[g] = Absent /\ ~Present(g)' /\ mAlert'[g] = NoResume
    BY <1>13 DEF ProcessGone, Present, Absent, Handle
  <2>2. mDirs \subseteq mDirs' /\ (mSession[g].moving => <<"completed", MTitle[g]>> \in mDirs')
    BY <1>13 DEF ProcessGone
  <2>3. ~mSession[g].moving => mFiles'[g] = mFiles[g]
    BY <1>13 DEF ProcessGone, Left, Torn
  <2>4. mSession[g].moving => \A r \in Roots : <<r, MTitle[g]>> \in mDirs'
    BY <2>2, <1>s DEF SessionTold, PayloadTold, Whole, Roots
  <2>5. \A r \in Roots : mFiles'[g][r] # "none" => <<r, MTitle[g]>> \in mDirs'
    BY <2>2, <2>3, <2>4, <1>s DEF PayloadTold
  <2>6. g \in mTold' => Whole(g, "completed")'
    BY <1>13, <2>2, <2>3, <1>s DEF ProcessGone, PayloadTold, Whole
  <2>. QED  BY <1>13, <2>1, <2>5, <2>6, <1>s DEF ProcessGone, TransferTold, SessionTold, SavedTold, PayloadTold, Absent, Handle
<1>14. ASSUME ShutdownEnds \/ ClientCrash PROVE TransferTold(g)'
  BY <1>13, <1>14 DEF ShutdownEnds, ClientCrash
<1>15. ASSUME NEW bad \in SUBSET MHashes, LoadResumeData(bad) PROVE TransferTold(g)'
  <2>1. CASE mResume[g] = NoResume \/ g \in bad
    <3>1. mSession'[g] = Absent
      BY <2>1, <1>15 DEF LoadResumeData
    <3>. QED  BY <3>1, <2>1, <1>15, <1>s DEF LoadResumeData, diskVars, TransferTold, SessionTold, SavedTold, PayloadTold, Present, Whole, Absent, Handle
  <2>2. CASE mResume[g] # NoResume /\ g \notin bad
    <3>1. mSession'[g] = Loaded(g)
      BY <2>2, <1>15 DEF LoadResumeData
    <3>2. mResume[g].st \in {"downloading", "complete"} /\ mResume[g].root \in Roots
      BY <2>2, <1>s, <1>1 DEF SavedTold, ResumeData
    <3>3. /\ Loaded(g).st # "absent" /\ ~Loaded(g).moving
          /\ Loaded(g).st = "complete" => Whole(g, Loaded(g).root)
      BY <3>2, <1>s DEF Loaded, Handle, PayloadTold, Whole
    <3>. QED  BY <3>1, <3>3, <1>15, <1>s DEF LoadResumeData, diskVars, TransferTold, SessionTold, SavedTold, PayloadTold, Present, Whole
  <2>. QED  BY <2>1, <2>2
<1>16. ASSUME ReconcileResumeData PROVE TransferTold(g)'
  <2>1. \/ mSession'[g] = mSession[g] /\ mResume'[g] = mResume[g] /\ (g \in mCkpt' => g \in mCkpt)
        \/ mSession'[g] = Absent /\ mResume'[g] = NoResume /\ g \notin mCkpt'
    BY <1>16 DEF ReconcileResumeData, ResumeHashesToDrop, Unwanted
  <2>. QED  BY <1>16, <2>1, <1>s DEF ReconcileResumeData, diskVars, TransferTold, SessionTold, SavedTold, PayloadTold, Present, Whole, Absent, Handle
<1>17. ASSUME NEW h \in MHashes, Downloads(h) PROVE TransferTold(g)'
  <2>1. CASE g # h
    <3>1. mSession'[g] = mSession[g] /\ mFiles'[g] = mFiles[g] /\ mDirs \subseteq mDirs'
      BY <2>1, <1>17, <1>0 DEF Downloads, ClientTypeOK
    <3>. QED  BY <3>1, <1>17, <1>s, <1>1 DEF Downloads, saveVars, TransferTold, SessionTold, SavedTold, PayloadTold, Present, Whole, Torrents, Roots
  <2>2. CASE g = h
    <3>1. Present(g) /\ ~mSession[g].moving /\ g \notin mDelete
      BY <2>2, <1>17, <1>s DEF Downloads, Present, SessionTold, PayloadTold
    <3>2. PICK r \in Roots : r = mSession[g].root
      BY <1>1 DEF Torrents
    <3>3. CASE /\ mSession'[g].st = "downloading" /\ mSession'[g].root = r /\ ~mSession'[g].moving
               /\ mFiles' = mFiles /\ mDirs' = mDirs
      BY <2>2, <3>1, <3>3, <1>17, <1>s DEF Downloads, saveVars, TransferTold, SessionTold, SavedTold, PayloadTold, Present, Whole
    <3>4. CASE /\ mSession'[g].st = "downloading" /\ mSession'[g].root = r /\ ~mSession'[g].moving
               /\ mFiles'[g] = [mFiles[g] EXCEPT ![r] = "part"] /\ mFiles[g][r] = "none"
               /\ mDirs' = mDirs \cup {<<r, MTitle[g]>>}
      BY <2>2, <3>1, <3>4, <1>1, <1>17, <1>s DEF Downloads, saveVars, TransferTold, SessionTold, SavedTold, PayloadTold, Present, Whole
    <3>5. CASE /\ mSession'[g].st = "complete" /\ mSession'[g].root = r /\ ~mSession'[g].moving
               /\ mFiles'[g] = [mFiles[g] EXCEPT ![r] = "whole"] /\ mDirs' = mDirs \cup {<<r, MTitle[g]>>}
      <4>1. \A x \in Roots : Whole(g, x) => Whole(g, x)'
        BY <3>5, <1>1 DEF Whole
      <4>2. Whole(g, r)' /\ \A x \in Roots : mFiles'[g][x] # "none" => <<x, MTitle[g]>> \in mDirs'
        BY <3>5, <1>1, <1>s DEF Whole, PayloadTold
      <4>3. "completed" \in Roots
        BY DEF Roots
      <4>. QED
        BY <2>2, <3>1, <3>5, <4>1, <4>2, <4>3, <1>17, <1>s DEF Downloads, saveVars, TransferTold, SessionTold, SavedTold, PayloadTold, Present
    <3>6. CASE mSession[g].st = "metadata"
      BY <2>2, <3>1, <3>2, <3>3, <3>6, <1>0, <1>1, <1>17 DEF Downloads, ClientTypeOK, Torrents
    <3>7. CASE mSession[g].st = "downloading" /\ mFiles[g][r] = "none"
      BY <2>2, <3>1, <3>2, <3>4, <3>7, <1>0, <1>1, <1>17 DEF Downloads, ClientTypeOK, Torrents
    <3>8. CASE mSession[g].st = "downloading" /\ mFiles[g][r] # "none"
      BY <2>2, <3>1, <3>2, <3>5, <3>8, <1>0, <1>1, <1>17 DEF Downloads, ClientTypeOK, Torrents
    <3>. QED  BY <2>2, <3>6, <3>7, <3>8, <1>17 DEF Downloads
  <2>. QED  BY <2>1, <2>2
<1>18. ASSUME NEW h \in MHashes, MoveEnds(h) PROVE TransferTold(g)'
  <2>1. CASE g # h
    <3>1. mSession'[g] = mSession[g] /\ mFiles'[g] = mFiles[g] /\ mDirs \subseteq mDirs'
      BY <2>1, <1>18, <1>0 DEF MoveEnds, ClientTypeOK
    <3>. QED  BY <3>1, <1>18, <1>s, <1>1 DEF MoveEnds, saveVars, TransferTold, SessionTold, SavedTold, PayloadTold, Present, Whole, Torrents, Roots
  <2>2. CASE g = h
    <3>1. /\ mSession[g].st = "complete" /\ mSession[g].root = "incomplete" /\ mSession[g].moving
          /\ Whole(g, "incomplete") /\ g \notin mTold /\ g \notin mDelete /\ Present(g)
      BY <2>2, <1>18, <1>s DEF MoveEnds, SessionTold, PayloadTold, Present
    <3>2. mDirs' = mDirs \cup {<<"completed", MTitle[g]>>}
      BY <2>2, <1>18 DEF MoveEnds
    <3>3. CASE /\ mSession'[g] = Handle("complete", "completed")
               /\ mFiles'[g] = [r \in Roots |-> IF r = "completed" THEN "whole" ELSE "none"]
      BY <2>2, <3>1, <3>2, <3>3, <1>18, <1>s
         DEF MoveEnds, saveVars, TransferTold, SessionTold, SavedTold, PayloadTold, Present, Whole, Handle, Roots
    <3>4. CASE /\ mSession'[g].st = "complete" /\ mSession'[g].root = "incomplete" /\ ~mSession'[g].moving
               /\ mFiles'[g] = [mFiles[g] EXCEPT !["completed"] = "part"]
      BY <2>2, <3>1, <3>2, <3>4, <1>1, <1>18, <1>s
         DEF MoveEnds, saveVars, TransferTold, SessionTold, SavedTold, PayloadTold, Present, Whole, Roots
    <3>. QED  BY <2>2, <3>1, <3>3, <3>4, <1>0, <1>1, <1>18 DEF MoveEnds, ClientTypeOK, Torrents
  <2>. QED  BY <2>1, <2>2
<1>19. ASSUME NEW h \in MHashes, DeletesFiles(h) PROVE TransferTold(g)'
  <2>1. CASE g # h
    <3>1. mFiles'[g] = mFiles[g] /\ (g \in mDelete' <=> g \in mDelete)
      BY <2>1, <1>19, <1>0 DEF DeletesFiles, ClientTypeOK
    <3>. QED  BY <3>1, <1>19, <1>s DEF DeletesFiles, saveVars, TransferTold, SessionTold, SavedTold, PayloadTold, Present, Whole
  <2>2. CASE g = h
    <3>1. /\ mFiles'[g] = [r \in Roots |-> "none"] /\ g \notin mDelete' /\ ~Present(g) /\ g \notin mTold /\ ~mSession[g].moving
          /\ mSession[g].st # "complete"
      BY <2>2, <1>19, <1>0, <1>s DEF DeletesFiles, ClientTypeOK, SessionTold, PayloadTold, Present
    <3>. QED  BY <3>1, <1>19, <1>s DEF DeletesFiles, saveVars, TransferTold, SessionTold, SavedTold, PayloadTold, Present, Whole
  <2>. QED  BY <2>1, <2>2
<1>. QED
  BY <1>u, <1>2, <1>4, <1>5, <1>6, <1>8, <1>9, <1>10, <1>11, <1>12, <1>14, <1>15, <1>16, <1>17, <1>18, <1>19
     DEF ClientNext, HandlerStep, LibtorrentStep

\* Nothing that was told is lost.
LEMMA ClientKeeps == ClientInv => TransfersKept
BY DEF ClientInv, TransferTold, PayloadTold, SavedTold, TransfersKept

\* What every reachable state of the native client satisfies: what is saved of a torrent, and
\* where its payload is, whatever is told of it (torrents/backends/native.py).
THEOREM ClientInvariant == ClientSpec => []ClientInv
BY ClientInvInit, ClientInvNext, PTL DEF ClientSpec

\* A torrent told to be finished has its payload in the completed root, and one that is saved is
\* in the session or waits for the next start (get_torrent_status, reconcile_resume_data).
THEOREM TransfersStayKept == ClientSpec => []TransfersKept
BY ClientInvariant, ClientKeeps, PTL

(***************************************************************************)
(* The sites of the native indexer: each has every mirror once, in its     *)
(* order, whoever edits, seeds or reads them.                              *)
(***************************************************************************)
MirrorRecords == [url : JUrls, on : BOOLEAN, seeded : BOOLEAN]
MirrorLists == {l \in Seq(MirrorRecords) : \A i, j \in DOMAIN l : l[i].url = l[j].url => i = j}
SiteRows == [on : BOOLEAN, cloudflare : BOOLEAN, preloaded : BOOLEAN, active : JUrls, mirrors : MirrorLists]
SiteTables == UNION {[D -> SiteRows] : D \in SUBSET JSites}
KeptTables == [built : BOOLEAN, of : SiteTables]

SitesInv ==
  /\ jSites \in SiteTables /\ jCache \in KeptTables /\ jRead \in [JReaders -> KeptTables] /\ jEdits \in 0..JMaxEdits
  /\ DOMAIN jEdit = JEditors /\ \A e \in JEditors : jEdit[e].old \in SiteRows /\ jEdit[e].new \in SiteRows

\* mirrors_from_urls
LEMMA MirrorsListed ==
  ASSUME NEW active \in JUrls, NEW urls \in Seq(JUrls), IsInjective(urls), NEW seeded \in BOOLEAN
  PROVE  MirrorsFromUrls(urls, active, seeded) \in MirrorLists
<1>. DEFINE K == {n \in DOMAIN urls : urls[n] # active}
            rest == MembersAt(urls, K)
            all == <<active>> \o rest
<1>1. rest \in Seq(JUrls) /\ IsInjective(rest) /\ \A k \in DOMAIN rest : rest[k] # active
  BY FilteredKeeps
<1>2. MirrorsFromUrls(urls, active, seeded) = [n \in DOMAIN all |-> Mirror(all[n], TRUE, seeded)]
  BY DEF MirrorsFromUrls, Filtered
<1>. HIDE DEF rest
<1>3. /\ all \in Seq(JUrls) /\ Len(all) = 1 + Len(rest) /\ all[1] = active
      /\ \A n \in 2..Len(all) : all[n] = rest[n - 1] /\ n - 1 \in DOMAIN rest
  BY <1>1
<1>4. \A i, j \in DOMAIN all : all[i] = all[j] => i = j
  <2>. SUFFICES ASSUME NEW i \in 1..Len(all), NEW j \in 1..Len(all), all[i] = all[j] PROVE i = j
    BY <1>3
  <2>1. i \in Nat /\ j \in Nat /\ (i = 1 \/ i \in 2..Len(all)) /\ (j = 1 \/ j \in 2..Len(all))
    BY <1>1, <1>3
  <2>. HIDE DEF all
  <2>. QED  BY <1>1, <1>3, <2>1 DEF IsInjective
<1>. HIDE DEF all
<1>. QED  BY <1>2, <1>3, <1>4 DEF MirrorLists, MirrorRecords, Mirror

LEMMA NewRow == ASSUME NEW u \in JUrls, NEW urls \in Seq(JUrls), IsInjective(urls), NEW p \in BOOLEAN
                PROVE NewSite(u, urls, p) \in SiteRows
BY MirrorsListed DEF NewSite, SiteRows

LEMMA MirrorsCounted ==
  ASSUME NEW l \in MirrorLists PROVE Urls(l) \subseteq JUrls /\ Cardinality(Urls(l)) = Len(l)
<1>. DEFINE n == Len(l)
            f == [k \in 1..n |-> l[k].url]
<1>1. l \in Seq(MirrorRecords) /\ n \in Nat /\ DOMAIN l = 1..n
  BY DEF MirrorLists
<1>2. Urls(l) = {l[k].url : k \in 1..n}
  BY <1>1 DEF Urls, Range
<1>3. f \in Bijection(1..n, Urls(l))
  BY <1>1, <1>2 DEF Bijection, Injection, IsInjective, Surjection, MirrorLists
<1>4. IsFiniteSet(1..n) /\ Cardinality(1..n) = n
  BY <1>1, FS_Interval
<1>5. Cardinality(Urls(l)) = Cardinality(1..n)
  <2>. DEFINE D == 1..n
  <2>1. IsFiniteSet(D) /\ f \in Bijection(D, Urls(l))
    BY <1>3, <1>4
  <2>. HIDE DEF f, D
  <2>2. Cardinality(Urls(l)) = Cardinality(D)
    BY <2>1, FS_Bijection DEF ExistsBijection
  <2>. QED  BY <2>2 DEF D
<1>6. \A k \in 1..n : l[k].url \in JUrls
  <2>1. \A k \in 1..n : l[k] \in MirrorRecords
    BY <1>1
  <2>. QED  BY <2>1 DEF MirrorRecords
<1>. QED  BY <1>2, <1>4, <1>5, <1>6

LEMMA NothingKept == NoIndexerCache \in KeptTables
BY DEF NoIndexerCache, NoSites, KeptTables, SiteTables

LEMMA SitesInvInit == IndexerSitesInit => SitesInv
<1> SUFFICES ASSUME IndexerSitesInit PROVE SitesInv
  OBVIOUS
<1>1. JSeeded[1] \in JUrls
  BY IndexerSitesAssumption
<1>2. NewSite(JSeeded[1], <<>>, TRUE) \in SiteRows
  <2>1. <<>> \in Seq(JUrls) /\ IsInjective(<<>>)
    BY DEF IsInjective
  <2>. QED  BY <1>1, <2>1, NewRow
<1>3. NewSite(JSeeded[1], <<JSeeded[1]>>, TRUE) \in SiteRows
  <2>1. <<JSeeded[1]>> \in Seq(JUrls) /\ IsInjective(<<JSeeded[1]>>)
    BY <1>1 DEF IsInjective
  <2>. QED  BY <1>1, <2>1, NewRow
<1>4. NoIndexerCache \in KeptTables
  BY NothingKept
<1>5. jSites \in SiteTables
  <2>1. jSites \in [JPreloaded -> SiteRows] /\ JPreloaded \in SUBSET JSites
    BY <1>3, IndexerSitesAssumption DEF IndexerSitesInit
  <2>. QED  BY <2>1 DEF SiteTables
<1>6. \A e \in JEditors : jEdit[e].old \in SiteRows /\ jEdit[e].new \in SiteRows
  BY <1>2 DEF IndexerSitesInit, IdleEdit
<1>7. jEdits \in 0..JMaxEdits
  BY IndexerSitesAssumption DEF IndexerSitesInit
<1>. QED  BY <1>4, <1>5, <1>6, <1>7 DEF IndexerSitesInit, SitesInv

LEMMA ReconciledTyped ==
  ASSUME NEW old, NEW new \in MirrorLists
  PROVE  Reconciled(old, new) \in MirrorLists
<1>1. new \in Seq(MirrorRecords) /\ \A n \in DOMAIN new : new[n].url \in JUrls /\ new[n].on \in BOOLEAN
  <2>1. \A n \in DOMAIN new : new[n] \in MirrorRecords
    BY DEF MirrorLists
  <2>. QED  BY <2>1 DEF MirrorLists, MirrorRecords
<1>2. Reconciled(old, new) \in Seq(MirrorRecords)
  <2>1. Reconciled(old, new) \in [DOMAIN new -> MirrorRecords]
    BY <1>1 DEF Reconciled, Mirror, MirrorRecords
  <2>. QED  BY <1>1, <2>1, SeqOver
<1>3. /\ DOMAIN Reconciled(old, new) = DOMAIN new
      /\ \A n \in DOMAIN new : Reconciled(old, new)[n].url = new[n].url
  BY DEF Reconciled, Mirror
<1>. QED  BY <1>2, <1>3 DEF MirrorLists

LEMMA ProposalsTyped == Proposals \subseteq MirrorLists
<1>. SUFFICES ASSUME NEW p \in Proposals PROVE p \in MirrorLists
  OBVIOUS
<1>0. PICK us \in Addresses, on \in [1..2 -> BOOLEAN] : p = [n \in DOMAIN us |-> Mirror(us[n], on[n], FALSE)]
  BY DEF Proposals, Mirror
<1>1. us \in Seq(JUrls) /\ Len(us) \in 1..2 /\ \A i, j \in DOMAIN us : us[i] = us[j] => i = j
  <2>1. CASE \E u \in JUrls : us = <<u>>
    BY <2>1
  <2>2. CASE us \in JUrls \X JUrls /\ us[1] # us[2]
    BY <2>2
  <2>. QED  BY <2>1, <2>2 DEF Addresses
<1>2. \A n \in DOMAIN us : Mirror(us[n], on[n], FALSE) \in MirrorRecords /\ Mirror(us[n], on[n], FALSE).url = us[n]
  BY <1>1 DEF Mirror, MirrorRecords
<1>. DEFINE l == [n \in DOMAIN us |-> Mirror(us[n], on[n], FALSE)]
<1>3. l \in [DOMAIN us -> MirrorRecords] /\ \A n \in DOMAIN us : l[n].url = us[n]
  BY <1>2
<1>. HIDE DEF l
<1>4. l \in Seq(MirrorRecords) /\ DOMAIN l = DOMAIN us
  BY <1>1, <1>3, SeqOver
<1>5. l \in MirrorLists
  BY <1>1, <1>3, <1>4 DEF MirrorLists
<1>. QED  BY <1>0, <1>5 DEF l

\* One more mirror in front, and not again in the rest.
LEMMA PutFirst ==
  ASSUME NEW l \in MirrorLists, NEW u \in JUrls
  PROVE  <<Mirror(u, TRUE, FALSE)>> \o Filtered(l, LAMBDA m : m.url # u) \in MirrorLists
<1>. DEFINE K == {n \in DOMAIN l : l[n].url # u}
            rest == MembersAt(l, K)
            m == Mirror(u, TRUE, FALSE)
            all == <<m>> \o rest
<1>0. l \in Seq(MirrorRecords) /\ IsInjective(l)
  BY DEF MirrorLists, IsInjective
<1>1. rest \in Seq(MirrorRecords) /\ \A k \in DOMAIN rest : \E n \in K : rest[k] = l[n]
  <2>1. K \in SUBSET DOMAIN l
    OBVIOUS
  <2>. HIDE DEF K
  <2>. QED  BY <1>0, <2>1, FilteredKeeps
<1>2. \A i, j \in DOMAIN rest : rest[i].url = rest[j].url => i = j
  <2>. SUFFICES ASSUME NEW i \in DOMAIN rest, NEW j \in DOMAIN rest, rest[i].url = rest[j].url PROVE i = j
    OBVIOUS
  <2>1. PICK a \in K : rest[i] = l[a]
    BY <1>1
  <2>2. PICK b \in K : rest[j] = l[b]
    BY <1>1
  <2>3. a = b
    BY <2>1, <2>2 DEF MirrorLists
  <2>4. rest[i] = rest[j] /\ IsInjective(rest)
    BY <1>0, <2>1, <2>2, <2>3, FilteredKeeps
  <2>. HIDE DEF rest
  <2>. QED  BY <2>4 DEF IsInjective
<1>3. \A k \in DOMAIN rest : rest[k].url # u
  BY <1>1
<1>4. Filtered(l, LAMBDA x : x.url # u) = rest
  BY DEF Filtered
<1>5. m \in MirrorRecords /\ m.url = u
  BY DEF Mirror, MirrorRecords
<1>. HIDE DEF rest, m
<1>6. /\ all \in Seq(MirrorRecords) /\ Len(all) = 1 + Len(rest) /\ all[1] = m
      /\ \A n \in 2..Len(all) : all[n] = rest[n - 1] /\ n - 1 \in DOMAIN rest
  BY <1>1, <1>5
<1>7. \A i, j \in DOMAIN all : all[i].url = all[j].url => i = j
  <2>. SUFFICES ASSUME NEW i \in 1..Len(all), NEW j \in 1..Len(all), all[i].url = all[j].url PROVE i = j
    BY <1>6
  <2>1. i \in Nat /\ j \in Nat /\ (i = 1 \/ i \in 2..Len(all)) /\ (j = 1 \/ j \in 2..Len(all))
    BY <1>1, <1>6
  <2>. HIDE DEF all
  <2>. QED  BY <1>2, <1>3, <1>5, <1>6, <2>1
<1>. QED  BY <1>4, <1>6, <1>7 DEF MirrorLists, m

LEMMA ReseededTyped == ASSUME NEW old \in MirrorLists PROVE Reseeded(old) \in MirrorLists
<1>. DEFINE K == {n \in DOMAIN JSeeded : JSeeded[n] \notin Urls(old)}
            fresh == MembersAt(JSeeded, K)
            a == [n \in DOMAIN old |-> Mirror(old[n].url, old[n].on, old[n].url \in Range(JSeeded))]
            b == [n \in DOMAIN fresh |-> Mirror(fresh[n], TRUE, TRUE)]
<1>1. fresh \in Seq(JUrls) /\ IsInjective(fresh) /\ \A k \in DOMAIN fresh : fresh[k] \notin Urls(old)
  BY FilteredKeeps, IndexerSitesAssumption
<1>2. Reseeded(old) = a \o b
  BY DEF Reseeded, Filtered
<1>3. old \in Seq(MirrorRecords) /\ \A n \in DOMAIN old : old[n].url \in JUrls /\ old[n].on \in BOOLEAN
  <2>1. \A n \in DOMAIN old : old[n] \in MirrorRecords
    BY DEF MirrorLists
  <2>. QED  BY <2>1 DEF MirrorLists, MirrorRecords
<1>. HIDE DEF fresh
<1>4. a \in Seq(MirrorRecords) /\ Len(a) = Len(old) /\ \A n \in DOMAIN a : a[n].url = old[n].url /\ n \in DOMAIN old
  <2>1. a \in [DOMAIN old -> MirrorRecords] /\ \A n \in DOMAIN old : a[n].url = old[n].url
    BY <1>3 DEF Mirror, MirrorRecords
  <2>. HIDE DEF a
  <2>. QED  BY <1>3, <2>1, SeqOver
<1>5. b \in Seq(MirrorRecords) /\ \A n \in DOMAIN b : b[n].url = fresh[n] /\ n \in DOMAIN fresh
  <2>1. b \in [DOMAIN fresh -> MirrorRecords] /\ \A n \in DOMAIN fresh : b[n].url = fresh[n]
    BY <1>1 DEF Mirror, MirrorRecords
  <2>. HIDE DEF b
  <2>. QED  BY <1>1, <2>1, SeqOver
<1>6. \A n \in DOMAIN old : old[n].url \in Urls(old)
  BY <1>3 DEF Urls, Range
<1>. HIDE DEF a, b
<1>. DEFINE all == a \o b
<1>7. /\ all \in Seq(MirrorRecords) /\ Len(all) = Len(a) + Len(b) /\ Len(a) \in Nat /\ Len(b) \in Nat
      /\ \A n \in 1..Len(a) : all[n] = a[n]
      /\ \A n \in (Len(a) + 1)..Len(all) : all[n] = b[n - Len(a)] /\ n - Len(a) \in DOMAIN b
  <2>1. a \in Seq(MirrorRecords) /\ b \in Seq(MirrorRecords)
    BY <1>4, <1>5
  <2>. QED  BY <2>1, Joined
<1>8. \A i, j \in DOMAIN all : all[i].url = all[j].url => i = j
  <2>. SUFFICES ASSUME NEW i \in 1..Len(all), NEW j \in 1..Len(all), all[i].url = all[j].url PROVE i = j
    BY <1>7
  <2>. DEFINE A == 1..Len(a)
              B == (Len(a) + 1)..Len(all)
  <2>1. i \in Nat /\ j \in Nat /\ (i \in A \/ i \in B) /\ (j \in A \/ j \in B)
    BY <1>7
  <2>2. ASSUME NEW k \in A PROVE all[k].url = old[k].url /\ k \in DOMAIN old /\ all[k].url \in Urls(old)
    BY <1>4, <1>6, <1>7
  <2>3. ASSUME NEW k \in B PROVE all[k].url = fresh[k - Len(a)] /\ k - Len(a) \in DOMAIN fresh /\ all[k].url \notin Urls(old)
    BY <1>1, <1>5, <1>7
  <2>. HIDE DEF all, A, B
  <2>4. CASE i \in A /\ j \in A
    BY <2>2, <2>4 DEF MirrorLists
  <2>5. CASE i \in B /\ j \in B
    BY <1>1, <1>7, <2>1, <2>3, <2>5 DEF IsInjective
  <2>. QED  BY <2>1, <2>2, <2>3, <2>4, <2>5
<1>. QED  BY <1>2, <1>7, <1>8 DEF MirrorLists

LEMMA MergedTyped ==
  ASSUME SitesInv, NEW e \in JEditors, NEW row \in SiteRows
  PROVE  Merged(row, e) \in SiteRows
<1>. DEFINE Columns == {"on", "cloudflare", "preloaded", "active", "mirrors"}
            m == Merged(row, e)
<1>1. jEdit[e].old \in SiteRows /\ jEdit[e].new \in SiteRows
  BY DEF SitesInv
<1>2. \A r \in SiteRows : /\ DOMAIN r = Columns
                          /\ r["on"] \in BOOLEAN /\ r["cloudflare"] \in BOOLEAN /\ r["preloaded"] \in BOOLEAN
                          /\ r["active"] \in JUrls /\ r["mirrors"] \in MirrorLists
  BY DEF SiteRows
<1>3. m = [c \in Columns |-> IF jEdit[e].new[c] # jEdit[e].old[c] THEN jEdit[e].new[c] ELSE row[c]]
  BY <1>2 DEF Merged
<1>4. /\ m["on"] \in BOOLEAN /\ m["cloudflare"] \in BOOLEAN /\ m["preloaded"] \in BOOLEAN
      /\ m["active"] \in JUrls /\ m["mirrors"] \in MirrorLists
  <2>. HIDE DEF m
  <2>. QED  BY <1>1, <1>2, <1>3
<1>5. m = [on |-> m["on"], cloudflare |-> m["cloudflare"], preloaded |-> m["preloaded"], active |-> m["active"], mirrors |-> m["mirrors"]]
  <2>. HIDE DEF m
  <2>. QED  BY <1>3
<1>. QED  BY <1>4, <1>5 DEF SiteRows

LEMMA WantedTyped ==
  ASSUME NEW row \in SiteRows PROVE WantedMirrors(row) \subseteq SiteRows
<1>1. row.mirrors \in MirrorLists
  BY DEF SiteRows
<1>2. [row EXCEPT !.on = ~@] \in SiteRows
  BY DEF SiteRows
<1>3. ASSUME NEW u \in JUrls, NEW l \in MirrorLists PROVE [row EXCEPT !.active = u, !.mirrors = l] \in SiteRows
  BY DEF SiteRows
<1>4. ASSUME NEW l \in MirrorLists PROVE [row EXCEPT !.mirrors = l] \in SiteRows
  BY DEF SiteRows
<1>5. ASSUME NEW u \in JUrls
      PROVE  (IF u \in EnabledUrls(row.mirrors) THEN row.mirrors
              ELSE Reconciled(row.mirrors, <<Mirror(u, TRUE, FALSE)>> \o Filtered(row.mirrors, LAMBDA m : m.url # u))) \in MirrorLists
  BY <1>1, PutFirst, ReconciledTyped
<1>6. \A p \in Proposals : Reconciled(row.mirrors, p) \in MirrorLists
  BY ProposalsTyped, ReconciledTyped
<1>. DEFINE list(u) == IF u \in EnabledUrls(row.mirrors) THEN row.mirrors
                       ELSE Reconciled(row.mirrors, <<Mirror(u, TRUE, FALSE)>> \o Filtered(row.mirrors, LAMBDA m : m.url # u))
<1>7. {[row EXCEPT !.active = u, !.mirrors = list(u)] : u \in JUrls} \subseteq SiteRows
  <2>1. \A u \in JUrls : list(u) \in MirrorLists
    BY <1>5
  <2>. HIDE DEF list
  <2>. QED  BY <1>3, <2>1
<1>8. {[row EXCEPT !.mirrors = Reconciled(row.mirrors, new)] : new \in {p \in Proposals : UserUpdateAllowed(row.mirrors, p, row.active)}}
        \subseteq SiteRows
  BY <1>4, <1>6
<1>. QED  BY <1>2, <1>7, <1>8 DEF WantedMirrors

LEMMA SitesInvNext == SitesInv /\ [IndexerSitesNext]_jVars => SitesInv'
<1> SUFFICES ASSUME SitesInv, [IndexerSitesNext]_jVars PROVE SitesInv'
  OBVIOUS
<1>u. ASSUME UNCHANGED jVars PROVE SitesInv'
  BY <1>u DEF SitesInv, jVars
<1>k. NoIndexerCache \in KeptTables
  BY NothingKept
<1>n. ASSUME NEW u \in JUrls, NEW p \in BOOLEAN PROVE NewSite(u, <<>>, p) \in SiteRows
  <2>1. <<>> \in Seq(JUrls) /\ IsInjective(<<>>)
    BY DEF IsInjective
  <2>. QED  BY <2>1, NewRow
<1>i. IdleEdit.old \in SiteRows /\ IdleEdit.new \in SiteRows
  <2>1. JSeeded[1] \in JUrls
    BY IndexerSitesAssumption
  <2>. QED  BY <1>n, <2>1 DEF IdleEdit
<1>c. ASSUME Counted PROVE jEdits' \in 0..JMaxEdits
  BY <1>c, IndexerSitesAssumption DEF Counted, SitesInv
<1>t. /\ jSites \in [DOMAIN jSites -> SiteRows] /\ DOMAIN jSites \subseteq JSites
      /\ \A D \in SUBSET JSites : [D -> SiteRows] \subseteq SiteTables
  BY DEF SitesInv, SiteTables
<1>e. ASSUME NEW e \in JEditors, NEW x, x.old \in SiteRows, x.new \in SiteRows, jEdit' = [jEdit EXCEPT ![e] = x]
      PROVE  DOMAIN jEdit' = JEditors /\ \A d \in JEditors : jEdit'[d].old \in SiteRows /\ jEdit'[d].new \in SiteRows
  BY <1>e DEF SitesInv
<1>1. ASSUME NEW e \in JEditors, CommitSite(e) PROVE SitesInv'
  <2>1. DOMAIN jEdit' = JEditors /\ \A d \in JEditors : jEdit'[d].old \in SiteRows /\ jEdit'[d].new \in SiteRows
    BY <1>1, <1>e, <1>i DEF CommitSite
  <2>2. jSites' \in SiteTables /\ jCache' \in KeptTables
    <3>1. CASE jEdit[e].site \in DOMAIN jSites
      <4>1. Merged(jSites[jEdit[e].site], e) \in SiteRows
        BY <1>t, <3>1, MergedTyped
      <4>2. jSites' \in [DOMAIN jSites -> SiteRows]
        BY <1>1, <1>t, <3>1, <4>1 DEF CommitSite
      <4>. QED  BY <1>1, <1>t, <1>k, <3>1, <4>2 DEF CommitSite, InvalidateNativeIndexer
    <3>2. CASE jEdit[e].site \notin DOMAIN jSites
      BY <1>1, <3>2 DEF CommitSite, KeepIndexer, SitesInv
    <3>. QED  BY <3>1, <3>2
  <2>. QED  BY <1>1, <2>1, <2>2 DEF CommitSite, SitesInv
<1>2. ASSUME NEW e \in JEditors, NEW s \in JSites, UpdateSite(e, s) PROVE SitesInv'
  <2>1. jSites[s] \in SiteRows
    BY <1>2, <1>t DEF UpdateSite
  <2>2. PICK new \in WantedMirrors(jSites[s]) : jEdit' = [jEdit EXCEPT ![e] = [site |-> s, old |-> jSites[s], new |-> new]]
    BY <1>2 DEF UpdateSite
  <2>3. new \in SiteRows
    BY <2>1, WantedTyped
  <2>4. DOMAIN jEdit' = JEditors /\ \A d \in JEditors : jEdit'[d].old \in SiteRows /\ jEdit'[d].new \in SiteRows
    BY <2>1, <2>2, <2>3, <1>e
  <2>. QED  BY <1>2, <1>c, <2>4 DEF UpdateSite, SitesInv
<1>3. ASSUME NEW e \in JEditors, NEW s \in JSites, NEW c \in BOOLEAN, TestSite(e, s, c) PROVE SitesInv'
  <2>1. jSites[s] \in SiteRows
    BY <1>3, <1>t DEF TestSite
  <2>2. [jSites[s] EXCEPT !.cloudflare = c] \in SiteRows
    BY <2>1 DEF SiteRows
  <2>3. DOMAIN jEdit' = JEditors /\ \A d \in JEditors : jEdit'[d].old \in SiteRows /\ jEdit'[d].new \in SiteRows
    BY <1>3, <2>1, <2>2, <1>e DEF TestSite
  <2>. QED  BY <1>3, <1>c, <2>3 DEF TestSite, SitesInv
<1>4. ASSUME NEW s \in JSites, DeleteSite(s) PROVE SitesInv'
  <2>1. jSites' \in [DOMAIN jSites \ {s} -> SiteRows] /\ DOMAIN jSites \ {s} \subseteq JSites
    BY <1>4, <1>t DEF DeleteSite, Restrict
  <2>2. jSites' \in SiteTables
    BY <2>1, <1>t
  <2>. QED  BY <1>4, <1>c, <1>k, <2>2 DEF DeleteSite, SitesInv, InvalidateNativeIndexer
<1>5. ASSUME NEW s \in JSites, NEW u \in JUrls, CreateSite(s, u) PROVE SitesInv'
  <2>1. jSites' \in [DOMAIN jSites \cup {s} -> SiteRows] /\ DOMAIN jSites \cup {s} \subseteq JSites
    BY <1>5, <1>t, <1>n DEF CreateSite
  <2>2. jSites' \in SiteTables
    BY <2>1, <1>t
  <2>. QED  BY <1>5, <1>c, <1>k, <2>2 DEF CreateSite, SitesInv, InvalidateNativeIndexer
<1>6. ASSUME NEW retired \in SUBSET JPreloaded, SeedPreloadedSites(retired) PROVE SitesInv'
  <2>. DEFINE D == {t \in DOMAIN jSites : ~(jSites[t].preloaded /\ t \in retired)}
  <2>1. ASSUME NEW s \in DOMAIN jSites
        PROVE (IF jSites[s].preloaded THEN [jSites[s] EXCEPT !.mirrors = Reseeded(@)] ELSE jSites[s]) \in SiteRows
    <3>1. jSites[s] \in SiteRows /\ jSites[s].mirrors \in MirrorLists
      BY <1>t DEF SiteRows
    <3>2. Reseeded(jSites[s].mirrors) \in MirrorLists
      BY <3>1, ReseededTyped
    <3>. QED  BY <3>1, <3>2 DEF SiteRows
  <2>2. jSites' \in [D -> SiteRows] /\ D \subseteq JSites
    BY <1>6, <1>t, <2>1 DEF SeedPreloadedSites
  <2>3. jSites' \in SiteTables
    <3>. HIDE DEF D
    <3>. QED  BY <2>2, <1>t
  <2>. QED  BY <1>6, <1>c, <1>k, <2>3 DEF SeedPreloadedSites, SitesInv, InvalidateNativeIndexer
<1>7. ASSUME NEW r \in JReaders, GetAllSites(r) \/ GetNativeIndexer(r) PROVE SitesInv'
  <2>1. [built |-> TRUE, of |-> jSites] \in KeptTables
    BY DEF SitesInv, KeptTables
  <2>. QED  BY <1>7, <1>k, <2>1 DEF GetAllSites, GetNativeIndexer, SitesInv
<1>. QED  BY <1>u, <1>1, <1>2, <1>3, <1>4, <1>5, <1>6, <1>7 DEF IndexerSitesNext

LEMMA SitesTyped == SitesInv => IndexerSitesTypeOK
<1> SUFFICES ASSUME SitesInv PROVE IndexerSitesTypeOK
  OBVIOUS
<1>1. DOMAIN jSites \subseteq JSites /\ jSites \in [DOMAIN jSites -> SiteRows] /\ DOMAIN jCache.of \subseteq JSites
  BY DEF SitesInv, KeptTables, SiteTables
<1>2. ASSUME NEW s \in DOMAIN jSites PROVE jSites[s].active \in JUrls /\ jSites[s].mirrors \in MirrorLists
  BY <1>1 DEF SiteRows
<1>. QED  BY <1>1, <1>2, MirrorsCounted DEF SitesInv, IndexerSitesTypeOK

\* Whatever editors, scheduled reseeding and readers do, a site has each mirror once, and
\* what is cached is a table of sites (indexers/repository.py, indexers/backends/native.py).
THEOREM SitesInvariant == IndexerSitesSpec => []SitesInv
BY SitesInvInit, SitesInvNext, PTL DEF IndexerSitesSpec

(***************************************************************************)
(* The search over all indexers.  The list of backends grows by what each  *)
(* query brings and is never cleared; what bounds it is the number of      *)
(* queries that have started.                                              *)
(***************************************************************************)
Pcs == {"start", "sites", "fan", "save", "commit", "end", "failed", "cancelled"}
Fetches == [st : {"idle", "try", "ok"}, rest : Seq(Range(NMirrors)), again : BOOLEAN]
Jobs == {"none", "queued", "run", "ended"}
InState(set) == {q \in NQueries : nQ[q].pc \in set}

\* The list of backends grows by no more than all of them for each query that has started.
ListBounded ==
  Len(nList) + Cardinality(InState({"sites"})) <= Cardinality(NQueries \ InState({"start"})) * Cardinality(NBackends)

SearchTyped ==
  /\ nPref \in [NSites -> Range(NMirrors)] /\ nInit \in BOOLEAN /\ nList \in Seq(NBackends)
  /\ nQ \in [NQueries -> [pc : Pcs, any : BOOLEAN]]
  /\ nJob \in [NQueries -> [SiteSlots -> Jobs]]
  /\ nFetch \in [NQueries -> [SiteSlots -> [NSites -> Fetches]]]
  /\ nBreak \in [NBackends -> 0..NThreshold] /\ nDb \in NQueries \cup {NoQuery}
  /\ nQueue \in Seq(NQueries \cup {Done}) /\ Len(nQueue) <= NQueueMax /\ nClient \in {"wait", "persist", "ended", "left"}

\* Only a search with the native backend reads its sites.
SitesRead == InState({"sites"}) # {} => "native" \in NBackends

SearchInv == SearchTyped /\ ListBounded /\ SitesRead

LEMMA SearchFacts ==
  /\ IsFiniteSet(NBackends) /\ Cardinality(NBackends) \in Nat /\ IsFiniteSet(NQueries) /\ Cardinality(NQueries) \in Nat
<1>1. IsFiniteSet({"prowlarr", "jackett", "native"})
  <2>1. {"prowlarr", "jackett", "native"} = (({} \cup {"prowlarr"}) \cup {"jackett"}) \cup {"native"}
    OBVIOUS
  <2>2. IsFiniteSet({})
    BY FS_EmptySet
  <2>3. IsFiniteSet({} \cup {"prowlarr"})
    BY <2>2, FS_AddElement
  <2>4. IsFiniteSet(({} \cup {"prowlarr"}) \cup {"jackett"})
    BY <2>3, FS_AddElement
  <2>5. IsFiniteSet((({} \cup {"prowlarr"}) \cup {"jackett"}) \cup {"native"})
    BY <2>4, FS_AddElement
  <2>. QED  BY <2>1, <2>5
<1>2. IsFiniteSet(NBackends) /\ IsFiniteSet(NQueries)
  BY <1>1, FS_Subset, IndexerSearchAssumption
<1>. QED  BY <1>2, FS_CardinalityType

LEMMA ListedBackends ==
  ASSUME NEW S \in SUBSET NBackends
  PROVE  SetToSeq(S) \in Seq(NBackends) /\ Len(SetToSeq(S)) = Cardinality(S) /\ Cardinality(S) \in Nat
<1>1. IsFiniteSet(S) /\ Cardinality(S) \in Nat
  BY SearchFacts, FS_Subset, FS_CardinalityType
<1>. DEFINE c == Cardinality(S)
<1>2. \E f \in [1..c -> S] : IsInjective(f)
  BY <1>1, FS_CardinalityType DEF ExistsBijection, Bijection, Injection
<1>3. SetToSeq(S) \in [1..c -> S]
  BY <1>2 DEF SetToSeq
<1>. QED  BY <1>1, <1>3

LEMMA SearchInvInit == IndexerSearchInit => SearchInv
<1> SUFFICES ASSUME IndexerSearchInit PROVE SearchInv
  OBVIOUS
<1>1. NMirrors[1] \in Range(NMirrors)
  BY IndexerSearchAssumption DEF Range
<1>2. IdleFetch \in Fetches
  BY DEF IdleFetch, Fetches
<1>3. InState({"sites"}) = {} /\ NQueries \ InState({"start"}) = {} /\ Len(nList) = 0
  BY DEF IndexerSearchInit, InState
<1>4. ListBounded
  <2>1. Cardinality(InState({"sites"})) = 0 /\ Cardinality(NQueries \ InState({"start"})) = 0
    BY <1>3, FS_EmptySet
  <2>2. PICK b \in Nat : b = Cardinality(NBackends)
    BY SearchFacts
  <2>3. 0 + 0 <= 0 * b
    BY <2>2
  <2>. QED  BY <1>3, <2>1, <2>2, <2>3 DEF ListBounded
<1>5. NThreshold \in Nat /\ NQueueMax \in Nat
  BY IndexerSearchAssumption
<1>6. SearchTyped
  <2>1. nFetch \in [NQueries -> [SiteSlots -> [NSites -> Fetches]]]
    BY <1>2 DEF IndexerSearchInit
  <2>2. nQueue \in Seq(NQueries \cup {Done}) /\ Len(nQueue) <= NQueueMax /\ nList \in Seq(NBackends)
    BY <1>5 DEF IndexerSearchInit
  <2>3. nBreak \in [NBackends -> 0..NThreshold]
    BY <1>5 DEF IndexerSearchInit
  <2>4. nQ \in [NQueries -> [pc : Pcs, any : BOOLEAN]] /\ nJob \in [NQueries -> [SiteSlots -> Jobs]]
    BY DEF IndexerSearchInit, Pcs, Jobs
  <2>. QED  BY <1>1, <2>1, <2>2, <2>3, <2>4 DEF IndexerSearchInit, SearchTyped
<1>. QED  BY <1>3, <1>4, <1>6 DEF SearchInv, SitesRead

\* A search in which no query starts or reads the sites keeps the bound.
LEMMA ListStays ==
  ASSUME SearchInv, nList' = nList, InState({"sites"})' \subseteq InState({"sites"}), InState({"start"})' \subseteq InState({"start"})
  PROVE  ListBounded'
<1>. DEFINE b == Cardinality(NBackends)
            on == Cardinality(NQueries \ InState({"start"}))
            onNext == Cardinality(NQueries \ InState({"start"})')
            at == Cardinality(InState({"sites"}))
            atNext == Cardinality(InState({"sites"})')
<1>1. /\ IsFiniteSet(InState({"sites"})) /\ IsFiniteSet(NQueries \ InState({"start"})')
      /\ (NQueries \ InState({"start"})) \in SUBSET (NQueries \ InState({"start"})')
      /\ IsFiniteSet(InState({"sites"})') /\ IsFiniteSet(NQueries \ InState({"start"}))
  <2>1. \A S \in SUBSET NQueries : IsFiniteSet(S)
    BY SearchFacts, FS_Subset
  <2>2. InState({"sites"}) \in SUBSET NQueries /\ InState({"sites"})' \in SUBSET NQueries
    BY DEF InState
  <2>. QED  BY <2>1, <2>2
<1>2. on \in Nat /\ onNext \in Nat /\ at \in Nat /\ atNext \in Nat /\ on <= onNext /\ atNext <= at /\ b \in Nat
  BY <1>1, SearchFacts, FS_Subset, FS_CardinalityType
<1>3. \A x, y, z \in Nat : x <= y => x * z <= y * z
  OBVIOUS
<1>4. Len(nList) \in Nat /\ Len(nList) + at <= on * b
  BY DEF SearchInv, SearchTyped, ListBounded
<1>5. on * b <= onNext * b /\ on * b \in Nat /\ onNext * b \in Nat
  <2>. HIDE DEF on, onNext, b
  <2>. QED  BY <1>2, <1>3
<1>6. Len(nList') + atNext <= onNext * b
  <2>. HIDE DEF on, onNext, at, atNext, b
  <2>. QED  BY <1>2, <1>4, <1>5
<1>. QED  BY <1>6 DEF ListBounded

\* What a query adds when it starts, and when the sites are read.
LEMMA ListGrows ==
  ASSUME SearchInv, NEW q \in NQueries, NEW k \in Nat, NEW n \in Nat, Len(nList') = Len(nList) + k, n + k <= Cardinality(NBackends),
         nQ[q].pc = "start", InState({"start"})' = InState({"start"}) \ {q},
         \/ n = 0 /\ InState({"sites"})' = InState({"sites"})
         \/ n = 1 /\ InState({"sites"})' = InState({"sites"}) \cup {q}
  PROVE  ListBounded'
<1>. DEFINE b == Cardinality(NBackends)
            on == Cardinality(NQueries \ InState({"start"}))
            onNext == Cardinality(NQueries \ InState({"start"})')
            at == Cardinality(InState({"sites"}))
            atNext == Cardinality(InState({"sites"})')
<1>1. /\ IsFiniteSet(InState({"sites"})) /\ IsFiniteSet(NQueries \ InState({"start"}))
      /\ NQueries \ InState({"start"})' = (NQueries \ InState({"start"})) \cup {q} /\ q \notin NQueries \ InState({"start"})
      /\ q \notin InState({"sites"})
  <2>1. \A S \in SUBSET NQueries : IsFiniteSet(S)
    BY SearchFacts, FS_Subset
  <2>2. InState({"sites"}) \in SUBSET NQueries /\ q \in InState({"start"}) /\ q \notin InState({"sites"})
    BY DEF InState
  <2>. QED  BY <2>1, <2>2
<1>2. on \in Nat /\ onNext = on + 1 /\ at \in Nat /\ atNext = at + n /\ b \in Nat
  <2>1. on \in Nat /\ at \in Nat /\ b \in Nat
    BY <1>1, SearchFacts, FS_CardinalityType
  <2>2. onNext = on + 1
    BY <1>1, FS_AddElement
  <2>3. Cardinality(InState({"sites"}) \cup {q}) = at + 1
    BY <1>1, FS_AddElement
  <2>4. CASE n = 0 /\ InState({"sites"})' = InState({"sites"})
    BY <2>1, <2>2, <2>4
  <2>5. CASE n = 1 /\ InState({"sites"})' = InState({"sites"}) \cup {q}
    BY <2>1, <2>2, <2>3, <2>5
  <2>. QED  BY <2>4, <2>5
<1>3. \A x, z \in Nat : (x + 1) * z = x * z + z /\ x * z \in Nat
  OBVIOUS
<1>4. Len(nList) \in Nat /\ Len(nList) + at <= on * b
  BY DEF SearchInv, SearchTyped, ListBounded
<1>5. onNext * b = on * b + b /\ on * b \in Nat
  <2>. HIDE DEF on, onNext, b
  <2>. QED  BY <1>2, <1>3
<1>6. Len(nList') + atNext <= onNext * b
  <2>. HIDE DEF on, onNext, at, atNext
  <2>. QED  BY <1>2, <1>4, <1>5
<1>. QED  BY <1>6 DEF ListBounded

LEMMA ListTakesNative ==
  ASSUME SearchInv, NEW q \in NQueries, nList' = Append(nList, "native"), nQ[q].pc = "sites",
         InState({"start"})' = InState({"start"}), InState({"sites"})' = InState({"sites"}) \ {q}
  PROVE  ListBounded'
<1>1. IsFiniteSet(InState({"sites"})) /\ q \in InState({"sites"})
  <2>1. \A S \in SUBSET NQueries : IsFiniteSet(S)
    BY SearchFacts, FS_Subset
  <2>. QED  BY <2>1 DEF InState
<1>2. Cardinality(InState({"sites"})') = Cardinality(InState({"sites"})) - 1 /\ Cardinality(InState({"sites"})) \in Nat
  BY <1>1, FS_RemoveElement, FS_CardinalityType
<1>3. Len(nList') = Len(nList) + 1 /\ Len(nList) \in Nat
  BY DEF SearchInv, SearchTyped
<1>. DEFINE lim == Cardinality(NQueries \ InState({"start"})) * Cardinality(NBackends)
<1>4. Len(nList) + Cardinality(InState({"sites"})) <= lim
  BY DEF SearchInv, ListBounded
<1>5. (Len(nList) + 1) + (Cardinality(InState({"sites"})) - 1) <= lim
  <2>. HIDE DEF lim
  <2>. QED  BY <1>2, <1>3, <1>4
<1>. QED  BY <1>2, <1>3, <1>5 DEF ListBounded

LEMMA QueueStays ==
  ASSUME SearchInv, NEW item \in NQueries \cup {Done}, SafePut(item)
  PROVE  nQueue' \in Seq(NQueries \cup {Done}) /\ Len(nQueue') <= NQueueMax
<1>1. nQueue \in Seq(NQueries \cup {Done}) /\ Len(nQueue) <= NQueueMax /\ NQueueMax \in Nat \ {0}
  BY IndexerSearchAssumption DEF SearchInv, SearchTyped
<1>. DEFINE T == NQueries \cup {Done}
<1>2. item \in T
  OBVIOUS
<1>. HIDE DEF T
<1>3. CASE Len(nQueue) < NQueueMax
  <2>1. nQueue' = Append(nQueue, item)
    BY <1>3 DEF SafePut
  <2>2. nQueue \in Seq(T)
    BY <1>1 DEF T
  <2>3. nQueue' \in Seq(T) /\ Len(nQueue') <= NQueueMax
    BY <1>1, <1>2, <1>3, <2>1, <2>2
  <2>. QED  BY <2>3 DEF T
<1>4. CASE ~(Len(nQueue) < NQueueMax)
  <2>1. nQueue' = Append(Tail(nQueue), item) /\ Len(nQueue) = NQueueMax
    BY <1>1, <1>4 DEF SafePut
  <2>2. nQueue \in Seq(T) /\ nQueue # <<>>
    BY <1>1, <2>1 DEF T
  <2>3. Tail(nQueue) \in Seq(T) /\ Len(Tail(nQueue)) = Len(nQueue) - 1
    BY <2>2
  <2>4. nQueue' \in Seq(T) /\ Len(nQueue') <= NQueueMax
    BY <1>1, <1>2, <2>1, <2>3
  <2>. QED  BY <2>4 DEF T
<1>. QED  BY <1>3, <1>4

\* What the end of a query leaves: no query starts by it.
LEMMA QueryEnds ==
  ASSUME SearchInv, NEW q \in NQueries, NEW how \in {"end", "failed"}, EndQuery(q, how)
  PROVE  /\ nQ' \in [NQueries -> [pc : Pcs, any : BOOLEAN]]
         /\ nQueue' \in Seq(NQueries \cup {Done}) /\ Len(nQueue') <= NQueueMax
         /\ InState({"start"})' = InState({"start"}) \ {q} /\ InState({"sites"})' = InState({"sites"}) \ {q}
<1>1. nQ' = [nQ EXCEPT ![q].pc = how] /\ nQ \in [NQueries -> [pc : Pcs, any : BOOLEAN]] /\ how \in Pcs
  BY DEF EndQuery, SearchInv, SearchTyped, Pcs
<1>2. nQ' \in [NQueries -> [pc : Pcs, any : BOOLEAN]] /\ nQ'[q].pc = how /\ \A p \in NQueries \ {q} : nQ'[p] = nQ[p]
  BY <1>1
<1>3. InState({"start"})' = InState({"start"}) \ {q} /\ InState({"sites"})' = InState({"sites"}) \ {q}
  BY <1>2 DEF InState
<1>4. nQueue' \in Seq(NQueries \cup {Done}) /\ Len(nQueue') <= NQueueMax
  <2>1. SafePut(Done) \/ nQueue' = nQueue
    BY DEF EndQuery
  <2>2. CASE SafePut(Done)
    BY <2>2, QueueStays
  <2>3. CASE nQueue' = nQueue
    BY <2>3 DEF SearchInv, SearchTyped
  <2>. QED  BY <2>1, <2>2, <2>3
<1>. QED  BY <1>2, <1>3, <1>4

LEMMA PartialKept ==
  ASSUME SearchInv, NEW q \in NQueries, NEW some \in BOOLEAN, OnPartial(q, some), nQ' = [nQ EXCEPT ![q].any = @ \/ some]
  PROVE  /\ nQ' \in [NQueries -> [pc : Pcs, any : BOOLEAN]]
         /\ nQueue' \in Seq(NQueries \cup {Done}) /\ Len(nQueue') <= NQueueMax
         /\ InState({"start"})' = InState({"start"}) /\ InState({"sites"})' = InState({"sites"})
<1>1. nQ \in [NQueries -> [pc : Pcs, any : BOOLEAN]]
  BY DEF SearchInv, SearchTyped
<1>2. nQ' \in [NQueries -> [pc : Pcs, any : BOOLEAN]] /\ \A p \in NQueries : nQ'[p].pc = nQ[p].pc
  BY <1>1
<1>3. nQueue' \in Seq(NQueries \cup {Done}) /\ Len(nQueue') <= NQueueMax
  <2>1. SafePut(q) \/ nQueue' = nQueue
    BY DEF OnPartial
  <2>2. CASE SafePut(q)
    BY <2>2, QueueStays
  <2>3. CASE nQueue' = nQueue
    BY <2>3 DEF SearchInv, SearchTyped
  <2>. QED  BY <2>1, <2>2, <2>3
<1>. QED  BY <1>2, <1>3 DEF InState

LEMMA ListJoined ==
  ASSUME SearchInv, NEW S \in SUBSET NBackends, nList' = AppendAll(S)
  PROVE  nList' \in Seq(NBackends) /\ Len(nList') = Len(nList) + Cardinality(S)
<1>1. PICK r \in Seq(NBackends) : r = SetToSeq(S) /\ Len(r) = Cardinality(S)
  BY ListedBackends
<1>2. nList \in Seq(NBackends) /\ nList' = nList \o r
  BY <1>1 DEF SearchInv, SearchTyped, AppendAll
<1>. QED  BY <1>1, <1>2

LEMMA MirrorsOrdered ==
  ASSUME SearchInv, NEW s \in NSites
  PROVE  Ordered(s) \in Seq(Range(NMirrors))
<1>. DEFINE K == {n \in DOMAIN NMirrors : NMirrors[n] # nPref[s]}
            T == Range(NMirrors)
<1>1. NMirrors \in Seq(T) /\ K \in SUBSET DOMAIN NMirrors /\ nPref[s] \in T
  BY IndexerSearchAssumption DEF SearchInv, SearchTyped
<1>2. MembersAt(NMirrors, K) \in Seq(T)
  <2>. HIDE DEF K, T
  <2>. QED  BY <1>1, FilteredKeeps
<1>3. <<nPref[s]>> \o MembersAt(NMirrors, K) \in Seq(T)
  <2>. HIDE DEF K, T
  <2>. QED  BY <1>1, <1>2
<1>4. Ordered(s) = <<nPref[s]>> \o MembersAt(NMirrors, K)
  BY DEF Ordered, Filtered
<1>. QED  BY <1>3, <1>4

LEMMA SearchInvNext == SearchInv /\ [IndexerSearchNext]_nVars => SearchInv'
<1> SUFFICES ASSUME SearchInv, [IndexerSearchNext]_nVars PROVE SearchInv'
  OBVIOUS
<1>. USE DEF SearchInv
<1>0. SearchTyped
  OBVIOUS
<1>n. NThreshold \in Nat
  BY IndexerSearchAssumption
<1>f. [k \in SiteSlots |-> IF k <= Len(nList') THEN "queued" ELSE "none"] \in [SiteSlots -> Jobs]
  BY DEF Jobs
<1>1. CASE NextChunk
  <2>1. nQueue \in Seq(NQueries \cup {Done}) /\ nQueue # <<>> /\ Len(nQueue) <= NQueueMax /\ NQueueMax \in Nat
    BY <1>0, <1>1, IndexerSearchAssumption DEF SearchTyped, NextChunk
  <2>2. Tail(nQueue) \in Seq(NQueries \cup {Done}) /\ Len(Tail(nQueue)) <= NQueueMax
    BY <2>1
  <2>3. SearchTyped'
    BY <1>0, <1>1, <2>2 DEF SearchTyped, NextChunk, searchVars
  <2>. QED  BY <1>1, <2>3, ListStays DEF NextChunk, searchVars, InState, SitesRead
<1>2. CASE PersistChunk
  <2>1. SearchTyped'
    BY <1>0, <1>2 DEF SearchTyped, PersistChunk, searchVars
  <2>. QED  BY <1>2, <2>1, ListStays DEF PersistChunk, searchVars, InState, SitesRead
<1>3. CASE Disconnect
  <2>1. nQ' \in [NQueries -> [pc : Pcs, any : BOOLEAN]]
    BY <1>0, <1>3 DEF SearchTyped, Disconnect, Pcs
  <2>2. SearchTyped'
    BY <1>0, <1>3, <2>1 DEF SearchTyped, Disconnect
  <2>3. InState({"sites"})' \subseteq InState({"sites"}) /\ InState({"start"})' \subseteq InState({"start"})
    BY <1>0, <1>3 DEF SearchTyped, Disconnect, InState
  <2>. QED  BY <1>3, <2>2, <2>3, ListStays DEF Disconnect, SitesRead
<1>4. ASSUME NEW b \in NBackends, CircuitCools(b) PROVE SearchInv'
  <2>1. nBreak' \in [NBackends -> 0..NThreshold]
    BY <1>0, <1>4, IndexerSearchAssumption DEF SearchTyped, CircuitCools, Reset
  <2>2. SearchTyped'
    BY <1>0, <1>4, <2>1 DEF SearchTyped, CircuitCools, streamVars
  <2>. QED  BY <1>4, <2>2, ListStays DEF CircuitCools, InState, SitesRead
<1>5. ASSUME NEW q \in NQueries, EnsureInitialized(q) PROVE SearchInv'
  <2>1. nQ[q].pc = "start" /\ nQ \in [NQueries -> [pc : Pcs, any : BOOLEAN]]
    BY <1>0, <1>5 DEF SearchTyped, EnsureInitialized
  <2>2. /\ SetToSeq(NBackends \ {"native"}) \in Seq(NBackends)
        /\ Len(SetToSeq(NBackends \ {"native"})) = Cardinality(NBackends \ {"native"}) /\ Cardinality(NBackends \ {"native"}) \in Nat
    BY ListedBackends
  <2>3. /\ "native" \in NBackends => Cardinality(NBackends \ {"native"}) + 1 <= Cardinality(NBackends)
        /\ Cardinality(NBackends \ {"native"}) <= Cardinality(NBackends)
    BY SearchFacts, FS_RemoveElement, FS_Subset
  <2>4. nList \in Seq(NBackends)
    BY <1>0 DEF SearchTyped
  <2>5. CASE nInit
    <3>1. nList' = nList /\ nQ' = [nQ EXCEPT ![q].pc = "fan"] /\ nJob' = [nJob EXCEPT ![q] = Fanned] /\ UNCHANGED <<nInit, nDb, nQueue>>
      BY <1>5, <2>5 DEF EnsureInitialized
    <3>2. SearchTyped'
      BY <1>0, <1>5, <1>f, <3>1 DEF SearchTyped, EnsureInitialized, Fanned, Pcs
    <3>3. InState({"sites"})' \subseteq InState({"sites"}) /\ InState({"start"})' \subseteq InState({"start"})
      BY <2>1, <3>1 DEF InState
    <3>. QED  BY <3>1, <3>2, <3>3, ListStays DEF SitesRead
  <2>6. CASE ~nInit /\ "native" \notin NBackends
    <3>1. nList' = AppendAll(NBackends \ {"native"}) /\ nQ' = [nQ EXCEPT ![q].pc = "fan"] /\ nJob' = [nJob EXCEPT ![q] = Fanned]
          /\ UNCHANGED <<nDb, nQueue>> /\ nInit' = TRUE
      BY <1>5, <2>6 DEF EnsureInitialized
    <3>2. nList' \in Seq(NBackends) /\ Len(nList') = Len(nList) + Cardinality(NBackends \ {"native"})
      BY <3>1, ListJoined
    <3>3. SearchTyped'
      BY <1>0, <1>5, <1>f, <3>1, <3>2 DEF SearchTyped, EnsureInitialized, Fanned, Pcs
    <3>4. InState({"sites"})' = InState({"sites"}) /\ InState({"start"})' = InState({"start"}) \ {q}
      BY <2>1, <3>1 DEF InState
    <3>5. 0 + Cardinality(NBackends \ {"native"}) <= Cardinality(NBackends)
      BY <2>2, <2>3
    <3>. QED  BY <2>1, <2>2, <3>2, <3>3, <3>4, <3>5, ListGrows DEF SitesRead
  <2>7. CASE ~nInit /\ "native" \in NBackends /\ nDb = NoQuery
    <3>1. nList' = AppendAll(NBackends \ {"native"}) /\ nQ' = [nQ EXCEPT ![q].pc = "sites"] /\ nDb' = q /\ UNCHANGED <<nInit, nJob, nQueue>>
      BY <1>5, <2>7 DEF EnsureInitialized
    <3>2. nList' \in Seq(NBackends) /\ Len(nList') = Len(nList) + Cardinality(NBackends \ {"native"})
      BY <3>1, ListJoined
    <3>3. SearchTyped'
      BY <1>0, <1>5, <3>1, <3>2 DEF SearchTyped, EnsureInitialized, Pcs
    <3>4. InState({"sites"})' = InState({"sites"}) \cup {q} /\ InState({"start"})' = InState({"start"}) \ {q}
      BY <2>1, <3>1 DEF InState
    <3>5. 1 + Cardinality(NBackends \ {"native"}) <= Cardinality(NBackends)
      BY <2>2, <2>3, <2>7
    <3>. QED  BY <2>1, <2>2, <2>7, <3>2, <3>3, <3>4, <3>5, ListGrows DEF SitesRead
  <2>8. CASE ~nInit /\ "native" \in NBackends /\ nDb # NoQuery
    <3>1. nList' = AppendAll(NBackends \ {"native"}) /\ EndQuery(q, "failed") /\ UNCHANGED <<nInit, nDb, nJob>>
      BY <1>5, <2>8 DEF EnsureInitialized
    <3>2. nList' \in Seq(NBackends) /\ Len(nList') = Len(nList) + Cardinality(NBackends \ {"native"})
      BY <3>1, ListJoined
    <3>3. /\ nQ' \in [NQueries -> [pc : Pcs, any : BOOLEAN]]
          /\ nQueue' \in Seq(NQueries \cup {Done}) /\ Len(nQueue') <= NQueueMax
          /\ InState({"start"})' = InState({"start"}) \ {q} /\ InState({"sites"})' = InState({"sites"}) \ {q}
      BY <3>1, QueryEnds
    <3>4. SearchTyped'
      BY <1>0, <1>5, <3>1, <3>2, <3>3 DEF SearchTyped, EnsureInitialized
    <3>5. InState({"sites"})' = InState({"sites"})
      BY <2>1, <3>3 DEF InState
    <3>6. 0 + Cardinality(NBackends \ {"native"}) <= Cardinality(NBackends)
      BY <2>2, <2>3
    <3>. QED  BY <2>1, <2>2, <3>2, <3>3, <3>4, <3>5, <3>6, ListGrows DEF SitesRead
  <2>. QED  BY <1>0, <2>5, <2>6, <2>7, <2>8 DEF SearchTyped
<1>6. ASSUME NEW q \in NQueries, NativeIndexer(q) PROVE SearchInv'
  <2>1. nQ[q].pc = "sites" /\ nQ' = [nQ EXCEPT ![q].pc = "fan"] /\ nList' = Append(nList, "native") /\ nJob' = [nJob EXCEPT ![q] = Fanned]
    BY <1>6 DEF NativeIndexer
  <2>2. "native" \in NBackends
    BY <2>1 DEF SitesRead, InState
  <2>3. nList' \in Seq(NBackends)
    BY <1>0, <2>1, <2>2 DEF SearchTyped
  <2>4. SearchTyped'
    BY <1>0, <1>6, <1>f, <2>1, <2>3 DEF SearchTyped, NativeIndexer, Fanned, Pcs, streamVars
  <2>5. InState({"start"})' = InState({"start"}) /\ InState({"sites"})' = InState({"sites"}) \ {q}
    BY <1>0, <2>1 DEF SearchTyped, InState
  <2>. QED  BY <2>1, <2>2, <2>4, <2>5, ListTakesNative DEF SitesRead
<1>7. ASSUME NEW q \in NQueries, Gathered(q) PROVE SearchInv'
  <2>1. nQ[q].pc = "fan" /\ nQ \in [NQueries -> [pc : Pcs, any : BOOLEAN]]
    BY <1>0, <1>7 DEF SearchTyped, Gathered
  <2>2. CASE \E how \in {"end", "failed"} : EndQuery(q, how) /\ UNCHANGED nDb
    <3>1. PICK how \in {"end", "failed"} : EndQuery(q, how) /\ UNCHANGED nDb
      BY <2>2
    <3>2. /\ nQ' \in [NQueries -> [pc : Pcs, any : BOOLEAN]]
          /\ nQueue' \in Seq(NQueries \cup {Done}) /\ Len(nQueue') <= NQueueMax
          /\ InState({"start"})' = InState({"start"}) \ {q} /\ InState({"sites"})' = InState({"sites"}) \ {q}
      BY <3>1, QueryEnds
    <3>3. SearchTyped'
      BY <1>0, <1>7, <3>1, <3>2 DEF SearchTyped, Gathered
    <3>4. nList' = nList
      BY <1>7 DEF Gathered
    <3>. QED  BY <3>2, <3>3, <3>4, ListStays DEF SitesRead
  <2>3. CASE nDb' = q /\ nQ' = [nQ EXCEPT ![q].pc = "commit"] /\ UNCHANGED nQueue
    <3>1. SearchTyped'
      BY <1>0, <1>7, <2>1, <2>3 DEF SearchTyped, Gathered, Pcs
    <3>2. InState({"start"})' = InState({"start"}) /\ InState({"sites"})' = InState({"sites"})
      BY <2>1, <2>3 DEF InState
    <3>3. nList' = nList
      BY <1>7 DEF Gathered
    <3>. QED  BY <3>1, <3>2, <3>3, ListStays DEF SitesRead
  <2>. QED  BY <1>7, <2>2, <2>3 DEF Gathered
<1>8. ASSUME NEW q \in NQueries, SaveResults(q) PROVE SearchInv'
  <2>1. /\ nQ' \in [NQueries -> [pc : Pcs, any : BOOLEAN]]
        /\ nQueue' \in Seq(NQueries \cup {Done}) /\ Len(nQueue') <= NQueueMax
        /\ InState({"start"})' = InState({"start"}) \ {q} /\ InState({"sites"})' = InState({"sites"}) \ {q}
    BY <1>8, QueryEnds DEF SaveResults
  <2>2. SearchTyped'
    BY <1>0, <1>8, <2>1 DEF SearchTyped, SaveResults
  <2>. QED  BY <1>8, <2>1, <2>2, ListStays DEF SaveResults, SitesRead
<1>9. ASSUME NEW q \in NQueries, NEW k \in SiteSlots, Skipped(q, k) PROVE SearchInv'
  <2>1. nJob' \in [NQueries -> [SiteSlots -> Jobs]]
    BY <1>0, <1>9 DEF SearchTyped, Skipped, Jobs
  <2>2. SearchTyped'
    BY <1>0, <1>9, <2>1 DEF SearchTyped, Skipped, streamVars
  <2>. QED  BY <1>9, <2>2, ListStays DEF Skipped, InState, SitesRead
<1>10. ASSUME NEW q \in NQueries, NEW k \in SiteSlots, CallBackend(q, k) PROVE SearchInv'
  <2>1. nJob' \in [NQueries -> [SiteSlots -> Jobs]]
    BY <1>0, <1>10 DEF SearchTyped, CallBackend, Jobs
  <2>2. \A s \in NSites : [IdleFetch EXCEPT !.st = "try", !.rest = Ordered(s)] \in Fetches
    <3>1. TAKE s \in NSites
    <3>4. Ordered(s) \in Seq(Range(NMirrors))
      BY MirrorsOrdered
    <3>. QED  BY <3>4 DEF IdleFetch, Fetches
  <2>3. nFetch' \in [NQueries -> [SiteSlots -> [NSites -> Fetches]]]
    <3>1. [s \in NSites |-> [IdleFetch EXCEPT !.st = "try", !.rest = Ordered(s)]] \in [NSites -> Fetches]
      BY <2>2
    <3>2. nFetch \in [NQueries -> [SiteSlots -> [NSites -> Fetches]]]
      BY <1>0 DEF SearchTyped
    <3>. QED  BY <1>10, <3>1, <3>2 DEF CallBackend
  <2>4. SearchTyped'
    BY <1>0, <1>10, <2>1, <2>3 DEF SearchTyped, CallBackend, streamVars
  <2>. QED  BY <1>10, <2>4, ListStays DEF CallBackend, InState, SitesRead
<1>11. ASSUME NEW q \in NQueries, NEW k \in SiteSlots, BackendAnswers(q, k) PROVE SearchInv'
  <2>1. PICK some \in BOOLEAN : OnPartial(q, some) /\ nQ' = [nQ EXCEPT ![q].any = @ \/ some]
    BY <1>11 DEF BackendAnswers
  <2>2. /\ nQ' \in [NQueries -> [pc : Pcs, any : BOOLEAN]]
        /\ nQueue' \in Seq(NQueries \cup {Done}) /\ Len(nQueue') <= NQueueMax
        /\ InState({"start"})' = InState({"start"}) /\ InState({"sites"})' = InState({"sites"})
    BY <2>1, PartialKept
  <2>3. nJob' \in [NQueries -> [SiteSlots -> Jobs]] /\ nBreak' \in [NBackends -> 0..NThreshold]
    <3>1. nJob' = [nJob EXCEPT ![q][k] = "ended"] /\ nBreak' = [nBreak EXCEPT ![nList[k]] = 0]
      BY <1>11 DEF BackendAnswers, Ended, Reset
    <3>2. nJob' \in [NQueries -> [SiteSlots -> Jobs]]
      BY <1>0, <3>1 DEF SearchTyped, Jobs
    <3>3. nBreak \in [NBackends -> 0..NThreshold] /\ 0 \in 0..NThreshold
      BY <1>0, <1>n DEF SearchTyped
    <3>4. DOMAIN nBreak' = NBackends /\ \A c \in NBackends : nBreak'[c] = 0 \/ nBreak'[c] = nBreak[c]
      BY <3>1, <3>3
    <3>5. nBreak' = [c \in NBackends |-> nBreak'[c]]
      BY <3>1, <3>3
    <3>. QED  BY <3>2, <3>3, <3>4, <3>5
  <2>4. SearchTyped'
    BY <1>0, <1>11, <2>2, <2>3 DEF SearchTyped, BackendAnswers
  <2>. QED  BY <1>11, <2>2, <2>4, ListStays DEF BackendAnswers, SitesRead
<1>12. ASSUME NEW q \in NQueries, NEW k \in SiteSlots, BackendFails(q, k) PROVE SearchInv'
  <2>1. nJob' \in [NQueries -> [SiteSlots -> Jobs]]
    BY <1>0, <1>12 DEF SearchTyped, BackendFails, Ended, Jobs
  <2>2. nBreak' \in [NBackends -> 0..NThreshold]
    <3>1. PICK b : nBreak' = [nBreak EXCEPT ![b] = IF nBreak[b] < NThreshold THEN nBreak[b] + 1 ELSE nBreak[b]]
      BY <1>12 DEF BackendFails
    <3>2. \A n \in 0..NThreshold : (IF n < NThreshold THEN n + 1 ELSE n) \in 0..NThreshold
      BY <1>n
    <3>3. nBreak \in [NBackends -> 0..NThreshold]
      BY <1>0 DEF SearchTyped
    <3>4. \A c \in NBackends : nBreak'[c] \in 0..NThreshold
      BY <3>1, <3>2, <3>3
    <3>5. DOMAIN nBreak' = NBackends /\ nBreak' = [c \in NBackends |-> nBreak'[c]]
      BY <3>1, <3>3
    <3>. QED  BY <3>4, <3>5
  <2>3. SearchTyped'
    BY <1>0, <1>12, <2>1, <2>2 DEF SearchTyped, BackendFails, streamVars
  <2>. QED  BY <1>12, <2>3, ListStays DEF BackendFails, InState, SitesRead
<1>13. ASSUME NEW q \in NQueries, NEW k \in SiteSlots, NEW s \in NSites, FetchMirror(q, k, s) PROVE SearchInv'
  <2>1. PICK some \in BOOLEAN : OnPartial(q, some) /\ nQ' = [nQ EXCEPT ![q].any = @ \/ some]
    BY <1>13 DEF FetchMirror
  <2>2. /\ nQ' \in [NQueries -> [pc : Pcs, any : BOOLEAN]]
        /\ nQueue' \in Seq(NQueries \cup {Done}) /\ Len(nQueue') <= NQueueMax
        /\ InState({"start"})' = InState({"start"}) /\ InState({"sites"})' = InState({"sites"})
    BY <2>1, PartialKept
  <2>3. nFetch[q][k][s] \in Fetches /\ nFetch[q][k][s].rest # <<>>
    BY <1>0, <1>13 DEF SearchTyped, FetchMirror
  <2>4. Head(nFetch[q][k][s].rest) \in Range(NMirrors)
    BY <2>3 DEF Fetches
  <2>5. nPref' \in [NSites -> Range(NMirrors)]
    BY <1>0, <1>13, <2>4 DEF SearchTyped, FetchMirror
  <2>6. nFetch' \in [NQueries -> [SiteSlots -> [NSites -> Fetches]]]
    <3>1. nFetch' = [nFetch EXCEPT ![q][k][s] = [nFetch[q][k][s] EXCEPT !.st = "ok"]]
      BY <1>13 DEF FetchMirror
    <3>2. [nFetch[q][k][s] EXCEPT !.st = "ok"] \in Fetches
      BY <2>3 DEF Fetches
    <3>. QED  BY <1>0, <3>1, <3>2 DEF SearchTyped
  <2>7. SearchTyped'
    BY <1>0, <1>13, <2>2, <2>5, <2>6 DEF SearchTyped, FetchMirror
  <2>. QED  BY <1>13, <2>2, <2>7, ListStays DEF FetchMirror, SitesRead
<1>14. ASSUME NEW q \in NQueries, NEW k \in SiteSlots, NEW s \in NSites, SiteFails(q, k, s) PROVE SearchInv'
  <2>1. nFetch[q][k][s] \in Fetches /\ nFetch[q][k][s].rest # <<>>
    BY <1>0, <1>14 DEF SearchTyped, SiteFails
  <2>2. /\ [nFetch[q][k][s] EXCEPT !.again = TRUE] \in Fetches
        /\ [nFetch[q][k][s] EXCEPT !.rest = Tail(nFetch[q][k][s].rest), !.again = FALSE] \in Fetches
    <3>1. PICK r \in Seq(Range(NMirrors)) : r = nFetch[q][k][s].rest /\ r # <<>>
      BY <2>1 DEF Fetches
    <3>2. Tail(r) \in Seq(Range(NMirrors))
      BY <3>1
    <3>. QED  BY <2>1, <3>1, <3>2 DEF Fetches
  <2>3. PICK new \in Fetches : nFetch' = [nFetch EXCEPT ![q][k][s] = new]
    BY <1>14, <2>2 DEF SiteFails
  <2>4. nFetch' \in [NQueries -> [SiteSlots -> [NSites -> Fetches]]]
    BY <1>0, <2>3 DEF SearchTyped
  <2>5. SearchTyped'
    BY <1>0, <1>14, <2>4 DEF SearchTyped, SiteFails, streamVars
  <2>. QED  BY <1>14, <2>5, ListStays DEF SiteFails, InState, SitesRead
<1>15. ASSUME NEW q \in NQueries, NEW k \in SiteSlots, NativeEnds(q, k) PROVE SearchInv'
  <2>1. nJob' \in [NQueries -> [SiteSlots -> Jobs]] /\ nBreak' \in [NBackends -> 0..NThreshold]
    <3>1. nJob' = [nJob EXCEPT ![q][k] = "ended"] /\ nBreak' = [nBreak EXCEPT !["native"] = 0]
      BY <1>15 DEF NativeEnds, Ended, Reset
    <3>2. nJob' \in [NQueries -> [SiteSlots -> Jobs]]
      BY <1>0, <3>1 DEF SearchTyped, Jobs
    <3>3. nBreak \in [NBackends -> 0..NThreshold] /\ 0 \in 0..NThreshold
      BY <1>0, <1>n DEF SearchTyped
    <3>4. DOMAIN nBreak' = NBackends /\ \A c \in NBackends : nBreak'[c] = 0 \/ nBreak'[c] = nBreak[c]
      BY <3>1, <3>3
    <3>5. nBreak' = [c \in NBackends |-> nBreak'[c]]
      BY <3>1, <3>3
    <3>. QED  BY <3>2, <3>3, <3>4, <3>5
  <2>2. nFetch' \in [NQueries -> [SiteSlots -> [NSites -> Fetches]]]
    <3>1. [s \in NSites |-> IdleFetch] \in [NSites -> Fetches]
      BY DEF IdleFetch, Fetches
    <3>. QED  BY <1>0, <1>15, <3>1 DEF SearchTyped, NativeEnds
  <2>3. SearchTyped'
    BY <1>0, <1>15, <2>1, <2>2 DEF SearchTyped, NativeEnds, streamVars
  <2>. QED  BY <1>15, <2>3, ListStays DEF NativeEnds, InState, SitesRead
<1>16. CASE UNCHANGED nVars
  <2>1. SearchTyped'
    BY <1>0, <1>16 DEF SearchTyped, nVars, searchVars, streamVars
  <2>. QED  BY <1>16, <2>1, ListStays DEF nVars, searchVars, streamVars, InState, SitesRead
<1>. QED  BY <1>1, <1>2, <1>3, <1>4, <1>5, <1>6, <1>7, <1>8, <1>9, <1>10, <1>11, <1>12, <1>13, <1>14, <1>15, <1>16
             DEF IndexerSearchNext, QueryStep, ClientStep

\* SearchInv is more than the type invariant.
LEMMA SearchTypes == SearchInv => IndexerSearchTypeOK
<1> SUFFICES ASSUME SearchInv PROVE IndexerSearchTypeOK
  OBVIOUS
<1>. DEFINE b == Cardinality(NBackends)
            on == Cardinality(NQueries \ InState({"start"}))
            all == Cardinality(NQueries)
            at == Cardinality(InState({"sites"}))
<1>1. on \in Nat /\ all \in Nat /\ at \in Nat /\ b \in Nat /\ on <= all
  <2>1. \A S \in SUBSET NQueries : IsFiniteSet(S) /\ Cardinality(S) <= all
    BY SearchFacts, FS_Subset
  <2>2. InState({"sites"}) \in SUBSET NQueries /\ NQueries \ InState({"start"}) \in SUBSET NQueries
    BY DEF InState
  <2>. QED  BY <2>1, <2>2, SearchFacts, FS_CardinalityType
<1>2. \A x, y, z \in Nat : x <= y => x * z <= y * z /\ x * z \in Nat /\ y * z \in Nat
  OBVIOUS
<1>3. Len(nList) \in Nat /\ Len(nList) + at <= on * b
  BY DEF SearchInv, SearchTyped, ListBounded
<1>4. on * b <= all * b /\ on * b \in Nat /\ all * b \in Nat
  <2>. HIDE DEF on, all, b
  <2>. QED  BY <1>1, <1>2
<1>5. Len(nList) <= all * b
  <2>. HIDE DEF on, all, at, b
  <2>. QED  BY <1>1, <1>3, <1>4
<1>6. SearchTyped
  BY DEF SearchInv
<1>. QED  BY <1>5, <1>6 DEF SearchTyped, IndexerSearchTypeOK, Pcs, Jobs

\* The backends of the service, and the queue of a streamed search, stay within their bounds.
THEOREM SearchInvariant == IndexerSearchSpec => []SearchInv
<1>. QED  BY SearchInvInit, SearchInvNext, PTL DEF IndexerSearchSpec

(***************************************************************************)
(* The ranking of results, and the preview of the settings.  A search      *)
(* orders what passes its gates by four keys and the place in which a      *)
(* release was found, which is a strict order; the preview adds up the     *)
(* same scores and takes a large amount off for each gate that stops a     *)
(* release.                                                                *)
(***************************************************************************)
\* What a search ranks by: quality, score, usenet first, then age or seeders.
LexLess(q, s, u, t, i, j) ==
  \/ q[i] < q[j]
  \/ q[i] = q[j] /\ s[i] > s[j]
  \/ q[i] = q[j] /\ s[i] = s[j] /\ u[i] > u[j]
  \/ q[i] = q[j] /\ s[i] = s[j] /\ u[i] = u[j] /\ t[i] > t[j]
LexBefore(q, s, u, t, i, j) == LexLess(q, s, u, t, i, j) \/ (~LexLess(q, s, u, t, j, i) /\ i < j)

\* The same of two members given by their keys and their places.
KeysBefore(q1, s1, u1, t1, i, q2, s2, u2, t2, j) ==
  \/ q1 < q2
  \/ q1 = q2 /\ s1 > s2
  \/ q1 = q2 /\ s1 = s2 /\ u1 > u2
  \/ q1 = q2 /\ s1 = s2 /\ u1 = u2 /\ t1 > t2
  \/ q1 = q2 /\ s1 = s2 /\ u1 = u2 /\ t1 = t2 /\ i < j

KeysLess(q1, s1, u1, t1, q2, s2, u2, t2) ==
  \/ q1 < q2
  \/ q1 = q2 /\ s1 > s2
  \/ q1 = q2 /\ s1 = s2 /\ u1 > u2
  \/ q1 = q2 /\ s1 = s2 /\ u1 = u2 /\ t1 > t2

LEMMA KeysTransitive ==
  ASSUME NEW q1 \in Int, NEW s1 \in Int, NEW u1 \in Int, NEW t1 \in Int, NEW i \in Int,
         NEW q2 \in Int, NEW s2 \in Int, NEW u2 \in Int, NEW t2 \in Int, NEW j \in Int,
         NEW q3 \in Int, NEW s3 \in Int, NEW u3 \in Int, NEW t3 \in Int, NEW k \in Int,
         KeysBefore(q1, s1, u1, t1, i, q2, s2, u2, t2, j), KeysBefore(q2, s2, u2, t2, j, q3, s3, u3, t3, k)
  PROVE  KeysBefore(q1, s1, u1, t1, i, q3, s3, u3, t3, k)
BY DEF KeysBefore

LEMMA LexOrder ==
  ASSUME NEW n \in Nat, NEW q \in [1..n -> Int], NEW s \in [1..n -> Int], NEW u \in [1..n -> Int], NEW t \in [1..n -> Int]
  PROVE  StrictOrder(1..n, [i \in 1..n |-> {j \in 1..n : LexBefore(q, s, u, t, j, i)}])
<1>0. \A i \in 1..n : q[i] \in Int /\ s[i] \in Int /\ u[i] \in Int /\ t[i] \in Int /\ i \in Int
  OBVIOUS
<1>1. ASSUME NEW i \in 1..n PROVE ~LexBefore(q, s, u, t, i, i)
  BY <1>0 DEF LexLess, LexBefore
<1>b. ASSUME NEW i \in 1..n, NEW j \in 1..n
      PROVE  LexBefore(q, s, u, t, i, j) <=> KeysBefore(q[i], s[i], u[i], t[i], i, q[j], s[j], u[j], t[j], j)
  <2>1. i \in Int /\ j \in Int
    OBVIOUS
  <2>2. /\ LexLess(q, s, u, t, i, j) <=> KeysLess(q[i], s[i], u[i], t[i], q[j], s[j], u[j], t[j])
        /\ LexLess(q, s, u, t, j, i) <=> KeysLess(q[j], s[j], u[j], t[j], q[i], s[i], u[i], t[i])
    BY DEF LexLess, KeysLess
  <2>3. /\ q[i] \in Int /\ s[i] \in Int /\ u[i] \in Int /\ t[i] \in Int
        /\ q[j] \in Int /\ s[j] \in Int /\ u[j] \in Int /\ t[j] \in Int
    BY <1>0
  <2>4. KeysBefore(q[i], s[i], u[i], t[i], i, q[j], s[j], u[j], t[j], j) <=>
           (KeysLess(q[i], s[i], u[i], t[i], q[j], s[j], u[j], t[j]) \/ (~KeysLess(q[j], s[j], u[j], t[j], q[i], s[i], u[i], t[i]) /\ i < j))
    <3>1. PICK q1 \in Int, s1 \in Int, u1 \in Int, t1 \in Int : q1 = q[i] /\ s1 = s[i] /\ u1 = u[i] /\ t1 = t[i]
      BY <2>3
    <3>2. PICK q2 \in Int, s2 \in Int, u2 \in Int, t2 \in Int : q2 = q[j] /\ s2 = s[j] /\ u2 = u[j] /\ t2 = t[j]
      BY <2>3
    <3>3. KeysBefore(q1, s1, u1, t1, i, q2, s2, u2, t2, j) <=>
           (KeysLess(q1, s1, u1, t1, q2, s2, u2, t2) \/ (~KeysLess(q2, s2, u2, t2, q1, s1, u1, t1) /\ i < j))
      BY <2>1 DEF KeysBefore, KeysLess
    <3>. QED  BY <3>1, <3>2, <3>3
  <2>. QED  BY <2>2, <2>4 DEF LexBefore
<1>2. ASSUME NEW i \in 1..n, NEW j \in 1..n, NEW k \in 1..n, LexBefore(q, s, u, t, k, j), LexBefore(q, s, u, t, j, i) PROVE LexBefore(q, s, u, t, k, i)
  <2>1. KeysBefore(q[k], s[k], u[k], t[k], k, q[j], s[j], u[j], t[j], j) /\ KeysBefore(q[j], s[j], u[j], t[j], j, q[i], s[i], u[i], t[i], i)
    BY <1>2, <1>b
  <2>2. KeysBefore(q[k], s[k], u[k], t[k], k, q[i], s[i], u[i], t[i], i)
    <3>1. i \in Int /\ j \in Int /\ k \in Int
      OBVIOUS
    <3>. QED  BY <1>0, <2>1, <3>1, KeysTransitive
  <2>. QED  BY <1>b, <2>2
<1>3. ASSUME NEW i \in 1..n, NEW j \in 1..n, i # j PROVE LexBefore(q, s, u, t, i, j) \/ LexBefore(q, s, u, t, j, i)
  BY <1>0, <1>3 DEF LexLess, LexBefore
<1>. QED  BY <1>1, <1>2, <1>3 DEF StrictOrder

LEMMA FilteredHolds ==
  ASSUME NEW S, NEW s \in Seq(S), NEW K \in SUBSET DOMAIN s
  PROVE  \A x : x \in Range(MembersAt(s, K)) <=> \E n \in K : s[n] = x
<1>1. PICK at \in [DOMAIN MembersAt(s, K) -> K] :
              /\ \A k \in DOMAIN MembersAt(s, K) : MembersAt(s, K)[k] = s[at[k]]
              /\ \A k, l \in DOMAIN MembersAt(s, K) : k < l => at[k] < at[l]
              /\ \A n \in K : \E k \in DOMAIN MembersAt(s, K) : at[k] = n
  BY MembersAtPlaces
<1>. QED  BY <1>1 DEF Range

LEMMA QualityIsNumber == \A r : Quality(r) \in Int
<1>. TAKE r
<1>. DEFINE e == {q \in 1..4 : Explicit[q] \cap r.words # {}}
            d == {q \in 1..4 : Descriptive[q] \cap r.words # {}}
<1>1. e # {} => Min(e) \in 1..4
  <2>1. e \in SUBSET Nat /\ e \subseteq 1..4
    OBVIOUS
  <2>. HIDE DEF e
  <2>. QED  BY <2>1, MinOfNaturals
<1>2. d # {} => Min(d) \in 1..4
  <2>1. d \in SUBSET Nat /\ d \subseteq 1..4
    OBVIOUS
  <2>. HIDE DEF d
  <2>. QED  BY <2>1, MinOfNaturals
<1>3. Quality(r) = IF e # {} THEN Min(e) ELSE IF d # {} THEN Min(d) ELSE Unknown
  BY DEF Quality
<1>. HIDE DEF e, d
<1>. QED  BY <1>1, <1>2, <1>3 DEF Unknown

LEMMA MatchPlace ==
  ASSUME NEW r, NEW options, OptionsTyped(options)
  PROVE  /\ NoMatch \notin DOMAIN options
         /\ MatchOption(r, options) # NoMatch => MatchOption(r, options) \in Enabled(options) /\ options[MatchOption(r, options)].mod \in Int
<1>. DEFINE hits == {n \in DOMAIN options : options[n].enabled /\ options[n].words \cap r.words # {}}
<1>1. DOMAIN options \in SUBSET Nat /\ 0 \notin DOMAIN options
  BY DEF OptionsTyped
<1>2. hits # {} => Min(hits) \in hits
  <2>1. hits \in SUBSET Nat
    BY <1>1
  <2>. HIDE DEF hits
  <2>. QED  BY <2>1, MinOfNaturals
<1>3. MatchOption(r, options) = IF hits = {} THEN NoMatch ELSE Min(hits)
  BY DEF MatchOption
<1>. QED  BY <1>1, <1>2, <1>3 DEF Enabled, OptionsTyped, NoMatch

LEMMA ConfigInUse ==
  ASSUME kCfg \in KConfigs
  PROVE  ConfigTyped(kCfg)
BY RankingAssumption

LEMMA RuleScoreIsNumber ==
  ASSUME kCfg \in KConfigs, NEW r, NEW w
  PROVE  RuleScore(r, w) \in Int /\ PreviewRules(r) \in Int
<1>. DEFINE pairs == kCfg.sets \X kCfg.rules
            hit == {p \in pairs : Applies(p[1], w) /\ p[2].name \in p[1].names /\ RuleHits(p[2], r)}
            mods == [p \in pairs |-> p[2].mod]
            rules == {rule \in kCfg.rules : Referenced(rule) /\ RuleHits(rule, r)}
            each == [rule \in kCfg.rules |-> rule.mod]
<1>1. IsFiniteSet(kCfg.sets) /\ IsFiniteSet(kCfg.rules) /\ \A rule \in kCfg.rules : rule.mod \in Int
  BY ConfigInUse DEF ConfigTyped
<1>2. IsFiniteSet(pairs)
  BY <1>1, FS_Product
<1>3. IsFiniteSet(hit) /\ IsFiniteSet(rules)
  BY <1>1, <1>2, FS_Subset
<1>4. Integral(mods, hit) /\ Integral(each, rules)
  BY <1>1 DEF Integral
<1>5. SumFunctionOnSet(mods, hit) \in Int /\ SumFunctionOnSet(each, rules) \in Int
  <2>. HIDE DEF hit, mods, rules, each
  <2>. QED  BY <1>3, <1>4, SumSteps
<1>. QED  BY <1>5 DEF RuleScore, PreviewRules

LEMMA SmallScores ==
  ASSUME kCfg \in KConfigs, NEW r \in KReleases
  PROVE  LanguageScore(r) \in Int /\ RecencyBonus(r) \in Int
<1>1. kCfg.recency \in Int /\ kCfg.decay \in Int /\ r.age \in Int
  BY ConfigInUse, RankingAssumption DEF ConfigTyped, ReleaseTyped
<1>2. kCfg.decay > 0 => (kCfg.recency * (kCfg.decay - r.age)) \div kCfg.decay \in Int
  BY <1>1
<1>. QED  BY <1>2 DEF LanguageScore, RecencyBonus

LEMMA KeptScored ==
  ASSUME kCfg \in KConfigs, NEW r \in KReleases, NEW w, Keeps(r, w)
  PROVE  Score(r, w) \in Int
<1>1. OptionsTyped(kCfg.qualities) /\ OptionsTyped(kCfg.codecs)
  BY ConfigInUse DEF ConfigTyped
<1>2. MatchOption(r, kCfg.qualities) # NoMatch /\ MatchOption(r, kCfg.codecs) # NoMatch
  BY DEF Keeps, OptionKeeps
<1>3. OptionScore(r, kCfg.qualities, w.quality) \in Int /\ OptionScore(r, kCfg.codecs, w.codec) \in Int
  BY <1>1, <1>2, MatchPlace DEF OptionScore
<1>. QED  BY <1>3, RuleScoreIsNumber, SmallScores DEF Score

\* The releases that pass, best first.
LEMMA Evaluated ==
  ASSUME kCfg \in KConfigs, NEW answers \in Seq(KReleases), NEW w
  PROVE  /\ Evaluate(answers, w) \in Seq(KReleases)
         /\ \A x : x \in Range(Evaluate(answers, w)) <=> x \in Range(answers) /\ Keeps(x, w)
         /\ \A i, j \in DOMAIN Evaluate(answers, w) : i < j => ~Better(Evaluate(answers, w)[j], Evaluate(answers, w)[i], w)
<1>. DEFINE K == {n \in DOMAIN answers : Keeps(answers[n], w)}
            kept == MembersAt(answers, K)
            n == Len(kept)
            q == [i \in 1..n |-> Quality(kept[i])]
            s == [i \in 1..n |-> Score(kept[i], w)]
            u == [i \in 1..n |-> IF kept[i].usenet THEN 1 ELSE 0]
            t == [i \in 1..n |-> IF kept[i].usenet THEN kept[i].age ELSE kept[i].seeders]
            Ahead == [i \in 1..n |-> {j \in 1..n : LexBefore(q, s, u, t, j, i)}]
<1>1. /\ kept \in Seq(KReleases)
      /\ \A k \in DOMAIN kept : \E m \in K : kept[k] = answers[m]
      /\ \A x : x \in Range(kept) <=> \E m \in K : answers[m] = x
  <2>1. K \in SUBSET DOMAIN answers
    OBVIOUS
  <2>. HIDE DEF K
  <2>. QED  BY <2>1, FilteredKeeps, FilteredHolds
<1>2. n \in Nat /\ DOMAIN kept = 1..n /\ \A i \in 1..n : kept[i] \in KReleases /\ Keeps(kept[i], w)
  <2>. HIDE DEF kept
  <2>. QED  BY <1>1
<1>3. \A i \in 1..n : q[i] \in Int /\ s[i] \in Int /\ u[i] \in Int /\ t[i] \in Int
  <2>1. TAKE i \in 1..n
  <2>2. kept[i].usenet \in BOOLEAN /\ kept[i].age \in Int /\ kept[i].seeders \in Int
    <3>. HIDE DEF kept
    <3>. QED  BY <1>2, RankingAssumption DEF ReleaseTyped
  <2>3. Score(kept[i], w) \in Int /\ Quality(kept[i]) \in Int
    <3>. HIDE DEF kept
    <3>. QED  BY <1>2, KeptScored, QualityIsNumber
  <2>. HIDE DEF kept, n
  <2>. QED  BY <2>2, <2>3
<1>4. ASSUME NEW i \in 1..n, NEW j \in 1..n PROVE Better(kept[i], kept[j], w) <=> LexLess(q, s, u, t, i, j)
  <2>1. /\ q[i] = Quality(kept[i]) /\ q[j] = Quality(kept[j]) /\ s[i] = Score(kept[i], w) /\ s[j] = Score(kept[j], w)
        /\ u[i] = (IF kept[i].usenet THEN 1 ELSE 0) /\ u[j] = (IF kept[j].usenet THEN 1 ELSE 0)
        /\ t[i] = (IF kept[i].usenet THEN kept[i].age ELSE kept[i].seeders) /\ t[j] = (IF kept[j].usenet THEN kept[j].age ELSE kept[j].seeders)
    <3>. HIDE DEF kept, n
    <3>. QED  OBVIOUS
  <2>2. kept[i].usenet \in BOOLEAN /\ kept[j].usenet \in BOOLEAN
    <3>. HIDE DEF kept
    <3>. QED  BY <1>2, RankingAssumption DEF ReleaseTyped
  <2>3. q[i] \in Int /\ q[j] \in Int /\ s[i] \in Int /\ s[j] \in Int /\ t[i] \in Int /\ t[j] \in Int
    <3>. HIDE DEF q, s, t, u
    <3>. QED  BY <1>3
  <2>4. CASE kept[i].usenet = kept[j].usenet
    <3>1. u[i] = u[j] /\ u[i] \in Int /\ (kept[i].usenet <=> kept[j].usenet)
      <4>. HIDE DEF kept, q, s, u, t
      <4>. QED  BY <2>1, <2>4, <2>2
    <3>. HIDE DEF kept, q, s, u, t
    <3>. QED  BY <2>1, <2>3, <2>4, <3>1 DEF Better, LexLess
  <2>5. CASE kept[i].usenet # kept[j].usenet
    <3>1. (kept[i].usenet <=> u[i] > u[j]) /\ u[i] # u[j] /\ u[i] \in Int /\ u[j] \in Int
      <4>. HIDE DEF kept, q, s, u, t
      <4>. QED  BY <2>1, <2>2, <2>5
    <3>. HIDE DEF kept, q, s, u, t
    <3>. QED  BY <2>1, <2>3, <2>5, <3>1 DEF Better, LexLess
  <2>. QED  BY <2>4, <2>5
<1>5. StrictOrder(1..n, Ahead)
  <2>1. q \in [1..n -> Int] /\ s \in [1..n -> Int] /\ u \in [1..n -> Int] /\ t \in [1..n -> Int]
    <3>1. q = [i \in 1..n |-> q[i]] /\ s = [i \in 1..n |-> s[i]] /\ u = [i \in 1..n |-> u[i]] /\ t = [i \in 1..n |-> t[i]]
      OBVIOUS
    <3>. HIDE DEF q, s, u, t
    <3>. QED  BY <1>3, <3>1
  <2>. HIDE DEF q, s, u, t, n
  <2>. QED  BY <1>2, <2>1, LexOrder
<1>6. IsFiniteSet(1..n) /\ Cardinality(1..n) = n
  <2>1. \A l \in Nat : IsFiniteSet(1..l) /\ Cardinality(1..l) = l
    BY FS_Interval
  <2>. HIDE DEF n
  <2>. QED  BY <1>2, <2>1
<1>7. /\ \A i \in 1..n : Cardinality(Ahead[i]) \in 0..(n - 1)
      /\ \A i, j \in 1..n : j \in Ahead[i] <=> Cardinality(Ahead[j]) < Cardinality(Ahead[i])
      /\ \A i, j \in 1..n : Cardinality(Ahead[i]) = Cardinality(Ahead[j]) => i = j
      /\ \A m \in 0..(n - 1) : \E i \in 1..n : Cardinality(Ahead[i]) = m
  <2>. HIDE DEF Ahead, n
  <2>. DEFINE D == 1..n
  <2>1. IsFiniteSet(D) /\ StrictOrder(D, Ahead) /\ Cardinality(D) = n
    BY <1>5, <1>6
  <2>2. /\ \A i \in D : Cardinality(Ahead[i]) \in 0..(Cardinality(D) - 1)
        /\ \A i, j \in D : j \in Ahead[i] <=> Cardinality(Ahead[j]) < Cardinality(Ahead[i])
        /\ \A i, j \in D : Cardinality(Ahead[i]) = Cardinality(Ahead[j]) => i = j
        /\ \A m \in 0..(Cardinality(D) - 1) : \E i \in D : Cardinality(Ahead[i]) = m
    <3>. HIDE DEF D
    <3>. QED  BY <2>1, PlacesAreNumbers
  <2>. QED  BY <2>1, <2>2
<1>8. ASSUME NEW i \in 1..n
      PROVE  {j \in DOMAIN kept : Better(kept[j], kept[i], w) \/ (~Better(kept[i], kept[j], w) /\ j < i)} = Ahead[i]
  <2>1. Ahead[i] = {j \in 1..n : LexBefore(q, s, u, t, j, i)}
    <3>. HIDE DEF q, s, u, t, n
    <3>. QED  OBVIOUS
  <2>. HIDE DEF q, s, u, t, n, kept, Ahead
  <2>. QED  BY <1>2, <1>4, <2>1 DEF LexBefore
<1>. DEFINE InFront(i) == {j \in DOMAIN kept : Better(kept[j], kept[i], w) \/ (~Better(kept[i], kept[j], w) /\ j < i)}
            at == [m \in DOMAIN kept |-> CHOOSE i \in DOMAIN kept : Cardinality(InFront(i)) = m - 1]
            sorted == [m \in DOMAIN kept |-> kept[at[m]]]
<1>9. Evaluate(answers, w) = sorted
  <2>1. kept = Filtered(answers, LAMBDA r : Keeps(r, w))
    BY DEF Filtered
  <2>2. Evaluate(answers, w) = [m \in DOMAIN kept |-> kept[CHOOSE i \in DOMAIN kept : Cardinality(InFront(i)) = m - 1]]
    BY Zenon DEF Evaluate, Filtered
  <2>. HIDE DEF kept, InFront
  <2>. QED  BY <2>2
<1>10. ASSUME NEW m \in 1..n PROVE at[m] \in 1..n /\ Cardinality(Ahead[at[m]]) = m - 1
  <2>1. m - 1 \in 0..(n - 1)
    <3>. HIDE DEF n
    <3>. QED  BY <1>2
  <2>2. PICK i \in 1..n : Cardinality(Ahead[i]) = m - 1
    <3>. HIDE DEF Ahead, n
    <3>. QED  BY <1>7, <2>1
  <2>3. at[m] = CHOOSE l \in 1..n : Cardinality(InFront(l)) = m - 1
    <3>. HIDE DEF kept, InFront, n
    <3>. QED  BY <1>2
  <2>4. \A l \in 1..n : InFront(l) = Ahead[l]
    BY <1>8
  <2>. HIDE DEF Ahead, n, at, InFront, kept
  <2>. QED  BY <2>2, <2>3, <2>4
<1>11. ASSUME NEW i \in 1..n PROVE \E m \in 1..n : at[m] = i
  <2>1. PICK c \in 0..(n - 1) : c = Cardinality(Ahead[i])
    <3>. HIDE DEF Ahead, n
    <3>. QED  BY <1>7
  <2>2. c + 1 \in 1..n /\ (c + 1) - 1 = c
    <3>. HIDE DEF n
    <3>. QED  BY <1>2
  <2>3. at[c + 1] \in 1..n /\ Cardinality(Ahead[at[c + 1]]) = Cardinality(Ahead[i])
    <3>. HIDE DEF Ahead, n, at
    <3>. QED  BY <1>10, <2>1, <2>2
  <2>. HIDE DEF Ahead, n, at
  <2>. QED  BY <1>7, <2>2, <2>3
<1>12. ASSUME NEW l \in 1..n, NEW m \in 1..n, l < m PROVE ~Better(sorted[m], sorted[l], w)
  <2>1. Cardinality(Ahead[at[l]]) < Cardinality(Ahead[at[m]]) /\ at[l] \in 1..n /\ at[m] \in 1..n
    <3>1. l - 1 < m - 1
      <4>. HIDE DEF n
      <4>. QED  BY <1>2, <1>12
    <3>. HIDE DEF Ahead, n, at
    <3>. QED  BY <1>10, <3>1
  <2>2. at[l] \in Ahead[at[m]]
    <3>. HIDE DEF Ahead, n, at
    <3>. QED  BY <1>7, <2>1
  <2>3. LexBefore(q, s, u, t, at[l], at[m])
    <3>1. PICK i \in 1..n, j \in 1..n : i = at[l] /\ j = at[m]
      BY <2>1
    <3>2. Ahead[j] = {k \in 1..n : LexBefore(q, s, u, t, k, j)}
      <4>. HIDE DEF q, s, u, t, n
      <4>. QED  OBVIOUS
    <3>. HIDE DEF q, s, u, t, n, Ahead, at
    <3>. QED  BY <2>2, <3>1, <3>2
  <2>4. ~LexLess(q, s, u, t, at[m], at[l])
    <3>1. PICK i \in 1..n, j \in 1..n : i = at[l] /\ j = at[m]
      BY <2>1
    <3>2. q[i] \in Int /\ q[j] \in Int /\ s[i] \in Int /\ s[j] \in Int /\ t[i] \in Int /\ t[j] \in Int /\ u[i] \in Int /\ u[j] \in Int
      <4>. HIDE DEF q, s, u, t, n
      <4>. QED  BY <1>3
    <3>. HIDE DEF q, s, u, t, n, at
    <3>3. LexBefore(q, s, u, t, i, j)
      BY <2>3, <3>1
    <3>4. LexBefore(q, s, u, t, i, j) => ~LexLess(q, s, u, t, j, i)
      BY <3>2 DEF LexBefore, LexLess
    <3>. QED  BY <3>1, <3>3, <3>4
  <2>5. sorted[m] = kept[at[m]] /\ sorted[l] = kept[at[l]]
    <3>. HIDE DEF kept, n, at
    <3>. QED  BY <1>2
  <2>. HIDE DEF q, s, u, t, n, kept, at, sorted
  <2>. QED  BY <1>4, <2>1, <2>4, <2>5
<1>13. sorted \in Seq(KReleases) /\ DOMAIN sorted = 1..n
  <2>1. \A m \in 1..n : kept[at[m]] \in KReleases
    <3>. HIDE DEF kept, n, at
    <3>. QED  BY <1>2, <1>10
  <2>. HIDE DEF kept, n, at
  <2>. QED  BY <1>2, <2>1
<1>14. ASSUME NEW x PROVE x \in Range(sorted) <=> x \in Range(kept)
  <2>1. x \in Range(sorted) <=> \E m \in 1..n : kept[at[m]] = x
    <3>1. \A m \in 1..n : sorted[m] = kept[at[m]]
      <4>. HIDE DEF kept, n, at
      <4>. QED  BY <1>2
    <3>. HIDE DEF kept, n, at, sorted
    <3>. QED  BY <1>13, <3>1 DEF Range
  <2>2. x \in Range(kept) <=> \E i \in 1..n : kept[i] = x
    <3>. HIDE DEF kept, n
    <3>. QED  BY <1>2 DEF Range
  <2>. HIDE DEF kept, n, at, sorted
  <2>. QED  BY <1>10, <1>11, <2>1, <2>2
<1>15. ASSUME NEW x PROVE x \in Range(kept) <=> x \in Range(answers) /\ Keeps(x, w)
  <2>1. x \in Range(kept) <=> \E m \in K : answers[m] = x
    <3>. HIDE DEF kept, K
    <3>. QED  BY <1>1
  <2>. HIDE DEF kept
  <2>. QED  BY <2>1 DEF Range
<1>. HIDE DEF kept, n, at, sorted
<1>. QED  BY <1>9, <1>12, <1>13, <1>14, <1>15

LEMMA FilteredTyped ==
  ASSUME NEW answers \in Seq(KReleases), NEW w
  PROVE  /\ ProcessSearchResult(answers) \in Seq(KReleases) /\ FilterByOptions(answers, w) \in Seq(KReleases)
         /\ FilterToSeason(answers, w) \in Seq(KReleases) /\ FilterToEpisode(answers, w) \in Seq(KReleases)
         /\ FilterToSpecial(answers, w) \in Seq(KReleases)
<1>1. \A K \in SUBSET DOMAIN answers : MembersAt(answers, K) \in Seq(KReleases)
  BY FilteredKeeps
<1>2. ProcessSearchResult(answers) \in Seq(KReleases)
  BY <1>1 DEF ProcessSearchResult, Filtered
<1>3. FilterByOptions(answers, w) \in Seq(KReleases)
  BY <1>1 DEF FilterByOptions, Filtered
<1>4. FilterToSeason(answers, w) \in Seq(KReleases)
  BY <1>1 DEF FilterToSeason, Filtered
<1>5. FilterToEpisode(answers, w) \in Seq(KReleases)
  BY <1>1 DEF FilterToEpisode, Filtered
<1>6. FilterToSpecial(answers, w) \in Seq(KReleases)
  BY <1>1 DEF FilterToSpecial, Filtered
<1>. QED  BY <1>2, <1>3, <1>4, <1>5, <1>6

LEMMA SearchedTyped ==
  ASSUME RankingTypeOK
  PROVE  Searched \in Seq(KReleases)
<1>1. kPool \in Seq(KReleases) /\ kCfg \in KConfigs
  BY DEF RankingTypeOK
<1>2. Available(kPool, kWant) \in Seq(KReleases)
  BY <1>1, FilteredTyped, Evaluated DEF Available
<1>. QED  BY <1>2, FilteredTyped DEF Searched

LEMMA RankingTypes == RankingTypeOK /\ [RankingNext]_kVars => RankingTypeOK'
<1> SUFFICES ASSUME RankingTypeOK, [RankingNext]_kVars PROVE RankingTypeOK'
  OBVIOUS
<1>1. ASSUME NEW r \in KReleases, Answered(r) PROVE RankingTypeOK'
  <2>1. Append(kPool, r) \in Seq(KReleases)
    BY DEF RankingTypeOK
  <2>. QED  BY <1>1, <2>1, FilteredTyped DEF Answered, RankingTypeOK
<1>2. ASSUME NEW r \in KReleases, StreamChunk(r) PROVE RankingTypeOK'
  BY <1>2 DEF StreamChunk, RankingTypeOK
<1>3. CASE SearchTorrents
  BY <1>3, SearchedTyped DEF SearchTorrents, RankingTypeOK
<1>4. CASE UNCHANGED kVars
  BY <1>4 DEF kVars, RankingTypeOK
<1>. QED  BY <1>1, <1>2, <1>3, <1>4 DEF RankingNext

LEMMA RankingStarts == RankingInit => RankingTypeOK
BY DEF RankingInit, RankingTypeOK

\* A rule that the preview counts is counted once by the search.
LEMMA RulesAgree ==
  ASSUME kCfg \in KConfigs, PreviewKnows, NEW r
  PROVE  RuleScore(r, kWant) = PreviewRules(r)
<1>. DEFINE pairs == kCfg.sets \X kCfg.rules
            hit == {p \in pairs : Applies(p[1], kWant) /\ p[2].name \in p[1].names /\ RuleHits(p[2], r)}
            mods == [p \in pairs |-> p[2].mod]
            rules == {rule \in kCfg.rules : Referenced(rule) /\ RuleHits(rule, r)}
            each == [rule \in kCfg.rules |-> rule.mod]
            b == [p \in hit |-> p[2]]
            Of(rule) == {s \in kCfg.sets : rule.name \in s.names /\ Applies(s, kWant)}
<1>1. IsFiniteSet(kCfg.sets) /\ IsFiniteSet(kCfg.rules) /\ \A rule \in kCfg.rules : rule.mod \in Int
  BY ConfigInUse DEF ConfigTyped
<1>2. IsFiniteSet(pairs)
  BY <1>1, FS_Product
<1>3. IsFiniteSet(hit) /\ IsFiniteSet(rules)
  BY <1>1, <1>2, FS_Subset
<1>4. Integral(mods, hit) /\ Integral(each, rules)
  BY <1>1 DEF Integral
<1>5. b \in [hit -> rules] /\ \A p \in hit : each[b[p]] = mods[p]
  BY DEF Referenced
<1>6. ASSUME NEW rule \in kCfg.rules, Referenced(rule) PROVE \E s \in kCfg.sets : Of(rule) = {s}
  <2>1. Cardinality(Of(rule)) = 1 /\ IsFiniteSet(Of(rule))
    <3>1. IsFiniteSet(Of(rule))
      BY <1>1, FS_Subset
    <3>. QED  BY <1>6, <3>1 DEF PreviewKnows
  <2>2. \E s : Of(rule) = {s}
    <3>. HIDE DEF Of
    <3>. QED  BY <2>1, FS_Singleton
  <2>. QED  BY <2>2
<1>7. ASSUME NEW p \in hit, NEW o \in hit, b[p] = b[o] PROVE p = o
  <2>1. p[2] = o[2] /\ p[2] \in kCfg.rules /\ Referenced(p[2]) /\ p[1] \in Of(p[2]) /\ o[1] \in Of(p[2])
    BY <1>7 DEF Referenced
  <2>2. p[1] = o[1]
    <3>1. PICK s \in kCfg.sets : Of(p[2]) = {s}
      <4>. HIDE DEF Of
      <4>. QED  BY <1>6, <2>1
    <3>. HIDE DEF Of
    <3>. QED  BY <2>1, <3>1
  <2>. QED  BY <2>1, <2>2
<1>8. ASSUME NEW rule \in rules PROVE \E p \in hit : b[p] = rule
  <2>1. PICK s \in kCfg.sets : Of(rule) = {s}
    <3>. HIDE DEF Of
    <3>. QED  BY <1>6
  <2>2. s \in Of(rule)
    BY <2>1
  <2>3. <<s, rule>> \in hit /\ b[<<s, rule>>] = rule
    BY <2>2
  <2>. QED  BY <2>3
<1>9. SumFunctionOnSet(mods, hit) = SumFunctionOnSet(each, rules)
  <2>. HIDE DEF hit, mods, rules, each, b
  <2>1. Pairs(b, mods, hit, each, rules)
    BY <1>3, <1>4, <1>5, <1>7, <1>8 DEF Pairs
  <2>. QED  BY <2>1, SumsMatch
<1>. QED  BY <1>9 DEF RuleScore, PreviewRules

LEMMA PreviewParts ==
  ASSUME kCfg \in KConfigs, NEW r \in KReleases
  PROVE  /\ PreviewRules(r) \in Int /\ LanguageScore(r) \in Int /\ RecencyBonus(r) \in Int
         /\ Matched(r, kCfg.qualities) \in Int /\ Matched(r, kCfg.codecs) \in Int
         /\ r.seeders \in Int /\ r.usenet \in BOOLEAN /\ kCfg.minSeeders \in Int /\ kCfg.maxSeeders \in Int
<1>1. OptionsTyped(kCfg.qualities) /\ OptionsTyped(kCfg.codecs) /\ kCfg.minSeeders \in Int /\ kCfg.maxSeeders \in Int
  BY ConfigInUse DEF ConfigTyped
<1>2. Matched(r, kCfg.qualities) \in Int /\ Matched(r, kCfg.codecs) \in Int
  BY <1>1, MatchPlace DEF Matched
<1>3. PreviewRules(r) \in Int
  BY RuleScoreIsNumber
<1>. QED  BY <1>1, <1>2, <1>3, SmallScores, RankingAssumption DEF ReleaseTyped

\* A torrent that no gate stops has in the preview the score of the search.
LEMMA PreviewOfKept ==
  ASSUME kCfg \in KConfigs, Comparable, NEW r \in KReleases, ~r.usenet, SeedersPass(r),
         MatchOption(r, kCfg.qualities) # NoMatch, MatchOption(r, kCfg.codecs) # NoMatch
  PROVE  PreviewScore(r) = Score(r, kWant) /\ PreviewScore(r) \in Int
<1>1. PreviewSeeders(r) = 0
  BY PreviewParts DEF PreviewSeeders, SeedersPass, Comparable
<1>2. RuleScore(r, kWant) = PreviewRules(r) /\ kWant.quality = NoOverride /\ kWant.codec = NoOverride
  BY RulesAgree DEF Comparable, PreviewKnows
<1>3. /\ OptionScore(r, kCfg.qualities, kWant.quality) = Matched(r, kCfg.qualities)
      /\ OptionScore(r, kCfg.codecs, kWant.codec) = Matched(r, kCfg.codecs)
      /\ PreviewOption(r, kCfg.qualities) = Matched(r, kCfg.qualities)
      /\ PreviewOption(r, kCfg.codecs) = Matched(r, kCfg.codecs)
  BY <1>2 DEF OptionScore, PreviewOption, Matched, NoOverride
<1>4. PreviewScore(r) = PreviewRules(r) + Matched(r, kCfg.qualities) + Matched(r, kCfg.codecs) + LanguageScore(r) + RecencyBonus(r) + 0
  BY <1>1, <1>3 DEF PreviewScore
<1>5. Score(r, kWant) = PreviewRules(r) + Matched(r, kCfg.qualities) + Matched(r, kCfg.codecs) + LanguageScore(r) + RecencyBonus(r)
  BY <1>2, <1>3 DEF Score
<1>. QED  BY <1>4, <1>5, PreviewParts

\* One that a gate stops is not in the positive: a drop outweighs all it can have matched.
LEMMA PreviewOfDropped ==
  ASSUME kCfg \in KConfigs, Comparable, NEW r \in KReleases, ~r.usenet,
         \/ ~SeedersPass(r) \/ MatchOption(r, kCfg.qualities) = NoMatch \/ MatchOption(r, kCfg.codecs) = NoMatch
  PROVE  ~(PreviewScore(r) > 0)
<1>1. PICK drops \in Int : drops = PreviewSeeders(r) /\ drops <= 0 /\ (~SeedersPass(r) => drops <= Dropped)
  <2>1. PreviewSeeders(r) \in Int /\ PreviewSeeders(r) <= 0
    BY DEF PreviewSeeders, Dropped
  <2>2. ~SeedersPass(r) => PreviewSeeders(r) <= Dropped
    BY PreviewParts DEF PreviewSeeders, Dropped, SeedersPass, Comparable
  <2>. QED  BY <2>1, <2>2
<1>2. PICK dq \in {0, Dropped} : PreviewOption(r, kCfg.qualities) = Matched(r, kCfg.qualities) + dq /\ (MatchOption(r, kCfg.qualities) = NoMatch => dq = Dropped)
  BY PreviewParts DEF PreviewOption, Matched, Comparable, Dropped
<1>3. PICK dc \in {0, Dropped} : PreviewOption(r, kCfg.codecs) = Matched(r, kCfg.codecs) + dc /\ (MatchOption(r, kCfg.codecs) = NoMatch => dc = Dropped)
  BY PreviewParts DEF PreviewOption, Matched, Comparable, Dropped
<1>4. PreviewRules(r) + Matched(r, kCfg.qualities) + Matched(r, kCfg.codecs) + LanguageScore(r) + RecencyBonus(r) <= 10000000
  BY PreviewParts DEF Comparable, Outweighs, Dropped
<1>5. PreviewScore(r) = PreviewRules(r) + (Matched(r, kCfg.qualities) + dq) + (Matched(r, kCfg.codecs) + dc) + LanguageScore(r) + RecencyBonus(r) + drops
  BY <1>1, <1>2, <1>3 DEF PreviewScore
<1>6. dq + dc + drops <= -10000000 /\ dq \in Int /\ dc \in Int
  BY <1>1, <1>2, <1>3 DEF Dropped
<1>. QED  BY <1>4, <1>5, <1>6, PreviewParts

LEMMA KeepsOrDrops ==
  ASSUME kCfg \in KConfigs, Comparable, NEW r \in KReleases, Judged(r)
  PROVE  Keeps(r, kWant) <=> PreviewScore(r) > 0
<1>1. OptionKeeps(r, kCfg.qualities, kWant.quality) <=> MatchOption(r, kCfg.qualities) # NoMatch
  BY DEF OptionKeeps, Comparable, PreviewKnows
<1>2. OptionKeeps(r, kCfg.codecs, kWant.codec) <=> MatchOption(r, kCfg.codecs) # NoMatch
  BY DEF OptionKeeps, Comparable, PreviewKnows
<1>. DEFINE passes == SeedersPass(r) /\ MatchOption(r, kCfg.qualities) # NoMatch /\ MatchOption(r, kCfg.codecs) # NoMatch
<1>3. Keeps(r, kWant) <=> passes /\ Score(r, kWant) > 0
  BY <1>1, <1>2 DEF Keeps, Judged
<1>4. passes => PreviewScore(r) = Score(r, kWant)
  BY PreviewOfKept DEF Judged
<1>5. ~passes => ~(PreviewScore(r) > 0)
  BY PreviewOfDropped DEF Judged
<1>. HIDE DEF passes
<1>. QED  BY <1>3, <1>4, <1>5

\* With no option chosen on the page, nothing is taken out of the ranking and its order stays.
LEMMA SearchedMovie ==
  ASSUME RankingTypeOK, Comparable, ~kWant.tv
  PROVE  /\ Searched \in Seq(KReleases)
         /\ \A x : x \in Range(Searched) <=> x \in Range(kPool) /\ Keeps(x, kWant)
         /\ \A i, j \in DOMAIN Searched : i < j => ~Better(Searched[j], Searched[i], kWant)
<1>. DEFINE ev == Evaluate(kPool, kWant)
            Chosen(x) == \A f \in {KeywordsFor(kCfg.qualities, kWant.pageQuality), KeywordsFor(kCfg.codecs, kWant.pageCodec)} :
                                   f = {} \/ f \cap x.words # {}
            K == {n \in DOMAIN ev : Chosen(ev[n])}
<1>1. kCfg \in KConfigs /\ kPool \in Seq(KReleases)
  BY DEF RankingTypeOK
<1>2. /\ ev \in Seq(KReleases)
      /\ \A x : x \in Range(ev) <=> x \in Range(kPool) /\ Keeps(x, kWant)
      /\ \A i, j \in DOMAIN ev : i < j => ~Better(ev[j], ev[i], kWant)
  BY <1>1, Evaluated
<1>3. K = DOMAIN ev
  <2>1. kWant.pageQuality = {} /\ kWant.pageCodec = {}
    BY DEF Comparable, PreviewKnows
  <2>2. \A options : KeywordsFor(options, {}) = {}
    BY DEF KeywordsFor
  <2>. QED  BY <2>1, <2>2
<1>4. Searched = MembersAt(ev, K)
  <2>1. Available(kPool, kWant) = ev
    BY DEF Available
  <2>. QED  BY <2>1, Zenon DEF Searched, FilterByOptions, Filtered
<1>5. PICK at \in [DOMAIN MembersAt(ev, K) -> K] :
              /\ \A k \in DOMAIN MembersAt(ev, K) : MembersAt(ev, K)[k] = ev[at[k]]
              /\ \A k, l \in DOMAIN MembersAt(ev, K) : k < l => at[k] < at[l]
              /\ \A n \in K : \E k \in DOMAIN MembersAt(ev, K) : at[k] = n
  <2>1. ev \in Seq(KReleases) /\ K \in SUBSET DOMAIN ev
    BY <1>2
  <2>. HIDE DEF ev, K
  <2>. QED  BY <2>1, MembersAtPlaces
<1>6. \A x : x \in Range(Searched) <=> x \in Range(ev)
  <2>1. \A x : x \in Range(MembersAt(ev, K)) <=> \E n \in K : ev[n] = x
    <3>. HIDE DEF ev, K
    <3>. QED  BY <1>2, <1>3, FilteredHolds
  <2>. HIDE DEF ev, K
  <2>. QED  BY <1>3, <1>4, <2>1 DEF Range
<1>7. \A i, j \in DOMAIN Searched : i < j => ~Better(Searched[j], Searched[i], kWant)
  <2>. HIDE DEF ev, K
  <2>. QED  BY <1>2, <1>3, <1>4, <1>5
<1>. HIDE DEF ev
<1>. QED  BY <1>2, <1>6, <1>7, SearchedTyped

LEMMA PreviewAgrees == RankingTypeOK => PreviewRanks
<1> SUFFICES ASSUME RankingTypeOK, Comparable, ~kWant.tv
             PROVE  /\ \A r \in Range(kPool) : Judged(r) => (r \in Range(Searched) <=> PreviewScore(r) > 0)
                    /\ \A i, j \in DOMAIN Searched :
                         i < j /\ Quality(Searched[i]) = Quality(Searched[j]) /\ ~Searched[i].usenet /\ ~Searched[j].usenet
                           => PreviewScore(Searched[i]) >= PreviewScore(Searched[j])
  BY DEF PreviewRanks
<1>1. kCfg \in KConfigs /\ kPool \in Seq(KReleases)
  BY DEF RankingTypeOK
<1>2. Range(kPool) \subseteq KReleases
  BY <1>1 DEF Range
<1>3. ASSUME NEW r \in Range(kPool), Judged(r) PROVE r \in Range(Searched) <=> PreviewScore(r) > 0
  BY <1>1, <1>2, <1>3, SearchedMovie, KeepsOrDrops
<1>4. ASSUME NEW i \in DOMAIN Searched, NEW j \in DOMAIN Searched, i < j, Quality(Searched[i]) = Quality(Searched[j]),
             ~Searched[i].usenet, ~Searched[j].usenet
      PROVE  PreviewScore(Searched[i]) >= PreviewScore(Searched[j])
  <2>1. \A k \in DOMAIN Searched : Searched[k] \in KReleases /\ Keeps(Searched[k], kWant)
    <3>1. \A k \in DOMAIN Searched : Searched[k] \in Range(Searched)
      BY DEF Range
    <3>. QED  BY <1>2, <3>1, SearchedMovie
  <2>2. \A k \in DOMAIN Searched : ~Searched[k].usenet => PreviewScore(Searched[k]) = Score(Searched[k], kWant) /\ PreviewScore(Searched[k]) \in Int
    BY <1>1, <2>1, PreviewOfKept DEF Keeps, OptionKeeps
  <2>3. ~Better(Searched[j], Searched[i], kWant)
    BY <1>4, SearchedMovie
  <2>. QED  BY <1>4, <2>2, <2>3 DEF Better
<1>. QED  BY <1>3, <1>4

\* The state of a search and its ranking is well formed (indexers/service.py, utils.py).
THEOREM RankingTyped == RankingSpec => []RankingTypeOK
BY RankingStarts, RankingTypes, PTL DEF RankingSpec

\* The preview of the settings is positive for what a search keeps and for nothing else, and in
\* the order of the search among releases of one quality (preview_score, evaluate_results).
THEOREM PreviewStands == RankingSpec => []PreviewRanks
BY RankingTyped, PreviewAgrees, PTL

(***************************************************************************)
(* The composition: a step of one part leaves the others as they are, so   *)
(* each component keeps its invariant.                                     *)
(***************************************************************************)
LEMMA DiscoveryStep ==
  [DiscoveryNext]_<<part, discVars>>
    => /\ [FeedsNext]_fVars /\ [RequestsNext]_rVars /\ [BrowserNext]_bVars /\ [ClientNext]_mVars
       /\ [IndexerSitesNext]_jVars /\ [IndexerSearchNext]_nVars /\ [RankingNext]_kVars
       /\ part' = part
BY DEF DiscoveryNext, discVars

FeedsHold == FeedsInv /\ FeedsRest
RequestsHold == RequestsInv /\ UpsMade /\ RequestsRest
BrowserHold == BrowserInv /\ BrowserRest
DiscoveryInv ==
  /\ FeedsHold /\ RequestsHold /\ BrowserHold /\ ClientInv /\ SitesInv /\ SearchInv /\ RankingTypeOK
  /\ part \in Parts

LEMMA DiscoveryInvNext == DiscoveryInv /\ [DiscoveryNext]_<<part, discVars>> => DiscoveryInv'
<1>. SUFFICES ASSUME DiscoveryInv, [DiscoveryNext]_<<part, discVars>> PROVE DiscoveryInv'
  OBVIOUS
<1>1. FeedsHold'
  BY DiscoveryStep, FeedsInvNext, FeedsRestNext DEF DiscoveryInv, FeedsHold
<1>2. RequestsHold'
  BY DiscoveryStep, RequestsInvNext, UpsMadeNext, RequestsRestNext DEF DiscoveryInv, RequestsHold
<1>3. BrowserHold'
  BY DiscoveryStep, BrowserInvNext, BrowserRestNext DEF DiscoveryInv, BrowserHold
<1>4. ClientInv' /\ SitesInv' /\ SearchInv' /\ RankingTypeOK'
  BY DiscoveryStep, ClientInvNext, SitesInvNext, SearchInvNext, RankingTypes DEF DiscoveryInv
<1>5. part' \in Parts
  BY DiscoveryStep DEF DiscoveryInv
<1>. QED  BY <1>1, <1>2, <1>3, <1>4, <1>5 DEF DiscoveryInv

\* The inductive invariants of the seven parts hold together in the composition that is
\* model-checked, whichever part runs.
THEOREM DiscoveryInvariant == DiscoverySpec => []DiscoveryInv
<1>1. DiscoveryInit => DiscoveryInv
  <2>1. RequestsInit => UpsMade
    BY DEF RequestsInit, UpsMade
  <2>2. DiscoveryInit => FeedsHold /\ RequestsHold /\ BrowserHold
    BY <2>1, FeedsInvInit, FeedsRestInit, RequestsInvInit, RequestsRestInit, BrowserInvInit, BrowserRestInit
       DEF DiscoveryInit, FeedsHold, RequestsHold, BrowserHold
  <2>. QED  BY <2>2, ClientInvInit, SitesInvInit, SearchInvInit, RankingStarts DEF DiscoveryInit, DiscoveryInv
<1>. QED  BY <1>1, DiscoveryInvNext, PTL DEF DiscoverySpec

\* The state of the feeds, the search, the sites, the ranking, the requests, the browser and the
\* client (feeds, indexers, requests, cloudflare and torrents of the code) stays well formed.
THEOREM DiscoveryTyped == DiscoverySpec => []DiscoveryTypeOK
<1>1. DiscoveryInv => DiscoveryTypeOK
  <2>. SUFFICES ASSUME DiscoveryInv PROVE DiscoveryTypeOK
    OBVIOUS
  <2>1. FeedsTypeOK /\ RequestsTypeOK /\ BrowserTypeOK
    BY FeedsTypes, RequestsTypes, BrowserTypes DEF DiscoveryInv, FeedsHold, RequestsHold, BrowserHold
  <2>2. ClientTypeOK /\ IndexerSitesTypeOK /\ IndexerSearchTypeOK /\ RankingTypeOK
    BY SitesTyped, SearchTypes DEF DiscoveryInv, ClientInv
  <2>. QED  BY <2>1, <2>2 DEF DiscoveryInv, DiscoveryTypeOK
<1>. QED  BY <1>1, DiscoveryInvariant, PTL

\* In the composition there is one shared browser, and reconcile makes at most one
\* request in Seerr for a row (cloudflare/bypass.py, requests/service.py).
THEOREM DiscoveryOnce == DiscoverySpec => [](OneBrowser /\ ReconcileCreatesOnce)
<1>1. DiscoveryInv => OneBrowser /\ ReconcileCreatesOnce
  BY AtMostOne, MadeAtMostOnce DEF DiscoveryInv, BrowserHold, RequestsHold
<1>. QED  BY <1>1, DiscoveryInvariant, PTL

\* In the composition no poll moves a watermark back or inserts an item twice
\* (feeds/repository.py:record_poll_success, bulk_insert_observations).
THEOREM DiscoveryWatermarks == DiscoverySpec => WatermarkNeverBack
<1>1. DiscoveryInv /\ [DiscoveryNext]_<<part, discVars>>
      => [ObservedOnce' /\ \A s \in FSources : fMark'[s] >= fMark[s]]_fVars
  BY DiscoveryStep, FeedsInvNext DEF DiscoveryInv, FeedsHold, FeedsInv
<1>. QED  BY <1>1, DiscoveryInvariant, PTL DEF DiscoverySpec, WatermarkNeverBack

\* In the composition no finished torrent is lost (torrents/backends/native.py), and the preview
\* of the settings agrees with the search (indexers/utils.py).
THEOREM DiscoveryKeeps == DiscoverySpec => [](TransfersKept /\ PreviewRanks)
<1>1. DiscoveryInv => TransfersKept /\ PreviewRanks
  BY ClientKeeps, PreviewAgrees DEF DiscoveryInv
<1>. QED  BY <1>1, DiscoveryInvariant, PTL
=============================================================================
