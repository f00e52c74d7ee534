--------------------------- MODULE SharedBrowser ---------------------------
(***************************************************************************)
(* The shared Chromium of CloudflareBypass: solve calls from many threads, *)
(* the lock per domain, the process-wide semaphore, the launch lock, the   *)
(* recycling after a number of fetches, the tear-down after a stalled page *)
(* and at shutdown, the cookie cache and the circuit breaker per domain.   *)
(*                                                                         *)
(* What happens on a page is one step that succeeds or fails.  Browsers    *)
(* are numbered in the order of their launch; a browser and its profile    *)
(* directory have the same number.  The external solvers are the calls of  *)
(* BExternal, which never touch the browser.                               *)
(***************************************************************************)
EXTENDS Integers, FiniteSets

CONSTANTS BCalls,       \* calls of solve
          BSite,        \* the domain of a call
          BExternal,    \* calls made with an external solver configured
          BConc,        \* MIRAMEDIA_CHROMIUM_CONCURRENCY
          BMaxFetch,    \* _max_fetches_per_browser
          BThreshold,   \* _breaker_threshold
          MaxLaunches   \* bound on browser launches

Warm == "warm"       \* the warm-up task, not a call
FreeSlot == "free"   \* the launch lock, when nobody holds it

ASSUME BrowserAssumption ==
  /\ {Warm, FreeSlot} \cap BCalls = {}
  /\ BExternal \subseteq BCalls
  /\ BConc \in Nat \ {0} /\ BMaxFetch \in Nat \ {0}
  /\ BThreshold \in Nat \ {0} /\ MaxLaunches \in Nat

VARIABLES bCall,      \* where each call is
          bShared,    \* _shared_browser
          bLive,      \* the Chromium processes that run
          bPids,      \* _tracked_pids
          bProfiles,  \* _tracked_profiles
          bDirs,      \* the profile directories on disk
          bCount,     \* _fetch_count
          bLaunched,  \* number of launches so far
          bLaunch,    \* holder of the launch lock
          bFails, bOpen, bCookies,   \* per domain: failures, open breaker, cached session
          bLoop       \* the worker loop runs

bVars == <<bCall, bShared, bLive, bPids, bProfiles, bDirs, bCount, bLaunched, bLaunch,
           bFails, bOpen, bCookies, bLoop>>
browserVars == <<bShared, bLive, bPids, bProfiles, bDirs, bCount, bLaunched, bLaunch>>
siteVars == <<bFails, bOpen, bCookies>>

Sites == {BSite[c] : c \in BCalls}
Tasks == BCalls \cup {Warm}
NoBrowser == 0
Browsers == 1..MaxLaunches

OnLoop(c) == bCall[c].pc \in {"ensure", "launch", "get", "page"}
InSemaphore == {c \in BCalls : OnLoop(c)}
HoldsDomain(d) == {c \in BCalls : BSite[c] = d /\ bCall[c].pc \in {"external", "queued", "ensure", "launch", "get", "page"}}

\* The calls, the shared browser and what it tracks (cloudflare/bypass.py).
BrowserTypeOK ==
  /\ \A c \in Tasks : /\ bCall[c].pc \in {"idle", "lock", "external", "queued", "ensure", "launch", "get", "page", "done"}
                      /\ bCall[c].try \in 1..2
                      /\ bCall[c].on \in Browsers \cup {NoBrowser}
  /\ bShared \in Browsers \cup {NoBrowser}
  /\ bLive \subseteq Browsers /\ bPids \subseteq Browsers
  /\ bProfiles \subseteq Browsers /\ bDirs \subseteq Browsers
  /\ bCount \in Nat /\ bLaunched \in 0..MaxLaunches
  /\ bLaunch \in Tasks \cup {FreeSlot}
  /\ bFails \in [Sites -> 0..BThreshold] /\ bOpen \in [Sites -> BOOLEAN] /\ bCookies \in [Sites -> BOOLEAN]
  /\ bLoop \in BOOLEAN

BrowserInit ==
  /\ bCall = [c \in Tasks |-> [pc |-> "idle", try |-> 1, on |-> NoBrowser]]
  /\ bShared = NoBrowser /\ bLive = {} /\ bPids = {} /\ bProfiles = {} /\ bDirs = {}
  /\ bCount = 0 /\ bLaunched = 0 /\ bLaunch = FreeSlot
  /\ bFails = [d \in Sites |-> 0] /\ bOpen = [d \in Sites |-> FALSE] /\ bCookies = [d \in Sites |-> FALSE]
  /\ bLoop = TRUE

At(c, pc) == bCall' = [bCall EXCEPT ![c].pc = pc]

(***************************************************************************)
(* The circuit breaker.                                                    *)
(***************************************************************************)
RecordSuccess(d) == bFails' = [bFails EXCEPT ![d] = 0] /\ bOpen' = [bOpen EXCEPT ![d] = FALSE]

RecordFailure(d) ==
  /\ bFails' = [bFails EXCEPT ![d] = IF @ < BThreshold THEN @ + 1 ELSE @]
  /\ bOpen' = [bOpen EXCEPT ![d] = @ \/ bFails[d] + 1 >= BThreshold]

Record(c, ok) == IF c = Warm THEN UNCHANGED <<bFails, bOpen>>
                 ELSE IF ok THEN RecordSuccess(BSite[c]) ELSE RecordFailure(BSite[c])

\* The cool-down is over; the failures stay counted until a success.
HalfOpen(d) ==
  /\ bOpen[d] /\ bOpen' = [bOpen EXCEPT ![d] = FALSE]
  /\ UNCHANGED <<bCall, browserVars, bFails, bCookies, bLoop>>

CacheCookies(d, ok) == bCookies' = [bCookies EXCEPT ![d] = @ \/ ok]

CookiesExpire(d) ==
  /\ bCookies[d] /\ bCookies' = [bCookies EXCEPT ![d] = FALSE]
  /\ UNCHANGED <<bCall, browserVars, bFails, bOpen, bLoop>>

(***************************************************************************)
(* A call of solve, up to its turn on the worker loop.                     *)
(***************************************************************************)
Solve(c) ==
  /\ bLoop /\ bCall[c].pc = "idle"
  /\ At(c, IF bOpen[BSite[c]] THEN "done" ELSE "lock")
  /\ UNCHANGED <<browserVars, siteVars, bLoop>>

\* solve_in_background gives up when a session is cached or a solve runs.
SolveInBackground(c) ==
  /\ bLoop /\ bCall[c].pc = "idle"
  /\ bCookies[BSite[c]] \/ HoldsDomain(BSite[c]) # {}
  /\ At(c, "done")
  /\ UNCHANGED <<browserVars, siteVars, bLoop>>

TakeDomain(c) ==
  /\ bCall[c].pc = "lock" /\ HoldsDomain(BSite[c]) = {}
  /\ At(c, IF c \in BExternal THEN "external" ELSE "queued")
  /\ UNCHANGED <<browserVars, siteVars, bLoop>>

DomainTimeout(c) ==
  /\ bCall[c].pc = "lock" /\ HoldsDomain(BSite[c]) # {}
  /\ At(c, "done")
  /\ UNCHANGED <<browserVars, siteVars, bLoop>>

SolveExternally(c) ==
  /\ bCall[c].pc = "external"
  /\ \E ok \in BOOLEAN :
        /\ Record(c, ok)
        /\ CacheCookies(BSite[c], ok)
  /\ At(c, "done")
  /\ UNCHANGED <<browserVars, bLoop>>

TakeSemaphore(c) ==
  /\ bLoop /\ bCall[c].pc = "queued" /\ Cardinality(InSemaphore) < BConc
  /\ At(c, "ensure")
  /\ UNCHANGED <<browserVars, siteVars, bLoop>>

WarmUp ==
  /\ bLoop /\ bCall[Warm].pc = "idle"
  /\ At(Warm, "ensure")
  /\ UNCHANGED <<browserVars, siteVars, bLoop>>

(***************************************************************************)
(* The browser, under the launch lock.                                     *)
(***************************************************************************)

\* _teardown_shared_browser, with every tracked profile directory.
TornDown(live, pids) ==
  /\ bLive' = live \ {bShared} /\ bPids' = pids \ {bShared}
  /\ bProfiles' = {} /\ bDirs' = bDirs \ bProfiles

Reusable == bShared # NoBrowser /\ bShared \in bLive /\ bCount < BMaxFetch
NoLaunchLock == TRUE
LaunchLockFree == bLaunch = FreeSlot

ReuseBrowser(c) ==
  /\ bLoop /\ bCall[c].pc = "ensure" /\ LaunchLockFree /\ Reusable
  /\ IF c = Warm THEN At(c, "done") /\ UNCHANGED bCount
     ELSE /\ bCall' = [bCall EXCEPT ![c].pc = "get", ![c].on = bShared]
          /\ bCount' = bCount + 1
  /\ UNCHANGED <<bShared, bLive, bPids, bProfiles, bDirs, bLaunched, bLaunch, siteVars, bLoop>>

\* A worn-out or dead browser is torn down before the next one is launched.
Launch(c) ==
  LET b == bLaunched + 1 IN
  /\ bLoop /\ bCall[c].pc = "ensure" /\ LaunchLockFree /\ ~Reusable /\ b \in Browsers
  /\ bCall' = [bCall EXCEPT ![c].pc = "launch", ![c].on = b]
  /\ bLaunch' = c /\ bLaunched' = b /\ bCount' = 0 /\ bShared' = NoBrowser
  /\ IF bShared = NoBrowser
     THEN /\ bLive' = bLive \cup {b} /\ UNCHANGED bPids
          /\ bProfiles' = bProfiles \cup {b} /\ bDirs' = bDirs \cup {b}
     ELSE /\ bLive' = (bLive \ {bShared}) \cup {b} /\ bPids' = bPids \ {bShared}
          /\ bProfiles' = {b} /\ bDirs' = (bDirs \ bProfiles) \cup {b}
  /\ UNCHANGED <<siteVars, bLoop>>

TrackChromium(b) == bPids' = bPids \cup {b}

LaunchDone(c) ==
  LET b == bCall[c].on IN
  /\ bLoop /\ bCall[c].pc = "launch" /\ b \in bLive
  /\ bShared' = b /\ TrackChromium(b) /\ bLaunch' = FreeSlot
  /\ IF c = Warm THEN At(c, "done") /\ UNCHANGED bCount ELSE At(c, "get") /\ bCount' = bCount + 1
  /\ UNCHANGED <<bLive, bProfiles, bDirs, bLaunched, siteVars, bLoop>>

\* A failed or cancelled launch kills what it started (_cleanup_partial).
CleanupPartial(b) ==
  /\ bLive' = bLive \ {b} /\ bProfiles' = bProfiles \ {b} /\ bDirs' = bDirs \ {b}

LaunchFails(c) ==
  /\ bLoop /\ bCall[c].pc = "launch"
  /\ CleanupPartial(bCall[c].on)
  /\ bCall' = [bCall EXCEPT ![c] = [pc |-> "done", try |-> 1, on |-> NoBrowser]]
  /\ bLaunch' = FreeSlot
  /\ Record(c, FALSE)
  /\ UNCHANGED <<bShared, bPids, bCount, bLaunched, bCookies, bLoop>>

\* A stalled page recycles the browser once, without the launch lock.
PageStalls(c) ==
  /\ bLoop /\ bCall[c].pc = "get" /\ bCall[c].try = 1
  /\ bShared' = NoBrowser
  /\ TornDown(bLive, bPids)
  /\ bCall' = [bCall EXCEPT ![c] = [pc |-> "ensure", try |-> 2, on |-> NoBrowser]]
  /\ UNCHANGED <<bCount, bLaunched, bLaunch, siteVars, bLoop>>

PageLoads(c) ==
  /\ bLoop /\ bCall[c].pc = "get" /\ bCall[c].on \in bLive
  /\ At(c, "page")
  /\ UNCHANGED <<browserVars, siteVars, bLoop>>

\* The call ends: its page is solved, or it fails, or its time is up.
Return(c, ok) ==
  /\ bCall' = [bCall EXCEPT ![c] = [pc |-> "done", try |-> 1, on |-> NoBrowser]]
  /\ Record(c, ok)

SolvePage(c) ==
  /\ bLoop /\ bCall[c].pc = "page" /\ bCall[c].on \in bLive
  /\ Return(c, TRUE)
  /\ CacheCookies(BSite[c], TRUE)
  /\ UNCHANGED <<browserVars, bLoop>>

Fails(c) ==
  /\ bLoop
  /\ \/ bCall[c].pc \in {"queued", "ensure", "page"}
     \/ bCall[c].pc = "get" /\ bCall[c].try = 2
  /\ c # Warm
  /\ Return(c, FALSE)
  /\ UNCHANGED <<browserVars, bCookies, bLoop>>

BrowserDies(b) ==
  /\ b \in bLive /\ bLive' = bLive \ {b}
  /\ UNCHANGED <<bCall, bShared, bPids, bProfiles, bDirs, bCount, bLaunched, bLaunch, siteVars, bLoop>>

\* shutdown kills the shared browser and the tracked ones and stops the loop.
Shutdown ==
  /\ bLoop /\ bLoop' = FALSE
  /\ bShared' = NoBrowser
  /\ bLive' = bLive \ (bPids \cup {bShared}) /\ bPids' = {}
  /\ bProfiles' = {} /\ bDirs' = bDirs \ bProfiles
  /\ UNCHANGED <<bCall, bCount, bLaunched, bLaunch, siteVars>>

BrowserNext ==
  \/ \E c \in BCalls : \/ Solve(c) \/ SolveInBackground(c) \/ TakeDomain(c) \/ DomainTimeout(c)
                       \/ SolveExternally(c) \/ TakeSemaphore(c)
                       \/ PageStalls(c) \/ PageLoads(c) \/ SolvePage(c) \/ Fails(c)
  \/ \E c \in Tasks : ReuseBrowser(c) \/ Launch(c) \/ LaunchDone(c) \/ LaunchFails(c)
  \/ \E d \in Sites : HalfOpen(d) \/ CookiesExpire(d)
  \/ \E b \in Browsers : BrowserDies(b)
  \/ WarmUp \/ Shutdown

BrowserSpec == BrowserInit /\ [][BrowserNext]_bVars

(***************************************************************************)
(* Properties.                                                             *)
(***************************************************************************)

\* At most one Chromium runs, however launches, stalls, recycling, deaths and
\* cancellations interleave: a second one would exhaust the memory of a small host.
OneBrowser == Cardinality(bLive) <= 1

\* A tear-down removes the profile directory of the browser it stops and of no other.
TeardownOwnProfile == [][\A c \in BCalls : PageStalls(c) => bDirs \ bDirs' \subseteq {bShared} \cup (bDirs \ bLive)]_bVars

\* No browser is left running by the shutdown.
ShutdownLeavesNone == ~bLoop => bLive = {}

=============================================================================
