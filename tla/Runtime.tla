-------------------------------- MODULE Runtime --------------------------------
(***************************************************************************)
(* The life of the processes (main.lifespan, startup.py,                    *)
(* scheduler_entrypoint.py), the election of the one that schedules by a    *)
(* session-level advisory lock, the task lanes of scheduler.py with the     *)
(* in-process sweep locks, and the database sessions of database/.          *)
(*                                                                         *)
(* The lock lives in a connection.  acquire_scheduler_leadership executes   *)
(* one statement on it and keeps it: SQLAlchemy has begun a transaction by  *)
(* then, so the connection is idle in transaction, and a server with        *)
(* idle_in_transaction_session_timeout (300 s in docker-compose.yaml) ends  *)
(* it, which frees the lock.                                                *)
(***************************************************************************)
EXTENDS Naturals, FiniteSets

CONSTANTS OWorkers,     \* web workers with the scheduler enabled
          OApi,         \* web workers with MIRAMEDIA_SCHEDULER_DISABLED=true
          ODedicated,   \* processes of scheduler_entrypoint
          OSweeps,      \* the tasks that run under an in-process sweep lock
          OLane,        \* max_async_tasks of the background receiver
          OSessions,    \* database sessions of requests and tasks
          OMaxStarts,   \* bound: starts of a process
          OMaxQueued,   \* bound: messages of one task in the broker's table
          OMaxFaults    \* bound: failing steps and killed processes

OProcs == OWorkers \cup OApi \cup ODedicated

ASSUME RuntimeAssumption ==
    /\ OWorkers \cap (OApi \cup ODedicated) = {} /\ OApi \cap ODedicated = {}
    /\ IsFiniteSet(OProcs) /\ IsFiniteSet(OSweeps) /\ IsFiniteSet(OSessions)
    /\ OLane \in Nat \ {0} /\ OMaxStarts \in Nat /\ OMaxQueued \in Nat /\ OMaxFaults \in Nat

VARIABLES proc,      \* [OProcs -> the stage a process is in]
          parts,     \* [OProcs -> SUBSET Parts], what the process has started
          conn,      \* [OProcs -> {"none", "lock", "open", "dead"}], scheduler_leader_conn
          queue,     \* [OSweeps -> 0..OMaxQueued], rows of taskiq_messages_background
          kicks,     \* [OProcs -> SUBSET OSweeps], what the startup kick has yet to submit
          sweeping,  \* [OProcs -> SUBSET OSweeps], sweeps whose lock the process holds
          sess,      \* [OSessions -> the state of a database session]
          starts, faults

oVars == <<proc, parts, conn, queue, kicks, sweeping, sess, starts, faults>>

SchedulerParts == {"brokers", "sources", "receivers", "loop"}
Parts == SchedulerParts \cup {"bridge", "tasks", "native", "browser", "kick"}

\* lifespan's order; the stages up to "election" run in every web worker.
BootStages == {"persistence", "services", "election", "workers"}
\* _shutdown_startup_impl's order.
StopStages == {"stopKick", "stopLoop", "stopTasks", "stopReceivers", "stopBrokers",
               "stopClients", "unlock", "stopBridge"}
Procs == {"down", "serving"} \cup BootStages \cup StopStages

BootFaults == faults < OMaxFaults /\ faults' = faults + 1
Fine == faults' = faults

RuntimeInit ==
    /\ proc = [p \in OProcs |-> "down"] /\ parts = [p \in OProcs |-> {}]
    /\ conn = [p \in OProcs |-> "none"] /\ queue = [t \in OSweeps |-> 0]
    /\ kicks = [p \in OProcs |-> {}] /\ sweeping = [p \in OProcs |-> {}]
    /\ sess = [s \in OSessions |-> "closed"] /\ starts = [p \in OProcs |-> 0] /\ faults = 0

ProcGoes(p, stage) == proc' = [proc EXCEPT ![p] = stage]
Has(p, what) == parts' = [parts EXCEPT ![p] = @ \cup what]
Loses(p, what) == parts' = [parts EXCEPT ![p] = @ \ what]
LockFree == \A p \in OProcs : conn[p] # "lock"

-----------------------------------------------------------------------------
(* Start.                                                                  *)

Start(p) ==
    /\ proc[p] = "down" /\ starts[p] < OMaxStarts
    /\ starts' = [starts EXCEPT ![p] = @ + 1]
    /\ ProcGoes(p, IF p \in ODedicated THEN "election" ELSE "persistence")
    /\ UNCHANGED <<parts, conn, queue, kicks, sweeping, sess, faults>>

\* start_persistence: the bridge is optional, what follows it is not; the
\* subscriber is the first of _startup_tasks.
StartPersistence(p) ==
    /\ proc[p] = "persistence"
    /\ \/ \E bridge \in {{}, {"bridge"}} :
             /\ IF bridge = {} THEN BootFaults ELSE Fine
             /\ Has(p, bridge \cup {"tasks"}) /\ ProcGoes(p, "services")
       \/ /\ BootFaults /\ Has(p, {"bridge"}) /\ ProcGoes(p, "stopKick")
    /\ UNCHANGED <<conn, queue, kicks, sweeping, sess, starts>>

\* The library watcher, the queue warm-up, the torrent client and the browser:
\* none of them can fail the start.
StartServices(p) ==
    /\ proc[p] = "services"
    /\ \E native \in {{}, {"native"}} :
          /\ IF native = {} THEN BootFaults ELSE Fine
          /\ Has(p, native \cup {"tasks", "browser"})
    /\ ProcGoes(p, IF p \in OApi THEN "serving" ELSE "election")
    /\ UNCHANGED <<conn, queue, kicks, sweeping, sess, starts>>

\* acquire_scheduler_leadership.  The loser keeps its connection and serves;
\* a dedicated process that loses exits.
AcquireLeadership(p) ==
    /\ proc[p] = "election"
    /\ \/ /\ LockFree /\ conn' = [conn EXCEPT ![p] = "lock"] /\ ProcGoes(p, "workers")
       \/ /\ ~LockFree /\ p \notin ODedicated
          /\ conn' = [conn EXCEPT ![p] = "open"] /\ ProcGoes(p, "serving")
       \/ /\ ~LockFree /\ p \in ODedicated /\ ProcGoes(p, "down") /\ UNCHANGED conn
    /\ UNCHANGED <<parts, queue, kicks, sweeping, sess, starts, faults>>

\* start_scheduler_workers and the rest of scheduler_entrypoint._run.  A broker
\* or a source that does not start raises: lifespan shuts down, a dedicated
\* process dies.
StartWorkers(p) ==
    /\ proc[p] = "workers" /\ p \in OWorkers
    /\ \/ /\ Has(p, SchedulerParts \cup {"kick"}) /\ ProcGoes(p, "serving") /\ Fine
          /\ kicks' = [kicks EXCEPT ![p] = OSweeps]
       \/ \E half \in SUBSET {"brokers"} :
             Has(p, half) /\ ProcGoes(p, "stopKick") /\ BootFaults /\ UNCHANGED kicks
    /\ UNCHANGED <<conn, queue, sweeping, sess, starts>>

RunDedicated(p) ==
    /\ proc[p] = "workers" /\ p \in ODedicated
    /\ Has(p, SchedulerParts) /\ ProcGoes(p, "serving")
    /\ UNCHANGED <<conn, queue, kicks, sweeping, sess, starts, faults>>

\* A killed process, a dedicated one stopped by its keyboard interrupt: what it
\* held in the database goes with its connections.
Exit(p) ==
    /\ ProcGoes(p, "down") /\ parts' = [parts EXCEPT ![p] = {}]
    /\ conn' = [conn EXCEPT ![p] = "none"] /\ kicks' = [kicks EXCEPT ![p] = {}]
    /\ sweeping' = [sweeping EXCEPT ![p] = {}]

Killed(p) ==
    /\ proc[p] # "down" /\ Exit(p) /\ BootFaults /\ UNCHANGED <<queue, sess, starts>>

-----------------------------------------------------------------------------
(* Stop: _shutdown_startup_impl, each step best effort, in its order.      *)

\* The order of a plausible rewrite: the lock first.
UnlockFirst(p) ==
    /\ proc[p] = "serving" /\ p \notin ODedicated /\ ProcGoes(p, "stopKick")
    /\ conn' = [conn EXCEPT ![p] = IF @ = "dead" THEN @ ELSE "none"]
    /\ UNCHANGED <<parts, queue, kicks, sweeping, sess, starts, faults>>

\* The tests call it twice and at once; lifespan calls it once, in its finally.
ShutdownStartup(p) ==
    /\ proc[p] = "serving" /\ p \notin ODedicated /\ ProcGoes(p, "stopKick")
    /\ UNCHANGED <<parts, conn, queue, kicks, sweeping, sess, starts, faults>>

\* A best-effort step: it releases its parts, or fails and leaves them.
BestEffort(p, from, what, to) ==
    /\ proc[p] = from /\ ProcGoes(p, to)
    /\ \/ Loses(p, what) /\ Fine
       \/ parts[p] \cap what # {} /\ UNCHANGED parts /\ BootFaults

StopKick(p) ==
    /\ proc[p] = "stopKick" /\ ProcGoes(p, "stopLoop") /\ Loses(p, {"kick"})
    /\ kicks' = [kicks EXCEPT ![p] = {}]
    /\ UNCHANGED <<conn, queue, sweeping, sess, starts, faults>>

\* The loop task is cancelled and awaited: cancellation is not a failure.
StopLoop(p) ==
    /\ proc[p] = "stopLoop" /\ ProcGoes(p, "stopTasks") /\ Loses(p, {"loop"})
    /\ UNCHANGED <<conn, queue, kicks, sweeping, sess, starts, faults>>

StopTasks(p) ==
    /\ BestEffort(p, "stopTasks", {"tasks"}, "stopReceivers")
    /\ UNCHANGED <<conn, queue, kicks, sweeping, sess, starts>>

\* The receivers are told to finish and awaited: they claim no more, and end
\* when the tasks they run have ended.
FinishReceivers(p) ==
    /\ proc[p] = "stopReceivers" /\ sweeping[p] = {}
    /\ ProcGoes(p, "stopBrokers") /\ Loses(p, {"receivers"})
    /\ UNCHANGED <<conn, queue, kicks, sweeping, sess, starts, faults>>

StopBrokers(p) ==
    /\ BestEffort(p, "stopBrokers", {"sources", "brokers"}, "stopClients")
    /\ UNCHANGED <<conn, queue, kicks, sweeping, sess, starts>>

StopClients(p) ==
    /\ BestEffort(p, "stopClients", {"native", "browser"}, "unlock")
    /\ UNCHANGED <<conn, queue, kicks, sweeping, sess, starts>>

\* _release_scheduler_lock: pg_advisory_unlock raises on a dead connection, and
\* then close is not reached; either is logged and the shutdown goes on.
ReleaseSchedulerLock(p) ==
    /\ proc[p] = "unlock" /\ ProcGoes(p, "stopBridge")
    /\ conn' = [conn EXCEPT ![p] = IF @ = "dead" THEN @ ELSE "none"]
    /\ UNCHANGED <<parts, queue, kicks, sweeping, sess, starts, faults>>

StopBridge(p) ==
    /\ proc[p] = "stopBridge" /\ Exit(p)
    /\ UNCHANGED <<queue, sess, starts, faults>>

-----------------------------------------------------------------------------
(* The lanes: cron and kicked messages, claimed by DELETE ... RETURNING.   *)

Enqueued(t) == queue[t] < OMaxQueued /\ queue' = [queue EXCEPT ![t] = @ + 1]

\* The scheduler loop of _STARTUP_SCHEDULES.
Cron(p, t) ==
    /\ "loop" \in parts[p] /\ Enqueued(t)
    /\ UNCHANGED <<proc, parts, conn, kicks, sweeping, sess, starts, faults>>

\* _kick_startup_tasks, thirty seconds after the start.
KickStartupTask(p, t) ==
    /\ t \in kicks[p] /\ Enqueued(t) /\ kicks' = [kicks EXCEPT ![p] = @ \ {t}]
    /\ UNCHANGED <<proc, parts, conn, sweeping, sess, starts, faults>>

Claims(p) == "receivers" \in parts[p] /\ proc[p] # "stopReceivers"

\* run_unless_locked: a sweep whose lock is held in this process is skipped.
RunUnlessLocked(p, t) ==
    /\ Claims(p) /\ queue[t] > 0 /\ Cardinality(sweeping[p]) < OLane
    /\ queue' = [queue EXCEPT ![t] = @ - 1]
    /\ sweeping' = [sweeping EXCEPT ![p] = @ \cup {t}]
    /\ UNCHANGED <<proc, parts, conn, kicks, sess, starts, faults>>

SweepEnds(p, t) ==
    /\ t \in sweeping[p] /\ sweeping' = [sweeping EXCEPT ![p] = @ \ {t}]
    /\ UNCHANGED <<proc, parts, conn, queue, kicks, sess, starts, faults>>

\* purge_old_taskiq_messages: rows nobody claimed for seven days.
PurgeOldMessages(p) ==
    /\ Claims(p) /\ \E t \in OSweeps : queue[t] > 0
    /\ queue' = [t \in OSweeps |-> 0]
    /\ UNCHANGED <<proc, parts, conn, kicks, sweeping, sess, starts, faults>>

-----------------------------------------------------------------------------
(* Sessions and the server's timeout.                                      *)

\* get_session and background_session: the first statement opens a transaction.
OpenSession(s) ==
    /\ sess[s] \in {"closed", "released"} /\ sess' = [sess EXCEPT ![s] = "open"]
    /\ UNCHANGED <<proc, parts, conn, queue, kicks, sweeping, starts, faults>>

\* release_session_before_external_io: a commit that fails is rolled back, and
\* the session is closed in both cases.
ReleaseBeforeExternalIo(s) ==
    /\ sess[s] \in {"open", "dead"} /\ sess' = [sess EXCEPT ![s] = "released"]
    /\ UNCHANGED <<proc, parts, conn, queue, kicks, sweeping, starts, faults>>

\* The commit at the end of the scope: it raises on a reaped connection.
EndSession(s) ==
    /\ sess[s] # "closed" /\ sess' = [sess EXCEPT ![s] = "closed"]
    /\ UNCHANGED <<proc, parts, conn, queue, kicks, sweeping, starts, faults>>

\* idle_in_transaction_session_timeout of the server.
ReapIdleSession(s) ==
    /\ sess[s] = "open" /\ sess' = [sess EXCEPT ![s] = "dead"]
    /\ UNCHANGED <<proc, parts, conn, queue, kicks, sweeping, starts, faults>>

ReapLeaderConnection(p) ==
    /\ conn[p] \in {"lock", "open"} /\ BootFaults /\ conn' = [conn EXCEPT ![p] = "dead"]
    /\ UNCHANGED <<proc, parts, queue, kicks, sweeping, sess, starts>>

-----------------------------------------------------------------------------
Lifespan(p) ==
    \/ Start(p) \/ StartPersistence(p) \/ StartServices(p) \/ AcquireLeadership(p)
    \/ StartWorkers(p) \/ RunDedicated(p) \/ Killed(p) \/ ShutdownStartup(p)
    \/ StopKick(p) \/ StopLoop(p) \/ StopTasks(p) \/ FinishReceivers(p) \/ StopBrokers(p)
    \/ StopClients(p) \/ ReleaseSchedulerLock(p) \/ StopBridge(p)
    \/ PurgeOldMessages(p) \/ ReapLeaderConnection(p)

RuntimeNext ==
    \/ \E p \in OProcs : Lifespan(p)
    \/ \E p \in OProcs, t \in OSweeps :
          Cron(p, t) \/ KickStartupTask(p, t) \/ RunUnlessLocked(p, t) \/ SweepEnds(p, t)
    \/ \E s \in OSessions :
          OpenSession(s) \/ ReleaseBeforeExternalIo(s) \/ EndSession(s) \/ ReapIdleSession(s)

RuntimeSpec == RuntimeInit /\ [][RuntimeNext]_oVars

-----------------------------------------------------------------------------
\* Processes by their life cycle, their connections and what the broker holds (startup.py).
RuntimeTypeOK ==
    /\ proc \in [OProcs -> Procs] /\ parts \in [OProcs -> SUBSET Parts]
    /\ conn \in [OProcs -> {"none", "lock", "open", "dead"}]
    /\ queue \in [OSweeps -> 0..OMaxQueued] /\ kicks \in [OProcs -> SUBSET OSweeps]
    /\ sweeping \in [OProcs -> SUBSET OSweeps]
    /\ sess \in [OSessions -> {"closed", "open", "released", "dead"}]
    /\ starts \in [OProcs -> 0..OMaxStarts] /\ faults \in 0..OMaxFaults

Schedules(p) == "loop" \in parts[p] \/ sweeping[p] # {}

\* The abstraction: who schedules, and whose connection the server has ended.
Scheduling == {p \in OProcs : Schedules(p)}
Severed == {p \in OProcs : conn[p] = "dead"}

Lease == INSTANCE SchedulerLease
           WITH Members <- OProcs, active <- Scheduling, severed <- Severed

\* The election implements the lease: the lock is taken before the workers start
\* and given back after the loop and every running sweep have ended, in every
\* order of starts, failures, stops and kills.
ImplementsLease == Lease!LeaseSpec

\* Hence two processes never schedule, or sweep, at the same time as long as the
\* server has not ended the connection of one of them.
SchedulersExclude ==
    \A p, q \in OProcs : Schedules(p) /\ Schedules(q) /\ p # q => "dead" \in {conn[p], conn[q]}

\* What startup.py and imports/queue/sync.py say the lock gives: one scheduler.
\* The server's idle-in-transaction timeout takes the lock from a live leader.
OneScheduler == \A p, q \in OProcs : Schedules(p) /\ Schedules(q) => p = q
=============================================================================
