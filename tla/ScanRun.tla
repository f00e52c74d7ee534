------------------------------ MODULE ScanRun ------------------------------
(***************************************************************************)
(* When a library scan runs: the scan_run singleton, trigger_scan          *)
(* requests, the task that carries a request to the process that owns the  *)
(* brokers, the hourly schedule, and _SCAN_LOCK of that process.  What a   *)
(* scan does to scan_result_cache is in ScanImport.                        *)
(***************************************************************************)
EXTENDS Naturals

CONSTANTS
    Requests,   \* concurrent POST /scan requests
    AutoScan,   \* imports.auto_scan_enabled
    MaxTasks,   \* bound on run_library_scan_task messages in the broker
    MaxCrashes  \* bound on crashes of a process

ASSUME ScanRunAssumption ==
    AutoScan \in BOOLEAN /\ MaxTasks \in Nat /\ MaxCrashes \in Nat

VARIABLES
    scanRun,    \* scan_run.state
    req,        \* the position of each request
    tasks,      \* messages in the broker
    scan,       \* the position of the execution that holds _SCAN_LOCK
    crashes

vars == <<scanRun, req, tasks, scan, crashes>>

-----------------------------------------------------------------------------
(* trigger_scan *)

\* A request reads scan_run and goes on unless it says running ...
TriggerCheck(r) ==
    /\ req[r] = "idle"
    /\ scanRun # "running"
    /\ req' = [req EXCEPT ![r] = "checked"]
    /\ UNCHANGED <<scanRun, tasks, scan, crashes>>

\* ... flips it up front ...
TriggerFlip(r) ==
    /\ req[r] = "checked"
    /\ scanRun' = "running"
    /\ req' = [req EXCEPT ![r] = "flipped"]
    /\ UNCHANGED <<tasks, scan, crashes>>

\* ... and enqueues the task; a failure to enqueue is written to scan_run.
TriggerEnqueue(r) ==
    /\ req[r] = "flipped"
    /\ \/ tasks < MaxTasks /\ tasks' = tasks + 1 /\ UNCHANGED scanRun
       \/ scanRun' = "error" /\ UNCHANGED tasks
    /\ req' = [req EXCEPT ![r] = "idle"]
    /\ UNCHANGED <<scan, crashes>>

\* The process that serves the request dies, or the write of the error raises.
TriggerCrash(r) ==
    /\ crashes < MaxCrashes
    /\ req[r] # "idle"
    /\ req' = [req EXCEPT ![r] = "idle"]
    /\ crashes' = crashes + 1
    /\ UNCHANGED <<scanRun, tasks, scan>>

-----------------------------------------------------------------------------
(* _scan_and_cache *)

\* run_library_scan_task: skipped while another scan holds the lock.
TaskRuns ==
    /\ tasks > 0
    /\ tasks' = tasks - 1
    /\ scan' = IF scan = "idle" THEN "locked" ELSE scan
    /\ UNCHANGED <<scanRun, req, crashes>>

\* scheduled_library_scan
ScheduledScan ==
    /\ AutoScan
    /\ scan = "idle"
    /\ scan' = "locked"
    /\ UNCHANGED <<scanRun, req, tasks, crashes>>

\* Phase 1 marks the run; outside the try, so its failure just ends the scan.
ScanMark ==
    /\ scan = "locked"
    /\ \/ scanRun' = "running" /\ scan' = "body"
       \/ scan' = "release" /\ UNCHANGED scanRun
    /\ UNCHANGED <<req, tasks, crashes>>

\* Mutant: the except clause logs and forgets the run.
ScanEndSilent ==
    /\ scan = "body"
    /\ scanRun' \in {scanRun, "done"}
    /\ scan' = "release"
    /\ UNCHANGED <<req, tasks, crashes>>

\* Mutant: the except clause writes a state that ScanRunState does not have.
ScanEndFailed ==
    /\ scan = "body"
    /\ scanRun' \in {"done", "failed"}
    /\ scan' = "release"
    /\ UNCHANGED <<req, tasks, crashes>>

\* Phases 2 to 5 end in done, or in error through the except clause.
ScanEnd ==
    /\ scan = "body"
    /\ scanRun' \in {"done", "error"}
    /\ scan' = "release"
    /\ UNCHANGED <<req, tasks, crashes>>

\* The session is closed and the lock released.
ScanRelease ==
    /\ scan = "release"
    /\ scan' = "idle"
    /\ UNCHANGED <<scanRun, req, tasks, crashes>>

\* The process that runs the scan dies, and with it the lock and, maybe, a
\* message it had taken from the broker, or the except clause's own write
\* raises; scan_run stays as it is.
ScanCrash ==
    /\ crashes < MaxCrashes
    /\ scan' = "idle"
    /\ tasks' \in {tasks, IF tasks > 0 THEN tasks - 1 ELSE 0}
    /\ crashes' = crashes + 1
    /\ UNCHANGED <<scanRun, req>>

-----------------------------------------------------------------------------
Init ==
    /\ scanRun = "idle"
    /\ req = [r \in Requests |-> "idle"]
    /\ tasks = 0
    /\ scan = "idle"
    /\ crashes = 0

RequestStep(r) == TriggerCheck(r) \/ TriggerFlip(r) \/ TriggerEnqueue(r) \/ TriggerCrash(r)

ScanStep == ScanMark \/ ScanEnd \/ ScanRelease

Next ==
    \/ \E r \in Requests : RequestStep(r)
    \/ TaskRuns
    \/ ScheduledScan
    \/ ScanStep
    \/ ScanCrash

\* A request that is being served goes on, a message is delivered, the schedule
\* comes round, a scan that runs comes to an end, and its phase 1 (one UPDATE)
\* does not fail for ever.
Fairness ==
    /\ \A r \in Requests : WF_vars(TriggerFlip(r) \/ TriggerEnqueue(r))
    /\ WF_vars(TaskRuns)
    /\ WF_vars(ScheduledScan)
    /\ WF_vars(ScanStep)
    /\ SF_vars(ScanMark /\ scan' = "body")

FairSpec == Init /\ [][Next]_vars /\ Fairness

-----------------------------------------------------------------------------
\* Every variable has its type.
TypeOK ==
    /\ scanRun \in {"idle", "running", "done", "error"}
    /\ req \in [Requests -> {"idle", "checked", "flipped"}]
    /\ tasks \in 0 .. MaxTasks
    /\ scan \in {"idle", "locked", "body", "release"}
    /\ crashes \in 0 .. MaxCrashes

\* The Scan button comes back: trigger_scan refuses while scan_run says
\* running, and that does not last for ever.
RunningEnds == (scanRun = "running") ~> (scanRun # "running")

=============================================================================
