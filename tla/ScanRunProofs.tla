----------------------------- MODULE ScanRunProofs -----------------------------
(***************************************************************************)
(* The run of a library scan, proved for any requests and bounds.          *)
(***************************************************************************)
EXTENDS ScanRun, TLAPS

LEMMA ScanRunNext == TypeOK /\ [Next]_vars => TypeOK'
<1>. SUFFICES ASSUME TypeOK, [Next]_vars PROVE TypeOK'
    OBVIOUS
<1>. USE ScanRunAssumption DEF TypeOK
<1>1. ASSUME NEW r \in Requests, TriggerCheck(r) \/ TriggerFlip(r) \/ TriggerEnqueue(r) PROVE TypeOK'
    BY <1>1 DEF TriggerCheck, TriggerFlip, TriggerEnqueue
<1>2. ASSUME NEW r \in Requests, TriggerCrash(r) PROVE TypeOK'
    BY <1>2 DEF TriggerCrash
<1>3. CASE TaskRuns
    BY <1>3 DEF TaskRuns
<1>4. CASE ScheduledScan \/ ScanMark \/ ScanEnd \/ ScanRelease
    BY <1>4 DEF ScheduledScan, ScanMark, ScanEnd, ScanRelease
<1>5. CASE ScanCrash
    BY <1>5 DEF ScanCrash
<1>6. CASE UNCHANGED vars
    BY <1>6 DEF vars
<1>. QED  BY <1>1, <1>2, <1>3, <1>4, <1>5, <1>6 DEF Next, RequestStep, ScanStep

\* In every reachable state scan_run has one of the states that trigger_scan knows, the
\* broker holds no more messages than it was given, and a message lost in a crash is counted
\* off once (_scan_and_cache and trigger_scan).
THEOREM ScanRunTyped == FairSpec => []TypeOK
<1>1. Init => TypeOK
    BY ScanRunAssumption DEF Init, TypeOK
<1>. QED  BY <1>1, ScanRunNext, PTL DEF FairSpec

================================================================================
