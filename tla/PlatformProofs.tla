----------------------------- MODULE PlatformProofs -----------------------------
(***************************************************************************)
(* What the application rests on, proved for every value of the constants: *)
(* one inductive invariant per component, the properties that follow from  *)
(* it, and at the end the same of the behaviours of MCPlatform.            *)
(*                                                                         *)
(* The election of the scheduler: Runtime implements SchedulerLease.  The  *)
(* inductive invariant says at which stage of its life a process may still *)
(* schedule or sweep, and that it has taken the lock's connection before   *)
(* and keeps it until it does neither.                                     *)
(***************************************************************************)
EXTENDS MCPlatform, OrderLemmas, SequenceTheorems, TLAPS

\* The stages at which the loop of the schedules does not run yet, or no more.
NoLoop == BootStages \cup {"down"} \cup (StopStages \ {"stopKick", "stopLoop"})

\* The stages at which nothing is claimed or swept.
NoSweep == BootStages \cup {"down", "stopBrokers", "stopClients", "unlock", "stopBridge"}

\* A process that may schedule has a connection that holds the lock, or held it.
ProcInv(p) ==
    /\ proc[p] \in NoLoop => "loop" \notin parts[p]
    /\ proc[p] \in NoSweep => "receivers" \notin parts[p] /\ sweeping[p] = {}
    /\ \/ proc[p] = "workers" \/ "loop" \in parts[p]
       \/ "receivers" \in parts[p] \/ sweeping[p] # {}
       => conn[p] \in {"lock", "dead"}

OneLock == \A p, q \in OProcs : conn[p] = "lock" /\ conn[q] = "lock" => p = q

RuntimeInv == RuntimeTypeOK /\ (\A p \in OProcs : ProcInv(p)) /\ OneLock

(***************************************************************************)
(* The lease excludes: of two active processes one has lost its            *)
(* connection.  Both facts are about the lease alone, under its mapping.   *)
(***************************************************************************)
THEOREM LeaseExcludes == Lease!LeaseSpec => []Lease!Exclusion
<1>1. Lease!LeaseInit => Lease!Exclusion
  BY DEF Lease!LeaseInit, Lease!Exclusion
<1>2. Lease!Exclusion /\ [Lease!LeaseNext]_Lease!leaseVars => Lease!Exclusion'
  BY DEF Lease!Exclusion, Lease!LeaseNext, Lease!leaseVars, Lease!Begin, Lease!End,
         Lease!Sever, Lease!Reconnect
<1>. QED  BY <1>1, <1>2, PTL DEF Lease!LeaseSpec

LEMMA RuntimeInvInit == RuntimeInit => RuntimeInv
BY RuntimeAssumption DEF RuntimeInit, RuntimeInv, RuntimeTypeOK, ProcInv, OneLock, Procs, Parts,
   NoLoop, NoSweep

(***************************************************************************)
(* Every step preserves the invariant: one step of the proof per action.   *)
(***************************************************************************)
LEMMA RuntimeInvNext == RuntimeInv /\ [RuntimeNext]_oVars => RuntimeInv'
<1>. SUFFICES ASSUME RuntimeInv, [RuntimeNext]_oVars PROVE RuntimeInv'
  OBVIOUS
<1>. USE RuntimeAssumption DEF RuntimeInv, RuntimeTypeOK, ProcInv, OneLock, Procs, Parts,
         SchedulerParts, BootStages, StopStages, NoLoop, NoSweep,
         BootFaults, Fine, ProcGoes, Has, Loses
<1>1. ASSUME NEW p \in OProcs, Start(p) PROVE RuntimeInv'
  BY <1>1 DEF Start
<1>2. ASSUME NEW p \in OProcs, StartPersistence(p) PROVE RuntimeInv'
  BY <1>2 DEF StartPersistence
<1>3. ASSUME NEW p \in OProcs, StartServices(p) PROVE RuntimeInv'
  BY <1>3 DEF StartServices
<1>4. ASSUME NEW p \in OProcs, AcquireLeadership(p) PROVE RuntimeInv'
  BY <1>4 DEF AcquireLeadership, LockFree
<1>5. ASSUME NEW p \in OProcs, StartWorkers(p) PROVE RuntimeInv'
  <2>1. /\ proc[p] = "workers" /\ p \in OWorkers
        /\ UNCHANGED <<conn, queue, sweeping, sess, starts>>
    BY <1>5 DEF StartWorkers
  <2>2. CASE /\ Has(p, SchedulerParts \cup {"kick"}) /\ ProcGoes(p, "serving") /\ Fine
             /\ kicks' = [kicks EXCEPT ![p] = OSweeps]
    BY <2>1, <2>2
  <2>3. ASSUME NEW half \in SUBSET {"brokers"},
               Has(p, half), ProcGoes(p, "stopKick"), BootFaults, UNCHANGED kicks
        PROVE  RuntimeInv'
    <3>. DEFINE left == parts[p] \cup half
    <3>1. left \in SUBSET Parts /\ "loop" \notin left /\ "receivers" \notin left
      BY <2>1
    <3>2. parts' = [parts EXCEPT ![p] = left] /\ proc' = [proc EXCEPT ![p] = "stopKick"]
      BY <2>3
    <3>3. faults < OMaxFaults /\ faults' = faults + 1 /\ UNCHANGED kicks
      BY <2>3
    <3>. HIDE DEF left
    <3>. QED  BY <2>1, <3>1, <3>2, <3>3
  <2>. QED  BY <1>5, <2>2, <2>3 DEF StartWorkers
<1>6. ASSUME NEW p \in OProcs, RunDedicated(p) PROVE RuntimeInv'
  BY <1>6 DEF RunDedicated
<1>7. ASSUME NEW p \in OProcs, Killed(p) PROVE RuntimeInv'
  BY <1>7 DEF Killed, Exit
<1>8. ASSUME NEW p \in OProcs, ShutdownStartup(p) PROVE RuntimeInv'
  BY <1>8 DEF ShutdownStartup
<1>9. ASSUME NEW p \in OProcs, StopKick(p) PROVE RuntimeInv'
  BY <1>9 DEF StopKick
<1>10. ASSUME NEW p \in OProcs, StopLoop(p) PROVE RuntimeInv'
  BY <1>10 DEF StopLoop
<1>11. ASSUME NEW p \in OProcs, StopTasks(p) PROVE RuntimeInv'
  BY <1>11 DEF StopTasks, BestEffort
<1>12. ASSUME NEW p \in OProcs, FinishReceivers(p) PROVE RuntimeInv'
  BY <1>12 DEF FinishReceivers
<1>13. ASSUME NEW p \in OProcs, StopBrokers(p) PROVE RuntimeInv'
  BY <1>13 DEF StopBrokers, BestEffort
<1>14. ASSUME NEW p \in OProcs, StopClients(p) PROVE RuntimeInv'
  BY <1>14 DEF StopClients, BestEffort
<1>15. ASSUME NEW p \in OProcs, ReleaseSchedulerLock(p) PROVE RuntimeInv'
  BY <1>15 DEF ReleaseSchedulerLock
<1>16. ASSUME NEW p \in OProcs, StopBridge(p) PROVE RuntimeInv'
  BY <1>16 DEF StopBridge, Exit
<1>17. ASSUME NEW p \in OProcs, PurgeOldMessages(p) PROVE RuntimeInv'
  BY <1>17 DEF PurgeOldMessages, Claims
<1>18. ASSUME NEW p \in OProcs, ReapLeaderConnection(p) PROVE RuntimeInv'
  BY <1>18 DEF ReapLeaderConnection
<1>19. ASSUME NEW p \in OProcs, NEW t \in OSweeps, Cron(p, t) PROVE RuntimeInv'
  BY <1>19 DEF Cron, Enqueued
<1>20. ASSUME NEW p \in OProcs, NEW t \in OSweeps, KickStartupTask(p, t) PROVE RuntimeInv'
  BY <1>20 DEF KickStartupTask, Enqueued
<1>21. ASSUME NEW p \in OProcs, NEW t \in OSweeps, RunUnlessLocked(p, t) PROVE RuntimeInv'
  BY <1>21 DEF RunUnlessLocked, Claims
<1>22. ASSUME NEW p \in OProcs, NEW t \in OSweeps, SweepEnds(p, t) PROVE RuntimeInv'
  BY <1>22 DEF SweepEnds
<1>23. ASSUME NEW s \in OSessions, OpenSession(s) PROVE RuntimeInv'
  BY <1>23 DEF OpenSession
<1>24. ASSUME NEW s \in OSessions, ReleaseBeforeExternalIo(s) PROVE RuntimeInv'
  BY <1>24 DEF ReleaseBeforeExternalIo
<1>25. ASSUME NEW s \in OSessions, EndSession(s) PROVE RuntimeInv'
  BY <1>25 DEF EndSession
<1>26. ASSUME NEW s \in OSessions, ReapIdleSession(s) PROVE RuntimeInv'
  BY <1>26 DEF ReapIdleSession
<1>27. CASE UNCHANGED oVars
  BY <1>27 DEF oVars
<1>. HIDE DEF RuntimeInv
<1>. QED
  BY <1>1, <1>2, <1>3, <1>4, <1>5, <1>6, <1>7, <1>8, <1>9, <1>10, <1>11, <1>12, <1>13, <1>14, <1>15, <1>16, <1>17, <1>18, <1>19, <1>20, <1>21, <1>22, <1>23, <1>24, <1>25, <1>26, <1>27 DEF RuntimeNext, Lifespan

\* The invariant of the processes, types included, holds in every reachable state.
THEOREM RuntimeInvariant == RuntimeSpec => []RuntimeInv
BY RuntimeInvInit, RuntimeInvNext, PTL DEF RuntimeSpec

\* Every reachable state of Runtime is well typed.
THEOREM RuntimeTyped == RuntimeSpec => []RuntimeTypeOK
BY RuntimeInvariant, PTL DEF RuntimeInv

(***************************************************************************)
(* A step of one process is a step of the lease or a stutter when the rest *)
(* is as it was, the connection of a process that goes on scheduling stays *)
(* lost once lost, and no connection is lost by stopping or changes when   *)
(* the process begins.  The guard of Begin follows from the invariant.     *)
(***************************************************************************)
LEMMA LocalStep ==
  ASSUME RuntimeInv, RuntimeInv', NEW p \in OProcs,
         \A q \in OProcs \ {p} : /\ Schedules(q)' = Schedules(q)
                                 /\ conn'[q] = conn[q],
         Schedules(p) /\ Schedules(p)' /\ conn[p] = "dead" => conn'[p] = "dead",
         Schedules(p) /\ ~Schedules(p)' /\ conn'[p] = "dead" => conn[p] = "dead",
         ~Schedules(p) /\ Schedules(p)' => conn'[p] = conn[p]
  PROVE  [Lease!LeaseNext]_Lease!leaseVars
<1>. DEFINE lost == conn[p] = "dead"
            lostNext == conn'[p] = "dead"
<1>1. Scheduling' = IF Schedules(p)' THEN Scheduling \cup {p} ELSE Scheduling \ {p}
  BY DEF Scheduling
<1>2. Severed' = IF lostNext THEN Severed \cup {p} ELSE Severed \ {p}
  BY DEF Severed
<1>3. (p \in Scheduling <=> Schedules(p)) /\ (p \in Severed <=> lost)
  BY DEF Scheduling, Severed
<1>4. CASE Schedules(p) /\ Schedules(p)'
  BY <1>1, <1>2, <1>3, <1>4 DEF Lease!LeaseNext, Lease!leaseVars, Lease!Sever
<1>5. CASE Schedules(p) /\ ~Schedules(p)'
  BY <1>1, <1>2, <1>3, <1>5 DEF Lease!LeaseNext, Lease!leaseVars, Lease!End
<1>6. CASE ~Schedules(p) /\ ~Schedules(p)'
  BY <1>1, <1>2, <1>3, <1>6 DEF Lease!LeaseNext, Lease!leaseVars, Lease!Sever, Lease!Reconnect
<1>7. CASE ~Schedules(p) /\ Schedules(p)'
  <2>1. Severed' = Severed
    BY <1>2, <1>3, <1>7
  <2>2. ~lost => conn[p] = "lock"
    BY <1>7 DEF RuntimeInv, ProcInv, Schedules
  <2>3. ASSUME ~lost, NEW q \in Scheduling PROVE q \in Severed
    BY <1>3, <1>7, <2>2, <2>3 DEF RuntimeInv, ProcInv, OneLock, Scheduling, Severed, Schedules
  <2>. QED  BY <1>1, <1>3, <1>7, <2>1, <2>3 DEF Lease!LeaseNext, Lease!leaseVars, Lease!Begin
<1>. QED  BY <1>4, <1>5, <1>6, <1>7

LEMMA LeaseInitial == RuntimeInit => Lease!LeaseInit
BY DEF RuntimeInit, Lease!LeaseInit, Scheduling, Severed, Schedules

LEMMA LeaseStep == RuntimeInv /\ RuntimeInv' /\ [RuntimeNext]_oVars
                     => [Lease!LeaseNext]_Lease!leaseVars
<1>. SUFFICES ASSUME RuntimeInv, RuntimeInv', [RuntimeNext]_oVars
              PROVE  [Lease!LeaseNext]_Lease!leaseVars
  OBVIOUS
<1>t. RuntimeTypeOK /\ \A p \in OProcs : ProcInv(p)
  BY DEF RuntimeInv
<1>. DEFINE Local(p) ==
       /\ \A q \in OProcs \ {p} : Schedules(q)' = Schedules(q) /\ conn'[q] = conn[q]
       /\ Schedules(p) /\ Schedules(p)' /\ conn[p] = "dead" => conn'[p] = "dead"
       /\ Schedules(p) /\ ~Schedules(p)' /\ conn'[p] = "dead" => conn[p] = "dead"
       /\ ~Schedules(p) /\ Schedules(p)' => conn'[p] = conn[p]
<1>l. ASSUME NEW p \in OProcs, Local(p) PROVE [Lease!LeaseNext]_Lease!leaseVars
  BY <1>l, LocalStep
<1>. USE <1>t DEF RuntimeTypeOK, ProcInv, Schedules, SchedulerParts, BootStages, StopStages,
         NoLoop, NoSweep, ProcGoes, Has, Loses
<1>1. ASSUME NEW p \in OProcs, Start(p) PROVE Local(p)
  BY <1>1 DEF Start
<1>2. ASSUME NEW p \in OProcs, StartPersistence(p) PROVE Local(p)
  BY <1>2 DEF StartPersistence
<1>3. ASSUME NEW p \in OProcs, StartServices(p) PROVE Local(p)
  BY <1>3 DEF StartServices
<1>4. ASSUME NEW p \in OProcs, AcquireLeadership(p) PROVE Local(p)
  BY <1>4 DEF AcquireLeadership
<1>5. ASSUME NEW p \in OProcs, StartWorkers(p) PROVE Local(p)
  BY <1>5 DEF StartWorkers
<1>6. ASSUME NEW p \in OProcs, RunDedicated(p) PROVE Local(p)
  BY <1>6 DEF RunDedicated
<1>7. ASSUME NEW p \in OProcs, Killed(p) PROVE Local(p)
  BY <1>7 DEF Killed, Exit
<1>8. ASSUME NEW p \in OProcs, ShutdownStartup(p) PROVE Local(p)
  BY <1>8 DEF ShutdownStartup
<1>9. ASSUME NEW p \in OProcs, StopKick(p) PROVE Local(p)
  BY <1>9 DEF StopKick
<1>10. ASSUME NEW p \in OProcs, StopLoop(p) PROVE Local(p)
  BY <1>10 DEF StopLoop
<1>11. ASSUME NEW p \in OProcs, StopTasks(p) PROVE Local(p)
  BY <1>11 DEF StopTasks, BestEffort
<1>12. ASSUME NEW p \in OProcs, FinishReceivers(p) PROVE Local(p)
  BY <1>12 DEF FinishReceivers
<1>13. ASSUME NEW p \in OProcs, StopBrokers(p) PROVE Local(p)
  BY <1>13 DEF StopBrokers, BestEffort
<1>14. ASSUME NEW p \in OProcs, StopClients(p) PROVE Local(p)
  BY <1>14 DEF StopClients, BestEffort
<1>15. ASSUME NEW p \in OProcs, ReleaseSchedulerLock(p) PROVE Local(p)
  BY <1>15 DEF ReleaseSchedulerLock
<1>16. ASSUME NEW p \in OProcs, StopBridge(p) PROVE Local(p)
  BY <1>16 DEF StopBridge, Exit
<1>17. ASSUME NEW p \in OProcs, PurgeOldMessages(p) PROVE Local(p)
  BY <1>17 DEF PurgeOldMessages
<1>18. ASSUME NEW p \in OProcs, ReapLeaderConnection(p) PROVE Local(p)
  BY <1>18 DEF ReapLeaderConnection
<1>19. ASSUME NEW p \in OProcs, NEW t \in OSweeps, Cron(p, t) PROVE Local(p)
  BY <1>19 DEF Cron
<1>20. ASSUME NEW p \in OProcs, NEW t \in OSweeps, KickStartupTask(p, t) PROVE Local(p)
  BY <1>20 DEF KickStartupTask
<1>21. ASSUME NEW p \in OProcs, NEW t \in OSweeps, RunUnlessLocked(p, t) PROVE Local(p)
  BY <1>21 DEF RunUnlessLocked, Claims
<1>22. ASSUME NEW p \in OProcs, NEW t \in OSweeps, SweepEnds(p, t) PROVE Local(p)
  BY <1>22 DEF SweepEnds
<1>23. ASSUME UNCHANGED <<parts, conn, sweeping>> PROVE UNCHANGED Lease!leaseVars
  BY <1>23 DEF Lease!leaseVars, Scheduling, Severed
<1>24. ASSUME NEW s \in OSessions, OpenSession(s) \/ ReleaseBeforeExternalIo(s)
                                 \/ EndSession(s) \/ ReapIdleSession(s)
      PROVE  UNCHANGED Lease!leaseVars
  BY <1>23, <1>24 DEF OpenSession, ReleaseBeforeExternalIo, EndSession, ReapIdleSession
<1>25. CASE UNCHANGED oVars
  BY <1>23, <1>25 DEF oVars
<1>. HIDE DEF Local
<1>. QED
  BY <1>1, <1>2, <1>3, <1>4, <1>5, <1>6, <1>7, <1>8, <1>9, <1>10, <1>11, <1>12, <1>13, <1>14, <1>15, <1>16, <1>17, <1>18, <1>19, <1>20, <1>21, <1>22, <1>24, <1>25, <1>l DEF RuntimeNext, Lifespan

(***************************************************************************)
(* The processes, with their starts, failures, stops and kills, implement  *)
(* the lease of the scheduler's lock.                                      *)
(***************************************************************************)
THEOREM LeaseImplemented == RuntimeSpec => ImplementsLease
<1>1. RuntimeInv /\ [RuntimeNext]_oVars => RuntimeInv'
  BY RuntimeInvNext
<1>. QED
  BY RuntimeInvariant, LeaseInitial, LeaseStep, PTL
     DEF RuntimeSpec, ImplementsLease, Lease!LeaseSpec

(***************************************************************************)
(* Two processes schedule or sweep at the same time only after the server  *)
(* has ended the connection of one of them: inherited from the lease.      *)
(***************************************************************************)
THEOREM OneSchedulerUnlessSevered == RuntimeSpec => []SchedulersExclude
<1>1. Lease!Exclusion => SchedulersExclude
  BY DEF Lease!Exclusion, SchedulersExclude, Scheduling, Severed
<1>. QED
  BY <1>1, LeaseImplemented, LeaseExcludes, PTL DEF ImplementsLease

(***************************************************************************)
(* Notifications (notifications/manager.py).  The inductive invariant      *)
(* relates the table of recent fan-outs to the stamp of the last one.      *)
(***************************************************************************)
\* Every stamp is of the past; the table holds the stamp of the last fan-out, or the
\* window since that stamp is over.
RecentStamps ==
    /\ \A c \in ECallers : caller[c].stamp <= clock
    /\ \A k \in EKeys :
          /\ stampOf[k] <= clock /\ recent[k] \in {0, stampOf[k]}
          /\ stampOf[k] # 0 /\ recent[k] = 0 => stampOf[k] + EWindow < clock

NotificationsInv == NotificationsTypeOK /\ RecentStamps

LEMMA NoCallTyped ==
  NoCall \in [at : {"idle", "build", "decide", "send", "save"}, key : EKeys,
              stamp : 0..EMaxClock, left : SUBSET EProviders] /\ NoCall.stamp = 0
<1>1. (CHOOSE k \in EKeys : TRUE) \in EKeys
  BY NotificationsAssumption
<1>. QED  BY <1>1, NotificationsAssumption DEF NoCall

LEMMA NotificationsInvInit == NotificationsInit => NotificationsInv
BY NoCallTyped, NotificationsAssumption
   DEF NotificationsInit, NotificationsInv, NotificationsTypeOK, RecentStamps, NoCache

\* A caller that moves, in a step that leaves the stamps alone, keeps the invariant
\* when the record it ends with is well formed.
LEMMA CallerMoves ==
  ASSUME NotificationsInv, NEW c \in ECallers,
         NEW r \in [at : {"idle", "build", "decide", "send", "save"}, key : EKeys,
                    stamp : 0..EMaxClock, left : SUBSET EProviders],
         r.stamp <= clock, caller' = [caller EXCEPT ![c] = r],
         UNCHANGED <<clock, enabled, rev, recent, stampOf>>,
         cache' \in [rev : 0..(EMaxRev + 1), of : SUBSET EProviders],
         suppressed' \in [EKeys -> BOOLEAN],
         rows' \in [ERows -> {"none", "unread", "read", "old"}]
  PROVE  NotificationsInv'
BY NotificationsAssumption DEF NotificationsInv, NotificationsTypeOK, RecentStamps

LEMMA FanOutKeeps == ASSUME NotificationsInv, NEW c \in ECallers, FanOut(c)
                     PROVE  NotificationsInv'
<1>. USE NotificationsAssumption
<1>. DEFINE k == caller[c].key
            s == caller[c].stamp
            marked == [recent EXCEPT ![k] = s]
            gone == Pruned(marked, s)
<1>1. /\ k \in EKeys /\ s \in 0..EMaxClock /\ s <= clock /\ clock \in 1..EMaxClock
      /\ recent \in [EKeys -> 0..EMaxClock] /\ stampOf \in [EKeys -> 0..EMaxClock]
  BY DEF NotificationsInv, NotificationsTypeOK, RecentStamps
<1>2. /\ recent' = [j \in EKeys |-> IF j \in gone THEN 0 ELSE marked[j]]
      /\ suppressed' = [j \in EKeys |-> j \notin gone \cup {k} /\ suppressed[j]]
      /\ stampOf' = [stampOf EXCEPT ![k] = s]
      /\ caller' = [caller EXCEPT ![c].at = "send"]
      /\ UNCHANGED <<clock, enabled, rev, cache, rows>>
  BY DEF FanOut
<1>3. \A j \in gone : j \in EKeys /\ marked[j] + EWindow < s
  BY DEF Pruned
<1>5. marked \in [EKeys -> 0..EMaxClock] /\ marked[k] = s /\ \A j \in EKeys \ {k} : marked[j] = recent[j]
  BY <1>1
<1>4. k \notin gone
  <2>. HIDE DEF gone, marked, k, s
  <2>. QED  BY <1>1, <1>3, <1>5
<1>6. suppressed' \in [EKeys -> BOOLEAN]
  <2>1. suppressed \in [EKeys -> BOOLEAN]
    BY DEF NotificationsInv, NotificationsTypeOK
  <2>. HIDE DEF gone, k
  <2>2. \A j \in EKeys : (j \notin gone \cup {k} /\ suppressed[j]) \in BOOLEAN
    OBVIOUS
  <2>. QED  BY <1>2, <2>2, Zenon
<1>7. recent' \in [EKeys -> 0..EMaxClock] /\ stampOf' \in [EKeys -> 0..EMaxClock]
  <2>. HIDE DEF gone, marked, k, s
  <2>. QED  BY <1>1, <1>2, <1>5
<1>8. /\ caller' \in [ECallers -> [at : {"idle", "build", "decide", "send", "save"}, key : EKeys,
                                   stamp : 0..EMaxClock, left : SUBSET EProviders]]
      /\ \A d \in ECallers : caller'[d].stamp = caller[d].stamp
  <2>. HIDE DEF gone, marked, k, s
  <2>. QED  BY <1>2 DEF NotificationsInv, NotificationsTypeOK
<1>9. \A j \in EKeys : /\ stampOf'[j] <= clock' /\ recent'[j] \in {0, stampOf'[j]}
                       /\ stampOf'[j] # 0 /\ recent'[j] = 0 => stampOf'[j] + EWindow < clock'
  <2>. SUFFICES ASSUME NEW j \in EKeys
                PROVE  /\ stampOf'[j] <= clock' /\ recent'[j] \in {0, stampOf'[j]}
                       /\ stampOf'[j] # 0 /\ recent'[j] = 0 => stampOf'[j] + EWindow < clock'
    OBVIOUS
  <2>1. /\ stampOf[j] <= clock /\ recent[j] \in {0, stampOf[j]}
        /\ stampOf[j] # 0 /\ recent[j] = 0 => stampOf[j] + EWindow < clock
    BY DEF NotificationsInv, RecentStamps
  <2>. HIDE DEF gone, marked, k, s
  <2>2. clock' = clock /\ recent'[j] = IF j \in gone THEN 0 ELSE marked[j]
    BY <1>2
  <2>3. CASE j = k
    <3>1. stampOf'[j] = s /\ recent'[j] = s
      BY <1>1, <1>2, <1>4, <1>5, <2>2, <2>3
    <3>. QED  BY <3>1, <2>2, <1>1
  <2>4. CASE j # k
    <3>1. stampOf'[j] = stampOf[j] /\ marked[j] = recent[j]
      BY <1>1, <1>2, <1>5, <2>4
    <3>2. stampOf[j] \in 0..EMaxClock /\ clock \in 1..EMaxClock /\ recent[j] \in 0..EMaxClock
      BY <1>1
    <3>3. CASE j \in gone
      <4>1. recent[j] + EWindow < s /\ recent'[j] = 0
        BY <3>3, <1>3, <3>1, <2>2
      <4>. QED  BY <4>1, <3>1, <3>2, <2>1, <2>2, <1>1
    <3>4. CASE j \notin gone
      BY <3>4, <3>1, <3>2, <2>1, <2>2
    <3>. QED  BY <3>3, <3>4
  <2>. QED  BY <2>3, <2>4
<1>10. \A d \in ECallers : caller'[d].stamp <= clock'
  BY <1>2, <1>8 DEF NotificationsInv, RecentStamps
<1>. HIDE DEF gone, marked, k, s
<1>. QED  BY <1>2, <1>6, <1>7, <1>8, <1>9, <1>10 DEF NotificationsInv, NotificationsTypeOK, RecentStamps

LEMMA NotificationsInvNext == NotificationsInv /\ [NotificationsNext]_eVars => NotificationsInv'
<1>. SUFFICES ASSUME NotificationsInv, [NotificationsNext]_eVars PROVE NotificationsInv'
  OBVIOUS
<1>. USE NotificationsAssumption
<1>. DEFINE Calls == [at : {"idle", "build", "decide", "send", "save"}, key : EKeys,
                      stamp : 0..EMaxClock, left : SUBSET EProviders]
<1>0. /\ caller \in [ECallers -> Calls] /\ clock \in 1..EMaxClock
      /\ \A c \in ECallers : caller[c].stamp <= clock
      /\ cache \in [rev : 0..(EMaxRev + 1), of : SUBSET EProviders] /\ rev \in 0..EMaxRev
      /\ suppressed \in [EKeys -> BOOLEAN] /\ rows \in [ERows -> {"none", "unread", "read", "old"}]
      /\ enabled \subseteq EProviders
  BY DEF NotificationsInv, NotificationsTypeOK, RecentStamps
<1>1. ASSUME NEW c \in ECallers, NEW k \in EKeys, AnnounceRevision(c, k) PROVE NotificationsInv'
  <2>1. [NoCall EXCEPT !.at = "build", !.key = k, !.stamp = clock] \in Calls
    <3>0. clock \in 0..EMaxClock
      BY <1>0
    <3>1. ASSUME NEW n \in Calls PROVE [n EXCEPT !.at = "build", !.key = k, !.stamp = clock] \in Calls
      BY ONLY <3>0, k \in EKeys, n \in Calls
    <3>. HIDE DEF Calls
    <3>2. NoCall \in Calls
      BY NoCallTyped DEF Calls
    <3>. QED  BY <3>1, <3>2
  <2>2. [NoCall EXCEPT !.at = "build", !.key = k, !.stamp = clock].stamp = clock
    BY NoCallTyped, <1>0
  <2>3. clock <= clock
    BY <1>0
  <2>. DEFINE r == [NoCall EXCEPT !.at = "build", !.key = k, !.stamp = clock]
  <2>4. r \in Calls /\ r.stamp <= clock /\ caller' = [caller EXCEPT ![c] = r]
    BY <2>1, <2>2, <2>3, <1>1 DEF AnnounceRevision
  <2>. HIDE DEF r
  <2>. QED  BY <2>4, <1>0, <1>1, CallerMoves DEF AnnounceRevision, managerVars
<1>2. ASSUME NEW c \in ECallers, BuildProviders(c) PROVE NotificationsInv'
  <2>1. PICK built \in Constructed :
          /\ cache' = IF cache.rev = rev THEN cache ELSE [rev |-> rev, of |-> built]
          /\ caller' = [caller EXCEPT ![c].at = IF cache'.of = {} THEN "save" ELSE "decide",
                                      ![c].left = cache'.of]
    BY <1>2 DEF BuildProviders
  <2>2. built \subseteq EProviders
    BY <1>0 DEF Constructed
  <2>3. cache' \in [rev : 0..(EMaxRev + 1), of : SUBSET EProviders]
    BY <2>1, <2>2, <1>0
  <2>. DEFINE r == [caller[c] EXCEPT !.at = IF cache'.of = {} THEN "save" ELSE "decide", !.left = cache'.of]
  <2>4. r \in Calls /\ r.stamp <= clock
    BY <2>3, <1>0
  <2>5. caller' = [caller EXCEPT ![c] = r]
    BY <2>1, <1>0
  <2>. HIDE DEF r
  <2>. QED  BY <2>3, <2>4, <2>5, <1>0, <1>2, CallerMoves DEF BuildProviders
<1>3. ASSUME NEW c \in ECallers, Suppress(c) PROVE NotificationsInv'
  <2>. DEFINE r == [caller[c] EXCEPT !.at = "save"]
  <2>1. r \in Calls /\ r.stamp <= clock
    BY <1>0
  <2>2. caller' = [caller EXCEPT ![c] = r] /\ suppressed' \in [EKeys -> BOOLEAN]
    BY <1>3, <1>0 DEF Suppress
  <2>. HIDE DEF r
  <2>. QED  BY <2>1, <2>2, <1>0, <1>3, CallerMoves DEF Suppress
<1>4. ASSUME NEW c \in ECallers, FanOut(c) PROVE NotificationsInv'
  BY <1>4, FanOutKeeps
<1>5. ASSUME NEW c \in ECallers, SendToProvider(c) PROVE NotificationsInv'
  <2>1. PICK p \in caller[c].left :
          caller' = [caller EXCEPT ![c].left = @ \ {p},
                                   ![c].at = IF caller[c].left = {p} THEN "save" ELSE "send"]
    BY <1>5 DEF SendToProvider
  <2>. DEFINE r == [caller[c] EXCEPT !.left = @ \ {p}, !.at = IF caller[c].left = {p} THEN "save" ELSE "send"]
  <2>2. r \in Calls /\ r.stamp <= clock
    BY <1>0
  <2>3. caller' = [caller EXCEPT ![c] = r]
    BY <2>1, <1>0
  <2>. HIDE DEF r
  <2>. QED  BY <2>2, <2>3, <1>0, <1>5, CallerMoves DEF SendToProvider, managerVars
<1>6. ASSUME NEW c \in ECallers, SaveNotification(c) PROVE NotificationsInv'
  <2>1. NoCall \in Calls /\ NoCall.stamp = 0
    BY NoCallTyped
  <2>3. 0 <= clock
    BY <1>0
  <2>2. rows' \in [ERows -> {"none", "unread", "read", "old"}]
    BY <1>0, <1>6 DEF SaveNotification
  <2>. QED  BY <2>1, <2>2, <2>3, <1>0, <1>6, CallerMoves DEF SaveNotification, managerVars
<1>7. ASSUME NEW r \in ERows, MarkRead(r) \/ MarkUnread(r) \/ DeleteNotification(r) \/ Ages(r)
      PROVE  NotificationsInv'
  BY <1>7 DEF MarkRead, MarkUnread, DeleteNotification, Ages, managerVars, NotificationsInv,
              NotificationsTypeOK, RecentStamps
<1>8. CASE DeleteReadOlderThan
  BY <1>8 DEF DeleteReadOlderThan, managerVars, NotificationsInv, NotificationsTypeOK, RecentStamps
<1>9. CASE ConfigChanges
  BY <1>9 DEF ConfigChanges, NotificationsInv, NotificationsTypeOK, RecentStamps
<1>10. CASE ClockTicks
  BY <1>10 DEF ClockTicks, managerVars, NotificationsInv, NotificationsTypeOK, RecentStamps
<1>11. CASE UNCHANGED eVars
  BY <1>11 DEF eVars, NotificationsInv, NotificationsTypeOK, RecentStamps
<1>. HIDE DEF Calls
<1>. QED  BY <1>1, <1>2, <1>3, <1>4, <1>5, <1>6, <1>7, <1>8, <1>9, <1>10, <1>11 DEF NotificationsNext

FanOutInTime ==
    \A c \in ECallers : LET k == caller[c].key
                        IN  /\ caller[c].at = "decide" /\ caller'[c].at = "send" /\ stampOf[k] # 0
                            => clock >= stampOf[k] + EWindow

LEMMA FanOutWaits == NotificationsInv /\ [NotificationsNext]_eVars => [FanOutInTime]_eVars
<1>. SUFFICES ASSUME NotificationsInv, [NotificationsNext]_eVars, NEW c \in ECallers,
                     caller[c].at = "decide", caller'[c].at = "send", stampOf[caller[c].key] # 0
              PROVE  clock >= stampOf[caller[c].key] + EWindow
  BY DEF FanOutInTime
<1>. USE NotificationsAssumption
<1>. DEFINE k == caller[c].key
<1>1. FanOut(c)
  <2>0. caller \in [ECallers -> [at : {"idle", "build", "decide", "send", "save"}, key : EKeys,
                      stamp : 0..EMaxClock, left : SUBSET EProviders]]
    BY DEF NotificationsInv, NotificationsTypeOK
  <2>1. caller' # caller
    OBVIOUS
  <2>2. ASSUME NEW d \in ECallers, \/ \E j \in EKeys : AnnounceRevision(d, j)
                                   \/ BuildProviders(d) \/ Suppress(d) \/ SendToProvider(d)
                                   \/ SaveNotification(d)
        PROVE  FALSE
    BY <2>0, <2>2 DEF AnnounceRevision, BuildProviders, Suppress, SendToProvider, SaveNotification, NoCall
  <2>3. ASSUME NEW d \in ECallers, FanOut(d) PROVE d = c
    BY <2>0, <2>3 DEF FanOut
  <2>4. ~\E r \in ERows : MarkRead(r) \/ MarkUnread(r) \/ DeleteNotification(r) \/ Ages(r)
    BY <2>1 DEF MarkRead, MarkUnread, DeleteNotification, Ages
  <2>5. ~(DeleteReadOlderThan \/ ConfigChanges \/ ClockTicks \/ UNCHANGED eVars)
    BY <2>1 DEF DeleteReadOlderThan, ConfigChanges, ClockTicks, eVars
  <2>. QED  BY <2>2, <2>3, <2>4, <2>5 DEF NotificationsNext
<1>2. /\ k \in EKeys /\ clock \in 1..EMaxClock /\ recent[k] \in 0..EMaxClock
      /\ stampOf[k] \in 0..EMaxClock /\ caller[c].stamp \in 0..EMaxClock /\ caller[c].stamp <= clock
      /\ recent[k] \in {0, stampOf[k]} /\ (recent[k] = 0 => stampOf[k] + EWindow < clock)
  BY DEF NotificationsInv, NotificationsTypeOK, RecentStamps
<1>3. recent[k] = 0 \/ ~(caller[c].stamp < recent[k] + EWindow)
  BY <1>1 DEF FanOut, Suppresses
<1>. HIDE DEF k
<1>4. clock >= stampOf[k] + EWindow
  BY <1>2, <1>3
<1>. QED  BY <1>4 DEF k

\* A notification is not fanned out a second time within its window, although the table of
\* recent ones is pruned and capped meanwhile (notifications/manager.py).
THEOREM FannedOut == NotificationsSpec => [](NotificationsTypeOK) /\ FannedOncePerWindow
<1>1. NotificationsInit => NotificationsInv
  BY NotificationsInvInit
<1>2. NotificationsInv /\ [NotificationsNext]_eVars => NotificationsInv'
  BY NotificationsInvNext
<1>3. NotificationsInv => NotificationsTypeOK
  BY DEF NotificationsInv
<1>4. NotificationsInv /\ [NotificationsNext]_eVars => [FanOutInTime]_eVars
  BY FanOutWaits
<1>. QED  BY <1>1, <1>2, <1>3, <1>4, PTL DEF NotificationsSpec, FannedOncePerWindow, FanOutInTime

(***************************************************************************)
(* The rate limit (rate_limit.py).  The inductive invariant orders the     *)
(* attempts of a bucket and ties a limited key to its oldest attempt.      *)
(***************************************************************************)
\* The attempts of a bucket are in the order of their times, and of the past.
InTime(times) ==
    /\ times \in Seq(1..TMaxClock) /\ Len(times) <= TMax
    /\ \A i \in 1..Len(times) : times[i] <= now
    /\ \A i, j \in 1..Len(times) : i <= j => times[i] <= times[j]

\* Until a key is free again its bucket is full and its oldest attempt says when.
Holds(k) == until[k] < now \/ (Len(bucket[k]) = TMax /\ until[k] = bucket[k][1] + TWindow)

RateInv ==
    /\ now \in 1..TMaxClock /\ full \in BOOLEAN /\ order \in Seq(TKeys) /\ Len(order) <= TMaxKeys
    /\ until \in [TKeys -> 0..(TMaxClock + TWindow)] /\ passed \subseteq TKeys
    /\ bucket \in [TKeys -> Seq(1..TMaxClock)]
    /\ \A k \in TKeys : InTime(bucket[k])
    /\ full \/ \A k \in TKeys : Holds(k)

LEMMA RateInvInit == RateLimitInit => RateInv
<1>. SUFFICES ASSUME RateLimitInit PROVE RateInv
  OBVIOUS
<1>. USE RateLimitAssumption DEF RateLimitInit
<1>1. InTime(<< >>)
  BY DEF InTime
<1>2. /\ << >> \in Seq(1..TMaxClock) /\ order \in Seq(TKeys) /\ Len(order) = 0
      /\ now \in 1..TMaxClock
  OBVIOUS
<1>5. full \in BOOLEAN
  BY Zenon
<1>3. \A k \in TKeys : bucket[k] = << >> /\ until[k] < now
  OBVIOUS
<1>4. bucket \in [TKeys -> Seq(1..TMaxClock)] /\ until \in [TKeys -> 0..(TMaxClock + TWindow)]
  BY <1>2
<1>. QED  BY <1>1, <1>2, <1>3, <1>4, <1>5 DEF RateInv, Holds

\* What is left of a bucket when its expired head is popped.
LEMMA LiveKeeps ==
  ASSUME NEW times, InTime(times), now \in 1..TMaxClock
  PROVE  /\ InTime(Live(times))
         /\ Len(times) > 0 /\ times[1] + TWindow >= now => Live(times) = times
<1>. USE RateLimitAssumption DEF InTime
<1>. DEFINE live == InWindow(times)
<1>0. /\ times \in Seq(1..TMaxClock) /\ Len(times) \in Nat
      /\ \A i \in 1..Len(times) : times[i] \in 1..TMaxClock
  OBVIOUS
<1>1. live \in SUBSET Nat /\ live \subseteq 1..Len(times)
  BY DEF InWindow
<1>2. CASE live = {}
  <2>1. Live(times) = << >>
    BY <1>2 DEF Live
  <2>2. ~(Len(times) > 0 /\ times[1] + TWindow >= now)
    <3>1. ASSUME Len(times) > 0, times[1] + TWindow >= now PROVE 1 \in live
      BY <3>1 DEF InWindow
    <3>. QED  BY <3>1, <1>2
  <2>. QED  BY <2>1, <2>2
<1>3. CASE live # {}
  <2>. DEFINE m == Min(live)
  <2>1. m \in live /\ \A y \in live : m <= y
    BY <1>1, <1>3, MinOfNaturals
  <2>2. m \in 1..Len(times)
    BY <2>1, <1>1
  <2>3. Live(times) = SubSeq(times, m, Len(times))
    BY <1>3 DEF Live
  <2>. HIDE DEF m, live
  <2>4. /\ SubSeq(times, m, Len(times)) \in Seq(1..TMaxClock)
        /\ Len(SubSeq(times, m, Len(times))) = Len(times) - m + 1
        /\ \A i \in 1..(Len(times) - m + 1) : SubSeq(times, m, Len(times))[i] = times[m + i - 1]
    BY <2>2, <1>0
  <2>5. InTime(Live(times))
    <3>. DEFINE u == SubSeq(times, m, Len(times))
    <3>1. /\ u \in Seq(1..TMaxClock) /\ Len(u) = Len(times) - m + 1
          /\ \A i \in 1..Len(u) : u[i] = times[m + i - 1] /\ m + i - 1 \in 1..Len(times)
      BY <2>2, <2>4
    <3>2. \A i \in 1..Len(u) : u[i] <= now
      BY <3>1
    <3>3. \A i, j \in 1..Len(u) : i <= j => u[i] <= u[j]
      <4>. HIDE DEF u
      <4>1. TAKE i, j \in 1..Len(u)
      <4>2. ASSUME i <= j PROVE u[i] <= u[j]
        <5>1. m + i - 1 <= m + j - 1
          BY <4>2, <2>2, <3>1
        <5>. QED  BY <5>1, <3>1
      <4>. QED  BY <4>2
    <3>4. Len(u) <= TMax
      BY <3>1, <2>2
    <3>5. Live(times) = u
      BY <2>3
    <3>. HIDE DEF u
    <3>. QED  BY <3>1, <3>2, <3>3, <3>4, <3>5
  <2>6. ASSUME Len(times) > 0, times[1] + TWindow >= now PROVE Live(times) = times
    <3>1. 1 \in live
      BY <2>6 DEF InWindow, live
    <3>2. m = 1
      BY <3>1, <2>1, <2>2
    <3>. QED  BY <3>2, <2>3, <1>0
  <2>. QED  BY <2>5, <2>6
<1>. QED  BY <1>2, <1>3

\* A key whose time is not over is at its limit.
LEMMA HeldIsAtLimit ==
  ASSUME RateInv, NEW k \in TKeys, Len(bucket[k]) = TMax, bucket[k][1] + TWindow >= now
  PROVE  AtLimit(k)
<1>. USE RateLimitAssumption
<1>1. bucket[k] \in Seq(1..TMaxClock) /\ InTime(bucket[k]) /\ now \in 1..TMaxClock
  BY DEF RateInv
<1>2. \A i \in 1..TMax : bucket[k][1] <= bucket[k][i] /\ bucket[k][i] \in 1..TMaxClock
  BY <1>1 DEF InTime
<1>3. InWindow(bucket[k]) = 1..TMax
  BY <1>1, <1>2 DEF InWindow
<1>4. Cardinality(1..TMax) = TMax
  BY FS_Interval
<1>. QED  BY <1>3, <1>4 DEF AtLimit

\* The key that has to go, and the table without it.
LEMMA VictimGoes ==
  ASSUME RateInv, NEW k \in TKeys, Evicts(k)
  PROVE  /\ VictimAt \in 1..Len(order) /\ Victim \in TKeys
         /\ AtLimit(Victim) => \A j \in Range(order) : AtLimit(j)
<1>. USE RateLimitAssumption
<1>. DEFINE loose == {i \in DOMAIN order : ~AtLimit(order[i])}
<1>1. order \in Seq(TKeys) /\ Len(order) \in Nat /\ Len(order) >= 1 /\ DOMAIN order = 1..Len(order)
  BY DEF RateInv, Evicts
<1>2. loose \in SUBSET Nat /\ loose \subseteq 1..Len(order)
  BY <1>1
<1>3. VictimAt = IF loose = {} THEN 1 ELSE Min(loose)
  BY DEF VictimAt
<1>4. loose # {} => VictimAt \in loose
  BY <1>2, <1>3, MinOfNaturals
<1>5. VictimAt \in 1..Len(order)
  <2>. HIDE DEF loose
  <2>. QED  BY <1>1, <1>2, <1>3, <1>4
<1>6. Victim \in TKeys
  BY <1>1, <1>5 DEF Victim
<1>7. ASSUME AtLimit(Victim) PROVE \A j \in Range(order) : AtLimit(j)
  <2>1. loose = {}
    BY <1>4, <1>7 DEF Victim
  <2>. QED  BY <2>1 DEF Range
<1>. QED  BY <1>5, <1>6, <1>7

LEMMA TableBounded ==
  ASSUME RateInv, NEW k \in TKeys
  PROVE  Touched(k) \in Seq(TKeys) /\ Len(Touched(k)) <= TMaxKeys
<1>. USE RateLimitAssumption
<1>1. order \in Seq(TKeys) /\ Len(order) \in Nat /\ Len(order) <= TMaxKeys /\ DOMAIN order = 1..Len(order)
  BY DEF RateInv
<1>2. ASSUME NEW i \in 1..Len(order)
      PROVE  RemoveAt(order, i) \in Seq(TKeys) /\ Len(RemoveAt(order, i)) = Len(order) - 1
  <2>. DEFINE a == SubSeq(order, 1, i - 1)
              b == SubSeq(order, i + 1, Len(order))
  <2>1. a \in Seq(TKeys) /\ Len(a) = i - 1
    BY <1>1
  <2>2. b \in Seq(TKeys) /\ Len(b) = Len(order) - i
    <3>1. i + 1 \in Int /\ Len(order) \in Int /\ \A j \in (i + 1) .. Len(order) : order[j] \in TKeys
      BY <1>1
    <3>2. b \in Seq(TKeys) /\ Len(b) = IF i + 1 <= Len(order) THEN Len(order) - (i + 1) + 1 ELSE 0
      BY <3>1, SubSeqProperties
    <3>3. ASSUME NEW n \in Nat, NEW j \in 1..n
          PROVE  (IF j + 1 <= n THEN n - (j + 1) + 1 ELSE 0) = n - j
      OBVIOUS
    <3>. HIDE DEF b
    <3>. QED  BY <1>1, <3>2, <3>3
  <2>3. RemoveAt(order, i) = a \o b
    BY DEF RemoveAt
  <2>. HIDE DEF a, b
  <2>4. a \o b \in Seq(TKeys) /\ Len(a \o b) = Len(a) + Len(b)
    BY <2>1, <2>2
  <2>. QED  BY <1>1, <2>1, <2>2, <2>3, <2>4
<1>3. CASE Evicts(k)
  <2>1. VictimAt \in 1..Len(order)
    BY <1>3, VictimGoes
  <2>2. Touched(k) = Append(RemoveAt(order, VictimAt), k)
    BY <1>3 DEF Touched
  <2>3. RemoveAt(order, VictimAt) \in Seq(TKeys) /\ Len(RemoveAt(order, VictimAt)) = Len(order) - 1
    BY <1>2, <2>1
  <2>. DEFINE r == RemoveAt(order, VictimAt)
  <2>. HIDE DEF r
  <2>4. Append(r, k) \in Seq(TKeys) /\ Len(Append(r, k)) = Len(r) + 1
    BY <2>3 DEF r
  <2>. QED  BY <1>1, <2>2, <2>3, <2>4 DEF r
<1>4. CASE ~Evicts(k) /\ k \notin Range(order)
  <2>1. Touched(k) = Append(order, k) /\ Len(order) < TMaxKeys
    BY <1>1, <1>4 DEF Touched, Evicts
  <2>. QED  BY <1>1, <2>1
<1>5. CASE k \in Range(order)
  <2>. DEFINE i == CHOOSE i \in DOMAIN order : order[i] = k
  <2>1. i \in 1..Len(order)
    BY <1>1, <1>5 DEF Range
  <2>2. Touched(k) = Append(RemoveAt(order, i), k)
    BY <1>5 DEF Touched, Evicts
  <2>. HIDE DEF i
  <2>3. RemoveAt(order, i) \in Seq(TKeys) /\ Len(RemoveAt(order, i)) = Len(order) - 1
    BY <1>2, <2>1
  <2>. DEFINE r == RemoveAt(order, i)
  <2>. HIDE DEF r
  <2>4. Append(r, k) \in Seq(TKeys) /\ Len(Append(r, k)) = Len(r) + 1
    BY <2>3 DEF r
  <2>. QED  BY <1>1, <2>2, <2>3, <2>4 DEF r
<1>. QED  BY <1>3, <1>4, <1>5

\* One check: the buckets stay in time, and a key that is held stays held.
LEMMA CheckKeeps == ASSUME RateInv, NEW k \in TKeys, Check(k)
                    PROVE  RateInv'
<1>. USE RateLimitAssumption
<1>. DEFINE times == Live(bucket[k])
            ok == Len(times) < TMax
            after == IF ok THEN Append(times, now) ELSE times
            rest == EmptiedBuckets(k)
<1>1. /\ order' = Touched(k) /\ bucket' = [rest EXCEPT ![k] = after]
      /\ until' = IF Len(after) = TMax THEN [until EXCEPT ![k] = after[1] + TWindow] ELSE until
      /\ passed' = IF ok THEN passed \cup {k} ELSE passed \ {k}
      /\ full' = (full \/ (Evicts(k) /\ \A j \in Range(order) : AtLimit(j)))
      /\ now' = now
  BY DEF Check
<1>2. /\ now \in 1..TMaxClock /\ bucket \in [TKeys -> Seq(1..TMaxClock)]
      /\ until \in [TKeys -> 0..(TMaxClock + TWindow)] /\ \A j \in TKeys : InTime(bucket[j])
      /\ passed \subseteq TKeys /\ full \in BOOLEAN
      /\ \A j \in TKeys : bucket[j] \in Seq(1..TMaxClock) /\ until[j] \in 0..(TMaxClock + TWindow)
  BY DEF RateInv
<1>3. InTime(times) /\ times \in Seq(1..TMaxClock) /\ Len(times) \in Nat /\ Len(times) <= TMax
  BY <1>2, LiveKeeps DEF InTime
<1>4. until[k] >= now /\ ~full => Len(after) = TMax /\ ~ok /\ until[k] = after[1] + TWindow
  <2>. SUFFICES ASSUME until[k] >= now, ~full
                PROVE  Len(after) = TMax /\ ~ok /\ until[k] = after[1] + TWindow
    OBVIOUS
  <2>1. Len(bucket[k]) = TMax /\ until[k] = bucket[k][1] + TWindow
    BY <1>2 DEF RateInv, Holds
  <2>2. times = bucket[k]
    <3>1. InTime(bucket[k]) /\ Len(bucket[k]) > 0 /\ bucket[k][1] + TWindow >= now
      BY <2>1, <1>2
    <3>. QED  BY <3>1, <1>2, LiveKeeps
  <2>. QED  BY <2>1, <2>2
<1>5. InTime(after) /\ after \in Seq(1..TMaxClock)
  <2>1. CASE ~ok
    BY <2>1, <1>3
  <2>2. CASE ok
    <3>. HIDE DEF times
    <3>1. after = Append(times, now)
      BY <2>2
    <3>2. /\ Append(times, now) \in Seq(1..TMaxClock) /\ Len(Append(times, now)) = Len(times) + 1
          /\ \A i \in 1..Len(times) : Append(times, now)[i] = times[i] /\ times[i] \in 1..TMaxClock
          /\ Append(times, now)[Len(times) + 1] = now
      BY <1>2, <1>3
    <3>. HIDE DEF ok, after
    <3>3. \A i \in 1..(Len(times) + 1) : i \in 1..Len(times) \/ i = Len(times) + 1
      BY <1>3
    <3>4. /\ \A i \in 1..Len(times) : times[i] <= now
          /\ \A i, j \in 1..Len(times) : i <= j => times[i] <= times[j]
      BY <1>3 DEF InTime
    <3>. DEFINE a == Append(times, now)
    <3>5. \A i \in 1..Len(a) : a[i] <= now
      BY <3>2, <3>3, <3>4, <1>2
    <3>6. \A i, j \in 1..Len(a) : i <= j => a[i] <= a[j]
      <4>1. TAKE i, j \in 1..Len(a)
      <4>2. CASE j = Len(times) + 1
        BY <4>2, <3>2, <3>5
      <4>3. CASE j \in 1..Len(times)
        BY <4>3, <3>2, <3>4
      <4>. QED  BY <4>2, <4>3, <3>2, <3>3
    <3>7. Len(a) <= TMax
      BY <2>2, <3>2, <1>3 DEF ok
    <3>. QED  BY <3>1, <3>2, <3>5, <3>6, <3>7 DEF InTime
  <2>. QED  BY <2>1, <2>2
<1>6. /\ rest \in [TKeys -> Seq(1..TMaxClock)]
      /\ \A j \in TKeys : rest[j] = bucket[j] \/ (Evicts(k) /\ j = Victim /\ rest[j] = << >>)
  <2>1. CASE Evicts(k)
    <3>1. Victim \in TKeys /\ rest = [bucket EXCEPT ![Victim] = << >>]
      BY <2>1, VictimGoes DEF EmptiedBuckets
    <3>. QED  BY <2>1, <3>1, <1>2
  <2>2. CASE ~Evicts(k)
    BY <2>2, <1>2 DEF EmptiedBuckets
  <2>. QED  BY <2>1, <2>2
<1>7. Len(after) = TMax => after[1] + TWindow \in 0..(TMaxClock + TWindow)
  <2>. HIDE DEF after
  <2>1. ASSUME Len(after) = TMax PROVE after[1] \in 1..TMaxClock
    BY <2>1, <1>5
  <2>. QED  BY <2>1
<1>8. until' \in [TKeys -> 0..(TMaxClock + TWindow)]
  <2>. HIDE DEF after
  <2>. QED  BY <1>1, <1>2, <1>7
<1>9. bucket' \in [TKeys -> Seq(1..TMaxClock)] /\ bucket'[k] = after
      /\ \A j \in TKeys \ {k} : bucket'[j] = rest[j]
  <2>. HIDE DEF after, rest
  <2>. QED  BY <1>1, <1>5, <1>6
<1>10. \A j \in TKeys : InTime(bucket'[j])
  <2>1. InTime(<< >>)
    BY DEF InTime
  <2>. HIDE DEF after, rest
  <2>. QED  BY <2>1, <1>9, <1>6, <1>5, <1>2
<1>11. ASSUME ~full', NEW j \in TKeys PROVE Holds(j)'
  <2>0. ~full /\ Holds(j)
    BY <1>1, <1>11 DEF RateInv
  <2>1. CASE j = k
    <3>1. CASE Len(after) = TMax
      <4>. HIDE DEF after
      <4>1. until'[k] = after[1] + TWindow /\ bucket'[k] = after
        BY <3>1, <1>1, <1>2, <1>9
      <4>. QED  BY <4>1, <3>1, <2>1 DEF Holds
    <3>2. CASE Len(after) # TMax
      <4>1. until[k] < now
        BY <3>2, <1>4, <1>2, <2>0
      <4>2. until' = until /\ now' = now
        BY <3>2, <1>1
      <4>. QED  BY <4>1, <4>2, <2>1 DEF Holds
    <3>. QED  BY <3>1, <3>2
  <2>2. CASE j # k
    <3>. HIDE DEF after, rest
    <3>1. until'[j] = until[j] /\ bucket'[j] = rest[j] /\ now' = now
      BY <1>1, <1>2, <1>9, <2>2
    <3>2. CASE rest[j] = bucket[j]
      BY <3>1, <3>2, <2>0 DEF Holds
    <3>3. CASE Evicts(k) /\ j = Victim
      <4>1. ASSUME until[j] >= now PROVE FALSE
        <5>1. Len(bucket[j]) = TMax /\ bucket[j][1] + TWindow >= now
          BY <4>1, <1>2, <2>0 DEF Holds
        <5>2. AtLimit(j)
          BY <5>1, HeldIsAtLimit
        <5>3. \A q \in Range(order) : AtLimit(q)
          BY <5>2, <3>3, VictimGoes
        <5>. QED  BY <5>3, <3>3, <1>1, <1>11
      <4>2. until[j] < now
        BY <4>1, <1>2
      <4>. QED  BY <4>2, <3>1 DEF Holds
    <3>. QED  BY <3>2, <3>3, <1>6
  <2>. QED  BY <2>1, <2>2
<1>12. full' \in BOOLEAN
  BY <1>1, <1>2, Zenon
<1>13. passed' \subseteq TKeys
  BY <1>1, <1>2
<1>14. order' \in Seq(TKeys) /\ Len(order') <= TMaxKeys
  BY <1>1, TableBounded
<1>15. full' \/ \A j \in TKeys : Holds(j)'
  BY <1>11
<1>17. \A j \in TKeys : InTime(bucket[j])'
  BY <1>10, <1>1 DEF InTime
<1>. HIDE DEF times, ok, after, rest
<1>. QED  BY <1>1, <1>2, <1>8, <1>9, <1>12, <1>13, <1>14, <1>15, <1>17 DEF RateInv

LEMMA RateInvNext == RateInv /\ [RateLimitNext]_tVars => RateInv'
<1>. SUFFICES ASSUME RateInv, [RateLimitNext]_tVars PROVE RateInv'
  OBVIOUS
<1>. USE RateLimitAssumption
<1>1. ASSUME NEW c \in TClients, LimitClient(c) PROVE RateInv'
  BY <1>1, CheckKeeps DEF LimitClient, TKeys
<1>2. ASSUME NEW a \in TAccounts, LimitAccount(a) PROVE RateInv'
  BY <1>2, CheckKeeps DEF LimitAccount, TKeys
<1>3. CASE Tick
  BY <1>3 DEF Tick, RateInv, Holds, InTime
<1>4. CASE UNCHANGED tVars
  BY <1>4 DEF tVars, RateInv, Holds, InTime
<1>. QED  BY <1>1, <1>2, <1>3, <1>4 DEF RateLimitNext

KeepsLimit == \A k \in TKeys : Len(bucket'[k]) > Len(Live(bucket[k])) => now > until[k] \/ full \/ full'

LEMMA LimitHolds == RateInv /\ [RateLimitNext]_tVars => [KeepsLimit]_tVars
<1>. SUFFICES ASSUME RateInv, RateLimitNext, NEW k \in TKeys, Len(bucket'[k]) > Len(Live(bucket[k])), ~full, ~full'
              PROVE  now > until[k]
  BY DEF KeepsLimit
<1>. USE RateLimitAssumption
<1>1. /\ now \in 1..TMaxClock /\ until[k] \in Int /\ InTime(bucket[k]) /\ Holds(k)
      /\ bucket \in [TKeys -> Seq(1..TMaxClock)]
  BY DEF RateInv
<1>2. SUFFICES ASSUME until[k] >= now PROVE FALSE
  BY <1>1
<1>3. Live(bucket[k]) = bucket[k] /\ Len(bucket[k]) = TMax
  BY <1>1, <1>2, LiveKeeps DEF Holds
<1>4. RateInv'
  BY RateInvNext
<1>5. Len(bucket'[k]) <= TMax
  BY <1>4 DEF RateInv, InTime
<1>6. bucket'[k] \in Seq(1..TMaxClock)
  BY <1>4 DEF RateInv
<1>. QED  BY <1>3, <1>5, <1>6

LEMMA RateInvTyped == RateInv => RateLimitTypeOK
BY RateLimitAssumption DEF RateInv, RateLimitTypeOK, InTime, Range

\* The table stays within its bound, and a key that was limited is limited until its oldest
\* attempt leaves the window, unless the table was full (rate_limit.py).
THEOREM StaysLimited == RateLimitSpec => []RateLimitTypeOK /\ LimitedStaysLimited
<1>1. RateLimitInit => RateInv
  BY RateInvInit
<1>2. RateInv /\ [RateLimitNext]_tVars => RateInv'
  BY RateInvNext
<1>3. RateInv => RateLimitTypeOK
  BY RateInvTyped
<1>4. RateInv /\ [RateLimitNext]_tVars => [KeepsLimit]_tVars
  BY LimitHolds
<1>. QED  BY <1>1, <1>2, <1>3, <1>4, PTL DEF RateLimitSpec, LimitedStaysLimited, KeepsLimit

(***************************************************************************)
(* The audit of the files against their rows, and what users do about the  *)
(* files it flags (scheduler_tasks/integrity.py, torrents/integrity.py).   *)
(***************************************************************************)
Hashes == Contents \cup {None}
Snapshots == [id : Files, sha : Hashes, err : Hashes, got : Hashes]
Requests == [id : Files, sha : Hashes, err : Hashes, reset : BOOLEAN]
Walks == [at : {"idle", "rows", "next", "end"}, off : 0..NFiles, keys : SUBSET Files,
          total : 0..NFiles, seen : SUBSET (Files \X BOOLEAN), want : SUBSET Files]

RowsTyped == /\ iRow \in [Files -> [in : BOOLEAN, sha : Hashes, err : Hashes]]
             /\ iDisk \in [Files -> Hashes]

AuditTyped ==
  /\ iPhase \in Phases \cup {"idle"} /\ iStep \in {"read", "hash"}
  /\ iCursor \in 0..NFiles /\ iBudget \in [Phases -> 0..NFiles] /\ iMaxId \in [Phases -> 0..NFiles]
  /\ iChunk \in SUBSET Snapshots

UserTyped ==
  /\ iUser = {} \/ \E u \in Requests : iUser = {u}
  /\ iActed \subseteq Files /\ iAlters \in 0..MaxAlters /\ iActions \in 0..MaxActions

\* A row the audit has read is flagged as it was then, or not at all; one the user has acted
\* on since was flagged then and is not now.  The user acts on flagged rows only.
ActedOn ==
  /\ \A u \in iUser : u.err # None
  /\ \A s \in iChunk : /\ iRow[s.id].err \in {s.err, None}
                       /\ s.id \in iActed => s.err # None /\ iRow[s.id].err = None

Seen(f) == \E e \in iList.seen : e[1] = f
AheadFlagged == [f \in Flagged |-> {g \in Flagged : Ahead(g, f)}]
PlaceOf(f) == Cardinality(AheadFlagged[f])
ServedAhead == iList.off + Cardinality(iList.keys)

\* What is wanted is still flagged, and what the next page does not bring has been seen or
\* lies at the offset of a later page, which will be asked for.
WalkOnTrack ==
  /\ iList.want \subseteq Flagged
  /\ iList.at = "next" => \A f \in iList.want : Seen(f) \/ PlaceOf(f) >= iList.off
  /\ iList.at = "rows" =>
       /\ ServedAhead <= NFiles
       /\ \A f \in iList.want : \/ Seen(f) \/ f \in iList.keys
                                \/ iList.keys # {} /\ ServedAhead < iList.total /\ ServedAhead <= PlaceOf(f)
  /\ iList.at = "end" => \A f \in iList.want : Seen(f)

IntegrityInv == RowsTyped /\ AuditTyped /\ UserTyped /\ iList \in Walks /\ ActedOn /\ WalkOnTrack

LEMMA FilesFinite == /\ IsFiniteSet(Files) /\ Cardinality(Files) = NFiles /\ NFiles \in Nat /\ NFiles >= 1
                     /\ \A S \in SUBSET Files : IsFiniteSet(S) /\ Cardinality(S) \in 0..NFiles
<1>1. NFiles \in Nat /\ NFiles >= 1
  BY IntegrityAssumption
<1>2. IsFiniteSet(Files) /\ Cardinality(Files) = NFiles
  BY <1>1, FS_Interval DEF Files
<1>3. ASSUME NEW S \in SUBSET Files PROVE IsFiniteSet(S) /\ Cardinality(S) \in 0..NFiles
  <2>1. IsFiniteSet(S) /\ Cardinality(S) <= NFiles
    BY <1>2, FS_Subset
  <2>2. Cardinality(S) \in Nat
    BY <2>1, FS_CardinalityType
  <2>. QED  BY <2>1, <2>2, <1>1
<1>. QED  BY <1>1, <1>2, <1>3

\* The listing's order, and the size of a page of it.
LEMMA PageOfFlagged ==
  ASSUME NEW off \in 0..NFiles
  PROVE  /\ PageKeys(off) \in SUBSET Files /\ Flagged \in SUBSET Files
         /\ \A f \in Flagged : PlaceOf(f) \in 0..(Cardinality(Flagged) - 1)
         /\ \A f \in Flagged : f \in PageKeys(off) <=> PlaceOf(f) \in off..(off + ListLimit - 1)
         /\ Cardinality(PageKeys(off)) =
              IF off >= Cardinality(Flagged) THEN 0
              ELSE IF off + ListLimit <= Cardinality(Flagged) THEN ListLimit
              ELSE Cardinality(Flagged) - off
<1>1. Flagged \in SUBSET Files /\ PageKeys(off) \in SUBSET Flagged
  BY DEF Flagged, PageKeys
<1>2. IsFiniteSet(Flagged) /\ Cardinality(Flagged) \in 0..NFiles
  BY <1>1, FilesFinite
<1>3. \A f \in Flagged : f \in Nat
  BY <1>1, FilesFinite DEF Files
<1>4. StrictOrder(Flagged, AheadFlagged)
  <2>1. AheadFlagged \in [Flagged -> SUBSET Flagged]
    BY DEF AheadFlagged
  <2>2. \A f \in Flagged : ~Ahead(f, f)
    BY <1>3 DEF Ahead
  <2>3. \A f, g, h \in Flagged : Ahead(f, g) /\ Ahead(g, h) => Ahead(f, h)
    BY <1>3 DEF Ahead
  <2>4. \A f, g \in Flagged : f # g => Ahead(f, g) \/ Ahead(g, f)
    BY <1>3 DEF Ahead
  <2>. QED  BY <2>1, <2>2, <2>3, <2>4 DEF StrictOrder, AheadFlagged
<1>5. \A f \in Flagged : PlaceOf(f) \in 0..(Cardinality(Flagged) - 1)
  BY <1>2, <1>4, PlacesAreNumbers DEF PlaceOf
<1>6. \A f \in Flagged : f \in PageKeys(off) <=> PlaceOf(f) \in off..(off + ListLimit - 1)
  BY DEF PageKeys, PlaceOf, AheadFlagged
<1>7. off \in Nat /\ ListLimit \in Nat \ {0}
  BY FilesFinite, IntegrityAssumption
<1>8. \A a \in Nat, l \in Nat \ {0}, page \in SUBSET Flagged :
        (\A i \in Flagged : i \in page <=> Cardinality(AheadFlagged[i]) \in a..(a + l - 1))
          => Cardinality(page) = IF a >= Cardinality(Flagged) THEN 0
                                 ELSE IF a + l <= Cardinality(Flagged) THEN l
                                 ELSE Cardinality(Flagged) - a
  BY <1>2, <1>4, WindowSize
<1>9. Cardinality(PageKeys(off)) =
              IF off >= Cardinality(Flagged) THEN 0
              ELSE IF off + ListLimit <= Cardinality(Flagged) THEN ListLimit
              ELSE Cardinality(Flagged) - off
  <2>1. \A i \in Flagged : i \in PageKeys(off) <=> Cardinality(AheadFlagged[i]) \in off..(off + ListLimit - 1)
    BY <1>6 DEF PlaceOf
  <2>. QED  BY <1>1, <1>7, <1>8, <2>1
<1>. QED  BY <1>1, <1>5, <1>6, <1>9

\* The first rows of a chunk: as many as the limit admits at most.
LEMMA ChunkSize ==
  ASSUME NEW S \in SUBSET Files, NEW n \in Nat
  PROVE  /\ SmallestOf(S, n) \in SUBSET S
         /\ Cardinality(SmallestOf(S, n)) \in Nat /\ Cardinality(SmallestOf(S, n)) <= n
<1>. DEFINE less == [f \in S |-> {g \in S : g < f}]
            upTo == [f \in S |-> {g \in S : g <= f}]
            page == SmallestOf(S, n)
<1>0. page \in SUBSET S /\ \A f \in S : f \in page <=> Cardinality(upTo[f]) <= n
  BY DEF SmallestOf
<1>1. IsFiniteSet(S) /\ \A f \in S : f \in Nat
  BY FilesFinite DEF Files
<1>2. StrictOrder(S, less)
  BY <1>1 DEF StrictOrder
<1>3. ASSUME NEW f \in S PROVE /\ Cardinality(upTo[f]) = Cardinality(less[f]) + 1
                               /\ Cardinality(less[f]) \in Nat
  <2>1. upTo[f] = less[f] \cup {f} /\ f \notin less[f]
    BY <1>1
  <2>2. IsFiniteSet(less[f])
    BY <1>1, FS_Subset
  <2>. QED  BY <2>1, <2>2, FS_AddElement, FS_CardinalityType
<1>. HIDE DEF page, less, upTo
<1>4. CASE n = 0
  <2>1. page = {}
    <3>1. ASSUME NEW f \in page PROVE FALSE
      BY <1>0, <1>3, <1>4
    <3>. QED  BY <3>1
  <2>. QED  BY <2>1, <1>4, FS_EmptySet DEF page
<1>5. CASE n # 0
  <2>1. \A f \in S : f \in page <=> Cardinality(less[f]) \in 0..(0 + n - 1)
    BY <1>0, <1>3, <1>5
  <2>2. \A a \in Nat, l \in Nat \ {0}, some \in SUBSET S :
         (\A i \in S : i \in some <=> Cardinality(less[i]) \in a..(a + l - 1))
          => Cardinality(some) = IF a >= Cardinality(S) THEN 0
                                 ELSE IF a + l <= Cardinality(S) THEN l
                                 ELSE Cardinality(S) - a
    BY <1>1, <1>2, WindowSize
  <2>3. Cardinality(page) = IF 0 >= Cardinality(S) THEN 0
                            ELSE IF 0 + n <= Cardinality(S) THEN n ELSE Cardinality(S) - 0
    BY <2>1, <2>2, <1>0, <1>5
  <2>4. Cardinality(S) \in Nat
    BY <1>1, FS_CardinalityType
  <2>. QED  BY <2>3, <2>4, <1>0 DEF page
<1>. QED  BY <1>4, <1>5

LEMMA NoWalkOnTrack == ASSUME iList = NoWalk PROVE iList \in Walks /\ WalkOnTrack
<1>1. NoWalk \in Walks /\ NoWalk.at = "idle" /\ NoWalk.want = {}
  BY FilesFinite DEF NoWalk, Walks
<1>. QED  BY <1>1 DEF WalkOnTrack

LEMMA IntegrityInvInit == IntegrityInit => IntegrityInv
<1>. SUFFICES ASSUME IntegrityInit PROVE IntegrityInv
  OBVIOUS
<1>1. RowsTyped
  <2>1. None \in Hashes /\ 1 \in Hashes
    BY DEF Hashes, Contents, None
  <2>. DEFINE row == [Absent EXCEPT !.in = TRUE]
  <2>2. row \in [in : BOOLEAN, sha : Hashes, err : Hashes]
    BY <2>1 DEF Absent
  <2>3. iRow = [f \in Files |-> row]
    BY DEF IntegrityInit
  <2>. HIDE DEF row
  <2>. QED  BY <2>1, <2>2, <2>3 DEF IntegrityInit, RowsTyped
<1>2. AuditTyped /\ UserTyped /\ ActedOn
  BY FilesFinite, IntegrityAssumption DEF IntegrityInit, AuditTyped, UserTyped, ActedOn
<1>3. iList \in Walks /\ WalkOnTrack
  BY NoWalkOnTrack DEF IntegrityInit
<1>. QED  BY <1>1, <1>2, <1>3 DEF IntegrityInv

\* A walk the step does not touch stays on track while flags only come.
LEMMA WalkOnWhileFlagsCome ==
  ASSUME WalkOnTrack, iList \in Walks, iList' = iList, Flagged \subseteq Flagged'
  PROVE  WalkOnTrack'
<1>1. Flagged' \in SUBSET Files /\ IsFiniteSet(Flagged')
  BY FilesFinite DEF Flagged
<1>2. ASSUME NEW f \in Flagged PROVE PlaceOf(f) <= PlaceOf(f)'
  <2>1. AheadFlagged[f] \subseteq AheadFlagged'[f] /\ AheadFlagged'[f] \subseteq Flagged'
    BY DEF AheadFlagged, Ahead
  <2>2. IsFiniteSet(AheadFlagged'[f])
    BY <1>1, <2>1, FS_Subset
  <2>. QED  BY <2>1, <2>2, FS_Subset DEF PlaceOf
<1>3. ASSUME NEW f \in Flagged PROVE PlaceOf(f) \in Nat /\ PlaceOf(f)' \in Nat
  <2>1. AheadFlagged[f] \subseteq Flagged' /\ AheadFlagged'[f] \subseteq Flagged'
    BY DEF AheadFlagged
  <2>. QED  BY <1>1, <2>1, FS_Subset, FS_CardinalityType DEF PlaceOf
<1>4. ServedAhead \in Nat /\ ServedAhead' = ServedAhead /\ iList.off \in Nat
  BY FilesFinite DEF Walks, ServedAhead
<1>5. \A f : Seen(f)' = Seen(f)
  BY DEF Seen
<1>6. iList.want \subseteq Flagged
  BY DEF WalkOnTrack
<1>7. iList.at = "next" => \A f \in iList.want : Seen(f) \/ PlaceOf(f)' >= iList.off
  BY <1>2, <1>3, <1>4, <1>6 DEF WalkOnTrack
<1>8. iList.at = "rows" =>
        /\ ServedAhead <= NFiles
        /\ \A f \in iList.want : \/ Seen(f) \/ f \in iList.keys
                                 \/ iList.keys # {} /\ ServedAhead < iList.total /\ ServedAhead <= PlaceOf(f)'
  BY <1>2, <1>3, <1>4, <1>6 DEF WalkOnTrack
<1>. QED  BY <1>4, <1>5, <1>6, <1>7, <1>8 DEF WalkOnTrack

\* A walk whose wanted set is emptied has nothing to miss.
LEMMA UnflaggedWalk ==
  ASSUME WalkOnTrack, iList \in Walks, Unflagged
  PROVE  WalkOnTrack' /\ iList' \in Walks
<1>1. iList' \in Walks /\ iList'.want = {} /\ iList'.at = iList.at /\ ServedAhead' = ServedAhead
  BY DEF Unflagged, Walks, ServedAhead
<1>. QED  BY <1>1 DEF WalkOnTrack

LEMMA AuditStartKeeps == ASSUME IntegrityInv, AuditStart PROVE IntegrityInv'
<1>1. ASSUME NEW ph \in Phases PROVE Max(ImportedRows(ph) \cup {0}) \in 0..NFiles
  <2>. DEFINE S == ImportedRows(ph) \cup {0}
  <2>0. ImportedRows(ph) \subseteq 1..NFiles /\ NFiles \in Nat
    BY FilesFinite, IntegrityAssumption DEF ImportedRows, OfPhase, Files
  <2>1. S \in SUBSET Nat /\ S \subseteq 0..NFiles /\ S # {}
    BY <2>0
  <2>. HIDE DEF S
  <2>2. Max(S) \in S
    BY <2>1, FilesFinite, MaxOfBounded
  <2>. QED  BY <2>1, <2>2 DEF S
<1>2. ASSUME NEW ph \in Phases PROVE Cardinality(ImportedRows(ph)) \in 0..NFiles
  BY FilesFinite, IntegrityAssumption DEF ImportedRows, OfPhase
<1>3. AuditTyped'
  BY <1>1, <1>2, FilesFinite DEF AuditStart, AuditTyped, Phases
<1>4. UNCHANGED <<iRow, iDisk, iUser, iList, iActed, iAlters, iActions>> /\ iChunk' = {}
  BY DEF AuditStart
<1>5. WalkOnTrack'
  BY <1>4, WalkOnWhileFlagsCome DEF IntegrityInv, Flagged
<1>. QED  BY <1>3, <1>4, <1>5 DEF IntegrityInv, RowsTyped, UserTyped, ActedOn

LEMMA ReadChunkKeeps == ASSUME IntegrityInv, NEW ph \in Phases, ReadChunk(ph) PROVE IntegrityInv'
<1>. DEFINE left == {f \in ImportedRows(ph) : f > iCursor /\ f <= iMaxId[ph]}
            limit == IF iBudget[ph] < AuditChunk THEN iBudget[ph] ELSE AuditChunk
            shown == SmallestOf(left, limit)
<1>1. /\ shown # {} /\ iChunk' = {RowSnapshot(f) : f \in shown} /\ iCursor' = Max(shown)
      /\ iBudget' = [iBudget EXCEPT ![ph] = @ - Cardinality(shown)]
      /\ iStep' = "hash" /\ iActed' = {}
      /\ UNCHANGED <<iRow, iDisk, iPhase, iMaxId, iUser, iList, iAlters, iActions>>
  BY DEF ReadChunk
<1>2. left \in SUBSET Files
  BY IntegrityAssumption DEF ImportedRows, OfPhase
<1>3. limit \in Nat /\ limit <= iBudget[ph] /\ iBudget[ph] \in 0..NFiles /\ iBudget \in [Phases -> 0..NFiles]
  <2>1. iBudget[ph] \in 0..NFiles /\ iBudget \in [Phases -> 0..NFiles] /\ NFiles \in Nat /\ AuditChunk \in Nat
    BY FilesFinite, IntegrityAssumption DEF IntegrityInv, AuditTyped
  <2>. QED  BY <2>1
<1>. HIDE DEF left, limit
<1>4. shown \in SUBSET Files /\ Cardinality(shown) \in Nat /\ Cardinality(shown) <= limit
  BY <1>2, <1>3, ChunkSize
<1>. HIDE DEF shown
<1>5. Max(shown) \in 0..NFiles
  <2>1. shown \in SUBSET Nat /\ shown \subseteq 0..NFiles
    BY <1>4, FilesFinite DEF Files
  <2>2. Max(shown) \in shown
    BY <2>1, <1>1, FilesFinite, MaxOfBounded
  <2>. QED  BY <2>1, <2>2
<1>6. iBudget' \in [Phases -> 0..NFiles]
  BY <1>1, <1>3, <1>4, FilesFinite
<1>7. iChunk' \in SUBSET Snapshots
  BY <1>1, <1>4 DEF RowSnapshot, Snapshots, IntegrityInv, RowsTyped, Hashes
<1>8. AuditTyped'
  BY <1>1, <1>5, <1>6, <1>7 DEF IntegrityInv, AuditTyped
<1>9. WalkOnTrack'
  BY <1>1, WalkOnWhileFlagsCome DEF IntegrityInv, Flagged
<1>10. ActedOn'
  BY <1>1 DEF IntegrityInv, ActedOn, RowSnapshot
<1>. QED  BY <1>1, <1>8, <1>9, <1>10 DEF IntegrityInv, RowsTyped, UserTyped

LEMMA HashKeeps == ASSUME IntegrityInv, NEW s \in iChunk, Hash(s) PROVE IntegrityInv'
<1>1. UNCHANGED <<iRow, iDisk, iPhase, iMaxId, iBudget, iCursor, iStep, iUser, iList, iActed,
                  iAlters, iActions>>
  BY DEF Hash
<1>2. \A t \in iChunk' : \/ t \in iChunk
                         \/ t = [s EXCEPT !.got = ComputeSha1(s.id)]
  BY DEF Hash
<1>3. s \in Snapshots /\ ComputeSha1(s.id) \in Hashes
  BY DEF IntegrityInv, AuditTyped, RowsTyped, ComputeSha1, Snapshots
<1>. DEFINE hashed == [s EXCEPT !.got = ComputeSha1(s.id)]
<1>4. hashed \in Snapshots /\ hashed.id = s.id /\ hashed.err = s.err
  BY <1>3 DEF Snapshots
<1>. HIDE DEF hashed
<1>5. iChunk' \in SUBSET Snapshots
  BY <1>2, <1>4 DEF IntegrityInv, AuditTyped, hashed
<1>6. ActedOn'
  BY <1>1, <1>2, <1>4 DEF IntegrityInv, ActedOn, hashed
<1>7. WalkOnTrack'
  BY <1>1, WalkOnWhileFlagsCome DEF IntegrityInv, Flagged
<1>. QED  BY <1>1, <1>5, <1>6, <1>7 DEF IntegrityInv, RowsTyped, UserTyped, AuditTyped

\* What the audit writes: never the import, and never the loss of a flag.
LEMMA ApplyWrites ==
  ASSUME IntegrityInv, Apply
  PROVE  /\ RowsTyped'
         /\ \A f \in Files : iRow'[f].in = iRow[f].in /\ (iRow[f].err # None => iRow'[f].err # None)
<1>. DEFINE read(f) == \E s \in iChunk : s.id = f /\ Current(s)
            at(f) == CHOOSE s \in iChunk : s.id = f
<1>1. iRow' = [f \in Files |-> IF read(f) THEN Audited(at(f)) ELSE iRow[f]]
  BY DEF Apply
<1>2. ASSUME NEW f \in Files, read(f)
      PROVE  /\ Audited(at(f)) \in [in : BOOLEAN, sha : Hashes, err : Hashes]
             /\ Audited(at(f)).in = iRow[f].in
             /\ iRow[f].err # None => Audited(at(f)).err # None
  <2>1. at(f) \in iChunk /\ at(f).id = f
    BY <1>2
  <2>2. at(f).got \in Hashes /\ at(f).got # None
    BY <2>1 DEF Apply, IntegrityInv, AuditTyped, Snapshots
  <2>. HIDE DEF at
  <2>3. iRow[f] \in [in : BOOLEAN, sha : Hashes, err : Hashes]
    BY DEF IntegrityInv, RowsTyped
  <2>. QED  BY <2>1, <2>2, <2>3 DEF Audited
<1>. HIDE DEF read, at
<1>3. RowsTyped'
  BY <1>1, <1>2 DEF Apply, RowsTyped, IntegrityInv
<1>. QED  BY <1>1, <1>2, <1>3

LEMMA ApplyKeeps == ASSUME IntegrityInv, Apply PROVE IntegrityInv'
<1>1. /\ iStep' = "read" /\ iChunk' = {}
      /\ UNCHANGED <<iDisk, iPhase, iMaxId, iBudget, iCursor, iUser, iList, iActed, iAlters, iActions>>
  BY DEF Apply
<1>2. Flagged \subseteq Flagged'
  BY ApplyWrites DEF Flagged
<1>3. WalkOnTrack'
  BY <1>1, <1>2, WalkOnWhileFlagsCome DEF IntegrityInv
<1>. QED  BY <1>1, <1>3, ApplyWrites DEF IntegrityInv, UserTyped, AuditTyped, ActedOn

LEMMA PhaseDoneKeeps == ASSUME IntegrityInv, PhaseDone PROVE IntegrityInv'
<1>1. /\ UNCHANGED <<iRow, iDisk, iMaxId, iBudget, iStep, iChunk, iUser, iList, iActed, iAlters, iActions>>
      /\ iCursor' = 0 /\ iPhase' \in Phases \cup {"idle"}
  BY DEF PhaseDone, Phases
<1>2. WalkOnTrack'
  BY <1>1, WalkOnWhileFlagsCome DEF IntegrityInv, Flagged
<1>. QED  BY <1>1, <1>2, FilesFinite DEF IntegrityInv, RowsTyped, UserTyped, AuditTyped, ActedOn

LEMMA ListKeeps == ASSUME IntegrityInv, ListMismatches PROVE IntegrityInv'
<1>. DEFINE walk == IF iList.at = "idle" THEN [NoWalk EXCEPT !.want = Flagged] ELSE iList
            keys == PageKeys(walk.off)
            n == Cardinality(Flagged)
<1>1. /\ iList' = [walk EXCEPT !.at = "rows", !.keys = keys, !.total = n]
      /\ UNCHANGED <<iRow, iDisk, iAudit, iUser, iActed, iAlters, iActions>> /\ iList.at \in {"idle", "next"}
  BY DEF ListMismatches
<1>2. Flagged \in SUBSET Files /\ iList \in Walks
  BY DEF Flagged, IntegrityInv
<1>3. n \in 0..NFiles /\ NFiles \in Nat /\ ListLimit \in Nat \ {0}
  BY <1>2, FilesFinite, IntegrityAssumption
<1>4. walk \in Walks /\ walk.want \subseteq Flagged
      /\ \A f \in walk.want : (\E e \in walk.seen : e[1] = f) \/ PlaceOf(f) >= walk.off
  <2>1. CASE iList.at = "idle"
    <3>1. walk \in Walks /\ walk.want = Flagged /\ walk.off = 0
      BY <2>1, <1>2, FilesFinite DEF NoWalk, Walks
    <3>2. \A f \in Flagged : PlaceOf(f) \in 0..(Cardinality(Flagged) - 1)
      BY <3>1, PageOfFlagged DEF Walks
    <3>. QED  BY <3>1, <3>2, <1>3
  <2>2. CASE iList.at = "next"
    BY <2>2, <1>2 DEF IntegrityInv, WalkOnTrack, Seen
  <2>. QED  BY <2>1, <2>2, <1>1
<1>. HIDE DEF walk
<1>5. /\ keys \in SUBSET Files
      /\ \A f \in Flagged : PlaceOf(f) \in 0..(n - 1)
      /\ \A f \in Flagged : f \in keys <=> PlaceOf(f) \in walk.off..(walk.off + ListLimit - 1)
      /\ Cardinality(keys) = IF walk.off >= n THEN 0
                             ELSE IF walk.off + ListLimit <= n THEN ListLimit ELSE n - walk.off
  <2>1. walk.off \in 0..NFiles
    BY <1>4 DEF Walks
  <2>. QED  BY <2>1, PageOfFlagged
<1>6. walk.off \in 0..NFiles /\ walk.off + Cardinality(keys) <= NFiles
  <2>1. walk.off \in 0..NFiles
    BY <1>4 DEF Walks
  <2>. HIDE DEF keys, n
  <2>. QED  BY <2>1, <1>3, <1>5
<1>. HIDE DEF keys, n
<1>7. /\ iList' \in Walks /\ iList'.at = "rows" /\ iList'.keys = keys /\ iList'.total = n
      /\ iList'.want = walk.want /\ iList'.seen = walk.seen /\ iList'.off = walk.off
  BY <1>1, <1>3, <1>4, <1>5 DEF Walks
<1>8. ASSUME NEW f \in walk.want
      PROVE  \/ \E e \in walk.seen : e[1] = f
             \/ f \in keys
             \/ keys # {} /\ walk.off + Cardinality(keys) < n /\ walk.off + Cardinality(keys) <= PlaceOf(f)
  <2>. SUFFICES ASSUME ~(\E e \in walk.seen : e[1] = f), f \notin keys
                PROVE  keys # {} /\ walk.off + Cardinality(keys) < n /\ walk.off + Cardinality(keys) <= PlaceOf(f)
    OBVIOUS
  <2>1. f \in Flagged /\ PlaceOf(f) >= walk.off /\ PlaceOf(f) \in 0..(n - 1)
    BY <1>4, <1>5
  <2>2. PlaceOf(f) >= walk.off + ListLimit
    BY <2>1, <1>3, <1>5, <1>6
  <2>3. Cardinality(keys) = ListLimit
    BY <2>1, <2>2, <1>3, <1>5, <1>6
  <2>4. keys # {}
    BY <2>3, <1>3, FS_EmptySet
  <2>. QED  BY <2>1, <2>2, <2>3, <2>4, <1>3, <1>6
<1>9. WalkOnTrack'
  <2>1. \A f : PlaceOf(f)' = PlaceOf(f)
    BY <1>1 DEF PlaceOf, AheadFlagged, Flagged, Ahead
  <2>2. Flagged' = Flagged
    BY <1>1 DEF Flagged
  <2>3. ServedAhead' = walk.off + Cardinality(keys)
    BY <1>7 DEF ServedAhead
  <2>. QED  BY <1>4, <1>6, <1>7, <1>8, <2>1, <2>2, <2>3 DEF WalkOnTrack, Seen
<1>. QED  BY <1>1, <1>7, <1>9 DEF IntegrityInv, RowsTyped, UserTyped, AuditTyped, iAudit, ActedOn

LEMMA AnswerKeeps == ASSUME IntegrityInv, AnswerPage PROVE IntegrityInv'
<1>. DEFINE shown == iList.keys \cap Flagged
            new == {<<f, Resolved(f)>> : f \in shown}
<1>1. /\ iList.at = "rows"
      /\ iList' = [iList EXCEPT
          !.at = IF iList.keys # {} /\ ServedAhead < iList.total THEN "next" ELSE "end",
          !.off = ServedAhead, !.keys = {}, !.seen = @ \cup new]
      /\ UNCHANGED <<iRow, iDisk, iAudit, iUser, iActed, iAlters, iActions>>
  BY DEF AnswerPage, ServedAhead
<1>2. iList \in Walks /\ WalkOnTrack
  BY DEF IntegrityInv
<1>3. ServedAhead \in 0..NFiles
  BY <1>1, <1>2, FilesFinite DEF WalkOnTrack, ServedAhead, Walks
<1>4. new \in SUBSET (Files \X BOOLEAN)
  <2>1. shown \subseteq Files
    BY <1>2 DEF Walks
  <2>2. \A f \in shown : Resolved(f) \in BOOLEAN
    BY DEF Resolved
  <2>. QED  BY <2>1, <2>2
<1>5. ASSUME NEW f \in shown PROVE \E e \in new : e[1] = f
  <2>1. <<f, Resolved(f)>> \in new /\ <<f, Resolved(f)>>[1] = f
    OBVIOUS
  <2>. HIDE DEF new
  <2>. QED  BY <2>1
<1>. HIDE DEF new
<1>6. /\ iList' \in Walks /\ iList'.want = iList.want /\ iList'.seen = iList.seen \cup new
      /\ iList'.off = ServedAhead /\ iList'.at \in {"next", "end"}
      /\ iList'.at = "end" => ~(iList.keys # {} /\ ServedAhead < iList.total)
  <2>. HIDE DEF shown
  <2>. QED  BY <1>1, <1>2, <1>3, <1>4 DEF Walks
<1>7. Flagged' = Flagged /\ \A f : PlaceOf(f)' = PlaceOf(f)
  BY <1>1 DEF PlaceOf, AheadFlagged, Flagged, Ahead
<1>8. ASSUME NEW f \in iList.want
      PROVE  Seen(f)' \/ (iList.keys # {} /\ ServedAhead < iList.total /\ ServedAhead <= PlaceOf(f))
  <2>1. f \in Flagged
    BY <1>2 DEF WalkOnTrack
  <2>2. Seen(f) => Seen(f)'
    BY <1>6 DEF Seen
  <2>3. f \in iList.keys => Seen(f)'
    BY <1>5, <1>6, <2>1 DEF Seen
  <2>. QED  BY <1>1, <1>2, <2>2, <2>3 DEF WalkOnTrack
<1>9. \A f \in Flagged : PlaceOf(f) \in Nat
  <2>1. 0 \in 0..NFiles /\ \A S \in SUBSET Files : Cardinality(S) \in 0..NFiles
    BY FilesFinite
  <2>. QED  BY <2>1, FilesFinite DEF PlaceOf, AheadFlagged, Flagged
<1>10. WalkOnTrack'
  <2>1. iList'.want \subseteq Flagged'
    BY <1>2, <1>6, <1>7 DEF WalkOnTrack
  <2>2. ASSUME iList'.at = "next", NEW f \in iList'.want PROVE Seen(f)' \/ PlaceOf(f)' >= iList'.off
    BY <2>2, <1>3, <1>6, <1>7, <1>8, <1>9, <2>1
  <2>3. ASSUME iList'.at = "end", NEW f \in iList'.want PROVE Seen(f)'
    BY <2>3, <1>6, <1>8
  <2>. QED  BY <2>1, <2>2, <2>3, <1>6 DEF WalkOnTrack
<1>. QED  BY <1>1, <1>6, <1>10 DEF IntegrityInv, RowsTyped, UserTyped, AuditTyped, iAudit, ActedOn

LEMMA ClearKeeps == ASSUME IntegrityInv, NEW u \in iUser, ClearState(u) PROVE IntegrityInv'
<1>0. /\ u \in Requests /\ u.err # None /\ iUser' = {}
      /\ UNCHANGED <<iDisk, iPhase, iMaxId, iBudget, iCursor, iStep, iChunk, iAlters, iActions>>
  BY DEF ClearState, IntegrityInv, UserTyped, ActedOn, iAudit
<1>1. CASE Current(u)
  <2>1. /\ iRow' = [iRow EXCEPT ![u.id].err = None, ![u.id].sha = IF u.reset THEN None ELSE @]
        /\ iActed' = iActed \cup {u.id} /\ Unflagged
    BY <1>1 DEF ClearState
  <2>2. u.id \in Files /\ u.reset \in BOOLEAN /\ None \in Hashes
    BY <1>0 DEF Requests, Hashes
  <2>3. /\ RowsTyped' /\ iRow'[u.id].err = None
        /\ \A f \in Files \ {u.id} : iRow'[f] = iRow[f]
    <3>1. iRow \in [Files -> [in : BOOLEAN, sha : Hashes, err : Hashes]] /\ iDisk \in [Files -> Hashes]
      BY DEF IntegrityInv, RowsTyped
    <3>2. iRow' \in [Files -> [in : BOOLEAN, sha : Hashes, err : Hashes]]
      BY <2>1, <2>2, <3>1
    <3>3. iRow'[u.id].err = None /\ \A f \in Files \ {u.id} : iRow'[f] = iRow[f]
      BY <2>1, <2>2, <3>1
    <3>. QED  BY <3>1, <3>2, <3>3, <1>0 DEF RowsTyped
  <2>4. WalkOnTrack' /\ iList' \in Walks
    BY <2>1, UnflaggedWalk DEF IntegrityInv
  <2>5. ASSUME NEW s \in iChunk
        PROVE  /\ iRow'[s.id].err \in {s.err, None}
               /\ s.id \in iActed' => s.err # None /\ iRow'[s.id].err = None
    <3>1. s.id \in Files /\ iRow[s.id].err \in {s.err, None}
          /\ (s.id \in iActed => s.err # None /\ iRow[s.id].err = None)
      BY DEF IntegrityInv, AuditTyped, ActedOn, Snapshots
    <3>2. CASE s.id = u.id
      <4>1. iRow[u.id].err = u.err
        BY <1>1 DEF Current
      <4>. QED  BY <3>1, <3>2, <4>1, <1>0, <2>3
    <3>3. CASE s.id # u.id
      BY <3>1, <3>3, <2>1, <2>3
    <3>. QED  BY <3>2, <3>3
  <2>. QED  BY <1>0, <2>1, <2>2, <2>3, <2>4, <2>5 DEF IntegrityInv, AuditTyped, UserTyped, ActedOn
<1>2. CASE ~Current(u)
  <2>1. UNCHANGED <<iRow, iActed, iList>>
    BY <1>2 DEF ClearState
  <2>2. WalkOnTrack'
    BY <2>1, WalkOnWhileFlagsCome DEF IntegrityInv, Flagged
  <2>. QED  BY <1>0, <2>1, <2>2 DEF IntegrityInv, RowsTyped, AuditTyped, UserTyped, ActedOn
<1>. QED  BY <1>1, <1>2

LEMMA DeleteOrImportKeeps == ASSUME IntegrityInv, NEW f \in Files, DeleteOrImport(f) PROVE IntegrityInv'
<1>. DEFINE row == IF iRow[f].in THEN Absent ELSE [Absent EXCEPT !.in = TRUE]
            there == IF iRow[f].in THEN None ELSE 1
<1>1. /\ iAlters' = iAlters + 1 /\ iAlters + iActions < MaxAlters
      /\ iRow' = [iRow EXCEPT ![f] = row] /\ iDisk' = [iDisk EXCEPT ![f] = there]
      /\ IF f \in Flagged THEN Unflagged ELSE UNCHANGED iList
      /\ UNCHANGED <<iPhase, iMaxId, iBudget, iCursor, iStep, iChunk, iUser, iActed, iActions>>
  BY DEF DeleteOrImport, Bounded, iAudit, IntegrityInv, RowsTyped
<1>2. row \in [in : BOOLEAN, sha : Hashes, err : Hashes] /\ row.err = None /\ there \in Hashes
  <2>1. None \in Hashes /\ 1 \in Hashes
    BY DEF Hashes, Contents, None
  <2>2. Absent \in [in : BOOLEAN, sha : Hashes, err : Hashes] /\ Absent.err = None
    BY <2>1 DEF Absent
  <2>3. /\ [Absent EXCEPT !.in = TRUE] \in [in : BOOLEAN, sha : Hashes, err : Hashes]
        /\ [Absent EXCEPT !.in = TRUE].err = None
    BY <2>2
  <2>. QED  BY <2>1, <2>2, <2>3
<1>. HIDE DEF row, there
<1>3. RowsTyped' /\ iRow'[f].err = None /\ \A g \in Files \ {f} : iRow'[g] = iRow[g]
  BY <1>1, <1>2 DEF IntegrityInv, RowsTyped
<1>4. UserTyped'
  <2>1. iAlters \in 0..MaxAlters /\ iActions \in 0..MaxActions /\ MaxAlters \in Nat /\ MaxActions \in Nat
    BY IntegrityAssumption DEF IntegrityInv, UserTyped
  <2>2. iAlters' \in 0..MaxAlters
    BY <1>1, <2>1
  <2>. QED  BY <1>1, <2>2 DEF IntegrityInv, UserTyped
<1>5. ActedOn'
  <2>1. \A s \in iChunk : s.id \in Files
    BY DEF IntegrityInv, AuditTyped, Snapshots
  <2>. QED  BY <1>1, <1>3, <2>1 DEF IntegrityInv, ActedOn
<1>6. WalkOnTrack' /\ iList' \in Walks
  <2>1. CASE f \in Flagged
    BY <1>1, <2>1, UnflaggedWalk DEF IntegrityInv
  <2>2. CASE f \notin Flagged
    <3>1. Flagged \subseteq Flagged'
      BY <1>3, <2>2 DEF Flagged
    <3>. QED  BY <1>1, <2>2, <3>1, WalkOnWhileFlagsCome DEF IntegrityInv
  <2>. QED  BY <2>1, <2>2
<1>. QED  BY <1>1, <1>3, <1>4, <1>5, <1>6 DEF IntegrityInv, AuditTyped

\* The other steps leave the rows and the walk alone.
LEMMA RequestKeeps == ASSUME IntegrityInv, NEW f \in Files, Rebaseline(f) \/ Dismiss(f)
                      PROVE  IntegrityInv'
<1>1. PICK reset \in BOOLEAN :
        /\ iUser' = {[id |-> f, sha |-> iRow[f].sha, err |-> iRow[f].err, reset |-> reset]}
        /\ iRow[f].err # None /\ iActions' = iActions + 1 /\ iActions < MaxActions
        /\ UNCHANGED <<iRow, iDisk, iPhase, iMaxId, iBudget, iCursor, iStep, iChunk, iList, iActed, iAlters>>
  BY DEF Rebaseline, Dismiss, iAudit
<1>2. WalkOnTrack'
  BY <1>1, WalkOnWhileFlagsCome DEF IntegrityInv, Flagged
<1>3. iActions' \in 0..MaxActions
  BY <1>1, IntegrityAssumption DEF IntegrityInv, UserTyped
<1>4. [id |-> f, sha |-> iRow[f].sha, err |-> iRow[f].err, reset |-> reset] \in Requests
  BY DEF IntegrityInv, RowsTyped, Requests
<1>. QED  BY <1>1, <1>2, <1>3, <1>4 DEF IntegrityInv, RowsTyped, AuditTyped, UserTyped, ActedOn

LEMMA AlterKeeps == ASSUME IntegrityInv, NEW f \in Files, NEW c \in Contents \cup {None}, AlterFile(f, c)
                    PROVE  IntegrityInv'
<1>1. /\ iAlters' = iAlters + 1 /\ iAlters + iActions < MaxAlters /\ iDisk' = [iDisk EXCEPT ![f] = c]
      /\ UNCHANGED <<iRow, iPhase, iMaxId, iBudget, iCursor, iStep, iChunk, iUser, iList, iActed, iActions>>
  BY DEF AlterFile, Bounded, iAudit
<1>2. WalkOnTrack'
  BY <1>1, WalkOnWhileFlagsCome DEF IntegrityInv, Flagged
<1>3. UserTyped'
  <2>1. iAlters \in 0..MaxAlters /\ iActions \in 0..MaxActions /\ MaxAlters \in Nat /\ MaxActions \in Nat
    BY IntegrityAssumption DEF IntegrityInv, UserTyped
  <2>2. iAlters' \in 0..MaxAlters
    BY <1>1, <2>1
  <2>. QED  BY <1>1, <2>2 DEF IntegrityInv, UserTyped
<1>4. RowsTyped'
  BY <1>1 DEF IntegrityInv, RowsTyped, Hashes
<1>. QED  BY <1>1, <1>2, <1>3, <1>4 DEF IntegrityInv, AuditTyped, ActedOn

LEMMA IntegrityInvNext == IntegrityInv /\ [IntegrityNext]_iVars => IntegrityInv'
<1>. SUFFICES ASSUME IntegrityInv, [IntegrityNext]_iVars PROVE IntegrityInv'
  OBVIOUS
<1>1. CASE AuditStep
  BY <1>1, AuditStartKeeps, ReadChunkKeeps, HashKeeps, ApplyKeeps, PhaseDoneKeeps
     DEF AuditStep, EpisodeChunk, MovieChunk, Phases
<1>2. CASE ListMismatches
  BY <1>2, ListKeeps
<1>3. CASE AnswerPage
  BY <1>3, AnswerKeeps
<1>4. CASE WalkEnds
  <2>1. /\ iList' = NoWalk
        /\ UNCHANGED <<iRow, iDisk, iPhase, iMaxId, iBudget, iCursor, iStep, iChunk, iUser, iActed, iAlters, iActions>>
    BY <1>4 DEF WalkEnds, iAudit
  <2>2. iList' \in Walks /\ WalkOnTrack'
    BY <2>1, FilesFinite DEF NoWalk, Walks, WalkOnTrack
  <2>. QED  BY <2>1, <2>2 DEF IntegrityInv, RowsTyped, AuditTyped, UserTyped, ActedOn
<1>5. ASSUME NEW f \in Files, Rebaseline(f) \/ Dismiss(f) PROVE IntegrityInv'
  BY <1>5, RequestKeeps
<1>6. ASSUME NEW f \in Files, DeleteOrImport(f) PROVE IntegrityInv'
  BY <1>6, DeleteOrImportKeeps
<1>7. ASSUME NEW u \in iUser, ClearState(u) PROVE IntegrityInv'
  BY <1>7, ClearKeeps
<1>8. ASSUME NEW f \in Files, NEW c \in Contents \cup {None}, AlterFile(f, c) PROVE IntegrityInv'
  BY <1>8, AlterKeeps
<1>9. CASE UNCHANGED iVars
  <2>1. UNCHANGED <<iRow, iDisk, iPhase, iMaxId, iBudget, iCursor, iStep, iChunk, iUser, iList, iActed, iAlters, iActions>>
    BY <1>9 DEF iVars, iAudit
  <2>2. WalkOnTrack'
    BY <2>1, WalkOnWhileFlagsCome DEF IntegrityInv, Flagged
  <2>. QED  BY <2>1, <2>2 DEF IntegrityInv, RowsTyped, AuditTyped, UserTyped, ActedOn
<1>. QED  BY <1>1, <1>2, <1>3, <1>4, <1>5, <1>6, <1>7, <1>8, <1>9 DEF IntegrityNext

LEMMA IntegrityInvTyped == IntegrityInv => IntegrityTypeOK /\ WalkSeesAll
<1>. SUFFICES ASSUME IntegrityInv PROVE IntegrityTypeOK /\ WalkSeesAll
  OBVIOUS
<1>1. Cardinality(iUser) <= 1
  <2>1. iUser = {} \/ \E u : iUser = {u}
    BY DEF IntegrityInv, UserTyped
  <2>2. CASE iUser = {}
    BY <2>2, FS_EmptySet
  <2>3. ASSUME NEW u, iUser = {u} PROVE Cardinality(iUser) <= 1
    BY <2>3, FS_Singleton
  <2>. QED  BY <2>1, <2>2, <2>3
<1>2. WalkSeesAll
  BY DEF IntegrityInv, WalkOnTrack, WalkSeesAll, Seen
<1>. QED  BY <1>1, <1>2 DEF IntegrityInv, RowsTyped, AuditTyped, UserTyped, Walks, Snapshots, Hashes, IntegrityTypeOK

\* A chunk is applied only to rows that are as they were read, and no acted-on row is.
LEMMA ApplySpares == ASSUME IntegrityInv, Apply, NEW f \in iActed PROVE iRow'[f] = iRow[f]
<1>1. ~\E s \in iChunk : s.id = f /\ Current(s)
  BY DEF IntegrityInv, ActedOn, Current
<1>2. f \in Files
  BY DEF IntegrityInv, UserTyped
<1>. QED  BY <1>1, <1>2 DEF Apply

ActionStands == /\ iStep = "hash" /\ iStep' = "read" => \A f \in iActed : iRow'[f] = iRow[f]
                /\ WalkSeesAll'

LEMMA UserWins == IntegrityInv /\ [IntegrityNext]_iVars => [ActionStands]_iVars
<1>. SUFFICES ASSUME IntegrityInv, IntegrityNext PROVE ActionStands
  OBVIOUS
<1>1. WalkSeesAll'
  <2>1. IntegrityInv'
    BY IntegrityInvNext
  <2>. QED  BY <2>1 DEF IntegrityInv, WalkOnTrack, WalkSeesAll, Seen
<1>2. ASSUME iStep = "hash", iStep' = "read" PROVE Apply \/ UNCHANGED iRow
  BY <1>2 DEF IntegrityNext, AuditStep, AuditStart, EpisodeChunk, MovieChunk, ReadChunk, Hash, PhaseDone,
              ListMismatches, AnswerPage, WalkEnds, Rebaseline, Dismiss, DeleteOrImport, ClearState, AlterFile,
              iAudit
<1>. QED  BY <1>1, <1>2, ApplySpares DEF ActionStands

\* What a user does about a flagged file stands: the audit does not write over a row the
\* user has acted on since it was read, and the list the user walks shows every file that
\* stays flagged (scheduler_tasks/integrity.py, torrents/integrity.py).
THEOREM UserActionsStand == IntegritySpec => []IntegrityTypeOK /\ UserActionStands
<1>1. IntegrityInit => IntegrityInv
  BY IntegrityInvInit
<1>2. IntegrityInv /\ [IntegrityNext]_iVars => IntegrityInv'
  BY IntegrityInvNext
<1>3. IntegrityInv => IntegrityTypeOK
  BY IntegrityInvTyped
<1>4. IntegrityInv /\ [IntegrityNext]_iVars => [ActionStands]_iVars
  BY UserWins
<1>. QED  BY <1>1, <1>2, <1>3, <1>4, PTL DEF IntegritySpec, UserActionStands, ActionStands

(***************************************************************************)
(* Settings that all processes share (settings/mutation.py, reload.py).    *)
(***************************************************************************)
ProcRecs == [live : Revs, rt : Revs, local : Revs, epoch : Revs, pc : {"down", "auth", "up"}]
MutRecs == [pc : {"idle", "stage", "reconcile", "reload"} \cup Locked, p : GProcs \cup {"none"},
            exp : Revs, epoch : Revs, rev : Revs]
SubRecs == [pc : {"wait", "reload"}, rev : Revs]

SettingsTyped ==
  /\ gRev \in Revs /\ gVals \in [Revs -> Revs]
  /\ gProc \in [GProcs -> ProcRecs] /\ gMut \in [GMuts -> MutRecs] /\ gSub \in [GProcs -> SubRecs]
  /\ gLock \in [GProcs -> GMuts \cup {NoHolder}] /\ gBus \in [GProcs -> SUBSET Revs]
  /\ gFails \in 0..GMaxFails /\ gRestarts \in 0..GMaxRestarts

\* What a process runs is at least the revision it has reached and at most the row's; each
\* of its own changes took it one revision further.
ProcKeepsUp(p) ==
  /\ gProc[p].local <= gProc[p].live /\ gProc[p].local <= gProc[p].rt
  /\ gProc[p].live <= gRev /\ gProc[p].rt <= gRev /\ gProc[p].epoch <= gProc[p].local
  /\ gSub[p].rev <= gRev

\* A request is one of a running process; within the critical section it holds the lock,
\* and what it has saved and not yet applied is newer than what its process has reached.
MutInOrder(m) ==
  /\ gMut[m].pc # "idle" => gMut[m].p \in GProcs /\ gProc[gMut[m].p].pc = "up"
  /\ gMut[m].pc \in Locked => gLock[gMut[m].p] = m
  /\ gMut[m].pc = "apply" => gMut[m].rev > gProc[gMut[m].p].local
  /\ gMut[m].rev <= gRev

HolderInside(p) == gLock[p] # NoHolder => gMut[gLock[p]].p = p /\ gMut[gLock[p]].pc \in Locked

SettingsInv ==
  /\ SettingsTyped
  /\ \A p \in GProcs : ProcKeepsUp(p) /\ HolderInside(p)
  /\ \A m \in GMuts : MutInOrder(m)

LEMMA RevsAreNumbers == /\ Revs \subseteq Nat /\ 0 \in Revs /\ GMaxRev \in Nat
                        /\ \A n \in Nat : n <= GMaxRev => n \in Revs
                        /\ \A n \in Revs : n <= GMaxRev /\ n \in Nat
BY SettingsAssumption DEF Revs

LEMMA SettingsInvInit == SettingsInit => SettingsInv
<1>. SUFFICES ASSUME SettingsInit PROVE SettingsInv
  OBVIOUS
<1>. USE RevsAreNumbers, SettingsAssumption
<1>1. SettingsTyped
  BY DEF SettingsInit, SettingsTyped, ProcRecs, MutRecs, SubRecs, IdleMut, IdleSub, NoHolder
<1>2. ASSUME NEW p \in GProcs PROVE ProcKeepsUp(p) /\ HolderInside(p)
  BY DEF SettingsInit, ProcKeepsUp, HolderInside, IdleSub
<1>3. ASSUME NEW m \in GMuts PROVE MutInOrder(m)
  BY DEF SettingsInit, MutInOrder, IdleMut, Locked
<1>. QED  BY <1>1, <1>2, <1>3 DEF SettingsInv

\* A process takes a new record and a request outside the critical section may end; the
\* requests of that process may have to be looked at again.
LEMMA ProcMoves ==
  ASSUME SettingsInv, NEW p \in GProcs, NEW r \in ProcRecs, gProc' = [gProc EXCEPT ![p] = r],
         UNCHANGED <<gRev, gVals, gLock, gRestarts>>, gMut' \in [GMuts -> MutRecs],
         \A m \in GMuts : gMut'[m] = gMut[m] \/ (gMut'[m] = IdleMut /\ gMut[m].pc \notin Locked),
         gSub' \in [GProcs -> SubRecs], \A q \in GProcs : gSub'[q].rev <= gRev,
         gBus' \in [GProcs -> SUBSET Revs], gFails' \in 0..GMaxFails,
         r.local <= r.live, r.local <= r.rt, r.live <= gRev, r.rt <= gRev, r.epoch <= r.local,
         \A m \in GMuts : gMut[m].pc # "idle" /\ gMut[m].p = p
                            => r.pc = "up" /\ (gMut[m].pc = "apply" => gMut[m].rev > r.local)
  PROVE  SettingsInv'
<1>1. SettingsTyped'
  BY DEF SettingsInv, SettingsTyped
<1>2. \A q \in GProcs : gProc'[q] = IF q = p THEN r ELSE gProc[q]
  BY DEF SettingsInv, SettingsTyped
<1>3. ASSUME NEW q \in GProcs PROVE ProcKeepsUp(q)'
  BY <1>2 DEF SettingsInv, ProcKeepsUp
<1>4. ASSUME NEW q \in GProcs PROVE HolderInside(q)'
  BY DEF SettingsInv, SettingsTyped, HolderInside
<1>5. ASSUME NEW m \in GMuts PROVE MutInOrder(m)'
  <2>1. MutInOrder(m)
    BY DEF SettingsInv
  <2>2. CASE gMut'[m] = gMut[m]
    BY <2>1, <2>2, <1>2 DEF MutInOrder, Locked
  <2>3. CASE gMut'[m] = IdleMut
    <3>1. 0 <= gRev /\ gRev' = gRev
      BY RevsAreNumbers DEF SettingsInv, SettingsTyped
    <3>. QED  BY <2>3, <3>1 DEF MutInOrder, IdleMut, Locked
  <2>. QED  BY <2>2, <2>3
<1>. QED  BY <1>1, <1>3, <1>4, <1>5 DEF SettingsInv

\* A request that is outside the critical section, before and after, takes a new record.
LEMMA MutOutside ==
  ASSUME SettingsInv, NEW m \in GMuts, NEW r \in MutRecs, gMut' = [gMut EXCEPT ![m] = r],
         gMut[m].pc \notin Locked, r.pc \notin Locked, r.rev <= gRev,
         r.pc # "idle" => r.p \in GProcs /\ gProc[r.p].pc = "up",
         UNCHANGED <<gRev, gVals, gProc, gLock, gSub, gBus, gRestarts>>, gFails' \in 0..GMaxFails
  PROVE  SettingsInv'
<1>1. SettingsTyped'
  BY DEF SettingsInv, SettingsTyped
<1>2. ASSUME NEW q \in GProcs PROVE ProcKeepsUp(q)' /\ HolderInside(q)'
  BY DEF SettingsInv, SettingsTyped, ProcKeepsUp, HolderInside
<1>3. ASSUME NEW n \in GMuts PROVE MutInOrder(n)'
  BY DEF SettingsInv, SettingsTyped, MutInOrder, Locked
<1>. QED  BY <1>1, <1>2, <1>3 DEF SettingsInv

\* A request leaves the critical section: the lock is free, and nobody else was inside.
LEMMA MutLeaves ==
  ASSUME SettingsInv, NEW m \in GMuts, NEW r \in MutRecs, NEW q \in ProcRecs, gMut[m].pc \in Locked,
         gMut' = [gMut EXCEPT ![m] = r], r.pc \notin Locked, r.rev <= gRev',
         r.pc # "idle" => r.p = gMut[m].p, q.pc = "up",
         gProc' = [gProc EXCEPT ![gMut[m].p] = q],
         q.local <= q.live, q.local <= q.rt, q.live <= gRev', q.rt <= gRev', q.epoch <= q.local,
         Release(m), gRev' \in Revs, gRev <= gRev', gVals' \in [Revs -> Revs],
         gBus' \in [GProcs -> SUBSET Revs], gFails' \in 0..GMaxFails, UNCHANGED <<gSub, gRestarts>>
  PROVE  SettingsInv'
<1>. USE RevsAreNumbers
<1>0. gMut[m].p \in GProcs /\ gLock[gMut[m].p] = m /\ gProc[gMut[m].p].pc = "up"
      /\ \A n \in GMuts \ {m} : gMut[n].pc \in Locked => gMut[n].p # gMut[m].p
      /\ gMut[m].pc # "idle"
  BY DEF SettingsInv, SettingsTyped, MutInOrder, Locked
<1>. DEFINE p == gMut[m].p
<1>1. /\ \A n \in GMuts : gMut'[n] = IF n = m THEN r ELSE gMut[n]
      /\ \A x \in GProcs : /\ gProc'[x] = IF x = p THEN q ELSE gProc[x]
                           /\ gLock'[x] = IF x = p THEN NoHolder ELSE gLock[x]
  BY <1>0 DEF SettingsInv, SettingsTyped, Release
<1>2. SettingsTyped'
  BY <1>0 DEF SettingsInv, SettingsTyped, Release
<1>3. gRev \in Nat /\ gRev' \in Nat /\ \A x \in GProcs : gSub[x].rev \in Nat /\ gProc[x] \in ProcRecs
  BY DEF SettingsInv, SettingsTyped, SubRecs
<1>. HIDE DEF p
<1>4. ASSUME NEW x \in GProcs PROVE ProcKeepsUp(x)'
  <2>1. ProcKeepsUp(x) /\ gSub' = gSub
    BY DEF SettingsInv
  <2>2. gProc[x].live \in Nat /\ gProc[x].rt \in Nat
    BY <1>3 DEF ProcRecs
  <2>3. gSub'[x].rev <= gRev'
    BY <2>1, <1>3 DEF ProcKeepsUp
  <2>4. CASE x = p
    BY <2>3, <2>4, <1>1 DEF ProcKeepsUp
  <2>5. CASE x # p
    BY <2>1, <2>2, <2>3, <2>5, <1>1, <1>3 DEF ProcKeepsUp
  <2>. QED  BY <2>4, <2>5
<1>5. ASSUME NEW x \in GProcs PROVE HolderInside(x)'
  <2>1. CASE x = p
    BY <2>1, <1>1 DEF HolderInside
  <2>2. CASE x # p
    <3>1. HolderInside(x) /\ gLock'[x] = gLock[x] /\ gLock[x] \in GMuts \cup {NoHolder}
      BY <2>2, <1>1 DEF SettingsInv, SettingsTyped
    <3>2. gLock[x] # NoHolder => gLock[x] # m
      BY <3>1, <2>2 DEF HolderInside, p
    <3>. QED  BY <3>1, <3>2, <1>1 DEF HolderInside
  <2>. QED  BY <2>1, <2>2
<1>6. ASSUME NEW n \in GMuts PROVE MutInOrder(n)'
  <2>1. MutInOrder(n) /\ gMut[n].rev \in Nat
    BY DEF SettingsInv, SettingsTyped, MutRecs
  <2>2. CASE n = m
    BY <2>2, <1>0, <1>1 DEF MutInOrder, p, Locked
  <2>3. CASE n # m
    <3>1. gMut'[n] = gMut[n] /\ gMut[n].rev <= gRev'
      BY <2>1, <2>3, <1>1, <1>3 DEF MutInOrder
    <3>2. CASE gMut[n].pc \in Locked
      <4>1. gMut[n].p \in GProcs /\ gMut[n].p # p
        BY <3>2, <2>1, <2>3, <1>0 DEF MutInOrder, p, Locked
      <4>. QED  BY <4>1, <3>1, <2>1, <1>1 DEF MutInOrder
    <3>3. CASE gMut[n].pc \notin Locked
      BY <3>1, <3>3, <2>1, <1>1 DEF MutInOrder, Locked
    <3>. QED  BY <3>2, <3>3
  <2>. QED  BY <2>2, <2>3
<1>. QED  BY <1>2, <1>4, <1>5, <1>6 DEF SettingsInv

LEMMA RecNumbers ==
  ASSUME NEW r \in ProcRecs
  PROVE  r.live \in Nat /\ r.rt \in Nat /\ r.local \in Nat /\ r.epoch \in Nat
BY RevsAreNumbers DEF ProcRecs

\* The order of the revisions of a process.
LEMMA ProcOrder ==
  ASSUME SettingsInv, NEW p \in GProcs
  PROVE  /\ gProc[p] \in ProcRecs /\ gRev \in Nat /\ gRev \in Revs
         /\ gProc[p].local <= gRev /\ gProc[p].epoch <= gRev /\ gProc[p].epoch <= gProc[p].live
         /\ gProc[p].live <= gProc[p].live /\ gRev <= gRev
<1>1. gProc[p] \in ProcRecs /\ gRev \in Nat /\ gRev \in Revs /\ ProcKeepsUp(p)
  BY RevsAreNumbers DEF SettingsInv, SettingsTyped
<1>2. gProc[p].live \in Nat /\ gProc[p].local \in Nat /\ gProc[p].epoch \in Nat
  BY <1>1, RecNumbers
<1>. QED  BY <1>1, <1>2 DEF ProcKeepsUp

LEMMA IdleMutTyped == IdleMut \in MutRecs /\ IdleMut.pc = "idle" /\ IdleMut.rev = 0
BY RevsAreNumbers DEF IdleMut, MutRecs

LEMMA PrepareKeeps == ASSUME SettingsInv, NEW m \in GMuts, NEW p \in GProcs, Prepare(m, p)
                      PROVE  SettingsInv'
<1>. DEFINE r == [IdleMut EXCEPT !.pc = "stage", !.p = p, !.exp = gRev, !.epoch = gProc[p].epoch]
<1>1. gMut' = [gMut EXCEPT ![m] = r] /\ gMut[m].pc = "idle" /\ gProc[p].pc = "up"
      /\ UNCHANGED <<gRev, gVals, gProc, gLock, gSub, gBus, gFails, gRestarts>>
  BY DEF Prepare, Up
<1>2. gProc[p].epoch \in Revs /\ gRev \in Revs /\ gFails \in 0..GMaxFails /\ 0 <= gRev
  BY RevsAreNumbers DEF SettingsInv, SettingsTyped, ProcRecs
<1>3. r \in MutRecs /\ r.pc = "stage" /\ r.rev = 0 /\ r.p = p
  BY <1>2, RevsAreNumbers DEF IdleMut, MutRecs
<1>4. "idle" \notin Locked /\ "stage" \notin Locked
  BY DEF Locked
<1>. HIDE DEF r
<1>. QED  BY <1>1, <1>2, <1>3, <1>4, MutOutside

LEMMA FaultCounted == ASSUME SettingsInv, ConfigFaults PROVE gFails' \in 0..GMaxFails
BY SettingsAssumption DEF SettingsInv, SettingsTyped, ConfigFaults

LEMMA EnterKeeps == ASSUME SettingsInv, NEW m \in GMuts, Enter(m) PROVE SettingsInv'
<1>. DEFINE p == gMut[m].p
<1>1. gMut[m].pc = "stage" /\ gLock[p] = NoHolder
      /\ UNCHANGED <<gRev, gVals, gProc, gSub, gBus, gFails, gRestarts>>
  BY DEF Enter, CoordinatorFree
<1>2. p \in GProcs /\ gProc[p].pc = "up" /\ gMut[m].rev <= gRev /\ gMut[m] \in MutRecs
  BY <1>1 DEF SettingsInv, MutInOrder, SettingsTyped
<1>3. CASE gProc[p].epoch # gMut[m].epoch
  <2>1. gMut' = [gMut EXCEPT ![m] = IdleMut] /\ UNCHANGED gLock
    BY <1>3 DEF Enter
  <2>2. 0 <= gRev /\ gFails' \in 0..GMaxFails
    BY <1>1, RevsAreNumbers DEF SettingsInv, SettingsTyped
  <2>. QED  BY <1>1, <2>1, <2>2, IdleMutTyped, MutOutside DEF Locked
<1>4. CASE gProc[p].epoch = gMut[m].epoch
  <2>1. gMut' = [gMut EXCEPT ![m].pc = "cas"] /\ gLock' = [gLock EXCEPT ![p] = m]
    BY <1>4 DEF Enter
  <2>2. \A n \in GMuts : gMut[n].pc \in Locked => gMut[n].p # p
    BY <1>1, SettingsAssumption DEF SettingsInv, MutInOrder, NoHolder
  <2>. HIDE DEF p
  <2>3. SettingsTyped'
    BY <1>1, <1>2, <2>1 DEF SettingsInv, SettingsTyped, MutRecs, Locked
  <2>4. ASSUME NEW x \in GProcs PROVE ProcKeepsUp(x)' /\ HolderInside(x)'
    <3>1. ProcKeepsUp(x)'
      BY <1>1 DEF SettingsInv, ProcKeepsUp
    <3>2. CASE x = p
      <4>1. gLock'[x] = m /\ gMut'[m].pc = "cas" /\ gMut'[m].p = gMut[m].p
        BY <3>2, <1>2, <2>1 DEF SettingsInv, SettingsTyped, MutRecs
      <4>. QED  BY <3>1, <3>2, <4>1 DEF HolderInside, p, Locked
    <3>3. CASE x # p
      <4>1. HolderInside(x) /\ gLock'[x] = gLock[x]
        BY <3>3, <2>1 DEF SettingsInv, SettingsTyped
      <4>2. gLock[x] # NoHolder => gLock[x] \in GMuts /\ gLock[x] # m
        BY <4>1, <1>1 DEF SettingsInv, SettingsTyped, HolderInside, Locked
      <4>3. \A n \in GMuts \ {m} : gMut'[n] = gMut[n]
        BY <2>1 DEF SettingsInv, SettingsTyped
      <4>. QED  BY <4>1, <4>2, <4>3, <3>1 DEF HolderInside
    <3>. QED  BY <3>1, <3>2, <3>3
  <2>5. ASSUME NEW n \in GMuts PROVE MutInOrder(n)'
    <3>1. MutInOrder(n)
      BY DEF SettingsInv
    <3>2. CASE n = m
      BY <3>2, <1>1, <1>2, <2>1 DEF SettingsInv, SettingsTyped, MutInOrder, p, Locked
    <3>3. CASE n # m
      BY <3>1, <3>3, <1>1, <2>1, <2>2 DEF SettingsInv, SettingsTyped, MutInOrder, Locked
    <3>. QED  BY <3>2, <3>3
  <2>. QED  BY <2>3, <2>4, <2>5 DEF SettingsInv
<1>. QED  BY <1>3, <1>4

\* The critical section's facts about a request and its process.
LEMMA InsideFacts ==
  ASSUME SettingsInv, NEW m \in GMuts, gMut[m].pc \in Locked
  PROVE  /\ gMut[m].p \in GProcs /\ gProc[gMut[m].p] \in ProcRecs /\ gMut[m] \in MutRecs
         /\ gProc[gMut[m].p].pc = "up" /\ ProcKeepsUp(gMut[m].p) /\ gMut[m].rev <= gRev
         /\ gRev \in Revs /\ gVals \in [Revs -> Revs] /\ gFails \in 0..GMaxFails
         /\ gBus \in [GProcs -> SUBSET Revs] /\ gProc = [gProc EXCEPT ![gMut[m].p] = @]
         /\ MutInOrder(m)
BY DEF SettingsInv, SettingsTyped, MutInOrder, Locked

\* The row is written, or not; the request leaves without applying anything.
LEMMA LeavesUnapplied ==
  ASSUME SettingsInv, NEW m \in GMuts, gMut[m].pc \in Locked, gMut' = [gMut EXCEPT ![m] = IdleMut],
         Release(m), UNCHANGED <<gProc, gSub, gBus, gRestarts>>, gFails' \in 0..GMaxFails,
         gRev' \in Revs, gRev <= gRev', gVals' \in [Revs -> Revs]
  PROVE  SettingsInv'
<1>. USE RevsAreNumbers
<1>. DEFINE q == gProc[gMut[m].p]
<1>1. q \in ProcRecs /\ gProc' = [gProc EXCEPT ![gMut[m].p] = q] /\ q.pc = "up"
  BY InsideFacts
<1>2. q.local <= q.live /\ q.local <= q.rt /\ q.live <= gRev /\ q.rt <= gRev /\ q.epoch <= q.local
  BY InsideFacts DEF ProcKeepsUp
<1>3. q.live \in Nat /\ q.rt \in Nat /\ gRev \in Nat /\ gRev' \in Nat
  BY <1>1, InsideFacts DEF ProcRecs
<1>4. q.live <= gRev' /\ q.rt <= gRev' /\ 0 <= gRev'
  BY <1>2, <1>3
<1>5. gBus' \in [GProcs -> SUBSET Revs]
  BY InsideFacts
<1>. HIDE DEF q
<1>. QED  BY <1>1, <1>2, <1>4, <1>5, IdleMutTyped, MutLeaves DEF Locked

LEMMA RowWritten ==
  ASSUME SettingsInv, NEW v \in Revs, WriteRow(v)
  PROVE  gRev' \in Revs /\ gRev' = gRev + 1 /\ gRev \in Nat /\ gVals' \in [Revs -> Revs]
BY RevsAreNumbers DEF SettingsInv, SettingsTyped, WriteRow

LEMMA NewContentTyped == ASSUME SettingsInv, gRev < GMaxRev PROVE NewContent \in Revs
BY RevsAreNumbers DEF SettingsInv, SettingsTyped, NewContent

LEMMA SaveKeeps == ASSUME SettingsInv, NEW m \in GMuts, SaveOverridesCas(m) PROVE SettingsInv'
<1>. USE RevsAreNumbers
<1>0. gMut[m].pc = "cas" /\ gMut[m].pc \in Locked /\ UNCHANGED <<gProc, gSub, gBus, gFails, gRestarts>>
  BY DEF SaveOverridesCas, Locked
<1>1. CASE /\ WriteRow(NewContent) /\ UNCHANGED gLock
           /\ gMut' = [gMut EXCEPT ![m].pc = "apply", ![m].rev = gRev + 1]
  <2>1. gRev' \in Revs /\ gRev' = gRev + 1 /\ gRev \in Nat /\ gVals' \in [Revs -> Revs]
    BY <1>1, RowWritten, NewContentTyped DEF WriteRow
  <2>2. SettingsTyped'
    <3>1. gMut \in [GMuts -> MutRecs] /\ gRev + 1 \in Revs
      BY <2>1 DEF SettingsInv, SettingsTyped
    <3>2. gMut' \in [GMuts -> MutRecs]
      BY <1>1, <3>1 DEF MutRecs, Locked
    <3>. QED  BY <1>0, <1>1, <2>1, <3>2 DEF SettingsInv, SettingsTyped
  <2>3. ASSUME NEW x \in GProcs PROVE ProcKeepsUp(x)'
    <3>1. ProcKeepsUp(x) /\ gProc[x].live \in Nat /\ gProc[x].rt \in Nat /\ gSub[x].rev \in Nat
      BY DEF SettingsInv, SettingsTyped, ProcRecs, SubRecs
    <3>. QED  BY <3>1, <1>0, <2>1 DEF ProcKeepsUp
  <2>4. ASSUME NEW x \in GProcs PROVE HolderInside(x)'
    BY <1>0, <1>1 DEF SettingsInv, SettingsTyped, HolderInside, Locked
  <2>5. ASSUME NEW n \in GMuts PROVE MutInOrder(n)'
    <3>1. MutInOrder(n) /\ gMut[n].rev \in Nat
      BY DEF SettingsInv, SettingsTyped, MutRecs
    <3>2. CASE n = m
      <4>1. /\ gMut'[m].pc = "apply" /\ gMut'[m].rev = gRev + 1 /\ gMut'[m].p = gMut[m].p
        BY <1>1 DEF SettingsInv, SettingsTyped, MutRecs
      <4>2. /\ gProc[gMut[m].p].local \in Nat /\ gProc[gMut[m].p].live \in Nat
            /\ gProc[gMut[m].p].local <= gProc[gMut[m].p].live /\ gProc[gMut[m].p].live <= gRev
        BY <1>0, InsideFacts DEF ProcKeepsUp, ProcRecs
      <4>3. gMut'[m].rev > gProc[gMut[m].p].local /\ gMut'[m].rev <= gRev'
        BY <4>1, <4>2, <2>1
      <4>. QED  BY <1>0, <1>1, <4>1, <4>3, <3>1, <3>2 DEF MutInOrder
    <3>3. CASE n # m
      <4>1. gMut'[n] = gMut[n] /\ gMut[n].rev <= gRev'
        BY <3>1, <3>3, <1>1, <2>1 DEF SettingsInv, SettingsTyped, MutInOrder
      <4>. QED  BY <4>1, <3>1, <1>0, <1>1 DEF MutInOrder
    <3>. QED  BY <3>2, <3>3
  <2>. QED  BY <2>2, <2>3, <2>4, <2>5 DEF SettingsInv
<1>2. CASE gMut' = [gMut EXCEPT ![m] = IdleMut] /\ Release(m) /\ UNCHANGED <<gRev, gVals>>
  <2>1. gRev' \in Revs /\ gRev <= gRev' /\ gVals' \in [Revs -> Revs] /\ gFails' \in 0..GMaxFails
    BY <1>0, <1>2, InsideFacts
  <2>. QED  BY <1>0, <1>2, <2>1, LeavesUnapplied
<1>. QED  BY <1>1, <1>2 DEF SaveOverridesCas

LEMMA SaveRaisesKeeps == ASSUME SettingsInv, NEW m \in GMuts, SaveRaises(m) PROVE SettingsInv'
<1>. USE RevsAreNumbers
<1>0. /\ gMut[m].pc \in Locked /\ ConfigFaults /\ UNCHANGED <<gProc, gSub, gBus, gRestarts>>
      /\ gMut' = [gMut EXCEPT ![m] = IdleMut] /\ Release(m)
      /\ UNCHANGED <<gRev, gVals>> \/ WriteRow(NewContent)
  BY DEF SaveRaises, Locked
<1>1. gRev' \in Revs /\ gRev <= gRev' /\ gVals' \in [Revs -> Revs]
  <2>1. CASE UNCHANGED <<gRev, gVals>>
    BY <2>1, <1>0, InsideFacts
  <2>2. CASE WriteRow(NewContent)
    <3>1. gRev' \in Revs /\ gRev' = gRev + 1 /\ gRev \in Nat /\ gVals' \in [Revs -> Revs]
      BY <2>2, RowWritten, NewContentTyped DEF WriteRow
    <3>. QED  BY <3>1
  <2>. QED  BY <2>1, <2>2, <1>0
<1>. QED  BY <1>0, <1>1, FaultCounted, LeavesUnapplied

LEMMA AnnounceTyped == ASSUME SettingsInv, NEW n \in Revs, Announce(n) PROVE gBus' \in [GProcs -> SUBSET Revs]
BY DEF SettingsInv, SettingsTyped, Announce, Delivered

LEMMA ApplyMutationKeeps == ASSUME SettingsInv, NEW m \in GMuts, ApplyMutation(m) PROVE SettingsInv'
<1>. USE RevsAreNumbers
<1>. DEFINE p == gMut[m].p
            n == gMut[m].rev
            q == [gProc[p] EXCEPT !.live = n, !.rt = n, !.local = n, !.epoch = @ + 1]
<1>0. /\ gMut[m].pc = "apply" /\ gMut[m].pc \in Locked /\ n > gProc[p].local
      /\ gProc' = [gProc EXCEPT ![p].live = n, ![p].rt = n, ![p].local = n, ![p].epoch = @ + 1]
      /\ Announce(n) /\ Release(m) /\ gMut' = [gMut EXCEPT ![m] = IdleMut]
      /\ UNCHANGED <<gRev, gVals, gSub, gFails, gRestarts>>
  BY DEF ApplyMutation, Locked
<1>1. /\ p \in GProcs /\ gProc[p] \in ProcRecs /\ n \in Revs /\ n <= gRev /\ gProc[p].pc = "up"
      /\ gProc[p].epoch <= gProc[p].local /\ gRev \in Revs
  BY <1>0, InsideFacts DEF MutRecs, ProcKeepsUp
<1>2. gProc[p].epoch + 1 <= n /\ gProc[p].epoch + 1 \in Revs
  BY <1>0, <1>1 DEF ProcRecs
<1>3. q \in ProcRecs /\ q.live = n /\ q.rt = n /\ q.local = n /\ q.epoch = gProc[p].epoch + 1 /\ q.pc = "up"
  BY <1>1, <1>2 DEF ProcRecs
<1>4. gProc' = [gProc EXCEPT ![p] = q]
  BY <1>0
<1>5. gBus' \in [GProcs -> SUBSET Revs]
  BY <1>0, <1>1, AnnounceTyped
<1>6. /\ gRev' \in Revs /\ gRev <= gRev' /\ gVals' \in [Revs -> Revs] /\ gFails' \in 0..GMaxFails
      /\ n <= gRev' /\ 0 <= gRev' /\ n <= n
  BY <1>0, <1>1, InsideFacts
<1>. HIDE DEF q
<1>. QED  BY <1>0, <1>2, <1>3, <1>4, <1>5, <1>6, IdleMutTyped, MutLeaves DEF Locked

LEMMA ApplyRaisesRec ==
  ASSUME SettingsInv, NEW p \in GProcs, NEW n \in Revs, n > gProc[p].local, ApplyRaises(p, n)
  PROVE  \E r \in ProcRecs :
           /\ gProc' = [gProc EXCEPT ![p] = r] /\ r.pc = gProc[p].pc /\ r.local = gProc[p].local
           /\ r.local <= r.live /\ r.local <= r.rt /\ r.epoch <= r.local
           /\ r.rt <= gRev /\ (r.live <= gRev \/ r.live = n)
<1>. USE RevsAreNumbers
<1>1. gProc \in [GProcs -> ProcRecs] /\ gProc[p] \in ProcRecs /\ ProcKeepsUp(p) /\ gRev \in Nat
  BY DEF SettingsInv, SettingsTyped
<1>2. CASE gProc' = gProc
  BY <1>1, <1>2 DEF ProcKeepsUp
<1>3. CASE gProc' = [gProc EXCEPT ![p].live = n]
  <2>. DEFINE r == [gProc[p] EXCEPT !.live = n]
  <2>1. /\ r \in ProcRecs /\ r.pc = gProc[p].pc /\ r.local = gProc[p].local /\ r.live = n
        /\ r.rt = gProc[p].rt /\ r.epoch = gProc[p].epoch
    BY <1>1 DEF ProcRecs
  <2>2. gProc' = [gProc EXCEPT ![p] = r]
    BY <1>3
  <2>3. r.local <= n /\ n <= n
    BY <1>1 DEF ProcRecs
  <2>. HIDE DEF r
  <2>. QED  BY <2>1, <2>2, <2>3, <1>1 DEF ProcKeepsUp
<1>. QED  BY <1>2, <1>3 DEF ApplyRaises

LEMMA ApplyMutationRaisesKeeps == ASSUME SettingsInv, NEW m \in GMuts, ApplyMutationRaises(m)
                                  PROVE  SettingsInv'
<1>. USE RevsAreNumbers
<1>. DEFINE p == gMut[m].p
<1>0. /\ gMut[m].pc = "apply" /\ gMut[m].pc \in Locked /\ ConfigFaults /\ ApplyRaises(p, gMut[m].rev)
      /\ gMut' = [gMut EXCEPT ![m].pc = "restore"]
      /\ UNCHANGED <<gRev, gVals, gLock, gSub, gBus, gRestarts>>
  BY DEF ApplyMutationRaises, Locked
<1>1. /\ p \in GProcs /\ gMut[m].rev \in Revs /\ gMut[m].rev > gProc[p].local /\ gMut[m].rev <= gRev
      /\ MutInOrder(m) /\ gMut \in [GMuts -> MutRecs]
  BY <1>0, InsideFacts DEF MutInOrder, MutRecs, SettingsInv, SettingsTyped
<1>2. PICK r \in ProcRecs :
           /\ gProc' = [gProc EXCEPT ![p] = r] /\ r.pc = gProc[p].pc /\ r.local = gProc[p].local
           /\ r.local <= r.live /\ r.local <= r.rt /\ r.epoch <= r.local
           /\ r.rt <= gRev /\ (r.live <= gRev \/ r.live = gMut[m].rev)
  BY <1>0, <1>1, ApplyRaisesRec
<1>. HIDE DEF p
<1>3. \A q \in GProcs : gProc'[q] = IF q = p THEN r ELSE gProc[q]
  BY <1>2 DEF SettingsInv, SettingsTyped
<1>4. /\ gMut' \in [GMuts -> MutRecs] /\ \A n \in GMuts \ {m} : gMut'[n] = gMut[n]
      /\ gMut'[m].pc = "restore" /\ gMut'[m].p = gMut[m].p /\ gMut'[m].rev = gMut[m].rev
  BY <1>0, <1>1 DEF MutRecs, Locked
<1>5. SettingsTyped'
  BY <1>0, <1>1, <1>2, <1>4, FaultCounted DEF SettingsInv, SettingsTyped
<1>6. ASSUME NEW q \in GProcs PROVE ProcKeepsUp(q)'
  BY <1>0, <1>1, <1>2, <1>3 DEF SettingsInv, ProcKeepsUp
<1>7. ASSUME NEW q \in GProcs PROVE HolderInside(q)'
  BY <1>0, <1>4 DEF SettingsInv, SettingsTyped, HolderInside, Locked
<1>8. ASSUME NEW n \in GMuts PROVE MutInOrder(n)'
  <2>1. MutInOrder(n) /\ UNCHANGED <<gRev, gLock>>
    BY <1>0 DEF SettingsInv
  <2>2. CASE n = m
    BY <2>2, <1>0, <1>1, <1>2, <1>3, <1>4 DEF MutInOrder, p, Locked
  <2>3. CASE n # m
    BY <2>1, <2>3, <1>2, <1>3, <1>4 DEF MutInOrder
  <2>. QED  BY <2>2, <2>3
<1>. QED  BY <1>5, <1>6, <1>7, <1>8 DEF SettingsInv

LEMMA RestoreKeeps == ASSUME SettingsInv, NEW m \in GMuts, RestoreSnapshot(m) PROVE SettingsInv'
<1>. USE RevsAreNumbers
<1>. DEFINE p == gMut[m].p
            n == gRev + 1
<1>0. /\ gMut[m].pc = "restore" /\ gMut[m].pc \in Locked /\ WriteRow(gVals[gMut[m].exp])
      /\ \/ ApplyLive(p, n) /\ Announce(n) /\ UNCHANGED gFails
         \/ ApplyRaises(p, n) /\ ConfigFaults /\ UNCHANGED gBus
      /\ gMut' = [gMut EXCEPT ![m] = IdleMut] /\ Release(m) /\ UNCHANGED <<gSub, gRestarts>>
  BY DEF RestoreSnapshot, Locked
<1>1. /\ p \in GProcs /\ gProc[p] \in ProcRecs /\ gProc[p].pc = "up" /\ ProcKeepsUp(p) /\ gRev \in Revs
      /\ gMut[m].exp \in Revs /\ gVals \in [Revs -> Revs]
  BY <1>0, InsideFacts DEF MutRecs
<1>2. gRev' \in Revs /\ gRev' = n /\ gRev \in Nat /\ gVals' \in [Revs -> Revs] /\ gRev <= gRev'
  <2>1. gVals[gMut[m].exp] \in Revs
    BY <1>1
  <2>2. gRev' \in Revs /\ gRev' = gRev + 1 /\ gRev \in Nat /\ gVals' \in [Revs -> Revs]
    BY <1>0, <2>1, RowWritten
  <2>. QED  BY <2>2
<1>3. gProc[p].local <= gRev /\ gProc[p].local < n /\ gProc[p].epoch <= n
  <2>. HIDE DEF p
  <2>1. gProc[p].local \in Nat /\ gProc[p].epoch \in Nat /\ gProc[p].local <= gRev /\ gProc[p].epoch <= gRev
    BY <1>1, ProcOrder, RecNumbers
  <2>. QED  BY <1>2, <2>1
<1>4. gBus' \in [GProcs -> SUBSET Revs] /\ gFails' \in 0..GMaxFails
  <2>1. gBus \in [GProcs -> SUBSET Revs] /\ gFails \in 0..GMaxFails
    BY DEF SettingsInv, SettingsTyped
  <2>. QED  BY <2>1, <1>0, <1>2, AnnounceTyped, FaultCounted
<1>5. PICK q \in ProcRecs :
        /\ gProc' = [gProc EXCEPT ![p] = q] /\ q.pc = "up" /\ q.local <= q.live /\ q.local <= q.rt
        /\ q.live <= gRev' /\ q.rt <= gRev' /\ q.epoch <= q.local
  <2>1. CASE ApplyLive(p, n)
    <3>. DEFINE q == [gProc[p] EXCEPT !.live = n, !.rt = n, !.local = n]
    <3>1. gProc' = [gProc EXCEPT ![p].live = n, ![p].rt = n, ![p].local = IF n > @ THEN n ELSE @]
      BY <2>1 DEF ApplyLive
    <3>2. gProc' = [gProc EXCEPT ![p] = q]
      BY <3>1, <1>3, <1>1
    <3>3. q \in ProcRecs /\ q.live = n /\ q.rt = n /\ q.local = n /\ q.epoch = gProc[p].epoch /\ q.pc = "up"
      BY <1>1, <1>2 DEF ProcRecs
    <3>4. n <= n /\ n <= gRev'
      BY <1>2
    <3>. HIDE DEF q
    <3>. QED  BY <3>2, <3>3, <3>4, <1>3
  <2>2. CASE ApplyRaises(p, n)
    <3>1. PICK r \in ProcRecs :
           /\ gProc' = [gProc EXCEPT ![p] = r] /\ r.pc = gProc[p].pc /\ r.local = gProc[p].local
           /\ r.local <= r.live /\ r.local <= r.rt /\ r.epoch <= r.local
           /\ r.rt <= gRev /\ (r.live <= gRev \/ r.live = n)
      BY <2>2, <1>1, <1>2, <1>3, ApplyRaisesRec
    <3>2. r.rt <= gRev' /\ r.live <= gRev'
      <4>1. r.rt \in Nat /\ r.live \in Nat /\ r.rt <= gRev /\ (r.live <= gRev \/ r.live = n)
        BY <3>1, RecNumbers
      <4>. QED  BY <4>1, <1>2
    <3>. QED  BY <3>1, <3>2, <1>1
  <2>. QED  BY <2>1, <2>2, <1>0
<1>6. 0 <= gRev'
  BY <1>2
<1>. QED  BY <1>0, <1>2, <1>4, <1>5, <1>6, IdleMutTyped, MutLeaves DEF Locked

LEMMA ConflictKeeps == ASSUME SettingsInv, NEW m \in GMuts, RestoreConflict(m) PROVE SettingsInv'
<1>. USE RevsAreNumbers
<1>. DEFINE r == [gMut[m] EXCEPT !.pc = "reconcile"]
            q == gProc[gMut[m].p]
<1>0. /\ gMut[m].pc = "restore" /\ gMut[m].pc \in Locked /\ gMut' = [gMut EXCEPT ![m] = r] /\ Release(m)
      /\ UNCHANGED <<gRev, gVals, gProc, gSub, gBus, gFails, gRestarts>>
  BY DEF RestoreConflict, Locked
<1>1. /\ q \in ProcRecs /\ q.pc = "up" /\ gProc' = [gProc EXCEPT ![gMut[m].p] = q]
      /\ q.local <= q.live /\ q.local <= q.rt /\ q.live <= gRev /\ q.rt <= gRev /\ q.epoch <= q.local
  BY <1>0, InsideFacts DEF ProcKeepsUp
<1>2. r \in MutRecs /\ r.pc = "reconcile" /\ r.rev <= gRev /\ r.p = gMut[m].p
  BY <1>0, InsideFacts DEF MutRecs
<1>3. /\ gRev' \in Revs /\ gRev' = gRev /\ gRev <= gRev' /\ gVals' \in [Revs -> Revs]
      /\ gBus' \in [GProcs -> SUBSET Revs] /\ gFails' \in 0..GMaxFails
  BY <1>0, InsideFacts
<1>. HIDE DEF r, q
<1>4. r.pc \notin Locked /\ r.rev <= gRev' /\ q.live <= gRev' /\ q.rt <= gRev'
  BY <1>1, <1>2, <1>3 DEF Locked
<1>. QED  BY <1>0, <1>1, <1>2, <1>3, <1>4, MutLeaves

LEMMA ReconcileKeeps == ASSUME SettingsInv, NEW m \in GMuts, MutReconcile(m) PROVE SettingsInv'
<1>. USE RevsAreNumbers
<1>. DEFINE r == IF gRev <= gProc[gMut[m].p].local THEN IdleMut ELSE [gMut[m] EXCEPT !.pc = "reload", !.rev = gRev]
<1>0. /\ gMut[m].pc = "reconcile" /\ gMut' = [gMut EXCEPT ![m] = r]
      /\ UNCHANGED <<gRev, gVals, gProc, gLock, gSub, gBus, gFails, gRestarts>>
  BY DEF MutReconcile
<1>1. gMut[m] \in MutRecs /\ gMut[m].p \in GProcs /\ gProc[gMut[m].p].pc = "up" /\ gRev \in Revs
      /\ gFails' \in 0..GMaxFails
  BY <1>0 DEF SettingsInv, SettingsTyped, MutInOrder
<1>2. r \in MutRecs /\ r.pc \in {"idle", "reload"} /\ r.rev <= gRev /\ (r.pc # "idle" => r.p = gMut[m].p)
  <2>1. 0 <= gRev /\ gRev <= gRev
    BY <1>1
  <2>2. CASE r = IdleMut
    BY <2>1, <2>2, IdleMutTyped
  <2>3. CASE r = [gMut[m] EXCEPT !.pc = "reload", !.rev = gRev]
    BY <2>1, <2>3, <1>1 DEF MutRecs
  <2>. QED  BY <2>2, <2>3
<1>. HIDE DEF r
<1>. QED  BY <1>0, <1>1, <1>2, MutOutside DEF Locked

\* A reload that applies, fails or finds itself overtaken: the process keeps what it has reached.
LEMMA ReloadRec ==
  ASSUME SettingsInv, NEW p \in GProcs, NEW n \in Revs, n <= gRev, ReloadApply(p, n)
  PROVE  /\ gFails' \in 0..GMaxFails
         /\ \A m \in GMuts : gMut[m].pc \in Locked => gMut[m].p # p
         /\ \E r \in ProcRecs :
              /\ gProc' = [gProc EXCEPT ![p] = r] /\ r.pc = gProc[p].pc
              /\ r.local <= r.live /\ r.local <= r.rt /\ r.live <= gRev /\ r.rt <= gRev /\ r.epoch <= r.local
<1>. USE RevsAreNumbers
<1>1. /\ gProc \in [GProcs -> ProcRecs] /\ gProc[p] \in ProcRecs /\ ProcKeepsUp(p) /\ gRev \in Revs
      /\ gFails \in 0..GMaxFails
  BY DEF SettingsInv, SettingsTyped
<1>2. \A m \in GMuts : gMut[m].pc \in Locked => gMut[m].p # p
  BY SettingsAssumption DEF ReloadApply, CoordinatorFree, SettingsInv, MutInOrder, NoHolder
<1>3. CASE StillNewer(p, n) /\ ApplyLive(p, n) /\ UNCHANGED gFails
  <2>. DEFINE r == [gProc[p] EXCEPT !.live = n, !.rt = n, !.local = n]
  <2>1. n > gProc[p].local
    BY <1>3 DEF StillNewer
  <2>2. gProc' = [gProc EXCEPT ![p] = r]
    BY <1>1, <1>3, <2>1 DEF ApplyLive
  <2>3. r \in ProcRecs /\ r.live = n /\ r.rt = n /\ r.local = n /\ r.epoch = gProc[p].epoch /\ r.pc = gProc[p].pc
    BY <1>1 DEF ProcRecs
  <2>4. gProc[p].epoch <= n /\ n <= n
    BY <1>1, <2>1 DEF ProcKeepsUp, ProcRecs
  <2>. HIDE DEF r
  <2>. QED  BY <1>1, <1>2, <1>3, <2>2, <2>3, <2>4
<1>4. CASE StillNewer(p, n) /\ ApplyRaises(p, n) /\ ConfigFaults
  <2>1. n > gProc[p].local
    BY <1>4 DEF StillNewer
  <2>2. PICK r \in ProcRecs :
           /\ gProc' = [gProc EXCEPT ![p] = r] /\ r.pc = gProc[p].pc /\ r.local = gProc[p].local
           /\ r.local <= r.live /\ r.local <= r.rt /\ r.epoch <= r.local
           /\ r.rt <= gRev /\ (r.live <= gRev \/ r.live = n)
    BY <2>1, <1>4, ApplyRaisesRec
  <2>. QED  BY <2>2, <1>2, <1>4, FaultCounted
<1>5. CASE UNCHANGED <<gProc, gFails>>
  <2>1. gProc' = [gProc EXCEPT ![p] = gProc[p]]
    BY <1>1, <1>5
  <2>. QED  BY <2>1, <1>1, <1>2, <1>5 DEF ProcKeepsUp
<1>. QED  BY <1>3, <1>4, <1>5 DEF ReloadApply

LEMMA MutReloadKeeps == ASSUME SettingsInv, NEW m \in GMuts, MutReload(m) PROVE SettingsInv'
<1>. USE RevsAreNumbers
<1>. DEFINE p == gMut[m].p
<1>0. /\ gMut[m].pc = "reload" /\ ReloadApply(p, gMut[m].rev) /\ gMut' = [gMut EXCEPT ![m] = IdleMut]
      /\ UNCHANGED <<gRev, gVals, gLock, gSub, gBus, gRestarts>>
  BY DEF MutReload
<1>1. /\ gMut \in [GMuts -> MutRecs] /\ p \in GProcs /\ gMut[m].rev \in Revs /\ gMut[m].rev <= gRev
      /\ gSub \in [GProcs -> SubRecs] /\ gBus \in [GProcs -> SUBSET Revs] /\ \A q \in GProcs : gSub[q].rev <= gRev
  BY <1>0 DEF SettingsInv, SettingsTyped, MutInOrder, MutRecs, ProcKeepsUp
<1>2. /\ gFails' \in 0..GMaxFails
      /\ \A n \in GMuts : gMut[n].pc \in Locked => gMut[n].p # p
      /\ \E r \in ProcRecs :
              /\ gProc' = [gProc EXCEPT ![p] = r] /\ r.pc = gProc[p].pc
              /\ r.local <= r.live /\ r.local <= r.rt /\ r.live <= gRev /\ r.rt <= gRev /\ r.epoch <= r.local
  BY <1>0, <1>1, ReloadRec
<1>3. PICK r \in ProcRecs :
              /\ gProc' = [gProc EXCEPT ![p] = r] /\ r.pc = gProc[p].pc
              /\ r.local <= r.live /\ r.local <= r.rt /\ r.live <= gRev /\ r.rt <= gRev /\ r.epoch <= r.local
  BY <1>2
<1>4. /\ gMut' \in [GMuts -> MutRecs]
      /\ \A n \in GMuts : gMut'[n] = gMut[n] \/ (gMut'[n] = IdleMut /\ gMut[n].pc \notin Locked)
  BY <1>0, <1>1, IdleMutTyped DEF Locked
<1>5. \A n \in GMuts : gMut[n].pc # "idle" /\ gMut[n].p = p => r.pc = "up" /\ gMut[n].pc # "apply"
  BY <1>2, <1>3 DEF SettingsInv, MutInOrder, Locked
<1>6. gSub' \in [GProcs -> SubRecs] /\ gBus' \in [GProcs -> SUBSET Revs] /\ \A q \in GProcs : gSub'[q].rev <= gRev
  BY <1>0, <1>1
<1>. HIDE DEF p
<1>7. p \in GProcs
  BY <1>1
<1>8. gFails' \in 0..GMaxFails
  BY <1>2
<1>9. \A n \in GMuts : gMut[n].pc # "idle" /\ gMut[n].p = p
                            => r.pc = "up" /\ (gMut[n].pc = "apply" => gMut[n].rev > r.local)
  BY <1>5
<1>10. UNCHANGED <<gRev, gVals, gLock, gRestarts>>
  BY <1>0
<1>. QED  BY <1>3, <1>4, <1>6, <1>7, <1>8, <1>9, <1>10, ProcMoves

\* A step of the subscriber that leaves the process as it is.
LEMMA SubMoves ==
  ASSUME SettingsInv, UNCHANGED <<gRev, gVals, gProc, gLock, gMut, gRestarts>>,
         gSub' \in [GProcs -> SubRecs], \A q \in GProcs : gSub'[q].rev <= gRev,
         gBus' \in [GProcs -> SUBSET Revs], gFails' \in 0..GMaxFails
  PROVE  SettingsInv'
BY DEF SettingsInv, SettingsTyped, ProcKeepsUp, HolderInside, MutInOrder

LEMMA SubFacts ==
  ASSUME SettingsInv
  PROVE  /\ gSub \in [GProcs -> SubRecs] /\ gBus \in [GProcs -> SUBSET Revs] /\ gFails \in 0..GMaxFails
         /\ gRev \in Revs /\ gMut \in [GMuts -> MutRecs]
         /\ \A q \in GProcs : gSub[q].rev <= gRev /\ gSub[q] \in SubRecs
         /\ IdleSub \in SubRecs /\ IdleSub.rev <= gRev
         /\ [pc |-> "reload", rev |-> gRev] \in SubRecs /\ gRev <= gRev
BY RevsAreNumbers DEF SettingsInv, SettingsTyped, ProcKeepsUp, IdleSub, SubRecs

LEMMA SubscriberKeeps ==
  ASSUME SettingsInv, NEW p \in GProcs,
         \/ \E n \in gBus[p] : HandleEvent(p, n)
         \/ ReconcileTick(p) \/ SubFails(p)
  PROVE  SettingsInv'
<1>1. ASSUME NEW n \in gBus[p], HandleEvent(p, n) PROVE SettingsInv'
  <2>. DEFINE s == IF n <= gProc[p].local \/ gRev < n THEN gSub[p] ELSE [pc |-> "reload", rev |-> gRev]
  <2>1. /\ gBus' = [gBus EXCEPT ![p] = @ \ {n}] /\ gSub' = [gSub EXCEPT ![p] = s]
        /\ UNCHANGED <<gRev, gVals, gProc, gLock, gMut, gFails, gRestarts>>
    BY <1>1 DEF HandleEvent
  <2>2. s \in SubRecs /\ s.rev <= gRev
    BY SubFacts
  <2>. HIDE DEF s
  <2>3. gSub' \in [GProcs -> SubRecs] /\ \A q \in GProcs : gSub'[q].rev <= gRev
    BY <2>1, <2>2, SubFacts
  <2>4. gBus' \in [GProcs -> SUBSET Revs] /\ gFails' \in 0..GMaxFails
    BY <2>1, SubFacts
  <2>. QED  BY <2>1, <2>3, <2>4, SubMoves
<1>2. CASE ReconcileTick(p)
  <2>1. /\ gSub' = [gSub EXCEPT ![p] = [pc |-> "reload", rev |-> gRev]]
        /\ UNCHANGED <<gRev, gVals, gProc, gLock, gMut, gBus, gFails, gRestarts>>
    BY <1>2 DEF ReconcileTick
  <2>2. gSub' \in [GProcs -> SubRecs] /\ \A q \in GProcs : gSub'[q].rev <= gRev
    BY <2>1, SubFacts
  <2>3. gBus' \in [GProcs -> SUBSET Revs] /\ gFails' \in 0..GMaxFails
    BY <2>1, SubFacts
  <2>. QED  BY <2>1, <2>2, <2>3, SubMoves
<1>3. CASE SubFails(p)
  <2>1. /\ gSub' = [gSub EXCEPT ![p] = IdleSub] /\ ConfigFaults
        /\ UNCHANGED <<gRev, gVals, gProc, gLock, gMut, gBus, gRestarts>>
    BY <1>3 DEF SubFails
  <2>2. gSub' \in [GProcs -> SubRecs] /\ \A q \in GProcs : gSub'[q].rev <= gRev
    BY <2>1, SubFacts
  <2>3. gBus' \in [GProcs -> SUBSET Revs] /\ gFails' \in 0..GMaxFails
    BY <2>1, SubFacts, FaultCounted
  <2>. QED  BY <2>1, <2>2, <2>3, SubMoves
<1>. QED  BY <1>1, <1>2, <1>3

LEMMA SubReloadKeeps == ASSUME SettingsInv, NEW p \in GProcs, SubReload(p) PROVE SettingsInv'
<1>. USE RevsAreNumbers
<1>0. /\ ReloadApply(p, gSub[p].rev) /\ gSub' = [gSub EXCEPT ![p] = IdleSub]
      /\ UNCHANGED <<gRev, gVals, gLock, gMut, gBus, gRestarts>>
  BY DEF SubReload
<1>1. gSub[p].rev \in Revs /\ gSub[p].rev <= gRev
  BY SubFacts DEF SubRecs
<1>2. /\ gFails' \in 0..GMaxFails
      /\ \A n \in GMuts : gMut[n].pc \in Locked => gMut[n].p # p
      /\ \E r \in ProcRecs :
              /\ gProc' = [gProc EXCEPT ![p] = r] /\ r.pc = gProc[p].pc
              /\ r.local <= r.live /\ r.local <= r.rt /\ r.live <= gRev /\ r.rt <= gRev /\ r.epoch <= r.local
  BY <1>0, <1>1, ReloadRec
<1>3. PICK r \in ProcRecs :
              /\ gProc' = [gProc EXCEPT ![p] = r] /\ r.pc = gProc[p].pc
              /\ r.local <= r.live /\ r.local <= r.rt /\ r.live <= gRev /\ r.rt <= gRev /\ r.epoch <= r.local
  BY <1>2
<1>4. /\ gMut' \in [GMuts -> MutRecs]
      /\ \A n \in GMuts : gMut'[n] = gMut[n] \/ (gMut'[n] = IdleMut /\ gMut[n].pc \notin Locked)
  BY <1>0, SubFacts
<1>5. \A n \in GMuts : gMut[n].pc # "idle" /\ gMut[n].p = p => r.pc = "up" /\ gMut[n].pc # "apply"
  BY <1>2, <1>3 DEF SettingsInv, MutInOrder, Locked
<1>6. gSub' \in [GProcs -> SubRecs] /\ gBus' \in [GProcs -> SUBSET Revs] /\ \A q \in GProcs : gSub'[q].rev <= gRev
  BY <1>0, SubFacts
<1>8. gFails' \in 0..GMaxFails
  BY <1>2
<1>9. \A n \in GMuts : gMut[n].pc # "idle" /\ gMut[n].p = p
                            => r.pc = "up" /\ (gMut[n].pc = "apply" => gMut[n].rev > r.local)
  BY <1>5
<1>10. UNCHANGED <<gRev, gVals, gLock, gRestarts>>
  BY <1>0
<1>. QED  BY <1>3, <1>4, <1>6, <1>8, <1>9, <1>10, ProcMoves

\* A process that starts has no request under way.
LEMMA BootKeeps == ASSUME SettingsInv, NEW p \in GProcs, BootConfig(p) \/ BootAuth(p)
                   PROVE  SettingsInv'
<1>. USE RevsAreNumbers
<1>1. gProc[p] \in ProcRecs /\ ProcKeepsUp(p) /\ gProc[p].pc # "up"
  BY DEF SettingsInv, SettingsTyped, BootConfig, BootAuth
<1>2. \A n \in GMuts : ~(gMut[n].pc # "idle" /\ gMut[n].p = p)
  BY <1>1 DEF SettingsInv, MutInOrder
<1>3. PICK r \in ProcRecs :
        /\ gProc' = [gProc EXCEPT ![p] = r]
        /\ r.local <= r.live /\ r.local <= r.rt /\ r.live <= gRev /\ r.rt <= gRev /\ r.epoch <= r.local
  <2>1. CASE BootConfig(p)
    <3>. DEFINE r == [gProc[p] EXCEPT !.live = gRev, !.pc = "auth"]
    <3>1. gProc' = [gProc EXCEPT ![p] = r]
      BY <2>1 DEF BootConfig
    <3>2. r \in ProcRecs /\ r.live = gRev /\ r.rt = gProc[p].rt /\ r.local = gProc[p].local /\ r.epoch = gProc[p].epoch
      BY <1>1, SubFacts DEF ProcRecs
    <3>3. gProc[p].local <= gRev /\ gRev <= gRev
      BY ProcOrder
    <3>. HIDE DEF r
    <3>. QED  BY <3>1, <3>2, <3>3, <1>1 DEF ProcKeepsUp
  <2>2. CASE BootAuth(p)
    <3>. DEFINE r == [gProc[p] EXCEPT !.rt = gProc[p].live, !.local = gProc[p].live, !.pc = "up"]
    <3>1. gProc' = [gProc EXCEPT ![p] = r]
      BY <2>2 DEF BootAuth
    <3>2. /\ r \in ProcRecs /\ r.live = gProc[p].live /\ r.rt = gProc[p].live /\ r.local = gProc[p].live
          /\ r.epoch = gProc[p].epoch
      BY <1>1, SubFacts DEF ProcRecs
    <3>3. gProc[p].epoch <= gProc[p].live /\ gProc[p].live <= gProc[p].live
      BY ProcOrder
    <3>. HIDE DEF r
    <3>. QED  BY <3>1, <3>2, <3>3, <1>1 DEF ProcKeepsUp
  <2>. QED  BY <2>1, <2>2
<1>4. UNCHANGED <<gRev, gVals, gLock, gMut, gSub, gBus, gFails, gRestarts>>
  BY DEF BootConfig, BootAuth
<1>5. /\ gMut' \in [GMuts -> MutRecs] /\ gSub' \in [GProcs -> SubRecs] /\ gBus' \in [GProcs -> SUBSET Revs]
      /\ gFails' \in 0..GMaxFails /\ \A q \in GProcs : gSub'[q].rev <= gRev
      /\ \A n \in GMuts : gMut'[n] = gMut[n]
  BY <1>4, SubFacts
<1>. QED  BY <1>2, <1>3, <1>4, <1>5, ProcMoves

LEMMA RestartKeeps == ASSUME SettingsInv, NEW p \in GProcs, Restart(p) PROVE SettingsInv'
<1>. USE RevsAreNumbers
<1>. DEFINE r == [live |-> 0, rt |-> 0, local |-> 0, epoch |-> 0, pc |-> "down"]
<1>0. /\ gRestarts < GMaxRestarts /\ gRestarts' = gRestarts + 1 /\ gProc' = [gProc EXCEPT ![p] = r]
      /\ gLock' = [gLock EXCEPT ![p] = NoHolder] /\ gBus' = [gBus EXCEPT ![p] = {}]
      /\ gSub' = [gSub EXCEPT ![p] = IdleSub]
      /\ gMut' = [m \in GMuts |-> IF gMut[m].p = p THEN IdleMut ELSE gMut[m]]
      /\ UNCHANGED <<gRev, gVals, gFails>>
  BY DEF Restart
<1>1. r \in ProcRecs /\ gRestarts' \in 0..GMaxRestarts /\ 0 <= gRev
  BY <1>0, SettingsAssumption DEF ProcRecs, SettingsInv, SettingsTyped
<1>. HIDE DEF r
<1>2. SettingsTyped'
  BY <1>0, <1>1, SubFacts, IdleMutTyped DEF SettingsInv, SettingsTyped
<1>3. ASSUME NEW q \in GProcs PROVE ProcKeepsUp(q)' /\ HolderInside(q)'
  <2>1. ProcKeepsUp(q) /\ HolderInside(q) /\ gLock[q] \in GMuts \cup {NoHolder}
    BY DEF SettingsInv, SettingsTyped
  <2>2. CASE q = p
    <3>1. gProc'[p] = r /\ gLock'[p] = NoHolder /\ gSub'[p] = IdleSub
      BY <1>0 DEF SettingsInv, SettingsTyped
    <3>. QED  BY <2>2, <3>1, <1>0, <1>1 DEF ProcKeepsUp, HolderInside, IdleSub, r
  <2>3. CASE q # p
    <3>1. gProc'[q] = gProc[q] /\ gLock'[q] = gLock[q] /\ gSub'[q] = gSub[q] /\ gRev' = gRev
      BY <2>3, <1>0 DEF SettingsInv, SettingsTyped
    <3>2. gLock[q] # NoHolder => gMut'[gLock[q]] = gMut[gLock[q]]
      BY <2>1, <2>3, <1>0 DEF HolderInside
    <3>. QED  BY <2>1, <3>1, <3>2 DEF ProcKeepsUp, HolderInside
  <2>. QED  BY <2>2, <2>3
<1>4. ASSUME NEW m \in GMuts PROVE MutInOrder(m)'
  <2>1. MutInOrder(m)
    BY DEF SettingsInv
  <2>2. CASE gMut[m].p = p
    <3>1. gMut'[m] = IdleMut
      BY <2>2, <1>0
    <3>. QED  BY <3>1, <1>0, <1>1 DEF MutInOrder, IdleMut, Locked
  <2>3. CASE gMut[m].p # p
    <3>1. gMut'[m] = gMut[m] /\ gRev' = gRev
      BY <2>3, <1>0
    <3>2. \A q \in GProcs : q # p => gProc'[q] = gProc[q] /\ gLock'[q] = gLock[q]
      BY <1>0 DEF SettingsInv, SettingsTyped
    <3>. QED  BY <2>1, <2>3, <3>1, <3>2 DEF MutInOrder, Locked
  <2>. QED  BY <2>2, <2>3
<1>. QED  BY <1>2, <1>3, <1>4 DEF SettingsInv

LEMMA SettingsInvNext == SettingsInv /\ [SettingsNext]_gVars => SettingsInv'
<1>. SUFFICES ASSUME SettingsInv, [SettingsNext]_gVars PROVE SettingsInv'
  OBVIOUS
<1>1. ASSUME NEW m \in GMuts, MutStep(m) PROVE SettingsInv'
  BY <1>1, EnterKeeps, SaveKeeps, ApplyMutationKeeps, RestoreKeeps, ConflictKeeps, ReconcileKeeps, MutReloadKeeps
     DEF MutStep
<1>2. ASSUME NEW m \in GMuts, StageFails(m) PROVE SettingsInv'
  <2>1. 0 <= gRev /\ gFails' \in 0..GMaxFails
    BY <1>2, RevsAreNumbers, FaultCounted DEF StageFails, SettingsInv, SettingsTyped
  <2>. QED  BY <1>2, <2>1, IdleMutTyped, MutOutside DEF StageFails, Locked
<1>3. ASSUME NEW m \in GMuts, SaveRaises(m) PROVE SettingsInv'
  BY <1>3, SaveRaisesKeeps
<1>4. ASSUME NEW m \in GMuts, ApplyMutationRaises(m) PROVE SettingsInv'
  BY <1>4, ApplyMutationRaisesKeeps
<1>5. ASSUME NEW m \in GMuts, NEW p \in GProcs,
             UpdateSettings(m, p) \/ ImportSettings(m, p) \/ ClearOverridePath(m, p) \/ ResetSettings(m, p)
      PROVE  SettingsInv'
  BY <1>5, PrepareKeeps DEF UpdateSettings, ImportSettings, ClearOverridePath, ResetSettings
<1>6. ASSUME NEW p \in GProcs,
             ProcStep(p) \/ SubFails(p) \/ Restart(p) \/ \E n \in gBus[p] : HandleEvent(p, n)
      PROVE  SettingsInv'
  BY <1>6, SubscriberKeeps, SubReloadKeeps, BootKeeps, RestartKeeps DEF ProcStep
<1>7. CASE UNCHANGED gVars
  <2>1. UNCHANGED <<gRev, gVals, gProc, gLock, gMut, gSub, gBus, gFails, gRestarts>>
    BY <1>7 DEF gVars
  <2>2. /\ gSub' \in [GProcs -> SubRecs] /\ gBus' \in [GProcs -> SUBSET Revs] /\ gFails' \in 0..GMaxFails
        /\ \A q \in GProcs : gSub'[q].rev <= gRev
    BY <2>1, SubFacts
  <2>. QED  BY <2>1, <2>2, SubMoves
<1>. QED  BY <1>1, <1>2, <1>3, <1>4, <1>5, <1>6, <1>7 DEF SettingsNext

LEMMA SettingsInvTyped == SettingsInv => SettingsTypeOK /\ RunsWhatItReached
<1>. SUFFICES ASSUME SettingsInv PROVE SettingsTypeOK /\ RunsWhatItReached
  OBVIOUS
<1>1. RunsWhatItReached
  BY RevsAreNumbers DEF SettingsInv, SettingsTyped, ProcRecs, ProcKeepsUp, RunsWhatItReached
<1>2. SettingsTypeOK
  BY DEF SettingsInv, SettingsTyped, ProcRecs, MutRecs, SubRecs, HolderInside, SettingsTypeOK
<1>. QED  BY <1>1, <1>2

\* A running process has loaded at least the settings of every change it has applied
\* itself, configuration and provider, whatever fails or is restored
\* (settings/mutation.py, settings/reload.py).
THEOREM SettingsNeverBehind == SettingsSpec => [](SettingsTypeOK /\ RunsWhatItReached)
BY SettingsInvInit, SettingsInvNext, SettingsInvTyped, PTL DEF SettingsSpec

(***************************************************************************)
(* Sessions, tokens and sign-in (auth/), and the webhook client.           *)
(***************************************************************************)
UserRecs == [active : BOOLEAN, stamp : Stamps]
CacheRecs == UserRecs \cup {NotCached}
TokRecs == [user : HUsers \cup {Nobody}, ended : Stamps, expired : BOOLEAN]
ReqRecs == [pc : {"idle", "load", "served"}, p : HProcs \cup {"none"},
            tok : HToks \cup HKeys \cup {"none"}, seen : CacheRecs]
LoginRecs == [pc : {"none", "authorized", "reconciled", "done", "refused"}, prov : HProviders, by : HProviders]

\* A change of password that has been saved and not yet stamped was counted when it was saved.
StampsCounted(u) == hUser[u].stamp + (IF hChange[u] = "saved" THEN 1 ELSE 0) <= hAdmin

\* A request that waits for the database knows its process, its session and the user it read.
LoadKnows(r) == hReq[r].pc = "load" => hReq[r].p \in HProcs /\ hReq[r].tok \in HToks /\ hReq[r].seen \in UserRecs

UsersTyped == /\ hUser \in [HUsers -> UserRecs] /\ hChange \in [HUsers -> {"idle", "saved", "stamped"}]
              /\ hAdmin \in 0..HMaxAdmin /\ \A u \in HUsers : StampsCounted(u)
TokensTyped == hTok \in [HToks -> TokRecs] /\ hKey \in [HKeys -> HUsers \cup {Nobody}]
CacheTyped == hCache \in [HProcs -> [HToks -> CacheRecs]]
ReqsTyped == hReq \in [HReqs -> ReqRecs] /\ \A r \in HReqs : LoadKnows(r)
SignInsTyped == /\ hProv \in [HProcs -> HProviders] /\ hLogin \in [HLogins -> LoginRecs]
                /\ hAcct \in SUBSET ({"issuer", "display"} \X HUsers)

SessionsInv == UsersTyped /\ TokensTyped /\ CacheTyped /\ ReqsTyped /\ SignInsTyped

LEMMA SessionConstants ==
  /\ 0 \in Stamps /\ NewTok \in TokRecs /\ NewTok.user = Nobody /\ IdleReq \in ReqRecs /\ IdleReq.pc = "idle"
  /\ NoSignIn \in LoginRecs /\ NotCached \in CacheRecs /\ UserRecs \subseteq CacheRecs
BY SessionsAssumption DEF Stamps, NewTok, TokRecs, IdleReq, ReqRecs, NoSignIn, LoginRecs, NotCached, CacheRecs

LEMMA SessionsInvInit == SessionsInit => SessionsInv
<1>. SUFFICES ASSUME SessionsInit PROVE SessionsInv
  OBVIOUS
<1>. USE SessionConstants, SessionsAssumption
<1>1. UsersTyped
  BY DEF SessionsInit, UsersTyped, UserRecs, StampsCounted
<1>2. TokensTyped
  BY DEF SessionsInit, TokensTyped
<1>3. CacheTyped
  BY DEF SessionsInit, CacheTyped
<1>4. ReqsTyped
  BY DEF SessionsInit, ReqsTyped, LoadKnows
<1>5. SignInsTyped
  BY DEF SessionsInit, SignInsTyped
<1>. QED  BY <1>1, <1>2, <1>3, <1>4, <1>5 DEF SessionsInv

LEMMA UsersKeep ==
  ASSUME UsersTyped, UNCHANGED <<hUser, hChange>>, hAdmin' = hAdmin \/ Administer
  PROVE  UsersTyped'
<1>1. hAdmin \in Nat /\ hAdmin' \in 0..HMaxAdmin /\ hAdmin <= hAdmin'
  BY SessionsAssumption DEF UsersTyped, Administer
<1>2. ASSUME NEW u \in HUsers PROVE StampsCounted(u)'
  BY <1>1, SessionConstants DEF UsersTyped, StampsCounted, UserRecs, Stamps
<1>. QED  BY <1>1, <1>2 DEF UsersTyped

LEMMA TokensKeep == ASSUME TokensTyped, UNCHANGED <<hTok, hKey>> PROVE TokensTyped'
BY DEF TokensTyped
LEMMA CacheKeeps == ASSUME CacheTyped, UNCHANGED hCache PROVE CacheTyped'
BY DEF CacheTyped
LEMMA ReqsKeep == ASSUME ReqsTyped, UNCHANGED hReq PROVE ReqsTyped'
BY DEF ReqsTyped, LoadKnows
LEMMA SignInsKeep == ASSUME SignInsTyped, UNCHANGED loginVars PROVE SignInsTyped'
BY DEF SignInsTyped, loginVars

LEMMA ReqMoves ==
  ASSUME ReqsTyped, NEW r \in HReqs, NEW q \in ReqRecs, hReq' = [hReq EXCEPT ![r] = q],
         q.pc = "load" => q.p \in HProcs /\ q.tok \in HToks /\ q.seen \in UserRecs
  PROVE  ReqsTyped'
BY DEF ReqsTyped, LoadKnows

LEMMA CacheSet ==
  ASSUME CacheTyped, NEW p \in HProcs, NEW t \in HToks, NEW c \in CacheRecs, hCache' = [hCache EXCEPT ![p][t] = c]
  PROVE  CacheTyped'
BY DEF CacheTyped

LEMMA Invalidated ==
  ASSUME CacheTyped, NEW p \in HProcs, NEW u, InvalidateCache(p, u)
  PROVE  CacheTyped'
<1>. DEFINE c == [t \in HToks |-> IF hTok[t].user = u THEN NotCached ELSE hCache[p][t]]
<1>1. c \in [HToks -> CacheRecs]
  BY SessionConstants DEF CacheTyped
<1>2. hCache' = [hCache EXCEPT ![p] = c]
  BY DEF InvalidateCache
<1>. HIDE DEF c
<1>. QED  BY <1>1, <1>2 DEF CacheTyped

LEMMA TokenWritten ==
  ASSUME TokensTyped, NEW t \in HToks, NEW u \in HUsers, WriteToken(t, u), UNCHANGED hKey
  PROVE  TokensTyped'
<1>. DEFINE n == [NewTok EXCEPT !.user = u]
<1>1. n \in TokRecs
  BY SessionConstants DEF TokRecs
<1>2. hTok' = [hTok EXCEPT ![t] = n]
  BY DEF WriteToken
<1>. HIDE DEF n
<1>. QED  BY <1>1, <1>2 DEF TokensTyped

LEMMA ReadKeeps ==
  ASSUME SessionsInv, NEW r \in HReqs, NEW p \in HProcs, NEW t \in HToks, ReadHit(r, p, t) \/ ReadLoad(r, p, t)
  PROVE  SessionsInv'
<1>. USE SessionConstants
<1>1. CASE ReadHit(r, p, t)
  <2>. DEFINE q == [IdleReq EXCEPT !.pc = "served", !.p = p, !.tok = t]
  <2>1. q \in ReqRecs /\ q.pc = "served"
    BY DEF ReqRecs
  <2>2. hReq' = [hReq EXCEPT ![r] = q]
    BY <1>1 DEF ReadHit
  <2>. HIDE DEF q
  <2>. QED  BY <1>1, <2>1, <2>2, UsersKeep, TokensKeep, CacheKeeps, SignInsKeep, ReqMoves DEF ReadHit, SessionsInv
<1>2. CASE ReadLoad(r, p, t)
  <2>. DEFINE q == [pc |-> "load", p |-> p, tok |-> t, seen |-> hUser[hTok[t].user]]
  <2>1. hUser[hTok[t].user] \in UserRecs
    BY <1>2 DEF ReadLoad, Usable, SessionsInv, TokensTyped, UsersTyped, TokRecs
  <2>2. q \in ReqRecs /\ q.p = p /\ q.tok = t /\ q.seen \in UserRecs
    BY <2>1 DEF ReqRecs
  <2>3. hReq' = [hReq EXCEPT ![r] = q] /\ hCache' = [hCache EXCEPT ![p][t] = NotCached]
    BY <1>2 DEF ReadLoad
  <2>. HIDE DEF q
  <2>4. ReqsTyped'
    BY <2>2, <2>3, ReqMoves DEF SessionsInv
  <2>5. CacheTyped'
    BY <2>3, CacheSet DEF SessionsInv
  <2>. QED  BY <1>2, <2>4, <2>5, UsersKeep, TokensKeep, SignInsKeep DEF ReadLoad, SessionsInv
<1>. QED  BY <1>1, <1>2

LEMMA ReadStoreKeeps == ASSUME SessionsInv, NEW r \in HReqs, ReadStore(r) PROVE SessionsInv'
<1>. USE SessionConstants
<1>. DEFINE t == hReq[r].tok
            seen == hReq[r].seen
<1>1. hReq[r] \in ReqRecs /\ hReq[r].pc = "load" /\ hReq[r].p \in HProcs /\ t \in HToks /\ seen \in UserRecs
  BY DEF ReadStore, SessionsInv, ReqsTyped, LoadKnows
<1>2. UNCHANGED <<hUser, hTok, hKey, hChange, loginVars, hAdmin>>
  BY DEF ReadStore
<1>3. CASE Refused(t, seen)
  <2>1. hReq' = [hReq EXCEPT ![r] = IdleReq] /\ UNCHANGED hCache
    BY <1>3 DEF ReadStore
  <2>. QED  BY <1>2, <2>1, UsersKeep, TokensKeep, CacheKeeps, SignInsKeep, ReqMoves DEF SessionsInv
<1>4. CASE ~Refused(t, seen)
  <2>. DEFINE q == IF seen.active THEN [hReq[r] EXCEPT !.pc = "served", !.seen = NotCached] ELSE IdleReq
  <2>1. hReq' = [hReq EXCEPT ![r] = q] /\ hCache' = [hCache EXCEPT ![hReq[r].p][t] = seen]
    BY <1>4 DEF ReadStore
  <2>2. q \in ReqRecs /\ q.pc # "load"
    BY <1>1 DEF ReqRecs
  <2>. HIDE DEF q, t, seen
  <2>3. ReqsTyped'
    BY <2>1, <2>2, ReqMoves DEF SessionsInv
  <2>4. CacheTyped'
    BY <2>1, <1>1, CacheSet DEF SessionsInv
  <2>. QED  BY <1>2, <2>3, <2>4, UsersKeep, TokensKeep, SignInsKeep DEF SessionsInv
<1>. QED  BY <1>3, <1>4

LEMMA KeysKeep ==
  ASSUME SessionsInv, NEW k \in HKeys, RevokeMyToken(k) \/ \E r \in HReqs : CreateMyToken(k, r)
  PROVE  SessionsInv'
<1>1. TokensTyped'
  <2>1. CASE RevokeMyToken(k)
    BY <2>1 DEF RevokeMyToken, SessionsInv, TokensTyped
  <2>2. ASSUME NEW r \in HReqs, CreateMyToken(k, r) PROVE TokensTyped'
    <3>1. hTok[hReq[r].tok].user \in HUsers \cup {Nobody}
      BY <2>2 DEF CreateMyToken, SessionsInv, TokensTyped, TokRecs
    <3>. QED  BY <2>2, <3>1 DEF CreateMyToken, SessionsInv, TokensTyped
  <2>. QED  BY <2>1, <2>2
<1>2. Administer /\ UNCHANGED <<hUser, hTok, hCache, hReq, hChange, loginVars>>
  BY DEF RevokeMyToken, CreateMyToken
<1>. QED  BY <1>1, <1>2, UsersKeep, CacheKeeps, ReqsKeep, SignInsKeep DEF SessionsInv

LEMMA ReadApiTokenKeeps ==
  ASSUME SessionsInv, NEW r \in HReqs, NEW p \in HProcs, NEW k \in HKeys, ReadApiToken(r, p, k)
  PROVE  SessionsInv'
<1>. USE SessionConstants
<1>. DEFINE q == [IdleReq EXCEPT !.pc = "served", !.p = p, !.tok = k]
<1>1. q \in ReqRecs /\ q.pc = "served"
  BY DEF ReqRecs
<1>2. hReq' = [hReq EXCEPT ![r] = q] /\ UNCHANGED <<hUser, hTok, hKey, hCache, hChange, loginVars, hAdmin>>
  BY DEF ReadApiToken
<1>. HIDE DEF q
<1>. QED  BY <1>1, <1>2, UsersKeep, TokensKeep, CacheKeeps, SignInsKeep, ReqMoves DEF SessionsInv

LEMMA StampKeeps ==
  ASSUME SessionsInv, NEW u \in HUsers, NEW spared \in SUBSET HToks, StampCredentials(u, spared)
  PROVE  SessionsInv'
<1>. DEFINE n == hUser[u].stamp + 1
<1>1. /\ hChange[u] = "saved" /\ hChange' = [hChange EXCEPT ![u] = "stamped"]
      /\ hUser' = [hUser EXCEPT ![u].stamp = n]
      /\ hTok' = [t \in HToks |-> IF hTok[t].user = u /\ t \notin spared /\ hTok[t].ended = 0
                                  THEN [hTok[t] EXCEPT !.ended = n] ELSE hTok[t]]
      /\ UNCHANGED <<hKey, hCache, hReq, loginVars, hAdmin>>
  BY DEF StampCredentials
<1>2. /\ hUser \in [HUsers -> UserRecs] /\ hUser[u] \in UserRecs /\ hAdmin \in Nat /\ hAdmin <= HMaxAdmin
      /\ hChange \in [HUsers -> {"idle", "saved", "stamped"}] /\ hUser[u].stamp \in Nat /\ HMaxAdmin \in Nat
      /\ StampsCounted(u) /\ \A v \in HUsers : StampsCounted(v)
  BY SessionsAssumption DEF SessionsInv, UsersTyped, UserRecs, Stamps
<1>3. n <= hAdmin /\ n \in Stamps
  BY <1>1, <1>2 DEF StampsCounted, Stamps
<1>. HIDE DEF n
<1>4. hUser' \in [HUsers -> UserRecs] /\ hUser'[u].stamp = n /\ \A v \in HUsers \ {u} : hUser'[v] = hUser[v]
  BY <1>1, <1>2, <1>3 DEF UserRecs
<1>5. ASSUME NEW v \in HUsers PROVE StampsCounted(v)'
  <2>1. n + 0 <= hAdmin
    BY <1>3, <1>2 DEF Stamps
  <2>2. CASE v = u
    <3>1. hChange'[u] = "stamped" /\ hAdmin' = hAdmin /\ hUser'[u].stamp = n
      BY <1>1, <1>2, <1>4
    <3>. QED  BY <2>1, <2>2, <3>1 DEF StampsCounted
  <2>3. CASE v # u
    <3>1. hChange'[v] = hChange[v] /\ hAdmin' = hAdmin /\ hUser'[v] = hUser[v]
      BY <1>1, <1>2, <1>4, <2>3
    <3>. QED  BY <3>1, <1>2 DEF StampsCounted
  <2>. QED  BY <2>2, <2>3
<1>6. UsersTyped'
  BY <1>1, <1>2, <1>4, <1>5 DEF UsersTyped, SessionsInv
<1>7. TokensTyped'
  <2>1. \A t \in HToks : [hTok[t] EXCEPT !.ended = n] \in TokRecs /\ hTok[t] \in TokRecs
    BY <1>3 DEF SessionsInv, TokensTyped, TokRecs
  <2>2. hTok' \in [HToks -> TokRecs]
    BY <1>1, <2>1
  <2>. QED  BY <1>1, <2>2 DEF SessionsInv, TokensTyped
<1>. QED  BY <1>1, <1>6, <1>7, CacheKeeps, ReqsKeep, SignInsKeep DEF SessionsInv

LEMMA UserStepsKeep ==
  ASSUME SessionsInv, NEW u \in HUsers,
         \/ ChangeInterrupted(u)
         \/ \E p \in HProcs : SavePassword(u, p) \/ DeleteApiTokens(u, p) \/ \E b \in BOOLEAN : BulkUserUpdate(u, p, b)
  PROVE  SessionsInv'
<1>0. /\ hUser \in [HUsers -> UserRecs] /\ hAdmin \in Nat /\ hAdmin <= HMaxAdmin /\ HMaxAdmin \in Nat
      /\ hChange \in [HUsers -> {"idle", "saved", "stamped"}]
      /\ \A v \in HUsers : StampsCounted(v) /\ hUser[v].stamp \in Nat
  BY SessionsAssumption DEF SessionsInv, UsersTyped, UserRecs, Stamps
<1>1. CASE ChangeInterrupted(u)
  <2>1. /\ hAdmin < HMaxAdmin /\ hAdmin' = hAdmin + 1 /\ hChange' = [hChange EXCEPT ![u] = "idle"]
        /\ UNCHANGED <<hUser, hTok, hKey, hCache, hReq, loginVars>>
    BY <1>1 DEF ChangeInterrupted, Administer
  <2>2. ASSUME NEW v \in HUsers PROVE StampsCounted(v)'
    BY <1>0, <2>1 DEF StampsCounted
  <2>3. UsersTyped'
    BY <1>0, <2>1, <2>2 DEF UsersTyped
  <2>. QED  BY <2>1, <2>3, TokensKeep, CacheKeeps, ReqsKeep, SignInsKeep DEF SessionsInv
<1>2. ASSUME NEW p \in HProcs, SavePassword(u, p) PROVE SessionsInv'
  <2>1. /\ hAdmin < HMaxAdmin /\ hAdmin' = hAdmin + 1 /\ hChange' = [hChange EXCEPT ![u] = "saved"]
        /\ hChange[u] = "idle" /\ InvalidateCache(p, u) /\ UNCHANGED <<hUser, hTok, hKey, hReq, loginVars>>
    BY <1>2 DEF SavePassword, Administer
  <2>2. ASSUME NEW v \in HUsers PROVE StampsCounted(v)'
    BY <1>0, <2>1 DEF StampsCounted
  <2>3. UsersTyped'
    BY <1>0, <2>1, <2>2 DEF UsersTyped
  <2>. QED  BY <2>1, <2>3, TokensKeep, Invalidated, ReqsKeep, SignInsKeep DEF SessionsInv
<1>3. ASSUME NEW p \in HProcs, DeleteApiTokens(u, p) PROVE SessionsInv'
  <2>1. /\ hChange[u] = "stamped" /\ hChange' = [hChange EXCEPT ![u] = "idle"] /\ InvalidateCache(p, u)
        /\ hKey' = [k \in HKeys |-> IF hKey[k] = u THEN Nobody ELSE hKey[k]]
        /\ UNCHANGED <<hUser, hTok, hReq, loginVars, hAdmin>>
    BY <1>3 DEF DeleteApiTokens
  <2>2. ASSUME NEW v \in HUsers PROVE StampsCounted(v)'
    BY <1>0, <2>1 DEF StampsCounted
  <2>3. UsersTyped'
    BY <1>0, <2>1, <2>2 DEF UsersTyped
  <2>4. TokensTyped'
    BY <2>1 DEF SessionsInv, TokensTyped
  <2>. QED  BY <2>1, <2>3, <2>4, Invalidated, ReqsKeep, SignInsKeep DEF SessionsInv
<1>4. ASSUME NEW p \in HProcs, NEW b \in BOOLEAN, BulkUserUpdate(u, p, b) PROVE SessionsInv'
  <2>1. /\ hAdmin < HMaxAdmin /\ hAdmin' = hAdmin + 1 /\ hUser' = [hUser EXCEPT ![u].active = b]
        /\ InvalidateCache(p, u) /\ UNCHANGED <<hTok, hKey, hReq, hChange, loginVars>>
    BY <1>4 DEF BulkUserUpdate, Administer
  <2>2. hUser' \in [HUsers -> UserRecs] /\ \A v \in HUsers : hUser'[v].stamp = hUser[v].stamp
    BY <2>1, <1>0 DEF UserRecs
  <2>3. ASSUME NEW v \in HUsers PROVE StampsCounted(v)'
    BY <1>0, <2>1, <2>2 DEF StampsCounted
  <2>4. UsersTyped'
    BY <1>0, <2>1, <2>2, <2>3 DEF UsersTyped
  <2>. QED  BY <2>1, <2>4, TokensKeep, Invalidated, ReqsKeep, SignInsKeep DEF SessionsInv
<1>. QED  BY <1>1, <1>2, <1>3, <1>4

\* What the sign-ins leave alone.
LEMMA SignInStep ==
  ASSUME SessionsInv, SignInsTyped', TokensTyped', hAdmin' = hAdmin \/ Administer,
         UNCHANGED <<hUser, hCache, hReq, hChange>>
  PROVE  SessionsInv'
BY UsersKeep, CacheKeeps, ReqsKeep DEF SessionsInv

LEMMA LoginMoves ==
  ASSUME SessionsInv, NEW l \in HLogins, NEW pc \in {"none", "authorized", "reconciled", "done", "refused"},
         hLogin' = [hLogin EXCEPT ![l].pc = pc], UNCHANGED hProv,
         hAcct' \in SUBSET ({"issuer", "display"} \X HUsers)
  PROVE  SignInsTyped'
BY DEF SessionsInv, SignInsTyped, LoginRecs

LEMMA SignInsMove ==
  ASSUME SessionsInv, NEW l \in HLogins,
         \/ Reconcile(l) \/ SnapshotRefused(l) \/ CallbackRefused(l)
         \/ (\E p \in HProcs : Authorize(l, p)) \/ \E t \in HToks : Callback(l, t)
  PROVE  SessionsInv'
<1>0. /\ hProv \in [HProcs -> HProviders] /\ hLogin \in [HLogins -> LoginRecs]
      /\ hAcct \in SUBSET ({"issuer", "display"} \X HUsers) /\ hLogin[l] \in LoginRecs
  BY DEF SessionsInv, SignInsTyped
<1>1. ASSUME NEW p \in HProcs, Authorize(l, p) PROVE SessionsInv'
  <2>1. Snapshot(p) \in LoginRecs
    BY <1>0, SessionsAssumption DEF Snapshot, LoginRecs
  <2>2. SignInsTyped'
    BY <1>0, <1>1, <2>1 DEF Authorize, SignInsTyped
  <2>. QED  BY <1>1, <2>2, SignInStep, TokensKeep DEF Authorize, SessionsInv
<1>2. CASE Reconcile(l)
  <2>1. hAcct' \in SUBSET ({"issuer", "display"} \X HUsers)
    <3>1. {<<"issuer", u>> : u \in Owner("display")} \in SUBSET ({"issuer", "display"} \X HUsers)
      <4>1. \A u \in Owner("display") : u \in HUsers
        BY DEF Owner
      <4>. QED  BY <4>1
    <3>2. {a \in hAcct : a[1] = "issuer"} \in SUBSET ({"issuer", "display"} \X HUsers)
      BY <1>0
    <3>3. \/ hAcct' = {<<"issuer", u>> : u \in Owner("display")}
          \/ hAcct' = {a \in hAcct : a[1] = "issuer"} \/ hAcct' = hAcct
      BY <1>2 DEF Reconcile
    <3>. QED  BY <1>0, <3>1, <3>2, <3>3
  <2>2. SignInsTyped'
    BY <1>0, <1>2, <2>1 DEF Reconcile, SignInsTyped, RestoredProvider, LoginRecs
  <2>. QED  BY <1>2, <2>2, SignInStep, TokensKeep DEF Reconcile, SessionsInv
<1>3. CASE SnapshotRefused(l) \/ CallbackRefused(l)
  <2>1. SignInsTyped'
    BY <1>0, <1>3, LoginMoves DEF SnapshotRefused, CallbackRefused
  <2>. QED  BY <1>3, <2>1, SignInStep, TokensKeep DEF SnapshotRefused, CallbackRefused, SessionsInv
<1>4. ASSUME NEW t \in HToks, Callback(l, t) PROVE SessionsInv'
  <2>1. CallbackUser \in HUsers
    <3>1. Owner("issuer") \subseteq HUsers
      BY DEF Owner
    <3>. QED  BY <3>1, SessionsAssumption DEF CallbackUser
  <2>2. hAcct' \in SUBSET ({"issuer", "display"} \X HUsers)
    BY <1>0, <1>4, SessionsAssumption DEF Callback
  <2>3. \E pc \in {"done", "refused"} : hLogin' = [hLogin EXCEPT ![l].pc = pc]
    BY <1>4 DEF Callback
  <2>4. SignInsTyped'
    BY <1>4, <2>2, <2>3, LoginMoves DEF Callback
  <2>5. WriteToken(t, CallbackUser) \/ UNCHANGED hTok
    BY <1>4 DEF Callback
  <2>6. TokensTyped'
    BY <1>4, <2>1, <2>5, TokenWritten, TokensKeep DEF Callback, SessionsInv
  <2>. QED  BY <1>4, <2>4, <2>6, SignInStep DEF Callback
<1>. QED  BY <1>1, <1>2, <1>3, <1>4

LEMMA SessionsInvNext == SessionsInv /\ [SessionsNext]_hVars => SessionsInv'
<1>. SUFFICES ASSUME SessionsInv, [SessionsNext]_hVars PROVE SessionsInv'
  OBVIOUS
<1>. USE SessionConstants
<1>1. ASSUME NEW t \in HToks, SessionExpires(t) PROVE SessionsInv'
  <2>1. TokensTyped'
    BY <1>1 DEF SessionExpires, SessionsInv, TokensTyped, TokRecs
  <2>. QED  BY <1>1, <2>1, UsersKeep, CacheKeeps, ReqsKeep, SignInsKeep DEF SessionExpires, SessionsInv
<1>2. ASSUME NEW t \in HToks, NEW u \in HUsers, Login(t, u) PROVE SessionsInv'
  BY <1>2, TokenWritten, UsersKeep, CacheKeeps, ReqsKeep, SignInsKeep DEF Login, SessionsInv
<1>3. ASSUME NEW t \in HToks, NEW p \in HProcs, CacheExpires(p, t) PROVE SessionsInv'
  BY <1>3, CacheSet, UsersKeep, TokensKeep, ReqsKeep, SignInsKeep DEF CacheExpires, SessionsInv
<1>4. ASSUME NEW r \in HReqs, ServeEnds(r) PROVE SessionsInv'
  BY <1>4, ReqMoves, UsersKeep, TokensKeep, CacheKeeps, SignInsKeep DEF ServeEnds, SessionsInv
<1>5. ASSUME NEW p \in HProcs, NEW v \in HProviders, SwapRuntime(p, v) PROVE SessionsInv'
  <2>1. SignInsTyped'
    BY <1>5 DEF SwapRuntime, SessionsInv, SignInsTyped
  <2>. QED  BY <1>5, <2>1, SignInStep, TokensKeep DEF SwapRuntime, SessionsInv
<1>6. CASE UNCHANGED hVars
  BY <1>6, UsersKeep, TokensKeep, CacheKeeps, ReqsKeep, SignInsKeep DEF hVars, loginVars, SessionsInv
<1>7. ASSUME NEW t \in HToks, NEW p \in HProcs, NEW r \in HReqs, ReadHit(r, p, t) \/ ReadLoad(r, p, t)
      PROVE  SessionsInv'
  BY <1>7, ReadKeeps
<1>8. ASSUME NEW r \in HReqs, ReadStore(r) PROVE SessionsInv'
  BY <1>8, ReadStoreKeeps
<1>9. ASSUME NEW k \in HKeys, RevokeMyToken(k) \/ \E r \in HReqs : CreateMyToken(k, r) PROVE SessionsInv'
  BY <1>9, KeysKeep
<1>10. ASSUME NEW r \in HReqs, NEW p \in HProcs, NEW k \in HKeys, ReadApiToken(r, p, k) PROVE SessionsInv'
  BY <1>10, ReadApiTokenKeeps
<1>11. ASSUME NEW u \in HUsers, NEW s \in SUBSET HToks, StampCredentials(u, s) PROVE SessionsInv'
  BY <1>11, StampKeeps
<1>12. ASSUME NEW u \in HUsers,
              \/ ChangeInterrupted(u)
              \/ \E p \in HProcs : \/ SavePassword(u, p) \/ DeleteApiTokens(u, p)
                                   \/ \E b \in BOOLEAN : BulkUserUpdate(u, p, b)
       PROVE  SessionsInv'
  BY <1>12, UserStepsKeep
<1>13. ASSUME NEW l \in HLogins,
              \/ Reconcile(l) \/ SnapshotRefused(l) \/ CallbackRefused(l)
              \/ (\E p \in HProcs : Authorize(l, p)) \/ \E t \in HToks : Callback(l, t)
       PROVE  SessionsInv'
  BY <1>13, SignInsMove
<1>14. ASSUME NEW t \in HToks,
              \/ SessionExpires(t)
              \/ \E u \in HUsers : Login(t, u)
              \/ \E l \in HLogins : Callback(l, t)
              \/ \E p \in HProcs : \/ CacheExpires(p, t)
                                   \/ \E r \in HReqs : ReadHit(r, p, t) \/ ReadLoad(r, p, t)
       PROVE  SessionsInv'
  <2>1. ASSUME NEW l \in HLogins, Callback(l, t) PROVE SessionsInv'
    BY <2>1, <1>13
  <2>2. ASSUME NEW p \in HProcs, CacheExpires(p, t) \/ \E r \in HReqs : ReadHit(r, p, t) \/ ReadLoad(r, p, t)
        PROVE  SessionsInv'
    BY <2>2, <1>3, <1>7
  <2>. QED  BY <1>14, <1>1, <1>2, <2>1, <2>2
<1>15. ASSUME NEW r \in HReqs,
              \/ ReadStore(r) \/ ServeEnds(r)
              \/ \E k \in HKeys : CreateMyToken(k, r) \/ \E p \in HProcs : ReadApiToken(r, p, k)
       PROVE  SessionsInv'
  BY <1>15, <1>4, <1>8, <1>9, <1>10
<1>. QED  BY <1>5, <1>6, <1>9, <1>11, <1>12, <1>13, <1>14, <1>15 DEF SessionsNext

LEMMA SessionsInvTyped == SessionsInv => SessionsTypeOK
BY DEF SessionsInv, UsersTyped, TokensTyped, CacheTyped, ReqsTyped, SignInsTyped, UserRecs, TokRecs, CacheRecs,
       ReqRecs, LoginRecs, SessionsTypeOK

\* Users, sessions, API tokens, cached users and sign-ins are well formed, and no change of
\* credentials stamps a user more often than it was asked for (auth/users.py).
THEOREM SessionsTyped == SessionsSpec => []SessionsTypeOK
BY SessionsInvInit, SessionsInvNext, SessionsInvTyped, PTL DEF SessionsSpec

\* The POSTs so far fit the attempts and the redirects of the attempt under way.
PostsBefore(attempt) == (attempt - 1) * (DRedirects + 1)

WebhookInv ==
  /\ hook \in [at : {"idle", "chain", "resolve", "post", "answer"}, attempt : 0..DAttempts,
               hops : 0..DRedirects, to : SUBSET DAddrs]
  /\ refused \in BOOLEAN /\ posts \in Nat
  /\ hook.at = "idle" => posts = 0
  /\ hook.at # "idle" =>
       /\ hook.attempt >= 1
       /\ posts <= PostsBefore(hook.attempt) + hook.hops + (IF hook.at = "answer" THEN 1 ELSE 0)

LEMMA PostBudget ==
  ASSUME NEW a \in Nat, a >= 1
  PROVE  /\ PostsBefore(a) \in Nat /\ PostsBefore(a + 1) = PostsBefore(a) + DRedirects + 1
         /\ a <= DAttempts => PostsBefore(a) + DRedirects + 1 <= DAttempts * (DRedirects + 1)
<1>. DEFINE k == DRedirects + 1
            b == a - 1
<1>1. k \in Nat /\ b \in Nat /\ DAttempts \in Nat
  BY WebhookAssumption
<1>. HIDE DEF k, b
<1>2. b * k \in Nat /\ (b + 1) * k = b * k + k
  BY <1>1
<1>3. ASSUME NEW d \in Nat, DAttempts = b + 1 + d PROVE b * k + k <= DAttempts * k
  <2>1. DAttempts * k = b * k + k + d * k /\ d * k \in Nat
    BY <1>1, <1>3
  <2>. QED  BY <1>2, <2>1, <1>1
<1>4. b + 1 <= DAttempts => b * k + k <= DAttempts * k
  <2>1. SUFFICES ASSUME b + 1 <= DAttempts PROVE b * k + k <= DAttempts * k
    OBVIOUS
  <2>2. DAttempts - (b + 1) \in Nat /\ DAttempts = b + 1 + (DAttempts - (b + 1))
    BY <2>1, <1>1
  <2>. QED  BY <2>2, <1>3
<1>. USE DEF k, b
<1>5. PostsBefore(a) = b * k /\ PostsBefore(a + 1) = (b + 1) * k /\ b + 1 = a /\ k = DRedirects + 1
  BY WebhookAssumption DEF PostsBefore
<1>. HIDE DEF k, b
<1>. DEFINE m == b * k
            n == DAttempts * k
<1>6. m \in Nat /\ n \in Nat /\ (b + 1) * k = m + k /\ (a <= DAttempts => m + k <= n)
  BY <1>1, <1>2, <1>4, <1>5
<1>7. PostsBefore(a) = m /\ PostsBefore(a + 1) = m + k /\ DAttempts * (DRedirects + 1) = n
  BY <1>5, <1>6
<1>. HIDE DEF m, n
<1>. QED  BY <1>1, <1>5, <1>6, <1>7, WebhookAssumption

LEMMA NoneBefore == PostsBefore(1) = 0
BY WebhookAssumption DEF PostsBefore

LEMMA NoHookTyped ==
  NoHook \in [at : {"idle", "chain", "resolve", "post", "answer"}, attempt : 0..DAttempts,
               hops : 0..DRedirects, to : SUBSET DAddrs] /\ NoHook.at = "idle" /\ NoHook.hops = 0
BY WebhookAssumption DEF NoHook

LEMMA WebhookInvInit == WebhookInit => WebhookInv
<1>1. WebhookInit => refused \in BOOLEAN /\ posts = 0 /\ hook = NoHook
  BY DEF WebhookInit
<1>. QED  BY <1>1, NoHookTyped DEF WebhookInv

LEMMA DeliveryOver == ASSUME NEW why \in BOOLEAN, Over(why) PROVE WebhookInv'
BY NoHookTyped DEF Over, WebhookInv

\* A step of a delivery under way that makes no POST: to another place of the same attempt, or to a later attempt.
LEMMA DeliveryMoves ==
  ASSUME WebhookInv, UNCHANGED <<posts, refused>>,
         hook' \in [at : {"chain", "resolve", "post"}, attempt : 1..DAttempts, hops : 0..DRedirects, to : SUBSET DAddrs],
         posts <= PostsBefore(hook'.attempt) + hook'.hops
  PROVE  WebhookInv'
<1>1. hook'.at \in {"chain", "resolve", "post"} /\ hook'.attempt \in 1..DAttempts /\ hook'.hops \in 0..DRedirects
  OBVIOUS
<1>2. hook'.attempt >= 1 /\ PostsBefore(hook'.attempt) \in Nat
  BY <1>1, WebhookAssumption, PostBudget
<1>3. hook' \in [at : {"idle", "chain", "resolve", "post", "answer"}, attempt : 0..DAttempts,
                 hops : 0..DRedirects, to : SUBSET DAddrs]
  BY WebhookAssumption
<1>. QED  BY <1>1, <1>2, <1>3, WebhookAssumption DEF WebhookInv

LEMMA WebhookInvNext == WebhookInv /\ [WebhookNext]_dVars => WebhookInv'
<1>. SUFFICES ASSUME WebhookInv, [WebhookNext]_dVars PROVE WebhookInv'
  OBVIOUS
<1>. USE WebhookAssumption
<1>0. /\ TRUE \in BOOLEAN /\ FALSE \in BOOLEAN /\ posts \in Nat /\ hook.hops \in 0..DRedirects /\ hook.attempt \in 0..DAttempts
      /\ hook.at \in {"idle", "chain", "resolve", "post", "answer"} /\ hook.to \in SUBSET DAddrs
      /\ hook = [at |-> hook.at, attempt |-> hook.attempt, hops |-> hook.hops, to |-> hook.to]
  BY DEF WebhookInv
<1>10. ASSUME hook.at # "idle"
       PROVE  /\ hook.attempt \in 1..DAttempts /\ hook.attempt \in Nat /\ hook.attempt >= 1
              /\ posts <= PostsBefore(hook.attempt) + hook.hops + (IF hook.at = "answer" THEN 1 ELSE 0)
  BY <1>0, <1>10 DEF WebhookInv
<1>1. CASE DeliverWebhook
  <2>1. CASE Over(TRUE)
    BY <2>1, <1>0, DeliveryOver
  <2>2. CASE /\ hook' = [NoHook EXCEPT !.at = "chain", !.attempt = 1] /\ refused' = FALSE /\ UNCHANGED posts
    <3>1. posts = 0
      BY <1>1 DEF DeliverWebhook, WebhookInv
    <3>2. hook' = [at |-> "chain", attempt |-> 1, hops |-> 0, to |-> {}]
      BY <2>2 DEF NoHook
    <3>3. /\ hook' \in [at : {"idle", "chain", "resolve", "post", "answer"}, attempt : 0..DAttempts,
                        hops : 0..DRedirects, to : SUBSET DAddrs]
          /\ hook'.at = "chain" /\ hook'.attempt = 1 /\ hook'.hops = 0
      BY <3>2
    <3>4. posts' = 0 /\ refused' \in BOOLEAN
      BY <2>2, <3>1
    <3>. QED  BY <3>3, <3>4, NoneBefore DEF WebhookInv
  <2>. QED  BY <1>1, <2>1, <2>2 DEF DeliverWebhook
<1>2. CASE ValidateChain
  <2>1. CASE Over(TRUE)
    BY <2>1, <1>0, DeliveryOver
  <2>2. CASE hook' = [hook EXCEPT !.at = "resolve"] /\ UNCHANGED <<posts, refused>>
    <3>1. hook.at = "chain"
      BY <1>2 DEF ValidateChain
    <3>2. hook' = [at |-> "resolve", attempt |-> hook.attempt, hops |-> hook.hops, to |-> hook.to]
      BY <2>2, <1>0
    <3>3. /\ hook' \in [at : {"chain", "resolve", "post"}, attempt : 1..DAttempts, hops : 0..DRedirects, to : SUBSET DAddrs]
          /\ hook'.attempt = hook.attempt /\ hook'.hops = hook.hops
      BY <1>0, <1>10, <3>1, <3>2
    <3>4. posts <= PostsBefore(hook.attempt) + hook.hops
      <4>1. PostsBefore(hook.attempt) \in Nat
        BY <1>10, <3>1, PostBudget
      <4>. QED  BY <1>0, <1>10, <3>1, <4>1
    <3>. QED  BY <2>2, <3>3, <3>4, DeliveryMoves
  <2>. QED  BY <1>2, <2>1, <2>2 DEF ValidateChain
<1>3. CASE ResolveWebhookHost
  <2>1. CASE Over(TRUE)
    BY <2>1, <1>0, DeliveryOver
  <2>2. ASSUME NEW ip \in DAddrs, hook' = [hook EXCEPT !.at = "post", !.to = {ip}], UNCHANGED <<posts, refused>>
        PROVE  WebhookInv'
    <3>1. hook.at = "resolve"
      BY <1>3 DEF ResolveWebhookHost
    <3>2. hook' = [at |-> "post", attempt |-> hook.attempt, hops |-> hook.hops, to |-> {ip}]
      BY <2>2, <1>0
    <3>3. /\ hook' \in [at : {"chain", "resolve", "post"}, attempt : 1..DAttempts, hops : 0..DRedirects, to : SUBSET DAddrs]
          /\ hook'.attempt = hook.attempt /\ hook'.hops = hook.hops
      BY <1>0, <1>10, <3>1, <3>2
    <3>4. posts <= PostsBefore(hook.attempt) + hook.hops
      <4>1. PostsBefore(hook.attempt) \in Nat
        BY <1>10, <3>1, PostBudget
      <4>. QED  BY <1>0, <1>10, <3>1, <4>1
    <3>. QED  BY <2>2, <3>3, <3>4, DeliveryMoves
  <2>. QED  BY <1>3, <2>1, <2>2 DEF ResolveWebhookHost, Answers
<1>4. CASE PostStream
  <2>1. hook.at = "post" /\ posts' = posts + 1 /\ UNCHANGED refused
    BY <1>4 DEF PostStream
  <2>2. hook' = [at |-> "answer", attempt |-> hook.attempt, hops |-> hook.hops, to |-> hook.to]
    BY <1>4, <1>0 DEF PostStream
  <2>3. /\ hook' \in [at : {"idle", "chain", "resolve", "post", "answer"}, attempt : 0..DAttempts,
                      hops : 0..DRedirects, to : SUBSET DAddrs]
        /\ hook'.at = "answer" /\ hook'.attempt = hook.attempt /\ hook'.hops = hook.hops
    BY <1>0, <2>2
  <2>4. PostsBefore(hook.attempt) \in Nat
    BY <1>10, <2>1, PostBudget
  <2>5. posts' \in Nat /\ posts' <= PostsBefore(hook.attempt) + hook.hops + 1 /\ hook.attempt >= 1
    BY <1>0, <1>10, <2>1, <2>4
  <2>. QED  BY <1>0, <2>1, <2>3, <2>5 DEF WebhookInv
<1>5. CASE FollowRedirect
  <2>1. hook.at = "answer" /\ hook.hops < DRedirects /\ UNCHANGED <<posts, refused>>
    BY <1>5 DEF FollowRedirect
  <2>2. hook' = [at |-> "chain", attempt |-> hook.attempt, hops |-> hook.hops + 1, to |-> {}]
    BY <1>5, <1>0 DEF FollowRedirect
  <2>3. PostsBefore(hook.attempt) \in Nat
    BY <1>10, <2>1, PostBudget
  <2>. QED  BY <2>1, <2>2, <2>3, <1>0, <1>10, DeliveryMoves
<1>6. CASE EndDelivery
  BY <1>6, <1>0, DeliveryOver DEF EndDelivery
<1>7. CASE RetryDelivery
  <2>1. CASE Over(FALSE)
    BY <2>1, <1>0, DeliveryOver
  <2>2. CASE /\ hook.attempt < DAttempts
             /\ hook' = [NoHook EXCEPT !.at = "chain", !.attempt = hook.attempt + 1] /\ UNCHANGED <<posts, refused>>
    <3>1. hook.at = "answer"
      BY <1>7 DEF RetryDelivery
    <3>2. hook' = [at |-> "chain", attempt |-> hook.attempt + 1, hops |-> 0, to |-> {}]
      BY <2>2 DEF NoHook
    <3>3. PostsBefore(hook.attempt) \in Nat /\ PostsBefore(hook.attempt + 1) = PostsBefore(hook.attempt) + DRedirects + 1
      BY <1>10, <3>1, PostBudget
    <3>4. posts <= PostsBefore(hook.attempt + 1)
      BY <1>0, <1>10, <3>1, <3>3
    <3>5. /\ hook' \in [at : {"chain", "resolve", "post"}, attempt : 1..DAttempts, hops : 0..DRedirects, to : SUBSET DAddrs]
          /\ hook'.attempt = hook.attempt + 1 /\ hook'.hops = 0
      <4>1. hook.attempt + 1 \in 1..DAttempts
        BY <1>0, <2>2
      <4>. QED  BY <3>2, <4>1
    <3>6. posts <= PostsBefore(hook.attempt + 1) + 0
      BY <1>0, <1>10, <3>1, <3>3, <3>4
    <3>. QED  BY <2>2, <3>5, <3>6, DeliveryMoves
  <2>. QED  BY <1>7, <2>1, <2>2 DEF RetryDelivery
<1>8. CASE UNCHANGED dVars
  BY <1>8 DEF dVars, WebhookInv
<1>. QED  BY <1>1, <1>2, <1>3, <1>4, <1>5, <1>6, <1>7, <1>8 DEF WebhookNext, WebhookStep

LEMMA WebhookInvTyped == WebhookInv => WebhookTypeOK
<1>. SUFFICES ASSUME WebhookInv PROVE WebhookTypeOK
  OBVIOUS
<1>1. hook.attempt \in 0..DAttempts /\ hook.hops \in 0..DRedirects /\ posts \in Nat
  BY DEF WebhookInv
<1>2. DAttempts * (DRedirects + 1) \in Nat
  BY WebhookAssumption
<1>3. posts <= DAttempts * (DRedirects + 1)
  <2>1. CASE hook.at = "idle"
    BY <1>2, <2>1 DEF WebhookInv
  <2>2. CASE hook.at # "idle"
    <3>1. /\ hook.attempt \in Nat /\ hook.attempt >= 1 /\ hook.attempt <= DAttempts
          /\ posts <= PostsBefore(hook.attempt) + hook.hops + 1
      <4>1. PostsBefore(hook.attempt) \in Nat
        BY <1>1, <2>2, WebhookAssumption, PostBudget DEF WebhookInv
      <4>. QED  BY <1>1, <2>2, <4>1, WebhookAssumption DEF WebhookInv
    <3>2. PostsBefore(hook.attempt) \in Nat /\ PostsBefore(hook.attempt) + DRedirects + 1 <= DAttempts * (DRedirects + 1)
      BY <3>1, PostBudget
    <3>. QED  BY <1>1, <1>2, <3>1, <3>2, WebhookAssumption
  <2>. QED  BY <2>1, <2>2
<1>. QED  BY <1>1, <1>2, <1>3 DEF WebhookInv, WebhookTypeOK

\* A delivery makes no more POSTs than its attempts and the redirects of each allow
\* (notifications/webhook_client.py).
THEOREM DeliveryBounded == WebhookSpec => []WebhookTypeOK
BY WebhookInvInit, WebhookInvNext, WebhookInvTyped, PTL DEF WebhookSpec

(***************************************************************************)
(* The components side by side: a step of MCPlatform is a step of one      *)
(* of them and leaves the state of the others alone.                       *)
(***************************************************************************)

PlatformInv ==
  /\ part \in Platform /\ RuntimeInv /\ IntegrityInv /\ SettingsInv /\ SessionsInv
  /\ NotificationsInv /\ WebhookInv /\ RateInv

LEMMA PlatformStep ==
  [PlatformNext]_<<part, platVars>> =>
    /\ [RuntimeNext]_oVars /\ [IntegrityNext]_iVars /\ [SettingsNext]_gVars /\ [SessionsNext]_hVars
    /\ [NotificationsNext]_eVars /\ [WebhookNext]_dVars /\ [RateLimitNext]_tVars /\ UNCHANGED part
BY DEF PlatformNext, platVars

LEMMA PlatformInvInit == PlatformInit => PlatformInv
BY RuntimeInvInit, IntegrityInvInit, SettingsInvInit, SessionsInvInit, NotificationsInvInit, WebhookInvInit,
   RateInvInit DEF PlatformInit, PlatformInv

LEMMA PlatformInvNext == PlatformInv /\ [PlatformNext]_<<part, platVars>> => PlatformInv'
BY PlatformStep, RuntimeInvNext, IntegrityInvNext, SettingsInvNext, SessionsInvNext, NotificationsInvNext,
   WebhookInvNext, RateInvNext DEF PlatformInv

THEOREM PlatformInvariant == PlatformSpec => []PlatformInv
BY PlatformInvInit, PlatformInvNext, PTL DEF PlatformSpec

\* Every reachable state of every component is well typed, the bounds of the rate limit's
\* table (rate_limit.py) and of a webhook's POSTs (notifications/webhook_client.py) included.
THEOREM PlatformTyped == PlatformSpec => []PlatformTypeOK
<1>1. PlatformInv => PlatformTypeOK
  BY IntegrityInvTyped, SettingsInvTyped, SessionsInvTyped, WebhookInvTyped, RateInvTyped
     DEF PlatformInv, PlatformTypeOK, RuntimeInv, NotificationsInv
<1>. QED  BY <1>1, PlatformInvariant, PTL

\* In the behaviours of MCPlatform the action of a user on a flagged file stands
\* (scheduler_tasks/integrity.py, torrents/integrity.py).
THEOREM PlatformUserActions == PlatformSpec => UserActionStands
<1>1. PlatformInv /\ PlatformInv' /\ [PlatformNext]_<<part, platVars>> => [ActionStands]_iVars
  BY PlatformStep, UserWins DEF PlatformInv
<1>. QED  BY <1>1, PlatformInvariant, PTL DEF PlatformSpec, UserActionStands, ActionStands
\* No process of MCPlatform runs settings older than the ones it has reached
\* (settings/reload.py): the safety part of ProcessesConverge.
THEOREM PlatformSettings == PlatformSpec => []RunsWhatItReached
<1>1. PlatformInv => RunsWhatItReached
  BY SettingsInvTyped DEF PlatformInv
<1>. QED  BY <1>1, PlatformInvariant, PTL

\* What a window forbids does not happen before it is over, in the behaviours of MCPlatform
\* (notifications/manager.py, rate_limit.py).
THEOREM PlatformWindows == PlatformSpec => WindowsKept
<1>1. PlatformInv /\ [PlatformNext]_<<part, platVars>> => [FanOutInTime]_eVars
  BY PlatformStep, FanOutWaits DEF PlatformInv
<1>2. PlatformInv /\ [PlatformNext]_<<part, platVars>> => [KeepsLimit]_tVars
  BY PlatformStep, LimitHolds DEF PlatformInv
<1>. QED  BY <1>1, <1>2, PlatformInvariant, PTL
          DEF PlatformSpec, WindowsKept, FannedOncePerWindow, FanOutInTime, LimitedStaysLimited, KeepsLimit

\* The processes of MCPlatform implement the lease of the scheduler's lock.
THEOREM PlatformLease == PlatformSpec => ImplementsLease
<1>1. PlatformInv /\ PlatformInv' /\ [PlatformNext]_<<part, platVars>> => [Lease!LeaseNext]_Lease!leaseVars
  BY PlatformStep, LeaseStep DEF PlatformInv
<1>2. PlatformInit => Lease!LeaseInit
  BY LeaseInitial DEF PlatformInit
<1>. QED  BY <1>1, <1>2, PlatformInvariant, PTL DEF PlatformSpec, ImplementsLease, Lease!LeaseSpec

=================================================================================
