------------------------------ MODULE Settings ------------------------------
(***************************************************************************)
(* System settings: overrides in one database row with a revision, changed *)
(* by compare-and-swap, applied to the live configuration of every process *)
(* and to its OpenID runtime, and announced on the event bus.              *)
(*                                                                         *)
(* What a revision holds never changes: the live configuration and the     *)
(* active provider of a process are named by the revision they come from,  *)
(* and a change's content by the revision that brought it.                 *)
(***************************************************************************)
EXTENDS Integers, FiniteSets

CONSTANTS GProcs,       \* processes of the program
          GMuts,        \* requests that change the settings
          GMaxRev, GMaxFails, GMaxRestarts

ASSUME SettingsAssumption ==
  /\ GMaxRev \in Nat \ {0} /\ GMaxFails \in Nat /\ GMaxRestarts \in Nat
  /\ "free" \notin GMuts

VARIABLES gRev,      \* the revision of the row
          gVals,     \* what each revision holds
          gProc,     \* the processes: live, rt, local, epoch, and the step of starting up
          gLock,     \* per process: the holder of the coordinator lock
          gMut,      \* the requests
          gSub,      \* per process: the revision subscriber
          gBus,      \* per process: revision events that wait for it
          gFails, gRestarts

gVars == <<gRev, gVals, gProc, gLock, gMut, gSub, gBus, gFails, gRestarts>>

Revs == 0..GMaxRev
NoHolder == "free"
IdleMut == [pc |-> "idle", p |-> "none", exp |-> 0, epoch |-> 0, rev |-> 0]
IdleSub == [pc |-> "wait", rev |-> 0]
Locked == {"cas", "apply", "restore"}

\* The revisions each process has reached; a mutation lock is held by a mutation of its
\* own process that is past taking it (settings/coordinator.py).
SettingsTypeOK ==
  /\ gRev \in Revs /\ gVals \in [Revs -> Revs]
  /\ \A p \in GProcs : /\ gProc[p].live \in Revs /\ gProc[p].rt \in Revs /\ gProc[p].local \in Revs
                       /\ gProc[p].epoch \in Revs /\ gProc[p].pc \in {"down", "auth", "up"}
                       /\ gSub[p].pc \in {"wait", "reload"} /\ gSub[p].rev \in Revs
                       /\ gBus[p] \subseteq Revs
                       /\ gLock[p] # NoHolder => gMut[gLock[p]].p = p /\ gMut[gLock[p]].pc \in Locked
  /\ \A m \in GMuts : gMut[m].pc \in {"idle", "stage", "reconcile", "reload"} \cup Locked
  /\ gFails \in 0..GMaxFails /\ gRestarts \in 0..GMaxRestarts

SettingsInit ==
  /\ gRev = 0 /\ gVals = [n \in Revs |-> 0]
  /\ gProc = [p \in GProcs |-> [live |-> 0, rt |-> 0, local |-> 0, epoch |-> 0, pc |-> "up"]]
  /\ gLock = [p \in GProcs |-> NoHolder] /\ gMut = [m \in GMuts |-> IdleMut]
  /\ gSub = [p \in GProcs |-> IdleSub] /\ gBus = [p \in GProcs |-> {}]
  /\ gFails = 0 /\ gRestarts = 0

ConfigFaults == gFails < GMaxFails /\ gFails' = gFails + 1
Up(p) == gProc[p].pc = "up"
CoordinatorFree(p) == gLock[p] = NoHolder

\* Live configuration and provider, then the revision the process has reached.
ApplyLive(p, n) == gProc' = [gProc EXCEPT ![p].live = n, ![p].rt = n, ![p].local = IF n > @ THEN n ELSE @]
\* An exception: nothing was applied, or the configuration and not the provider.
ApplyRaises(p, n) == gProc' = gProc \/ gProc' = [gProc EXCEPT ![p].live = n]

\* publish_settings_revision_changed: to the own subscriber, and to those of the other
\* processes over the database; a full queue or a lost connection drops it.
Listening == {p \in GProcs : Up(p)}
Delivered(to, n) == [p \in GProcs |-> IF p \in to THEN gBus[p] \cup {n} ELSE gBus[p]]
Announce(n) == \E to \in SUBSET Listening : gBus' = Delivered(to, n)

(***************************************************************************)
(* execute_settings_mutation.                                              *)
(***************************************************************************)

\* Under the lock, the row is read and the new overrides computed; the provider is then
\* staged outside the lock.
Prepare(m, p) ==
  /\ gMut[m].pc = "idle" /\ Up(p) /\ CoordinatorFree(p) /\ gRev + 1 < GMaxRev
  /\ gMut' = [gMut EXCEPT ![m] = [IdleMut EXCEPT !.pc = "stage", !.p = p, !.exp = gRev, !.epoch = gProc[p].epoch]]
  /\ UNCHANGED <<gRev, gVals, gProc, gLock, gSub, gBus, gFails, gRestarts>>

UpdateSettings(m, p) == Prepare(m, p)
ImportSettings(m, p) == Prepare(m, p)
ClearOverridePath(m, p) == Prepare(m, p)
ResetSettings(m, p) == Prepare(m, p)

StageFails(m) ==
  /\ gMut[m].pc = "stage" /\ ConfigFaults
  /\ gMut' = [gMut EXCEPT ![m] = IdleMut]
  /\ UNCHANGED <<gRev, gVals, gProc, gLock, gSub, gBus, gRestarts>>

\* The lock again: a change applied in between supersedes this one.
Enter(m) ==
  LET p == gMut[m].p IN
  /\ gMut[m].pc = "stage" /\ CoordinatorFree(p)
  /\ IF gProc[p].epoch # gMut[m].epoch
     THEN gMut' = [gMut EXCEPT ![m] = IdleMut] /\ UNCHANGED gLock
     ELSE gMut' = [gMut EXCEPT ![m].pc = "cas"] /\ gLock' = [gLock EXCEPT ![p] = m]
  /\ UNCHANGED <<gRev, gVals, gProc, gSub, gBus, gFails, gRestarts>>

Release(m) == gLock' = [gLock EXCEPT ![gMut[m].p] = NoHolder]
NewContent == gRev + 1
WriteRow(v) == gRev < GMaxRev /\ gRev' = gRev + 1 /\ gVals' = [gVals EXCEPT ![gRev + 1] = v]

SaveMatches(exp) == gRev = exp

SaveOverridesCas(m) ==
  /\ gMut[m].pc = "cas"
  /\ \/ /\ SaveMatches(gMut[m].exp) /\ WriteRow(NewContent)
        /\ gMut' = [gMut EXCEPT ![m].pc = "apply", ![m].rev = gRev + 1] /\ UNCHANGED gLock
     \/ /\ ~SaveMatches(gMut[m].exp)
        /\ gMut' = [gMut EXCEPT ![m] = IdleMut] /\ Release(m) /\ UNCHANGED <<gRev, gVals>>
  /\ UNCHANGED <<gProc, gSub, gBus, gFails, gRestarts>>

\* The connection fails: the row was written or not, and the request does not know.
SaveRaises(m) ==
  /\ gMut[m].pc = "cas" /\ ConfigFaults
  /\ \/ UNCHANGED <<gRev, gVals>>
     \/ SaveMatches(gMut[m].exp) /\ WriteRow(NewContent)
  /\ gMut' = [gMut EXCEPT ![m] = IdleMut] /\ Release(m)
  /\ UNCHANGED <<gProc, gSub, gBus, gRestarts>>

ApplyMutation(m) ==
  LET p == gMut[m].p  n == gMut[m].rev IN
  /\ gMut[m].pc = "apply" /\ n > gProc[p].local
  /\ gProc' = [gProc EXCEPT ![p].live = n, ![p].rt = n, ![p].local = n, ![p].epoch = @ + 1]
  /\ Announce(n) /\ Release(m) /\ gMut' = [gMut EXCEPT ![m] = IdleMut]
  /\ UNCHANGED <<gRev, gVals, gSub, gFails, gRestarts>>

ApplyMutationRaises(m) ==
  /\ gMut[m].pc = "apply" /\ ConfigFaults
  /\ ApplyRaises(gMut[m].p, gMut[m].rev)
  /\ gMut' = [gMut EXCEPT ![m].pc = "restore"]
  /\ UNCHANGED <<gRev, gVals, gLock, gSub, gBus, gRestarts>>

\* _restore_committed_mutation_snapshot: the prior overrides as a revision of their own.
RestoreSnapshot(m) ==
  LET p == gMut[m].p IN
  /\ gMut[m].pc = "restore" /\ gRev = gMut[m].rev
  /\ WriteRow(gVals[gMut[m].exp])
  /\ \/ ApplyLive(p, gRev + 1) /\ Announce(gRev + 1) /\ UNCHANGED gFails
     \/ ApplyRaises(p, gRev + 1) /\ ConfigFaults /\ UNCHANGED gBus
  /\ gMut' = [gMut EXCEPT ![m] = IdleMut] /\ Release(m)
  /\ UNCHANGED <<gSub, gRestarts>>

\* Another process has written since: the request takes over what the row holds now.
RestoreConflict(m) ==
  /\ gMut[m].pc = "restore" /\ gRev # gMut[m].rev
  /\ gMut' = [gMut EXCEPT ![m].pc = "reconcile"] /\ Release(m)
  /\ UNCHANGED <<gRev, gVals, gProc, gSub, gBus, gFails, gRestarts>>

MutReconcile(m) ==
  /\ gMut[m].pc = "reconcile"
  /\ gMut' = [gMut EXCEPT ![m] = IF gRev <= gProc[gMut[m].p].local THEN IdleMut ELSE [@ EXCEPT !.pc = "reload", !.rev = gRev]]
  /\ UNCHANGED <<gRev, gVals, gProc, gLock, gSub, gBus, gFails, gRestarts>>

(***************************************************************************)
(* reload_committed_settings: the provider is staged, then, under the      *)
(* lock, the revision is compared once more.                               *)
(***************************************************************************)
StillNewerOnce(p, n) == TRUE
StillNewer(p, n) == n > gProc[p].local

ReloadApplyMarkedFirst(p, n) ==
  /\ CoordinatorFree(p)
  /\ \/ StillNewer(p, n) /\ ApplyLive(p, n) /\ UNCHANGED gFails
     \/ StillNewer(p, n) /\ gProc' = [gProc EXCEPT ![p].local = n] /\ ConfigFaults
     \/ ~StillNewer(p, n) /\ UNCHANGED <<gProc, gFails>>

ReloadApply(p, n) ==
  /\ CoordinatorFree(p)
  /\ \/ StillNewer(p, n) /\ ApplyLive(p, n) /\ UNCHANGED gFails
     \/ StillNewer(p, n) /\ ApplyRaises(p, n) /\ ConfigFaults
     \/ ~StillNewer(p, n) /\ UNCHANGED <<gProc, gFails>>

MutReload(m) ==
  /\ gMut[m].pc = "reload" /\ ReloadApply(gMut[m].p, gMut[m].rev)
  /\ gMut' = [gMut EXCEPT ![m] = IdleMut]
  /\ UNCHANGED <<gRev, gVals, gLock, gSub, gBus, gRestarts>>

\* handle_settings_revision_event: an event of a revision not yet reached.
HandleEvent(p, n) ==
  /\ Up(p) /\ gSub[p].pc = "wait" /\ n \in gBus[p]
  /\ gBus' = [gBus EXCEPT ![p] = @ \ {n}]
  /\ gSub' = [gSub EXCEPT ![p] = IF n <= gProc[p].local \/ gRev < n THEN @ ELSE [pc |-> "reload", rev |-> gRev]]
  /\ UNCHANGED <<gRev, gVals, gProc, gLock, gMut, gFails, gRestarts>>

\* Every 30 seconds the row is compared, events or none.
ReconcileTick(p) ==
  /\ Up(p) /\ gSub[p].pc = "wait" /\ gRev > gProc[p].local
  /\ gSub' = [gSub EXCEPT ![p] = [pc |-> "reload", rev |-> gRev]]
  /\ UNCHANGED <<gRev, gVals, gProc, gLock, gMut, gBus, gFails, gRestarts>>

SubReload(p) ==
  /\ Up(p) /\ gSub[p].pc = "reload" /\ ReloadApply(p, gSub[p].rev)
  /\ gSub' = [gSub EXCEPT ![p] = IdleSub]
  /\ UNCHANGED <<gRev, gVals, gLock, gMut, gBus, gRestarts>>

\* Staging or the row fails: logged, and the loop goes on.
SubFails(p) ==
  /\ gSub[p].pc = "reload" /\ ConfigFaults
  /\ gSub' = [gSub EXCEPT ![p] = IdleSub]
  /\ UNCHANGED <<gRev, gVals, gProc, gLock, gMut, gBus, gRestarts>>

(***************************************************************************)
(* A process goes down and starts again: the row is read and applied, the  *)
(* provider is set up, and only then does the subscriber listen.           *)
(***************************************************************************)
Restart(p) ==
  /\ gRestarts < GMaxRestarts /\ gRestarts' = gRestarts + 1 /\ Up(p)
  /\ gProc' = [gProc EXCEPT ![p] = [live |-> 0, rt |-> 0, local |-> 0, epoch |-> 0, pc |-> "down"]]
  /\ gLock' = [gLock EXCEPT ![p] = NoHolder] /\ gBus' = [gBus EXCEPT ![p] = {}]
  /\ gSub' = [gSub EXCEPT ![p] = IdleSub]
  /\ gMut' = [m \in GMuts |-> IF gMut[m].p = p THEN IdleMut ELSE gMut[m]]
  /\ UNCHANGED <<gRev, gVals, gFails>>

BootConfig(p) ==
  /\ gProc[p].pc = "down"
  /\ gProc' = [gProc EXCEPT ![p].live = gRev, ![p].pc = "auth"]
  /\ UNCHANGED <<gRev, gVals, gLock, gMut, gSub, gBus, gFails, gRestarts>>

BootAuth(p) ==
  /\ gProc[p].pc = "auth"
  /\ gProc' = [gProc EXCEPT ![p].rt = gProc[p].live, ![p].local = gProc[p].live, ![p].pc = "up"]
  /\ UNCHANGED <<gRev, gVals, gLock, gMut, gSub, gBus, gFails, gRestarts>>

MutStep(m) ==
  \/ Enter(m) \/ SaveOverridesCas(m) \/ ApplyMutation(m) \/ RestoreSnapshot(m)
  \/ RestoreConflict(m) \/ MutReconcile(m) \/ MutReload(m)

ProcStep(p) == ReconcileTick(p) \/ SubReload(p) \/ BootConfig(p) \/ BootAuth(p)

SettingsNext ==
  \/ \E m \in GMuts : \/ MutStep(m) \/ StageFails(m) \/ SaveRaises(m) \/ ApplyMutationRaises(m)
                      \/ \E p \in GProcs : \/ UpdateSettings(m, p) \/ ImportSettings(m, p)
                                             \/ ClearOverridePath(m, p) \/ ResetSettings(m, p)
  \/ \E p \in GProcs : \/ ProcStep(p) \/ SubFails(p) \/ Restart(p)
                       \/ \E n \in gBus[p] : HandleEvent(p, n)

SettingsSpec == SettingsInit /\ [][SettingsNext]_gVars
SettingsFair ==
  /\ SettingsSpec
  /\ \A m \in GMuts : WF_gVars(MutStep(m))
  /\ \A p \in GProcs : WF_gVars(ProcStep(p))

(***************************************************************************)
(* Properties.                                                             *)
(***************************************************************************)

\* A process never runs settings older than the revision it has reached, whatever the order
\* in which its own changes, events and reconciliations finish.
RunsWhatItReached == \A p \in GProcs : Up(p) => gProc[p].live >= gProc[p].local /\ gProc[p].rt >= gProc[p].local

\* Every process comes to run the settings of the row, configuration and provider, also
\* after lost events, failed applications and failed rollbacks.
SettingsConverge ==
  \A p \in GProcs : []<>(Up(p) /\ gVals[gProc[p].live] = gVals[gRev] /\ gVals[gProc[p].rt] = gVals[gRev])

=============================================================================
