------------------------------- MODULE MCPlatform -------------------------------
(***************************************************************************)
(* What the application rests on, each component on a small instance of    *)
(* its own: the election of the scheduler and the life of a process        *)
(* (Runtime), a job it runs for ever (Integrity), the settings all         *)
(* processes share, sessions and sign-in, notifications, the webhook       *)
(* client and the rate limit.  A behaviour picks one part and leaves the   *)
(* others in their initial states.                                         *)
(***************************************************************************)
EXTENDS Runtime, Integrity, Settings, Sessions, Notifications, Webhook, RateLimit

VARIABLE part
platVars == <<oVars, iVars, gVars, hVars, eVars, dVars, tVars>>

Platform == {"runtime", "integrity", "settings", "sessions", "notifications", "webhook", "rate"}

PlatformInit ==
  /\ part \in Platform
  /\ RuntimeInit /\ IntegrityInit /\ SettingsInit /\ SessionsInit /\ NotificationsInit
  /\ WebhookInit /\ RateLimitInit
  /\ part # "sessions" => hAcct = {} /\ \A p \in HProcs : hProv[p] = "off"
  /\ part # "notifications" => enabled = {}

PlatformNext ==
  \/ /\ part = "runtime" /\ RuntimeNext
     /\ UNCHANGED <<part, iVars, gVars, hVars, eVars, dVars, tVars>>
  \/ /\ part = "integrity" /\ IntegrityNext
     /\ UNCHANGED <<part, oVars, gVars, hVars, eVars, dVars, tVars>>
  \/ /\ part = "settings" /\ SettingsNext
     /\ UNCHANGED <<part, oVars, iVars, hVars, eVars, dVars, tVars>>
  \/ /\ part = "sessions" /\ SessionsNext
     /\ UNCHANGED <<part, oVars, iVars, gVars, eVars, dVars, tVars>>
  \/ /\ part = "notifications" /\ NotificationsNext
     /\ UNCHANGED <<part, oVars, iVars, gVars, hVars, dVars, tVars>>
  \/ /\ part = "webhook" /\ WebhookNext
     /\ UNCHANGED <<part, oVars, iVars, gVars, hVars, eVars, tVars>>
  \/ /\ part = "rate" /\ RateLimitNext
     /\ UNCHANGED <<part, oVars, iVars, gVars, hVars, eVars, dVars>>

\* The fairness of IntegritySpec, SettingsFair and SessionsFair, each in its part.
PlatformFair ==
  /\ WF_iVars(part = "integrity" /\ AuditStep)
  /\ \A m \in GMuts : WF_gVars(part = "settings" /\ MutStep(m))
  /\ \A p \in GProcs : WF_gVars(part = "settings" /\ ProcStep(p))
  /\ \A r \in HReqs : /\ WF_hVars(part = "sessions" /\ ReadStore(r))
                      /\ WF_hVars(part = "sessions" /\ ServeEnds(r))
  /\ \A p \in HProcs, t \in HToks : WF_hVars(part = "sessions" /\ CacheExpires(p, t))

PlatformSpec == PlatformInit /\ [][PlatformNext]_<<part, platVars>> /\ PlatformFair

\* The state of the part that runs is well formed (processes, audit, settings, sessions,
\* notifications, webhook, the bounded table of the rate limit).
PlatformTypeOK ==
  /\ part \in Platform
  /\ part = "runtime" => RuntimeTypeOK
  /\ part = "integrity" => IntegrityTypeOK
  /\ part = "settings" => SettingsTypeOK
  /\ part = "sessions" => SessionsTypeOK
  /\ part = "notifications" => NotificationsTypeOK
  /\ part = "webhook" => WebhookTypeOK
  /\ part = "rate" => RateLimitTypeOK

\* CorruptionIsFlagged, of the behaviours in which the audit runs
\* (scheduler_tasks/integrity.py).
AuditNotices == part = "integrity" => CorruptionIsFlagged

\* In the behaviours with changes of settings: no process runs older settings than it has
\* reached, and every process comes to run those of the row (settings/reload.py).
ProcessesConverge == part = "settings" => [](RunsWhatItReached) /\ SettingsConverge

\* BarredIsRefused, of the behaviours in which sessions are read (auth/users.py).
SessionsEnd == part = "sessions" => BarredIsRefused

\* What a window forbids does not happen before it is over, although entries are pruned
\* and evicted meanwhile: a second fan-out of a notification (notifications/manager.py),
\* an attempt beyond the limit (rate_limit.py).
WindowsKept == FannedOncePerWindow /\ LimitedStaysLimited
==============================================================================
