----------------------------- MODULE Notifications -----------------------------
(***************************************************************************)
(* Outgoing notifications (notifications/): the service that announces to   *)
(* the external providers and then records the message in the database,     *)
(* the manager that suppresses repetitions within a window and caches its   *)
(* providers per settings revision, and the rows of the notification page.  *)
(*                                                                         *)
(* A caller reads the clock before it builds the providers and waits for    *)
(* the suppression lock, so the time it works with may be an earlier one.   *)
(***************************************************************************)
EXTENDS Naturals, FiniteSets

CONSTANTS ECallers,    \* tasks that announce
          EKeys,       \* (title, message) pairs
          EProviders,  \* external providers that may be enabled
          EWindow,     \* _SUPPRESS_WINDOW_S
          EMaxRecent,  \* _MAX_RECENT_SENDS
          ERows,       \* ids of in-app notifications
          EMaxClock,   \* bound: ticks of the clock and settings revisions together
          EMaxRev      \* bound: settings revisions

ASSUME NotificationsAssumption ==
    /\ IsFiniteSet(ECallers) /\ IsFiniteSet(EKeys) /\ IsFiniteSet(EProviders) /\ IsFiniteSet(ERows)
    /\ EKeys # {} /\ EWindow \in Nat \ {0} /\ EMaxRecent \in Nat
    /\ EMaxClock \in Nat \ {0} /\ EMaxRev \in Nat

VARIABLES clock,       \* monotonic(), from 1
          enabled,     \* the providers of the live configuration
          rev,         \* the local committed revision
          cache,       \* [rev, of]: the manager's providers; NoCache at the start
          recent,      \* [EKeys -> 0..], _recent_sends; 0 is absent
          suppressed,  \* [EKeys -> BOOLEAN], _suppressed_counts is positive
          stampOf,     \* [EKeys -> 0..], the stamp of the last fan-out (history)
          caller,      \* [ECallers -> the call under way]
          rows         \* [ERows -> "none" | "unread" | "read" | "old"], "old" is read and past retention

eVars == <<clock, enabled, rev, cache, recent, suppressed, stampOf, caller, rows>>
managerVars == <<enabled, rev, cache, recent, suppressed, stampOf>>

NoCall == [at |-> "idle", key |-> CHOOSE k \in EKeys : TRUE, stamp |-> 0, left |-> {}]
NoCache == [rev |-> EMaxRev + 1, of |-> {}]

NotificationsInit ==
    /\ clock = 1 /\ enabled \in SUBSET EProviders /\ rev = 0 /\ cache = NoCache
    /\ recent = [k \in EKeys |-> 0] /\ suppressed = [k \in EKeys |-> FALSE]
    /\ stampOf = [k \in EKeys |-> 0] /\ caller = [c \in ECallers |-> NoCall]
    /\ rows = [r \in ERows |-> "none"]

-----------------------------------------------------------------------------
(* NotificationService.send_notification_to_all_providers.                 *)

\* The session is released; the thread reads the clock.
AnnounceRevision(c, k) ==
    /\ caller[c].at = "idle"
    /\ caller' = [caller EXCEPT ![c] = [NoCall EXCEPT !.at = "build", !.key = k, !.stamp = clock]]
    /\ UNCHANGED <<clock, managerVars, rows>>

\* _build_providers: one that does not construct is left out of the cache.
Constructed == {enabled \ broken : broken \in SUBSET enabled}

BuildProviders(c) ==
    /\ caller[c].at = "build"
    /\ \E built \in Constructed :
          /\ cache' = IF cache.rev = rev THEN cache ELSE [rev |-> rev, of |-> built]
          /\ caller' = [caller EXCEPT ![c].at = IF cache'.of = {} THEN "save" ELSE "decide",
                                      ![c].left = cache'.of]
    /\ UNCHANGED <<clock, enabled, rev, recent, suppressed, stampOf, rows>>

\* A mutated form: the oldest entries go, whatever their age.
PrunedOldest(sends, stamp) ==
    LET present == {k \in EKeys : sends[k] # 0}
    IN  IF Cardinality(present) <= EMaxRecent THEN {}
        ELSE {k \in present : \A j \in present : sends[k] <= sends[j]}

\* _prune_recent_sends, with the clock of the caller.
Pruned(sends, stamp) ==
    LET present == {k \in EKeys : sends[k] # 0}
        stale == {k \in present : sends[k] + EWindow < stamp}
    IN  IF Cardinality(present) <= EMaxRecent THEN {} ELSE stale

\* Under the suppression lock: a repetition within the window is counted, any
\* other message is stamped before it is sent.
Suppresses(c) ==
    LET k == caller[c].key
    IN  recent[k] # 0 /\ caller[c].stamp < recent[k] + EWindow

Suppress(c) ==
    /\ caller[c].at = "decide" /\ Suppresses(c)
    /\ suppressed' = [suppressed EXCEPT ![caller[c].key] = TRUE]
    /\ caller' = [caller EXCEPT ![c].at = "save"]
    /\ UNCHANGED <<clock, enabled, rev, cache, recent, stampOf, rows>>

FanOut(c) ==
    LET k == caller[c].key
        marked == [recent EXCEPT ![k] = caller[c].stamp]
        gone == Pruned(marked, caller[c].stamp)
    IN  /\ caller[c].at = "decide" /\ ~Suppresses(c)
        /\ recent' = [j \in EKeys |-> IF j \in gone THEN 0 ELSE marked[j]]
        /\ suppressed' = [j \in EKeys |-> j \notin gone \cup {k} /\ suppressed[j]]
        /\ stampOf' = [stampOf EXCEPT ![k] = caller[c].stamp]
        /\ caller' = [caller EXCEPT ![c].at = "send"]
        /\ UNCHANGED <<clock, enabled, rev, cache, rows>>

\* A provider answers, refuses or raises: the next one is tried all the same,
\* and the stamp stands.
SendToProvider(c) ==
    /\ caller[c].at = "send"
    /\ \E p \in caller[c].left :
          caller' = [caller EXCEPT ![c].left = @ \ {p},
                                   ![c].at = IF caller[c].left = {p} THEN "save" ELSE "send"]
    /\ UNCHANGED <<clock, managerVars, rows>>

\* The in-app record, when native notifications are enabled.
SaveNotification(c) ==
    /\ caller[c].at = "save" /\ caller' = [caller EXCEPT ![c] = NoCall]
    /\ \/ \E r \in ERows : rows[r] = "none" /\ rows' = [rows EXCEPT ![r] = "unread"]
       \/ UNCHANGED rows
    /\ UNCHANGED <<clock, managerVars>>

-----------------------------------------------------------------------------
(* The notification page and the nightly cleanup.                          *)

MarkRead(r) ==
    /\ rows[r] \in {"unread", "read"} /\ rows' = [rows EXCEPT ![r] = "read"]
    /\ UNCHANGED <<clock, managerVars, caller>>

MarkUnread(r) ==
    /\ rows[r] \in {"read", "old"} /\ rows' = [rows EXCEPT ![r] = "unread"]
    /\ UNCHANGED <<clock, managerVars, caller>>

DeleteNotification(r) ==
    /\ rows[r] # "none" /\ rows' = [rows EXCEPT ![r] = "none"]
    /\ UNCHANGED <<clock, managerVars, caller>>

Ages(r) ==
    /\ rows[r] = "read" /\ rows' = [rows EXCEPT ![r] = "old"]
    /\ UNCHANGED <<clock, managerVars, caller>>

DeleteReadOlderThan ==
    /\ \E r \in ERows : rows[r] = "old"
    /\ rows' = [r \in ERows |-> IF rows[r] = "old" THEN "none" ELSE rows[r]]
    /\ UNCHANGED <<clock, managerVars, caller>>

\* A settings mutation: the live configuration, then the local revision.
ConfigChanges ==
    /\ rev < EMaxRev /\ clock + rev < EMaxClock /\ enabled' \in SUBSET EProviders /\ rev' = rev + 1
    /\ UNCHANGED <<clock, cache, recent, suppressed, stampOf, caller, rows>>

ClockTicks ==
    /\ clock + rev < EMaxClock /\ clock' = clock + 1
    /\ UNCHANGED <<managerVars, caller, rows>>

-----------------------------------------------------------------------------
NotificationsNext ==
    \/ \E c \in ECallers :
          \/ \E k \in EKeys : AnnounceRevision(c, k)
          \/ BuildProviders(c) \/ Suppress(c) \/ FanOut(c) \/ SendToProvider(c) \/ SaveNotification(c)
    \/ \E r \in ERows : MarkRead(r) \/ MarkUnread(r) \/ DeleteNotification(r) \/ Ages(r)
    \/ DeleteReadOlderThan \/ ConfigChanges \/ ClockTicks

NotificationsSpec == NotificationsInit /\ [][NotificationsNext]_eVars

-----------------------------------------------------------------------------
\* The suppression tables, the provider cache and the callers (notifications/manager.py).
NotificationsTypeOK ==
    /\ clock \in 1..EMaxClock /\ enabled \subseteq EProviders /\ rev \in 0..EMaxRev
    /\ cache \in [rev : 0..(EMaxRev + 1), of : SUBSET EProviders]
    /\ recent \in [EKeys -> 0..EMaxClock] /\ stampOf \in [EKeys -> 0..EMaxClock]
    /\ suppressed \in [EKeys -> BOOLEAN]
    /\ caller \in [ECallers -> [at : {"idle", "build", "decide", "send", "save"}, key : EKeys,
                                stamp : 0..EMaxClock, left : SUBSET EProviders]]
    /\ rows \in [ERows -> {"none", "unread", "read", "old"}]

\* A message goes out to the providers again only when the window since the
\* stamp of its last fan-out is over by the clock, although callers work with
\* older clocks, wait for each other and prune each other's entries.
FannedOncePerWindow ==
    [][\A c \in ECallers : LET k == caller[c].key
                           IN  /\ caller[c].at = "decide" /\ caller'[c].at = "send" /\ stampOf[k] # 0
                               => clock >= stampOf[k] + EWindow]_eVars
=============================================================================
