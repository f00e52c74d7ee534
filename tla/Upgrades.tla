------------------------------- MODULE Upgrades -------------------------------
(***************************************************************************)
(* Automatic downloads of a movie (media_service.py) with the resolution    *)
(* upgrades of movies/quality_upgrades.py: the cron task, the task that      *)
(* follows a metadata refresh and the one that fulfils a request may all    *)
(* reach one movie; a lock per movie and the rows they leave keep them       *)
(* apart.  The search takes the network's time: users act meanwhile.        *)
(*                                                                         *)
(* A row of movie_file is known by its quality.  "queued" has a torrent and *)
(* no file, "seeding" both, "kept" the file only, "missing" neither.        *)
(***************************************************************************)
EXTENDS Integers, FiniteSets, FiniteSetsExt

CONSTANTS PRunners,      \* tasks that may auto-download
          PTop,          \* the best quality ordinal; 0 is Quality.unknown
          PGlobalDl,     \* misc.continuous_download
          PGlobalUp,     \* misc.quality_upgrades when the runs start
          PMaxActs       \* bound: acts of users and failures of transfers

Ordinals == 0..PTop

ASSUME UpgradesAssumption ==
    /\ IsFiniteSet(PRunners) /\ PTop \in Nat \ {0} /\ PMaxActs \in Nat
    /\ PGlobalDl \in BOOLEAN /\ PGlobalUp \in BOOLEAN

VARIABLES file,     \* [Ordinals -> state of the movie_file row of that quality]
          auto,     \* qualities whose torrent an automatic download started (history)
          flags,    \* [skipped, dl]: columns of the movie; [up, until]: settings
          backoff,  \* auto_download_backoff_until: "none", "past" or "active"
          denied,   \* qualities all of whose releases are on the deny list
          idLock,   \* the runner that holds the movie's lock
          runner,   \* [PRunners -> the run under way]
          acts

pVars == <<file, auto, flags, backoff, denied, idLock, runner, acts>>

RowStates == {"none", "queued", "seeding", "kept", "missing"}
Tri == {"on", "off", "null"}
IdleRunner == [at |-> "idle", best |-> 0, found |-> {}]
Free == {}

UpgradesInit ==
    /\ file = [q \in Ordinals |-> "none"] /\ auto = {}
    /\ flags = [skipped |-> FALSE, dl |-> "null", up |-> PGlobalUp, until |-> PTop]
    /\ backoff = "none" /\ denied \in SUBSET Ordinals /\ idLock = Free
    /\ runner = [p \in PRunners |-> IdleRunner] /\ acts = 0

Acts == acts < PMaxActs /\ acts' = acts + 1

OnDisk == {q \in Ordinals : file[q] \in {"seeding", "kept"}}
Torrents == {q \in Ordinals : file[q] \in {"queued", "seeding"}}

\* effective_quality_upgrades: a movie's own column would win, and nothing in the
\* program ever sets it, nor the column of its cutoff.
UpgradesEffective == flags.up

\* best_on_disk_library_quality: 0 when nothing on disk has a known resolution.
BestOnDisk == Max(OnDisk \cup {0})

\* library_satisfied_for_cutoff and is_strict_resolution_upgrade.
Satisfied == BestOnDisk >= flags.until
Upgrade(q, best) == q > best /\ q <= flags.until

-----------------------------------------------------------------------------
\* _auto_download_missing_media_impl: the candidates are listed once.
ListCandidates(p) ==
    /\ runner[p].at = "idle" /\ ~flags.skipped
    /\ flags.dl = "on" \/ (flags.dl = "null" /\ PGlobalDl)
    /\ runner' = [runner EXCEPT ![p].at = "try"]
    /\ UNCHANGED <<file, auto, flags, backoff, denied, idLock, acts>>

\* add_movie and the fulfilment of a request go for one movie.
TryDirectly(p) ==
    /\ runner[p].at = "idle" /\ runner' = [runner EXCEPT ![p].at = "try"]
    /\ UNCHANGED <<file, auto, flags, backoff, denied, idLock, acts>>

\* A mutated form: the lock is looked at and not taken.
LockUntaken(p) ==
    /\ runner[p].at = "try"
    /\ runner' = [runner EXCEPT ![p].at = "read"]
    /\ UNCHANGED <<file, auto, flags, backoff, denied, idLock, acts>>

\* _try_auto_download_media_id_impl: a movie someone is busy with is skipped.
LockMovie(p) ==
    /\ runner[p].at = "try"
    /\ \/ idLock = Free /\ idLock' = {p} /\ runner' = [runner EXCEPT ![p].at = "read"]
       \/ idLock # Free /\ runner' = [runner EXCEPT ![p] = IdleRunner] /\ UNCHANGED idLock
    /\ UNCHANGED <<file, auto, flags, backoff, denied, acts>>

Unlocked(p) == idLock' = idLock \ {p} /\ runner' = [runner EXCEPT ![p] = IdleRunner]

\* _auto_download_for_movie_impl up to the release of its session.
Goes(p) ==
    /\ ~flags.skipped /\ flags.dl # "off" /\ backoff # "active"
    /\ OnDisk = {} \/ UpgradesEffective
    /\ Torrents = {}
    /\ OnDisk # {} => BestOnDisk # 0 /\ ~Satisfied

Decide(p) ==
    /\ runner[p].at = "read"
    /\ \/ /\ Goes(p) /\ UNCHANGED idLock
          /\ runner' = [runner EXCEPT ![p].at = IF OnDisk = {} THEN "search" ELSE "upgrade",
                                      ![p].best = BestOnDisk]
       \/ ~Goes(p) /\ Unlocked(p)
    /\ UNCHANGED <<file, auto, flags, backoff, denied, acts>>

\* The indexers answer; filter_deny_listed and filter_upgrade_candidates.
Search(p) ==
    /\ runner[p].at \in {"search", "upgrade"}
    /\ \E raw \in SUBSET Ordinals :
          LET upgrade == runner[p].at = "upgrade"
              left == {q \in raw \ denied : upgrade => Upgrade(q, runner[p].best)}
          IN  IF left = {}
              THEN /\ Unlocked(p)
                   /\ backoff' = IF raw # {} /\ ~upgrade THEN "active" ELSE backoff
              ELSE /\ runner' = [runner EXCEPT ![p].at = "pick", ![p].found = left]
                   /\ backoff' = "none" /\ UNCHANGED idLock
    /\ UNCHANGED <<file, auto, flags, denied, acts>>

\* download_torrent of one candidate: linked to its row.
Linked(q) == file' = [file EXCEPT ![q] = IF @ \in {"none", "missing"} THEN "queued" ELSE @]

\* _try_download_first_valid: a release without video or with an unsafe title
\* gives way to the next one.
Pick(p) ==
    /\ runner[p].at = "pick"
    /\ \E q \in runner[p].found :
          \/ Linked(q) /\ Unlocked(p) /\ UNCHANGED acts
             /\ auto' = IF file[q] \in {"none", "missing"} THEN auto \cup {q} ELSE auto
          \/ /\ runner' = [runner EXCEPT ![p].found = @ \ {q}]
             /\ UNCHANGED <<file, auto, idLock, acts>>
    /\ UNCHANGED <<flags, backoff, denied>>

\* No candidate was valid, or one failed otherwise: the exception is logged.
EndRun(p) ==
    /\ runner[p].at = "pick"
    /\ \/ runner[p].found = {} /\ UNCHANGED acts
       \/ runner[p].found # {} /\ Acts
    /\ Unlocked(p) /\ UNCHANGED <<file, auto, flags, backoff, denied>>

-----------------------------------------------------------------------------
(* The transfer, the import, the cleanup, and the user.                    *)

Imported(q) ==
    /\ file[q] = "queued" /\ file' = [file EXCEPT ![q] = "seeding"]
    /\ UNCHANGED <<auto, flags, backoff, denied, idLock, runner, acts>>

TorrentCleaned(q) ==
    /\ file[q] = "seeding" /\ file' = [file EXCEPT ![q] = "kept"] /\ auto' = auto \ {q}
    /\ UNCHANGED <<flags, backoff, denied, idLock, runner, acts>>

\* A torrent that is removed takes its pending row with it; its release may be
\* put on the deny list.
TorrentRemoved(q) ==
    /\ Acts /\ file[q] = "queued" /\ file' = [file EXCEPT ![q] = "none"] /\ auto' = auto \ {q}
    /\ denied' \in {denied, denied \cup {q}}
    /\ UNCHANGED <<flags, backoff, idLock, runner>>

FileVanishes(q) ==
    /\ Acts /\ file[q] = "kept" /\ file' = [file EXCEPT ![q] = "missing"]
    /\ UNCHANGED <<auto, flags, backoff, denied, idLock, runner>>

DownloadByHand(q) ==
    /\ Acts /\ file[q] \in {"none", "missing"} /\ Linked(q)
    /\ UNCHANGED <<auto, flags, backoff, denied, idLock, runner>>

\* set_movie_skipped and set_continuous_download.
EditMovie ==
    /\ Acts
    /\ \/ flags' = [flags EXCEPT !.skipped = ~@]
       \/ \E t \in Tri : flags' = [flags EXCEPT !.dl = t]
    /\ UNCHANGED <<file, auto, backoff, denied, idLock, runner>>

\* quality_upgrades and upgrade_until_quality; resolve_upgrade_cutoff_quality always
\* comes to a known resolution.
EditSettings ==
    /\ Acts
    /\ \E up \in BOOLEAN, q \in Ordinals \ {0} : flags' = [flags EXCEPT !.up = up, !.until = q]
    /\ UNCHANGED <<file, auto, backoff, denied, idLock, runner>>

BackoffPasses ==
    /\ backoff = "active" /\ backoff' = "past"
    /\ UNCHANGED <<file, auto, flags, denied, idLock, runner, acts>>

-----------------------------------------------------------------------------
UpgradesNext ==
    \/ \E p \in PRunners :
          \/ ListCandidates(p) \/ TryDirectly(p) \/ LockMovie(p) \/ Decide(p)
          \/ Search(p) \/ Pick(p) \/ EndRun(p)
    \/ \E q \in Ordinals :
          \/ Imported(q) \/ TorrentCleaned(q) \/ TorrentRemoved(q)
          \/ FileVanishes(q) \/ DownloadByHand(q)
    \/ EditMovie \/ EditSettings \/ BackoffPasses

UpgradesSpec == UpgradesInit /\ [][UpgradesNext]_pVars

-----------------------------------------------------------------------------
\* The files of a movie and the runners that may replace them (media_service.py).
UpgradesTypeOK ==
    /\ file \in [Ordinals -> RowStates] /\ auto \subseteq Ordinals
    /\ flags \in [skipped : BOOLEAN, dl : Tri, up : BOOLEAN, until : Ordinals \ {0}]
    /\ backoff \in {"none", "past", "active"} /\ denied \subseteq Ordinals
    /\ idLock \in SUBSET PRunners /\ acts \in 0..PMaxActs
    /\ runner \in [PRunners -> [at : {"idle", "try", "read", "search", "upgrade", "pick"},
                                best : Ordinals, found : SUBSET Ordinals]]

\* The tasks that may reach one movie never have two automatic transfers of it
\* at once: the lock is held from the look at its torrents to the link of the
\* new one, across the search.
OneAutoTransfer == Cardinality(auto) <= 1
=============================================================================
