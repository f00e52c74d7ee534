------------------------------ MODULE Catalog ------------------------------
(***************************************************************************)
(* The catalogue of shows and movies: adding a title, the user's switches  *)
(* on it, the metadata refresh (the scheduled sweep and the button of the  *)
(* web interface) and the failure back-off of that refresh.                *)
(*                                                                         *)
(* A row of the tables show and movie is known by its unique pair          *)
(* (external_id, metadata_provider), a member of CRows.  Rows that         *)
(* describe the same work on two providers share CImdb.  A provider        *)
(* publishes episodes over time and may be unreachable.  Names, overviews  *)
(* and posters are left out.                                               *)
(***************************************************************************)
EXTENDS Integers, FiniteSets, FiniteSetsExt

CONSTANTS CRows,        \* (external_id, metadata_provider) pairs
          CMovies,      \* the rows that are movies
          CImdb,        \* the IMDb id the metadata of a row carries
          CEps,         \* <<season, number>>: what a provider may publish
          CDownloaded,  \* episodes whose file is in the library
          CNone,        \* no row
          CAdders,      \* requests that add a title
          CBatch,       \* batch_size of the sweep
          MaxCEdits,    \* bound on the user's switches, deletions and refreshes and the
                        \* outages together
          MaxOutages    \* bound on provider outages among them

ASSUME CatalogAssumption ==
  /\ CMovies \subseteq CRows
  /\ CImdb \in [CRows -> Nat]
  /\ CEps \subseteq Nat \X Nat
  /\ CDownloaded \subseteq CEps
  /\ CBatch \in Nat \ {0} /\ MaxCEdits \in Nat /\ MaxOutages \in Nat

VARIABLES cRow,      \* the tables show and movie
          cWorld,    \* what each provider publishes for a row
          cUp,       \* is the provider of a row reachable
          cAdd,      \* the running add requests
          cRef,      \* the running refreshes
          cSweep,    \* the loop of _update_all_media_metadata_impl
          cAsked,    \* rows whose specials the user asked for
          cEdits, cOutages

cVars == <<cRow, cWorld, cUp, cAdd, cRef, cSweep, cAsked, cEdits, cOutages>>


CSeasons == {e[1] : e \in CEps}
Refreshers == {"sweep", "manual"}
Switches == {"unset", "on", "off"}       \* continuous_download: None, True, False

ShowSeasons(eps) == {e[1] : e \in eps}
InSeason(eps, s) == {e \in eps : e[1] = s}
InLibrary == {r \in CRows : cRow[r] # CNone}

ShowRow == [cd : Switches, ended : BOOLEAN, seasons : SUBSET CSeasons, skS : SUBSET CSeasons,
            eps : SUBSET CEps, skE : SUBSET CEps, check : {"due", "fresh", "backoff"}]
Fresh == [eps : SUBSET CEps, ended : BOOLEAN]

ASSUME NoRowAssumption == CNone \notin CRows /\ CNone \notin ShowRow

\* The rows, the providers and the running refreshes (shows/service.py, media_service.py).
CatalogTypeOK ==
  /\ cRow \in [CRows -> ShowRow \cup {CNone}]
  /\ cWorld \in [CRows -> Fresh]
  /\ cUp \in [CRows -> BOOLEAN]
  /\ \A u \in CAdders : cAdd[u].pc \in {"idle", "save", "done"}
  /\ \A w \in Refreshers :
        /\ cRef[w].pc \in {"idle", "read", "fetch", "apply", "seasons", "stamp", "failed"}
        /\ cRef[w].id \in CRows \cup {CNone}
        /\ cRef[w].left \subseteq CSeasons /\ cRef[w].gone \in BOOLEAN
  /\ cSweep.on \in BOOLEAN /\ cSweep.ids \subseteq CRows /\ cSweep.seen \subseteq CRows
  /\ cAsked \subseteq CRows
  /\ cEdits \in 0..MaxCEdits /\ cOutages \in 0..MaxOutages

NoFresh == [eps |-> {}, ended |-> FALSE]
IdleRefresh ==
  [pc |-> "idle", id |-> CNone, snap |-> CNone, fresh |-> NoFresh, left |-> {}, gone |-> FALSE]

CatalogInit ==
  /\ cRow = [r \in CRows |-> CNone]
  /\ cWorld = [r \in CRows |-> NoFresh]
  /\ cUp = [r \in CRows |-> TRUE]
  /\ cAdd = [u \in CAdders |-> [pc |-> "idle", id |-> CNone, fresh |-> NoFresh]]
  /\ cRef = [w \in Refreshers |-> IdleRefresh]
  /\ cSweep = [on |-> FALSE, ids |-> {}, seen |-> {}]
  /\ cAsked = {}
  /\ cEdits = 0 /\ cOutages = 0

MayDisturb == cEdits + cOutages < MaxCEdits

(***************************************************************************)
(* The providers.                                                          *)
(***************************************************************************)
PublishEpisode(r) ==
  /\ r \notin CMovies
  /\ ~cWorld[r].ended
  /\ \E e \in CEps \ cWorld[r].eps : cWorld' = [cWorld EXCEPT ![r].eps = @ \cup {e}]
  /\ UNCHANGED <<cRow, cUp, cAdd, cRef, cSweep, cAsked, cEdits, cOutages>>

EndShow(r) ==
  /\ r \notin CMovies /\ ~cWorld[r].ended
  /\ cWorld' = [cWorld EXCEPT ![r].ended = TRUE]
  /\ UNCHANGED <<cRow, cUp, cAdd, cRef, cSweep, cAsked, cEdits, cOutages>>

Outage(r) ==
  /\ cOutages < MaxOutages /\ MayDisturb /\ cUp[r]
  /\ cUp' = [cUp EXCEPT ![r] = FALSE] /\ cOutages' = cOutages + 1
  /\ UNCHANGED <<cRow, cWorld, cAdd, cRef, cSweep, cAsked, cEdits>>

Recovery(r) ==
  /\ ~cUp[r]
  /\ cUp' = [cUp EXCEPT ![r] = TRUE]
  /\ UNCHANGED <<cRow, cWorld, cAdd, cRef, cSweep, cAsked, cEdits, cOutages>>

(***************************************************************************)
(* Adding a title: the metadata is fetched, then looked up by its IMDb id, *)
(* then saved; the requests share no lock.                                 *)
(***************************************************************************)
DoneAdd == [pc |-> "done", id |-> CNone, fresh |-> NoFresh]

ExistsByImdb(r) == \E q \in InLibrary : CImdb[q] = CImdb[r] /\ (q \in CMovies <=> r \in CMovies)

FetchAndLookup(u, r) ==
  /\ cAdd[u].pc = "idle" /\ cUp[r]
  /\ cAdd' = [cAdd EXCEPT ![u] = IF ExistsByImdb(r) THEN DoneAdd
                                 ELSE [pc |-> "save", id |-> r, fresh |-> cWorld[r]]]
  /\ UNCHANGED <<cRow, cWorld, cUp, cRef, cSweep, cAsked, cEdits, cOutages>>

\* Specials are saved as skipped (misc.download_specials is off).
NewShow(f) ==
  [cd |-> "unset", ended |-> f.ended, seasons |-> ShowSeasons(f.eps),
   skS |-> ShowSeasons(f.eps) \cap {0}, eps |-> f.eps, skE |-> InSeason(f.eps, 0), check |-> "due"]

NewMovie ==
  [cd |-> "unset", ended |-> FALSE, seasons |-> {}, skS |-> {}, eps |-> {}, skE |-> {}, check |-> "due"]

\* The unique constraint refuses a second row (ConflictError).
SaveShow(u) ==
  /\ cAdd[u].pc = "save" /\ cAdd[u].id \notin CMovies
  /\ cRow' = IF cRow[cAdd[u].id] # CNone THEN cRow
             ELSE [cRow EXCEPT ![cAdd[u].id] = NewShow(cAdd[u].fresh)]
  /\ cAdd' = [cAdd EXCEPT ![u] = DoneAdd]
  /\ UNCHANGED <<cWorld, cUp, cRef, cSweep, cAsked, cEdits, cOutages>>

SaveMovie(u) ==
  /\ cAdd[u].pc = "save" /\ cAdd[u].id \in CMovies
  /\ cRow' = IF cRow[cAdd[u].id] # CNone THEN cRow ELSE [cRow EXCEPT ![cAdd[u].id] = NewMovie]
  /\ cAdd' = [cAdd EXCEPT ![u] = DoneAdd]
  /\ UNCHANGED <<cWorld, cUp, cRef, cSweep, cAsked, cEdits, cOutages>>

(***************************************************************************)
(* What the user may do with a title.                                      *)
(***************************************************************************)
Edit(r) ==
  /\ cRow[r] # CNone /\ MayDisturb
  /\ cEdits' = cEdits + 1
  /\ UNCHANGED <<cWorld, cUp, cAdd, cOutages>>

\* A title that is added again is another row, with an id of its own: a refresh of the
\* deleted row finds nothing, and the sweep has not seen the new one.
DeleteTitle(r) ==
  /\ Edit(r)
  /\ cRow' = [cRow EXCEPT ![r] = CNone]
  /\ cRef' = [w \in Refreshers |-> [cRef[w] EXCEPT !.gone = @ \/ cRef[w].id = r]]
  /\ cSweep' = [cSweep EXCEPT !.ids = @ \ {r}, !.seen = @ \ {r}]
  /\ cAsked' = cAsked \ {r}

SetContinuous(r) ==
  /\ Edit(r)
  /\ \E v \in Switches \ {cRow[r].cd} : cRow' = [cRow EXCEPT ![r].cd = v]
  /\ UNCHANGED <<cRef, cSweep, cAsked>>

\* The cascade leaves downloaded episodes alone.
SkipSeason(r) ==
  /\ Edit(r)
  /\ \E s \in cRow[r].seasons, skipped \in BOOLEAN :
        LET cascade == InSeason(cRow[r].eps, s) \ CDownloaded IN
        /\ cRow' = [cRow EXCEPT ![r].skS = IF skipped THEN @ \cup {s} ELSE @ \ {s},
                                ![r].skE = IF skipped THEN @ \cup cascade ELSE @ \ cascade]
        /\ cAsked' = IF s = 0 /\ ~skipped THEN cAsked \cup {r} ELSE cAsked
  /\ UNCHANGED <<cRef, cSweep>>

\* A wanted episode makes its season wanted; its siblings keep their flag.
SkipEpisode(r) ==
  /\ Edit(r)
  /\ \E e \in cRow[r].eps, skipped \in BOOLEAN :
        /\ cRow' = [cRow EXCEPT ![r].skE = IF skipped THEN @ \cup {e} ELSE @ \ {e},
                                ![r].skS = IF skipped THEN @ ELSE @ \ {e[1]}]
        /\ cAsked' = IF e[1] = 0 /\ ~skipped THEN cAsked \cup {r} ELSE cAsked
  /\ UNCHANGED <<cRef, cSweep>>

(***************************************************************************)
(* The refresh of one title.  The row is read, the session is released for *)
(* the fetch, and what was read is used again when the answer is applied.  *)
(***************************************************************************)
StartRefresh(w, r) == cRef' = [cRef EXCEPT ![w] = [IdleRefresh EXCEPT !.pc = "read", !.id = r]]

StartManual(r) ==
  /\ cRef["manual"].pc = "idle" /\ cRow[r] # CNone
  /\ MayDisturb /\ cEdits' = cEdits + 1
  /\ StartRefresh("manual", r)
  /\ UNCHANGED <<cRow, cWorld, cUp, cAdd, cSweep, cAsked, cOutages>>

ReadTitle(w) ==
  /\ cRef[w].pc = "read"
  /\ cRef' = [cRef EXCEPT ![w] = IF @.gone THEN IdleRefresh
                                 ELSE [@ EXCEPT !.pc = "fetch", !.snap = cRow[cRef[w].id]]]
  /\ UNCHANGED <<cRow, cWorld, cUp, cAdd, cSweep, cAsked, cEdits, cOutages>>

\* No provider, no answer and an unreachable provider all end in mark_failure.
SweepFetch ==
  /\ cRef["sweep"].pc = "fetch"
  /\ cRef' = [cRef EXCEPT !["sweep"] =
        IF cUp[@.id] THEN [@ EXCEPT !.pc = "apply", !.fresh = cWorld[cRef["sweep"].id]]
        ELSE [@ EXCEPT !.pc = "failed"]]
  /\ UNCHANGED <<cRow, cWorld, cUp, cAdd, cSweep, cAsked, cEdits, cOutages>>

\* The button also tries the other providers that know the work.
ManualFetch ==
  /\ cRef["manual"].pc = "fetch"
  /\ LET id == cRef["manual"].id
         known == {r \in CRows : cUp[r] /\ CImdb[r] = CImdb[id] /\ (r \in CMovies <=> id \in CMovies)}
     IN cRef' = IF known = {} THEN [cRef EXCEPT !["manual"] = IdleRefresh]
                ELSE [cRef EXCEPT !["manual"].pc = "apply",
                                  !["manual"].fresh = cWorld[IF cUp[id] THEN id ELSE CHOOSE r \in known : TRUE]]
  /\ UNCHANGED <<cRow, cWorld, cUp, cAdd, cSweep, cAsked, cEdits, cOutages>>

\* update_show_attributes: continuous_download is written back as it was read.
Attributes(row, snap, fresh) ==
  [row EXCEPT !.ended = fresh.ended, !.cd = IF fresh.ended THEN "off" ELSE snap.cd]

ApplyShow(w) ==
  LET f == cRef[w] IN
  /\ f.pc = "apply" /\ f.id \notin CMovies
  /\ IF f.gone
     THEN /\ cRef' = [cRef EXCEPT ![w] = IF w = "sweep" THEN [@ EXCEPT !.pc = "failed"] ELSE IdleRefresh]
          /\ UNCHANGED cRow
     ELSE /\ cRow' = [cRow EXCEPT ![f.id] = Attributes(@, f.snap, f.fresh)]
          /\ cRef' = [cRef EXCEPT ![w].pc = "seasons", ![w].left = ShowSeasons(f.fresh.eps)]
  /\ UNCHANGED <<cWorld, cUp, cAdd, cSweep, cAsked, cEdits, cOutages>>

ApplyMovie(w) ==
  LET f == cRef[w] IN
  /\ f.pc = "apply" /\ f.id \in CMovies
  /\ cRef' = [cRef EXCEPT ![w] = IF f.gone /\ w = "sweep" THEN [@ EXCEPT !.pc = "failed"]
                                 ELSE IF w = "manual" THEN IdleRefresh ELSE [@ EXCEPT !.pc = "stamp"]]
  /\ UNCHANGED <<cRow, cWorld, cUp, cAdd, cSweep, cAsked, cEdits, cOutages>>

\* add_season_to_show: a season somebody added meanwhile is left as it is.
\* The global misc.continuous_download default is on.
SkipNew(s, snap) == s = 0 \/ snap.cd = "off"

AddSeason(row, s, f) ==
  IF s \in row.seasons THEN row
  ELSE LET new == InSeason(f.fresh.eps, s) IN
       [row EXCEPT !.seasons = @ \cup {s}, !.eps = @ \cup new,
                   !.skS = IF SkipNew(s, f.snap) THEN @ \cup {s} ELSE @,
                   !.skE = IF SkipNew(s, f.snap) THEN @ \cup new ELSE @]

\* add_episodes_to_season: the episodes that were new to the snapshot and are new to the table.
AddEpisodes(row, s, f) ==
  LET new == InSeason(f.fresh.eps, s) \ (f.snap.eps \cup row.eps) IN
  [row EXCEPT !.eps = @ \cup new, !.skE = IF s \in f.snap.skS THEN @ \cup new ELSE @]

RefreshSeason(w) ==
  LET f == cRef[w] IN
  /\ f.pc = "seasons" /\ f.left # {}
  /\ IF f.gone
     THEN /\ cRef' = [cRef EXCEPT ![w] = IF w = "sweep" THEN [@ EXCEPT !.pc = "failed"] ELSE IdleRefresh]
          /\ UNCHANGED cRow
     ELSE LET s == Min(f.left) IN
          /\ cRow' = [cRow EXCEPT ![f.id] = IF s \in f.snap.seasons THEN AddEpisodes(@, s, f)
                                            ELSE AddSeason(@, s, f)]
          /\ cRef' = [cRef EXCEPT ![w].left = @ \ {s}]
  /\ UNCHANGED <<cWorld, cUp, cAdd, cSweep, cAsked, cEdits, cOutages>>

EndRefresh(w) ==
  /\ cRef[w].pc = "seasons" /\ cRef[w].left = {}
  /\ cRef' = [cRef EXCEPT ![w] = IF w = "manual" THEN IdleRefresh ELSE [@ EXCEPT !.pc = "stamp"]]
  /\ UNCHANGED <<cRow, cWorld, cUp, cAdd, cSweep, cAsked, cEdits, cOutages>>

Checked(f, state) == IF f.gone THEN cRow ELSE [cRow EXCEPT ![f.id].check = state]

StampCheck ==
  /\ cRef["sweep"].pc = "stamp"
  /\ cRow' = Checked(cRef["sweep"], "fresh")
  /\ cRef' = [cRef EXCEPT !["sweep"] = IdleRefresh]
  /\ UNCHANGED <<cWorld, cUp, cAdd, cSweep, cAsked, cEdits, cOutages>>

\* Marking the failure may itself fail; that exception is only logged.
MarkFailure ==
  /\ cRef["sweep"].pc = "failed"
  /\ cRow' \in {cRow, Checked(cRef["sweep"], "backoff")}
  /\ cRef' = [cRef EXCEPT !["sweep"] = IdleRefresh]
  /\ UNCHANGED <<cWorld, cUp, cAdd, cSweep, cAsked, cEdits, cOutages>>

\* The check interval, or the back-off, of a title is over.
BecomesDue(r) ==
  /\ cRow[r] # CNone /\ cRow[r].check # "due"
  /\ cRow' = [cRow EXCEPT ![r].check = "due"]
  /\ UNCHANGED <<cWorld, cUp, cAdd, cRef, cSweep, cAsked, cEdits, cOutages>>

(***************************************************************************)
(* The sweep.                                                              *)
(***************************************************************************)
Due == {r \in InLibrary : cRow[r].check = "due"}
DueBatches == IF Cardinality(Due) <= CBatch THEN {Due} ELSE kSubset(CBatch, Due)

StartSweep ==
  /\ ~cSweep.on
  /\ cSweep' = [on |-> TRUE, ids |-> {}, seen |-> {}]
  /\ UNCHANGED <<cRow, cWorld, cUp, cAdd, cRef, cAsked, cEdits, cOutages>>

\* A batch that holds only titles seen before ends the sweep.
BatchOnlyDue(due) == due
Batch(due) == due \ cSweep.seen

NextBatch ==
  /\ cSweep.on /\ cSweep.ids = {} /\ cRef["sweep"].pc = "idle"
  /\ \E due \in DueBatches :
        cSweep' = IF Batch(due) = {} THEN [on |-> FALSE, ids |-> {}, seen |-> {}]
                  ELSE [cSweep EXCEPT !.ids = Batch(due)]
  /\ UNCHANGED <<cRow, cWorld, cUp, cAdd, cRef, cAsked, cEdits, cOutages>>

NextTitle ==
  /\ cSweep.on /\ cRef["sweep"].pc = "idle"
  /\ \E r \in cSweep.ids :
        /\ cSweep' = [cSweep EXCEPT !.ids = @ \ {r}, !.seen = @ \cup {r}]
        /\ StartRefresh("sweep", r)
  /\ UNCHANGED <<cRow, cWorld, cUp, cAdd, cAsked, cEdits, cOutages>>

RefreshStep(w) ==
  \/ ReadTitle(w) \/ ApplyShow(w) \/ ApplyMovie(w) \/ RefreshSeason(w) \/ EndRefresh(w)

RefreshSweepStep ==
  \/ StartSweep \/ NextBatch \/ NextTitle
  \/ RefreshStep("sweep") \/ SweepFetch \/ StampCheck \/ MarkFailure

CatalogNext ==
  \/ RefreshSweepStep
  \/ RefreshStep("manual") \/ ManualFetch
  \/ \E r \in CRows :
        \/ PublishEpisode(r) \/ EndShow(r) \/ Outage(r) \/ Recovery(r) \/ BecomesDue(r) \/ StartManual(r)
        \/ DeleteTitle(r) \/ SetContinuous(r) \/ SkipSeason(r) \/ SkipEpisode(r)
  \/ \E u \in CAdders : SaveShow(u) \/ SaveMovie(u) \/ \E r \in CRows : FetchAndLookup(u, r)

CatalogFair == WF_cVars(RefreshSweepStep) /\ \A r \in CRows : WF_cVars(BecomesDue(r))

CatalogSpec == CatalogInit /\ [][CatalogNext]_cVars /\ CatalogFair

(***************************************************************************)
(* Properties.                                                             *)
(***************************************************************************)

\* A special is wanted only if the user asked for the specials of that show:
\* adding and refreshing leave every special skipped, whether it comes with
\* the show, with a new season or with a season that is already there.
SpecialsOnlyOnRequest ==
  \A r \in InLibrary : InSeason(cRow[r].eps, 0) \subseteq cRow[r].skE \/ r \in cAsked

\* Every sweep ends, also when a provider stays unreachable and the failure
\* cannot be written, so that the title is still due when the loop looks again.
RefreshSweepEnds == cSweep.on ~> ~cSweep.on

\* Once the providers stay reachable, every published episode of a show that
\* stays in the library gets into the catalogue.
PublishedIsListed ==
  (\A r \in CRows : <>[]cUp[r]) =>
    \A r \in CRows, e \in CEps :
      (e \in cWorld[r].eps /\ cRow[r] # CNone) ~> (cRow[r] = CNone \/ e \in cRow[r].eps)

\* A refresh gives a new episode of a known season the skip flag of that season.
NewEpisodesInherit ==
  [][\A r \in InLibrary : cRow'[r] # CNone =>
       \A e \in cRow'[r].eps \ cRow[r].eps :
         e[1] \in cRow[r].seasons => (e \in cRow'[r].skE <=> e[1] \in cRow[r].skS)]_cVars

\* Two providers never give two rows of the same work.
NoDuplicateWork ==
  \A q, r \in InLibrary : CImdb[q] = CImdb[r] /\ (q \in CMovies <=> r \in CMovies) => q = r

=============================================================================
