------------------------------- MODULE MCLibrary -------------------------------
(***************************************************************************)
(* What the library shows and serves, each component on a small instance   *)
(* of its own: the listings (LibraryView), the health of the storage, the  *)
(* subtitles, the streams, the plays of a media server (ViewingSync) and   *)
(* the catalogue with its metadata refresh (Catalog).                      *)
(* A behaviour picks one part and leaves the others in their initial       *)
(* states.  Fairness is that of the parts.                                 *)
(***************************************************************************)
EXTENDS LibraryView, StorageHealth, Subtitles, Streams, ViewingSync, Catalog

VARIABLE part
libVars == <<yVars, wVars, uVars, zVars, sVars, cVars>>

Parts == {"view", "storage", "subtitles", "streams", "sync", "catalog"}

MCSeasons == <<{"e", "f"}>>
MCAttrs == {[genre |-> "null", year |-> "d"]}
MCLibOf == <<"d", "e">>
Col(s, e, h, t) == [status |-> s, error |-> e, sha1 |-> h, torrent |-> t]
MCCols == {Col("imported", "null", TRUE, TRUE), Col("imported", "null", FALSE, FALSE),
           Col("imported", "mismatch", TRUE, FALSE), Col("imported", "other", FALSE, TRUE),
           Col("failed_io", "other", FALSE, FALSE), Col("failed_no_match", "null", FALSE, TRUE),
           Col("pending", "null", FALSE, TRUE), Col("ambiguous", "other", FALSE, FALSE)}
MCImdb == [r \in CRows |-> 1]
MCEps == {<<0, 1>>, <<0, 2>>}
FirstCol == Col("imported", "null", TRUE, TRUE)
MCOffers == [t \in UTitles |-> ULangs]
MCHits == [i \in SItems |-> <<{}, {"t"}, {"x"}>>]

LibrarySideInit ==
  /\ part \in Parts
  /\ ViewInit /\ StorageInit /\ SubtitlesInit /\ StreamsInit /\ SyncInit /\ CatalogInit
  /\ part # "storage" => wRow = [i \in WIds |-> FirstCol]

LibrarySideNext ==
  \/ part = "view" /\ ViewNext /\ UNCHANGED <<part, wVars, uVars, zVars, sVars, cVars>>
  \/ part = "storage" /\ StorageNext /\ UNCHANGED <<part, yVars, uVars, zVars, sVars, cVars>>
  \/ part = "subtitles" /\ SubtitlesNext /\ UNCHANGED <<part, yVars, wVars, zVars, sVars, cVars>>
  \/ part = "streams" /\ StreamsNext /\ UNCHANGED <<part, yVars, wVars, uVars, sVars, cVars>>
  \/ part = "sync" /\ SyncNext /\ UNCHANGED <<part, yVars, wVars, uVars, zVars, cVars>>
  \/ part = "catalog" /\ CatalogNext /\ UNCHANGED <<part, yVars, wVars, uVars, zVars, sVars>>

\* The fairness of ViewFair, SubtitlesFair, StreamsFair, SyncFair and CatalogFair, each in its part.
LibrarySideFair ==
  /\ \A t \in Workers : WF_yVars(part = "view" /\ TxStep(t))
  /\ WF_yVars(part = "view" /\ ScanStores) /\ WF_yVars(part = "view" /\ WatcherRound)
  /\ \A s \in DOMAIN YSeasons : WF_yVars(part = "view" /\ CacheTtl(s))
  /\ \A k \in Searchers : WF_uVars(part = "subtitles" /\ SearchStep(k))
  /\ \A t \in UTitles : SF_uVars(part = "subtitles" /\ ScanTitle(t))
  /\ WF_uVars(part = "subtitles" /\ ScanStep)
  /\ \A c \in ZClients : WF_zVars(part = "streams" /\ ReqStep(c))
  /\ \A k \in ZKeys : WF_zVars(part = "streams" /\ EncodeStep(k))
  /\ \A p \in SPollers : WF_sVars(part = "sync" /\ PollStep(p))
  /\ WF_cVars(part = "catalog" /\ RefreshSweepStep)
  /\ \A r \in CRows : WF_cVars(part = "catalog" /\ BecomesDue(r))

LibrarySideSpec ==
  /\ LibrarySideInit /\ [][LibrarySideNext]_<<part, libVars>>
  /\ LibrarySideFair

\* The state of the part that runs is well formed (listings, storage health, subtitles,
\* streams, cursors, catalogue).
LibrarySideTypeOK ==
  /\ part \in Parts
  /\ part = "view" => ViewTypeOK
  /\ part = "storage" => StorageTypeOK
  /\ part = "subtitles" => SubtitlesTypeOK
  /\ part = "streams" => StreamsTypeOK
  /\ part = "sync" => SyncTypeOK
  /\ part = "catalog" => CatalogTypeOK

\* In the behaviours with listings: once changes stop, the grid ends up in step with the
\* rows and the disk (media_state.py).
GridConverges == part = "view" => ListConverges

\* In the behaviours with subtitles: what the providers have arrives next to the video, for
\* all that fails on the way (subtitles/service.py).
SubtitleArrives == part = "subtitles" => WantedArrives

\* In the behaviours with streams: a player that waits for its playlist is answered
\* (streams/transcode.py).
PlayerIsAnswered == part = "streams" => PlaylistAnswered

\* In the behaviours with the sync: a play on the media server is proposed, quarantined or
\* superseded (viewing_sync/service.py).
ServerPlaysAreSeen == part = "sync" => PlaysAreSeen

\* In the behaviours with the catalogue: a special is wanted only where the user asked for
\* it, every sweep ends, and what a provider publishes gets into the catalogue
\* (media_service.py, shows/service.py).
CatalogueFollows ==
  part = "catalog" => [](SpecialsOnlyOnRequest) /\ RefreshSweepEnds /\ PublishedIsListed
==============================================================================
