------------------------------ MODULE MCDiscovery ------------------------------
(***************************************************************************)
(* How releases are found and asked for, each component on a small         *)
(* instance of its own: the feeds, the streamed search over all indexers,  *)
(* the sites and mirrors of the native indexer, the ranking of results,    *)
(* the requests, the shared browser behind protected sites, and the client *)
(* that downloads.  A behaviour picks one part and leaves the others in    *)
(* their initial states.                                                   *)
(***************************************************************************)
EXTENDS Feeds, IndexerSearch, IndexerSites, Ranking, Requests, SharedBrowser, TorrentClient, TLC

CONSTANTS i1, i2, med1

VARIABLE part
discVars == <<fVars, nVars, jVars, kVars, rVars, bVars, mVars>>

Parts == {"feeds", "search", "sites", "ranking", "requests", "browser", "client"}

MCDate == (i1 :> 1) @@ (i2 :> 2)
MCHits == (i1 :> {med1}) @@ (i2 :> {med1})
MCMirrors == <<1, 2>>
MCTitle == [h \in MHashes |-> "title"]
MCSite == [c \in BCalls |-> IF c = "c2" THEN "d2" ELSE "d1"]

\* Ranking: releases that differ in what the rules look at, and the two rule sets.
NoTag == [form |-> "none", s |-> 0, s2 |-> 0, e |-> 0, e2 |-> 0]
Base == [lead |-> "full", follows |-> "year", years |-> {2020}, tag |-> NoTag, words |-> {"1080p", "x265"}, flags |-> {},
         seeders |-> 5, usenet |-> FALSE, mb |-> 700, age |-> 0]
MCReleases == {Base, [Base EXCEPT !.words = {"720p", "x264"}, !.seeders = 30],
  [Base EXCEPT !.words = {"1080p", "x265", "uhd", "x264", "cam"}, !.seeders = 9],
  [Base EXCEPT !.lead = "main", !.words = {"2160p", "x264", "french"}, !.seeders = 1, !.age = 20],
  [Base EXCEPT !.words = {"1080p", "x264", "english"}, !.flags = {"freeleech"}, !.usenet = TRUE, !.age = 10],
  [Base EXCEPT !.words = {"720p", "x264", "pilot", "special"}, !.tag = [NoTag EXCEPT !.form = "episode", !.s = 1, !.e = 2, !.e2 = 3], !.years = {}, !.follows = "marker"],
  [Base EXCEPT !.words = {"1080p", "x264"}, !.tag = [NoTag EXCEPT !.form = "range", !.s = 1, !.s2 = 3], !.mb = 9000]}
Rule1 == [name |-> "junk", kind |-> "title", enabled |-> TRUE, match |-> {"cam"}, mod |-> -10000]
Rule2 == [name |-> "free", kind |-> "flag", enabled |-> TRUE, match |-> {"freeleech"}, mod |-> 50]
Opt(n, w, m) == [name |-> n, words |-> w, mod |-> m, enabled |-> TRUE]
Cfg == [minSeeders |-> 2, maxSeeders |-> 0, minMb |-> 0, maxMb |-> 5000, rules |-> {Rule1, Rule2},
        sets |-> {[libs |-> {"ALL_TV", "ALL_MOVIES"}, names |-> {"junk", "free"}]},
        qualities |-> <<Opt("4k", {"2160p", "uhd"}, 400), Opt("hd", {"1080p", "720p"}, 300)>>,
        codecs |-> <<Opt("265", {"x265"}, 300), Opt("264", {"x264"}, 200)>>,
        rejected |-> {"french"}, preferred |-> {"english"}, recency |-> 30, decay |-> 15]
MCConfigs == {Cfg, [Cfg EXCEPT !.minSeeders = 0, !.maxSeeders = 20, !.rejected = {}, !.rules = {[Rule1 EXCEPT !.mod = -700], Rule2}]}
Want == [query |-> FALSE, tv |-> FALSE, colon |-> TRUE, franchise |-> FALSE, year |-> 2020, library |-> "Default", season |-> 0, episode |-> 0,
         words |-> {}, seasons |-> {}, episodes |-> {}, title |-> {}, quality |-> NoOverride, codec |-> NoOverride, pageQuality |-> {}, pageCodec |-> {}]
Show == [Want EXCEPT !.tv = TRUE, !.season = 1, !.episode = 2]
MCWanted == {Want, [Want EXCEPT !.pageCodec = {"264"}, !.quality = {}, !.codec = {"264"}], Show, [Show EXCEPT !.episode = 0], [Show EXCEPT !.season = 0, !.title = {"pilot", "x264"}],
            [Show EXCEPT !.query = TRUE, !.words = {"x264"}, !.seasons = {1}]}

DiscoveryInit ==
  /\ part \in Parts
  /\ FeedsInit /\ IndexerSearchInit /\ IndexerSitesInit /\ RankingInit /\ RequestsInit
  /\ BrowserInit /\ ClientInit
  /\ part # "ranking" => kCfg = Cfg /\ kWant = Want
  /\ part # "requests" => \A r \in RRows : rRow[r].status = "unused"

DiscoveryNext ==
  \/ part = "feeds" /\ FeedsNext /\ UNCHANGED <<part, nVars, jVars, kVars, rVars, bVars, mVars>>
  \/ part = "search" /\ IndexerSearchNext /\ UNCHANGED <<part, fVars, jVars, kVars, rVars, bVars, mVars>>
  \/ part = "sites" /\ IndexerSitesNext /\ UNCHANGED <<part, fVars, nVars, kVars, rVars, bVars, mVars>>
  \/ part = "ranking" /\ RankingNext /\ UNCHANGED <<part, fVars, nVars, jVars, rVars, bVars, mVars>>
  \/ part = "requests" /\ RequestsNext /\ UNCHANGED <<part, fVars, nVars, jVars, kVars, bVars, mVars>>
  \/ part = "browser" /\ BrowserNext /\ UNCHANGED <<part, fVars, nVars, jVars, kVars, rVars, mVars>>
  \/ part = "client" /\ ClientNext /\ UNCHANGED <<part, fVars, nVars, jVars, kVars, rVars, bVars>>

\* The fairness of FeedsFair, IndexerSearchFair and ClientFair, each in its part.
DiscoveryFair ==
  /\ \A p \in Pollers : WF_fVars(part = "feeds" /\ FeedStep(p))
  /\ \A s \in FSources : WF_fVars(part = "feeds" /\ LeaseExpires(s))
  /\ WF_nVars(part = "search" /\ ClientStep)
  /\ \A q \in NQueries : WF_nVars(part = "search" /\ QueryStep(q))
  /\ \A h \in MHashes : /\ WF_mVars(part = "client" /\ GetTorrentStatus(h, TRUE))
                         /\ WF_mVars(part = "client" /\ MoveRetryDue(h)) /\ WF_mVars(part = "client" /\ MoveEnds(h))

DiscoverySpec == DiscoveryInit /\ [][DiscoveryNext]_<<part, discVars>> /\ DiscoveryFair

\* The state of the part that runs is well formed (feeds, the bounded queue of a search,
\* sites, ranking, requests, browser, torrent client).
DiscoveryTypeOK ==
  /\ part \in Parts
  /\ part = "feeds" => FeedsTypeOK
  /\ part = "search" => IndexerSearchTypeOK
  /\ part = "sites" => IndexerSitesTypeOK
  /\ part = "ranking" => RankingTypeOK
  /\ part = "requests" => RequestsTypeOK
  /\ part = "browser" => BrowserTypeOK
  /\ part = "client" => ClientTypeOK

\* SourcesPolled, StreamEnds and MovesLand, each of the behaviours in which its part runs:
\* whatever crashed with its lease, every source is polled again and again (feeds/service.py:
\* poll_once); a streamed search comes to its end, though the queue drops items and indexers
\* fail (search_stream.py); and a complete payload reaches the completed root and is reported
\* finished, though moves fail (torrents/backends/native.py).
DiscoveryProgresses ==
  /\ part = "feeds" => SourcesPolled
  /\ part = "search" => StreamEnds
  /\ part = "client" => MovesLand
==============================================================================
