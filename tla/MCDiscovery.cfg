SPECIFICATION DiscoverySpec
CONSTANTS
  \* Feeds: two pollers, one source, the second item on the deny list
  i1 = i1
  i2 = i2
  med1 = med1
  Pollers = {p1, p2}
  FSources = {s1}
  FItems = {i1, i2}
  FDate <- MCDate
  FLastDate = 2
  FCutoff = 1
  FMedia = {med1}
  FHits <- MCHits
  FDenied = {i2}
  MaxCrashes = 1
  MaxFeedErrors = 2
  \* IndexerSearch: two queries, a queue that can be full
  NQueries = {"q1", "q2"}
  NBackends = {"prowlarr", "native"}
  NSites = {"x", "y"}
  NMirrors <- MCMirrors
  NQueueMax = 5
  NFanout = 2
  NThreshold = 1
  NMaxFaults = 1
  \* IndexerSites: two sites with the same two mirrors
  JSites = {"x", "y"}
  JUrls = {1, 2}
  JPreloaded = {"x"}
  JSeeded <- MCMirrors
  JEditors = {"e"}
  JReaders = {"r"}
  JMaxEdits = 3
  \* Ranking
  KReleases <- MCReleases
  KConfigs <- MCConfigs
  KWanted <- MCWanted
  KMaxAnswers = 3
  \* Requests: one row, two reconcile passes
  RRows = {req1}
  RTasks = {t1, t2}
  RMaxUp = 2
  RMaxOps = 1
  RMaxFails = 1
  \* SharedBrowser: three calls, one of them with a browser of its own
  BCalls = {"c1", "c2", "c3"}
  BSite <- MCSite
  BExternal = {"c3"}
  BConc = 2
  BMaxFetch = 1
  BThreshold = 2
  MaxLaunches = 3
  \* TorrentClient: one torrent, asked for twice
  MHashes = {"h1"}
  MTitle <- MCTitle
  MSplit = TRUE
  MMaxAdds = 2
  MMaxStops = 1
  MMaxFaults = 1
INVARIANTS
  DiscoveryTypeOK
  
  OneBrowser
  
  PreviewRanks
PROPERTIES
  WatermarkNeverBack
  DiscoveryProgresses
CHECK_DEADLOCK FALSE
