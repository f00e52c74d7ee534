SPECIFICATION LibrarySideSpec
CONSTANTS
  \* LibraryView: a season of two episodes and a movie, two tasks and the watcher
  YSeasons <- MCSeasons
  YMovies = {"m"}
  YTasks = {"t", "u"}
  YAttrs <- MCAttrs
  YMaxOps = 2
  \* StorageHealth: two rows on two libraries
  WIds = {1, 2}
  WMovies = {2}
  WCols <- MCCols
  WLibOf <- MCLibOf
  WRoots = {"d"}
  WLimit = 1
  WMaxChanges = 1
  \* Subtitles: an episode and a movie, one language
  UTitles = {"e", "m"}
  UEpisodes = {"e"}
  ULangs = {"en"}
  UOffers <- MCOffers
  UUndated = {"m"}
  USearches = {"s"}
  USlots = 1
  UMaxTroubles = 1
  \* Streams: one client and one file
  ZFiles = {"f"}
  ZClients = {"c"}
  ZLen = 2
  ZTmp = 1
  ZMaxBytes = 1
  ZMaxVer = 2
  ZMaxTicks = 2
  ZMaxFaults = 1
  \* ViewingSync: one worker that polls, two users, one with a skewed clock
  SPollers = {p1}
  SUsers = {u, w}
  SSkew = {w}
  SItems = {"i"}
  SHits <- MCHits
  SFiles = {"t"}
  SMaxPlays = 2
  SMaxLocal = 1
  SMaxFails = 1
  \* Catalog: a show and a movie of the same work, one request, two specials
  CNone = CNone
  CRows = {"a", "m"}
  CMovies = {"m"}
  CImdb <- MCImdb
  CEps <- MCEps
  CDownloaded = {}
  CAdders = {"u"}
  CBatch = 1
  MaxCEdits = 1
  MaxOutages = 1
INVARIANTS
  LibrarySideTypeOK
  ListingMatchesCounts
PROPERTIES
  GridConverges
  SubtitleArrives
  PlayerIsAnswered
  
  CatalogueFollows
CHECK_DEADLOCK FALSE
