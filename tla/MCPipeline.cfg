SPECIFICATION PipelineSpec
CONSTANTS
  \* Acquisition: a season pack, a movie, and a release with a sample in it
  r1 = r1
  r2 = r2
  r3 = r3
  e1 = e1
  e2 = e2
  m1 = m1
  Rels = {r1, r2, r3}
  Slots = {e1, e2, m1}
  Targets <- MCTargets
  MovieRels = {r2}
  Decoys = {r3}
  Opaque = {r3}
  MaxRequests = 2
  MaxUser = 1
  MaxRestarts = 1
  \* ImportQueue: a torrent, a scan entry and a media item they complete into
  Refs = {t, s, m}
  Media = {m}
  MaxChanges = 2
  MaxFails = 1
  \* ArchivePublication: two workers, two archives that share a path
  arc1 = arc1
  arc2 = arc2
  XWorkers = {w1, w2}
  XArchives = {arc1, arc2}
  XEntries <- MCEntries
  XRetained = {arc1, arc2}
  MaxEntries = 2
  MaxBytes = 2
  XForeign = {f1, f2}
  MaxXCrashes = 1
  \* LibraryFiles: three sources, two of one size, two libraries
  LSources = {1, 2, 3}
  LSize <- MCSizes
  LLibs = {1, 2}
  LHome = 1
  MaxImports = 1
  MaxLSlot = 2
  MaxLDeletes = 1
  MaxMoves = 1
  \* Upgrades
  PRunners = {"p", "q"}
  PTop = 2
  PGlobalDl = TRUE
  PGlobalUp = TRUE
  PMaxActs = 2
  \* Viewing: two devices of one user, two episodes of which one is a special
  VDevices = {d1, d2}
  VEps = 2
  VSpecials = 1
  VSkipped = {}
  VFileOf <- MCFileOf
  VMaxItems = 2
  VMaxPos = 3
  VMaxReqs = 3
INVARIANTS
  PipelineTypeOK
  NoChangeForgotten
  
  OneAutoTransfer
PROPERTIES
  LibraryKept
  
  ManualStands
CHECK_DEADLOCK FALSE
