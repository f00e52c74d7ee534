SPECIFICATION FairSpec
CONSTANTS
  Requests = {r1, r2}
  AutoScan = TRUE
  MaxTasks = 2
  MaxCrashes = 2
INVARIANT TypeOK
PROPERTY RunningEnds
