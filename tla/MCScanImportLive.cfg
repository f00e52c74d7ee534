SPECIFICATION FairSpec
CONSTANTS
  Dirs = {d1}
  Tokens = {t1}
  Workers = {w1}
  Sweepers = {Cron, Startup}
  Cron = Cron
  None = None
  ByScan = ByScan
PROPERTY ClaimsResolve
