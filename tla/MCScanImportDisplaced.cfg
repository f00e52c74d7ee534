SPECIFICATION Spec
CONSTANTS
  Dirs = {d1}
  Tokens = {t1, t2}
  Workers = {w1, w2}
  Sweepers = {Cron}
  Cron = Cron
  None = None
  ByScan = ByScan
PROPERTY LiveCopyNotDisplaced
