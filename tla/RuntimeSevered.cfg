SPECIFICATION RuntimeSpec
CONSTANTS
  OWorkers = {"w", "x"}
  OApi = {}
  ODedicated = {"d"}
  OSweeps = {"i"}
  OLane = 1
  OSessions = {"s"}
  OMaxStarts = 1
  OMaxQueued = 1
  OMaxFaults = 1
INVARIANT OneScheduler
CHECK_DEADLOCK FALSE
