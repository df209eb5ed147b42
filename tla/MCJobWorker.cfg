CONSTANTS
  Runs = {r1}
  NoRun = NoRun
  Jobs = {j1, j2}
  Keys = {k1}
  Cacheable = {k1}
  Hosts = {}
  HostsOf <- MCHostsOf
  GlobalCap = 1
  HostCap = 1
  MaxAttempts = 2
  ResultTTL = 1
  DeleteTerm = 1
  CacheMin = 1
  MaxNow = 2
  ClaimBound = 0
  Batch = 1
  Slots = {s1, s2}
  AckLoss = TRUE
SPECIFICATION WorkerSpec
INVARIANTS AttemptsInOrder ResultThereIfHeard
PROPERTIES RunsAreKept EveryRunEnds
CHECK_DEADLOCK FALSE
