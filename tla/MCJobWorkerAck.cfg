CONSTANTS
  Runs = {r1}
  NoRun = NoRun
  Jobs = {j1, j2}
  Keys = {k1}
  Cacheable = {k1}
  Hosts = {}
  HostsOf <- MCHostsOf
  GlobalCap = 1
  HostCap = 1
  MaxAttempts = 2
  ResultTTL = 2
  DeleteTerm = 1
  CacheMin = 1
  MaxNow = 0
  ClaimBound = 0
  Batch = 1
  Slots = {s1}
  AckLoss = TRUE
INIT WorkerInit
NEXT WorkerNext
INVARIANTS
  ResultThere
CHECK_DEADLOCK FALSE
