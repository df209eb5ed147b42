CONSTANTS
  Runs = {r1, r2}
  NoRun = NoRun
  Jobs = {j1, j2}
  Keys = {k1}
  Cacheable = {k1}
  Hosts = {}
  HostsOf <- MCHostsOf
  GlobalCap = 1
  HostCap = 1
  MaxAttempts = 2
  ResultTTL = 2
  DeleteTerm = 1
  CacheMin = 1
  MaxNow = 3
  ClaimBound = 2
  Batch = 1
  Sessions = {t1, t2}
CONSTRAINT TimeOrTwoRuns
SYMMETRY Symmetry
SPECIFICATION TxSpec
PROPERTIES StatementsMakeSteps
CHECK_DEADLOCK FALSE
