CONSTANTS
  j1 = j1
  j2 = j2
  r1 = r1
  r2 = r2
  k1 = k1
  d1 = d1
  d2 = d2
  d3 = d3
  d4 = d4
  d5 = d5
  b1 = b1
  Runs = {r1, r2}
  NoRun = NoRun
  Jobs = {j1, j2}
  Keys = {k1}
  Cacheable = {k1}
  Hosts = {}
  HostsOf <- MCHostsOf
  GlobalCap = 1
  HostCap = 1
  MaxAttempts = 1
  ResultTTL = 3
  DeleteTerm = 2
  CacheMin = 1
  MaxNow = 4
  ClaimBound = 1
  Batch = 1
  Clients = {d1, d2, d3, d4, d5}
  Wants <- MCWants
  Managers = {d2}
  Lists = {b1}
  Unmeasured = {}
  Undated = {j2}
  MinRemaining = 1
  SignedLife = 1
  PermalinkLife = 2
  MaxDownloads = 1
  RasterBytes = 2
  MaxBundleBytes = 4
  MaxBook = 1
  MaxAsked = 3
SPECIFICATION MCSpec
INVARIANTS PlacesKept OneArchive LinksLast NothingDangles
PROPERTIES PromiseKept PersonalDataGoes
CHECK_DEADLOCK FALSE
