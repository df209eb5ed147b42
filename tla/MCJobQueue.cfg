CONSTANTS
  Runs = {r1, r2, r3}
  NoRun = NoRun
  Jobs = {j1, j2, j3}
  Keys = {k1}
  Cacheable = {k1}
  h1 = h1
  h2 = h2
  h3 = h3
  j1 = j1
  j2 = j2
  Hosts = {h1, h2, h3}
  HostsOf <- MCHostsOf
  GlobalCap = 2
  HostCap = 1
  MaxAttempts = 2
  ResultTTL = 2
  DeleteTerm = 2
  CacheMin = 1
  MaxNow = 1
  ClaimBound = 3
SYMMETRY Symmetry
SPECIFICATION Spec
INVARIANTS QueueInv CapsHeld
PROPERTIES OverIsFinal
CHECK_DEADLOCK FALSE
