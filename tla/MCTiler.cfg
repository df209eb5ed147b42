CONSTANTS
  Results = {x1}
  Calls = {c1, c2, c3}
  NoEntry = NoEntry
  HeadKept = 1
  UrlReused = 2
  ResultLife = 4
  MinRemaining = 1
  CacheSize = 1
  MaxTime = 4
  Reqs = {q1, q2, q3}
  Items = {1, 2, 3}
  None = None
  Workloads <- MCWorkloads
  MaxItemFetches = 1
  PoolSize = 1
  Touching <- MCTouching
  MaxCropItems = 2
  MaxCropFiles = 2
  LargeFrom = 2
  MaxMeasure = 1
SPECIFICATION ProcessSpec
INVARIANTS SharingHarmsNobody
PROPERTIES ServedWhileThere EveryoneAnswered
CHECK_DEADLOCK FALSE
