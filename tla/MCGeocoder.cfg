SPECIFICATION Spec
CONSTANTS
  r1 = r1  r2 = r2  r3 = r3  a = a  b = b
  Requests = {r1, r2, r3}
  Hosts = {a, b}
  Foreign = foreign
  NoHost = nohost
  Scenarios <- MCScenarios
  MaxRedirects = 1
  MaxAttempts = 2
  Interval <- MCInterval
  CrawlDelays = {2, 3}
  MaxCrawlDelay = 2
  Pause = 1
  MaxLate = 1
  PoolSize = 2
  SlotTicks = 2
  MaxWait = 2
  PushBack = 3
INVARIANTS EveryHopCleared
PROPERTIES StartsAndHandOversSpaced EveryoneIsAnswered
CHECK_DEADLOCK FALSE
