SPECIFICATION MCSpec
CONSTANTS
  p1 = p1  p2 = p2  dem = dem  other = other  north = north  east = east  south = south  west = west  a1 = a1  a2 = a2
  Tasks = {p1, p2}
  Datasets = {dem, other}
  Tiles = {north, east, south, west}
  Listed <- MCListed
  Releases <- MCReleases
  Versions = {1, 2}
  Nothing = nothing
  HasBlacklist = {dem}
  MaxPercent = 40
  MaxRuns = 3
  MaxLoads = 3
  MaxCommands = 3
  MaxDeploys = 1
  MaxWithdrawn = 1
  Services <- MCServices
  Needs <- MCNeeds
  Writer = "jobs"
  Buckets = {1, 2}
  EnvKeys <- MCEnvKeys
  MaxUps = 2
  MaxMeddles = 1
  Uploaders = {a1, a2}
  Parts <- MCParts
  MaxAttempts = 2
  MaxLost = 2
INVARIANTS TheLastLoadHolds ItemsAsLastWritten UnchangedIsTrue OfferedIsServed StorePrepared ResultsWhole
SYMMETRY Alike
CHECK_DEADLOCK FALSE
