SPECIFICATION MCSpec
CONSTANTS
  Native = {1, 2}
  Federated = {3}
  HasTime = {1, 3}
  KeyOrder <- MCKeyOrder
  Judged = 3
  IdSets <- MCIdSets
  FirstFields <- MCFirstFields
  Areas = {"here", "there"}
  Filters = {"none", "scene", "pass"}
  Holds <- MCHolds
  PageLimit = 2
  MaxItems = 4
  UserSteps = 3
  Total = 4
  PageSize = 2
  ResponseScenes = 3
  SearchScenes = 4
  MaxDayScenes = 2
  Ahead = 2
  Gate = 1
  Attempts = 2
  SourceShapes <- MCShapes
  Dense = {"s2"}
  Grounds = {"dem"}
  Unanswered = {"other"}
  Timeless = {"dem"}
  Filterable = {"s2"}
  Places = {"west", "east"}
  PlaceOf <- MCPlaceOf
  DayOf <- MCDayOf
  ClearScenes = {1, 3}
  FinestLevel = 1
  WorldCap = 0
  CellCap = 1
  ThinPoints = 1
  MaxPageSize = 2
  LongLife = 2
  ShortLife = 1
  ClosedAfter = 1
  Topics <- MCTopics
  FirstHeld <- MCFirstHeld
  Callers = {a, b}
  Span = 1
  MaxClock = 3
  MaxNews = 1
  MaxCalls = 3
SYMMETRY SameCallers
INVARIANTS NoneTwiceNoneMissed NothingLostSilently AnswersAreHonest
PROPERTIES EveryAnswerMovesOn
CHECK_DEADLOCK FALSE
