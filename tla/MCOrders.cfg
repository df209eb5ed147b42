SPECIFICATION MCSpec
CONSTANTS
  AllNames <- MCNames
  BlocksOf <- MCBlocks
  MaxOrderItems = 3
  MaxOrderSteps = 3
  MaxStock = 5
  AoiGrounds <- MCGrounds
  AoiRequests <- MCRequests
  Askers = {a1, a2}
  ReaderLimit = 2
  ReadTries = 2
  Bands <- MCBands
  PerBin = 2
  LastBin = 3
SYMMETRY AskersAlike
INVARIANTS ResultAsMeant MemoryForeseen NumbersOfTheWhole MeasuresHold
