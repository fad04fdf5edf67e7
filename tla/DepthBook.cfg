SPECIFICATION Spec
CONSTANTS
  NumLevels = 3
  Limit = 1
  MaxQty = 1
  MaxUpdates = 3
  MaxConnects = 2
  MaxTicks = 1
  MaxFaults = 1
INVARIANTS
  BookFaithful
  GapMeansLossUntilTick
