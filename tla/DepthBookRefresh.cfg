SPECIFICATION Spec
CONSTANTS
  NumLevels = 2
  Limit = 1
  MaxQty = 1
  MaxUpdates = 3
  MaxConnects = 1
  MaxTicks = 1
  MaxFaults = 0
INVARIANT
  GapMeansLoss
