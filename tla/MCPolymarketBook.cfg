SPECIFICATION Spec
SYMMETRY MCSymmetry
CONSTANTS
  Asset = {yes, no}
  Level = {1}
  MaxSize = 1
  MaxUpdates = 3
  MaxMs = 1
  MaxConnects = 2
  MaxFaults = 1
  MaxBuffer = 2
INVARIANTS
  BookFaithful
  FirstSnapshotMissesNothing
