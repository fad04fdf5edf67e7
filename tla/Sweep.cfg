SPECIFICATION Spec
CONSTANTS
  Market = {m1, m2, m3}
  PageLimit = 2
  MaxFaults = 2
INVARIANTS
  LossSurfaces
  RecordedOnce
PROPERTY
  RecordedWhileListed
