SPECIFICATION MCSpec
CONSTANTS
  NumFiles = 2
  MaxLines = 3
  MaxTs = 2
  Damaged = TRUE
  MaxSpeed = 2
  MaxOffset = 1
  MaxWall = 1
  MaxN = 2
  MaxRows = 2
  DiskErrors = TRUE
  ShortLines = 2
  ShortTs = 1
INVARIANTS
  MergedInOrder
  DamageContained
  AnswersExact
  ExportAllOrNothing
  NeverEarly
  GlitchWithinBudget
