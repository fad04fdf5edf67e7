CONSTANTS
  Sessions <- MCSessions
  MaxLines = 4
  MaxTs = 2
  MaxId = 2
SPECIFICATION Spec
CHECK_DEADLOCK FALSE
INVARIANTS PassMeansReplayable FailMeansDamageInside CutoffOfTheCleanPart GapsAreMissingBuckets
