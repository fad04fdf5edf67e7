SPECIFICATION FeedFairSpec
CONSTANTS
  Initial = 1
  Multiplier = 2
  MaxDelay = 2
  MaxAttempt = 1
  NumMarkets = 2
  PageLimit = 1
  MaxItems = 2
INVARIANTS
  NothingMisfiled
  PickedUpAtReconnect
PROPERTIES
  DelayGrowsUntilHeard
  OpenMarketsRecorded
