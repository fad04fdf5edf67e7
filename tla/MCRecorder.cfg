SPECIFICATION RecorderFairSpec
CONSTANTS
  feed = feed
  snap = snap
  trade = trade
  book = book
  depth = depth
  Task = {feed, snap}
  Stream = {trade, book, depth}
  StreamsOf <- MCStreamsOf
  Detached = {snap}
  MaxItems = 2
  MaxClock = 1
  Capacity = 4
  MaxBucket = 1
  MaxEvents = 3
  Oversize = FALSE
  IoErrors = FALSE
  PowerLoss = TRUE
INVARIANTS
  FileTimestampsMonotone
  ShutdownLosesNothing
PROPERTY
  ShutdownEnds
