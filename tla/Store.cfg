SPECIFICATION FairSpec
CONSTANTS
  Stream = {trade, depth}
  Capacity = 4
  MaxBucket = 1
  MaxEvents = 3
  Oversize = TRUE
  IoErrors = TRUE
  PowerLoss = TRUE
INVARIANTS
  LinesIntact
  OrderKept
  AckedKept
  OneVictimPerTear
  FsyncDurable
PROPERTIES
  RecordsLog
  AppendOnly
  CallsAndExitEnd
