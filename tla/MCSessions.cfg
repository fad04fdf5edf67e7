SPECIFICATION Spec
CONSTANTS
  Base = 2
  Width = 1
  Streams <- MCStreams
  FirstDays <- MCFirstDays
  TicksPerDay = 2
  Age = 2
  MaxTicks = 4
  MaxSessions = 2
  MaxFiles = 4
  MaxKills = 1
INVARIANTS
  ListedInOrder
  AlwaysReadable
  LiveUntouched
PROPERTIES
  OldAreCompressed
CHECK_DEADLOCK FALSE
