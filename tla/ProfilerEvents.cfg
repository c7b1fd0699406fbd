SPECIFICATION Spec
CONSTANTS
  ChunkRecords = 2
  Chunks = 3
  MaxTicks = 8
  MaxEvents = 3
  MaxProfiles = 2
INVARIANTS
  CodeMapMatches
  RingKeepsTicks
  AllRecorded
  TicksOfOneProfileFirst
PROPERTIES
  StopReturns
CHECK_DEADLOCK FALSE
