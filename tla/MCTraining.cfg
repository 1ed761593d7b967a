SPECIFICATION FairSpec
CONSTANTS
  kFirstCheckpoint = 3
  IntMax = 15
  Requests <- Counts
  Pieces = 3
  MaxSessions = 2
INVARIANTS
  LoadedWhole
  ScheduleKept
  LogNeverAhead
  DoneIsOnDisk
  CheckpointInRange
PROPERTIES
  LogAppendOnly
  SessionsEnd
