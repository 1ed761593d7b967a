SPECIFICATION Spec
CONSTANTS
  kFirstCheckpoint = 3
  IntMax = 15
  Requests <- Counts
  Pieces = 3
  MaxSessions = 2
INVARIANTS
  LogKeepsEveryLine
