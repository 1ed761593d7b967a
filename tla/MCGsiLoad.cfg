SPECIFICATION LoadSpec
CONSTANTS
  kGsiRankCount = 2
  kGsiSuitCount = 2
  kGsiRound1ClassCount = 4
  kGsiRound2ClassCount = 12
  kGsiRound3ClassCount = 24
  kGsiSequencesPerRound = 3
  kGsiSlotsPerKey = 3
  Partition <- MCPartition
  PlayerRows <- MCPlayerRows
INVARIANTS
  PartitionInPlace
  RowsReadBack
PROPERTIES
  LoadsEnd
CHECK_DEADLOCK FALSE
