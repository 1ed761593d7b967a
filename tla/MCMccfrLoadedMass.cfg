SPECIFICATION Spec
CONSTANTS
  Node <- ShortNode
  Root = 1
  Kind <- ShortKind
  Child <- ShortChild
  Mover <- ShortMover
  Row <- ShortRow
  RowCount = 2
  kStride = 3
  Utility <- ShortUtility
  Unit = 2
  Scale <- ShortScale
  Threads = 2
  Requests <- MixedRequests
  MaxCalls = 2
  Files <- AllFiles
  FileIterations = 6
  FileMass = 4
  LowHalf = 4
INVARIANTS
  MassMatchesVisits
