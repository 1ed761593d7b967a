SPECIFICATION FairSpec
CONSTANTS
  Node <- DealtNode
  Root = 0
  Kind <- DealtKind
  Child <- DealtChild
  Mover <- DealtMover
  Row <- DealtRow
  RowCount = 2
  kStride = 3
  Utility <- DealtUtility
  Unit = 6
  Scale <- DealtScale
  Threads = 2
  Requests <- TwoOnTwo
  MaxCalls = 1
  Files = {}
  FileIterations = 0
  FileMass = 0
  LowHalf = 4
INVARIANTS
  RegretsKept
  ResidualZero
  TrailingZero
PROPERTIES
  RunsReturn
