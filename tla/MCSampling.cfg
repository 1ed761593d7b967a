SPECIFICATION DrawSpec
CONSTANTS
  deck_size = 7
  kMaxN = 8
  Unit = 128
  rounded <- MCRounded
INVARIANTS
  SameDraw
PROPERTIES
  NeverTwice
CHECK_DEADLOCK FALSE
