SPECIFICATION Spec
CONSTANTS
  Decks <- MCDecks
  kIdRange = 128
INVARIANTS
  Lossless
  ReturnsCoarsest
  NeverThrows
PROPERTIES
  PassOnlySplits
\* The loop ends when it returns.
CHECK_DEADLOCK FALSE
