SPECIFICATION WalkSpec
CONSTANTS
  Deck <- FiveCards
  MaxRaises = 1
  RoundBet <- RealBets
  Ante = 5
  Strength <- MCStrength
  ClassOf <- MCClassOf
  ClassCount <- MCClassCount
  Profile = {0, 1}
  StrategySums <- MCSums
  Split = 2
  Unit = 512
INVARIANTS
  ValuesAreOverDeals
  DeviatingPays
CHECK_DEADLOCK FALSE
