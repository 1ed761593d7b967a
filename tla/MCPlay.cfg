SPECIFICATION PatientSpec
CONSTANTS
  Deck <- MCDeck
  MaxRaises = 1
  RoundBet <- RealBets
  Ante = 5
  Strength <- MCStrength
  ClassOf <- MCClassOf
  ClassCount <- MCClassCount
  Columns <- MCColumns
  Hands = 2
PROPERTIES
  HandsAreHands
  EndOfInputEnds
  HandsGoOn
CHECK_DEADLOCK FALSE
