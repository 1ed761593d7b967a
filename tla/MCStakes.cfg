SPECIFICATION FairSpec
CONSTANTS
  Deck <- ThreeRanks
  MaxRaises = 3
  RoundBet <- RealBets
  Ante = 5
  Strength <- MCStrength
  ClassOf <- MCClassOf
  ClassCount <- MCClassCount
  kGsiRankCount = 3
  kGsiSuitCount = 2
  kGsiRound1ClassCount = 3
  kGsiRound2ClassCount = 15
  kGsiRound3ClassCount = 30
  kGsiSequencesPerRound = 7
  kGsiSlotsPerKey = 10
  SignalClass <- MCSignalClass
  StrategyRows <- MCRows
  kEmptyRowTotal = 1
INVARIANTS
  TypeOK
  AssertsHold
  EvenStakes
  RememberedValuesFresh
  RowDecodes
  WorthByRules
  SlotsDecode
  AnswersForEveryHand
PROPERTIES
  NothingTakenBack
  FollowsRules
  HandsEnd
