SPECIFICATION FairSpec
CONSTANTS
  Player <- Three
  Payer <- Two
  NumberOfPlayers = 3
  NumberOfWins = 1
  BuyIn = 3
  Funds = 6
  RakePercent = 50
  Insurance = TRUE
  Gestures <- AllGestures
  Movers <- OneAccount
  Seeds <- MixedSeeds
INVARIANT PoolConserved
PROPERTY TournamentEnds
