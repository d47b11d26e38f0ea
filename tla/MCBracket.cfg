SPECIFICATION Spec
CONSTANTS
  Player <- Five
  Payer <- OneAccount
  NumberOfPlayers = 5
  NumberOfWins = 1
  BuyIn = 3
  Funds = 15
  RakePercent = 50
  Insurance = FALSE
  Gestures <- AllGestures
  Movers <- Three
  Seeds <- SeedsOfFive
INVARIANTS EachPlayerOnce FedByWinners
PROPERTY MatchesStand
