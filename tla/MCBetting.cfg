SPECIFICATION Spec
CONSTANTS
    MaxEvents = 1
    MaxGroups = 2
    MaxMarkets = 3
    NeverInPlay = {2}
    Moves <- NoMoves
   
PROPERTY EventReachesGroups
