SPECIFICATION FairSpec
CONSTANTS
    MaxEvents = 1
    MaxGroups = 2
    MaxMarkets = 1
    NeverInPlay = {2}
    Moves <- MoveToSecond
PROPERTY GradedSettles
