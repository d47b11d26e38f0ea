SPECIFICATION Spec
CONSTANTS
    alice = alice
    bob = bob
    home = home
    away = away
    Account = {alice, bob}
    Market = {home, away}
    Precision = 2
    Odds = {3, 4, 5}
    Amounts = {1, 6}
    Funds <- MCFunds
    LiveDelay = TRUE
    Percent = 10
    RakeFee = 8
    Affiliates <- MCAffiliates
    MaxBets = 3
INVARIANTS TypeOK EveryOutcomePaid Conserved BooksExact
PROPERTY RakeFromProfits
CHECK_DEADLOCK FALSE
