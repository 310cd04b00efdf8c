CONSTANTS
    NumLots = 2
    Users = {ana, ben}
    Prices = {1, 2}
    Requests = {r1, r2}
    Cron = cron
    Nobody = nobody
    BadLots = {2}
SPECIFICATION FairSpec
CHECK_DEADLOCK FALSE
INVARIANTS
    PublicLotsAreScored
    SaleToldOnce
PROPERTIES
    SoldIsFinal
    ExpiredLotsClose
