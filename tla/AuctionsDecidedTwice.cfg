CONSTANTS
    NumLots = 1
    Users = {ana, ben}
    Prices = {1, 2}
    Requests = {r1, r2}
    Cron = cron
    Nobody = nobody
    BadLots = {}
SPECIFICATION Spec
SYMMETRY Symmetry
CHECK_DEADLOCK FALSE
PROPERTIES
    DecidedOnce
