CONSTANTS
    NumLots = 1
    Users = {ana, ben, eva}
    Prices = {1, 2, 3, 4}
    Requests = {r1, r2, r3}
    Cron = cron
    Nobody = nobody
    BadLots = {}
SPECIFICATION Spec
SYMMETRY Symmetry
CHECK_DEADLOCK FALSE
INVARIANTS
    PriceFollowsBids
    PaymentIsTheWinners
    ClosedSaleIsPaid
    MailTellsTheTruth
PROPERTIES
    ImplementsSale
