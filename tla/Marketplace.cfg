CONSTANTS
    NumLots = 1
    Sales = {1}
    Users = {ana, ben, eva}
    Prices = {10, 20, 30}
    Requests = {r1, r2}
    Raters = {q1, q2}
    Cron = cron
    Nobody = nobody
    NoUser = nouser
    BadLots = {}
    MaxEvidence = 2
    Percentages = {0, 500}
SPECIFICATION SerialMarketSpec
SYMMETRY Symmetry
CHECK_DEADLOCK FALSE
INVARIANTS
    HistoryIsAChain
    ClaimHoldsTheMoney
    RatedSalesStand
    LotResultToldOnce
PROPERTIES
    EvidencePrecedesDecision
    LotDecidedOnce
    CutIsNearest
    ImplementsSaleLife
