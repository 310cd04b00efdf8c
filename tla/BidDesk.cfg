CONSTANTS
    Processes = {{b1, b2}, {b3}}
    Others = {cron}
    Prices = {2, 3}
    Start = 1
    MaxAttempts = 3
    Nobody = nobody
    Lot = lot
    Owner = owner
SPECIFICATION FairSpec
CHECK_DEADLOCK FALSE
INVARIANTS
    OneBidPerProcess
    AnswersAreTrue
PROPERTIES
    BidsAreAnswered
    ImplementsSale
