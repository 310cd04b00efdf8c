CONSTANTS
    Mailboxes = {m1}
    Spellings = {lower, upper}
    Workers = {w1, w2}
    Timeout = 1
    MaxAccounts = 2
    MaxHashes = 3
    MaxLinks = 1
    MaxClock = 3
SPECIFICATION ApartSpec
SYMMETRY Symmetry
INVARIANTS
    OneAccountPerMailbox
    ResetEndsSessions
PROPERTIES
    NoHashReturns
    SpentLinksStaySpent
