CONSTANTS
    Mailboxes = {m1}
    Spellings = {lower, upper}
    Workers = {w1, w2}
    Timeout = 0
    MaxAccounts = 2
    MaxHashes = 3
    MaxLinks = 1
    MaxClock = 2
SPECIFICATION Spec
SYMMETRY Symmetry
INVARIANTS
    OneAccountPerMailbox
