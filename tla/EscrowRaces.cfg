CONSTANTS
    Sales = {s1}
    Users = {ana, ben, eva}
    Requests = {r1, r2, r3}
    Raters = {q1, q2}
    NoUser = nouser
    MaxEvidence = 2
SPECIFICATION RatingSpec
SYMMETRY Symmetry
CHECK_DEADLOCK FALSE
INVARIANTS
    HistoryEndsInState
    ArguedOnce
    DisputedMoneyIsQueued
    OthersDecideOnlyClaims
    EvidenceIsBounded
    RatedOnce
    RatedAfterRelease
PROPERTIES
    HistoryOnlyGrows
