CONSTANTS
    Sales = {s1}
    Users = {ana, ben, eva}
    Requests = {r1, r2}
    NoUser = nouser
    MaxEvidence = 2
SPECIFICATION Spec
SYMMETRY Symmetry
CHECK_DEADLOCK FALSE
INVARIANTS
    RefundIsWhole
