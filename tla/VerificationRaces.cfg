CONSTANTS
    Users = {ann, adm}
    Administrators = {adm}
    Workers = {w1, w2}
    Docs = {d1, d2}
    NoDoc = noDoc
    MaxRequests = 3
SYMMETRY Symmetry
SPECIFICATION Spec
INVARIANTS
    OnePending
    ApprovedCanPublish
    ResolvedPapersAreGone
