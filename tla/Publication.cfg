CONSTANTS
    Lots = {1, 2}
    Sellers = {s1, s2}
    Categories = {c1}
    Prices = {2, 5, 6}
    MaxPhotographs = 2
    Several = 2
    Pages = {p1}
    Answers = {{"seller_is_verified"}}
    Keys = {1, 2, 3}
    MaxOrder = 3
SPECIFICATION Spec
SYMMETRY Symmetry
INVARIANTS
    PhotographsFit
    UploadsAreTaken
    SoldFactorIsEarned
PROPERTIES
    PriceFactorIsFair
