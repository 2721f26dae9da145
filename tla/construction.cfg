CONSTANTS
    Names <- SomeNames
    Forms = {full, other}
    Fitting = {full}
SPECIFICATION Spec
INVARIANTS
    TypeOK
    PairsInOrder
    EachChannelInOnePlace
    WellFormedAccepted
    DecodableUntilMoved
