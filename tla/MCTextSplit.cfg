SPECIFICATION FairSpec
CONSTANTS
    Limit = 4
    MaxText = 7
INVARIANTS
    PiecesFit
    InOrder
    NothingLost
    OnlyLongTokensHalved
PROPERTY
    SplitEnds
CHECK_DEADLOCK FALSE
