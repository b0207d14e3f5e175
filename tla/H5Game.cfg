SPECIFICATION FairSpec
CONSTANTS
    p1 = p1
    Player = {p1}
    NoOne = NoOne
    Other = Other
    Gold = 3
    MaxRedo = 5
    MaxRetry = 1
    MaxPending = 1
    Mixes <- SomeMixes
INVARIANTS
    TypeOK
    OnePrize
    OneRefund
    PaidFor
    Timed
PROPERTIES
    GivenBack
    GamesEnd
CHECK_DEADLOCK FALSE
