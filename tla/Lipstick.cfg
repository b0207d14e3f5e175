SPECIFICATION FairSpec
CONSTANTS
    p1 = p1
    p2 = p2
    Player = {p1, p2}
    NoOne = NoOne
    Other = Other
    Gold = 1
    Coins = 1
    MaxRedo = 5
    MaxRetry = 1
    MaxPending = 1
    Mixes <- Visits
INVARIANTS
    TypeOK
    OneRefund
    PaidFor
PROPERTIES
    BetsComeBack
    ComesFree
CHECK_DEADLOCK FALSE
