SPECIFICATION Spec
CONSTANTS
    p1 = p1
    p2 = p2
    Player = {p1}
    NoOne = NoOne
    Other = Other
    Gold = 2
    Coins = 2
    MaxRedo = 5
    MaxRetry = 1
    MaxPending = 1
    Mixes <- Offline1
INVARIANTS
    NoCrash
CHECK_DEADLOCK FALSE
