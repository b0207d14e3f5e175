SPECIFICATION FairSpec
CONSTANTS
    a = a
    b = b
    Server = {a, b}
    ProxyNum = 2
    Route <- AtoB
    BufSize = 2
    Mixes <- OneDies
PROPERTY NothingStuck
CHECK_DEADLOCK FALSE
