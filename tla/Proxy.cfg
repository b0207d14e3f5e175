SPECIFICATION FairSpec
CONSTANTS
    a = a
    b = b
    Server = {a, b}
    ProxyNum = 1
    Route <- Both
    BufSize = 2
    Mixes <- SomeMixes
INVARIANT TypeOK
PROPERTIES InOrder AllArrive NothingStuck
CHECK_DEADLOCK FALSE
