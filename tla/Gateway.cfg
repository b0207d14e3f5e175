SPECIFICATION FairSpec
CONSTANTS
    u1 = u1
    u2 = u2
    Conn = {1, 2, 3}
    Uid = {u1, u2}
    Owner <- Again
    SlotNum = 2
    ObjectNum = 1
    PipeSize = 2
    QueueSize = 1
    BufSize = 2
    Mixes <- SomeMixes
INVARIANTS
    TypeOK
    SlotsKept
    PoolKept
    RightOne
    Indexed
    ToldTcp
PROPERTIES
    ComesToRest
CHECK_DEADLOCK FALSE
