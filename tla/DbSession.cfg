SPECIFICATION Spec
CONSTANTS
    s1 = s1
    s2 = s2
    u1 = u1
    u2 = u2
    Svr = {s1, s2}
    Uid = {u1, u2}
    Key = {1, 2}
    Mixes <- SomeMixes
    Garbage = {0, 1, 2}
    MaxRedo = 2
SYMMETRY Servers
INVARIANTS
    TypeOK
    CacheIsCurrent
    AnswersAreTrue
    RedoIsEarned
    UpdatesOnce
PROPERTIES
    NoLostUpdate
CHECK_DEADLOCK FALSE
