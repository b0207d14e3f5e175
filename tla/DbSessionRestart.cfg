SPECIFICATION FairSpec
CONSTANTS
    s1 = s1
    s2 = s2
    u1 = u1
    u2 = u2
    Svr = {s1}
    Uid = {u1, u2}
    Key = {1}
    Mixes <- RestartMixes
    Garbage = {0, 1, 2}
    MaxRedo = 5
INVARIANTS
    SavedIsApplied
PROPERTIES
    EverySessionEnds
CHECK_DEADLOCK FALSE
