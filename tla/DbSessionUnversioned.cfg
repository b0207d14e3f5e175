SPECIFICATION Spec
CONSTANTS
    s1 = s1
    s2 = s2
    u1 = u1
    u2 = u2
    Svr = {s1, s2}
    Uid = {u1}
    Key = {1, 2}
    Mixes <- UnversMixes
    Garbage = {0, 1, 2}
    MaxRedo = 2
PROPERTIES
    NoLostUpdate
CHECK_DEADLOCK FALSE
