SPECIFICATION Spec
CONSTANTS
    c1 = c1
    c2 = c2
    k1 = k1
    Node = {1, 2}
    Key = {}
    Caller = {c1, c2}
    Recording = TRUE
    Corrector = {}
    Serialized = FALSE
    SlowRestart = TRUE
    PullLimit = 3
    MaxSkew = 0
    MaxWall = 1
    MaxOps = 2
    MaxStops = 0
INVARIANT NothingSkipped
CHECK_DEADLOCK FALSE
