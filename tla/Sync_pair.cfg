SPECIFICATION FairSpec
CONSTANTS
    c1 = c1
    c2 = c2
    k1 = k1
    Node = {1, 2}
    Key = {k1}
    Caller = {c1, c2}
    Recording = TRUE
    Corrector = {1}
    Serialized = TRUE
    SlowRestart = TRUE
    PullLimit = 1
    MaxSkew = 1
    MaxWall = 2
    MaxOps = 3
    MaxStops = 1
INVARIANTS TypeOK RowsFollowLog CorrectionsFollowLog
PROPERTIES TombstonesStay EdgesMoveForward Converges
CHECK_DEADLOCK FALSE
