CONSTANTS
    r1 = r1
    r2 = r2
    c1 = c1
    c2 = c2
    w1 = w1
    w2 = w2
    k1 = k1
    Rid = {r1, r2}
    Key = {k1}
    NoKey = NoKey
    NoWrite = NoWrite
    NoOp = NoOp
    Caller = {c1, c2}
    Worker = {w1}
    Batch = 2
    MaxPending = 2
    MayMiss = FALSE
    Named = {TRUE}
    MaxGen = 1
    MaxClock = 4
    MaxFaults = 1
SPECIFICATION Spec
SYMMETRY Symmetry
CHECK_DEADLOCK FALSE
INVARIANTS
    TypeOK
    QueueBounded
    AcceptedIsKept
    EntitiesOwed
PROPERTIES
    ImplementsLedger
    GoneForGood
