SPECIFICATION FairSpec
CONSTANTS
    r1 = r1
    r2 = r2
    c1 = c1
    c2 = c2
    q1 = q1
    Rid = {r1, r2}
    Caller = {c1, c2}
    Reader = {}
    DeltaMax = 1
    MaxSeq = 4
    Ordered = TRUE
    BuildMayFail = FALSE
INVARIANTS TypeOK VectorsBounded
PROPERTIES ImplementsMap BackpressureClears
CHECK_DEADLOCK FALSE
