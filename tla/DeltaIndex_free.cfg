SPECIFICATION Spec
CONSTANTS
    r1 = r1
    r2 = r2
    c1 = c1
    c2 = c2
    q1 = q1
    Rid = {r1, r2}
    Caller = {c1, c2}
    Reader = {q1}
    DeltaMax = 2
    MaxSeq = 3
    Ordered = FALSE
    BuildMayFail = TRUE
SYMMETRY Symmetry
INVARIANTS SearchIsCurrent FoundIsDurable WindowIsHonest
