CONSTANTS
    r1 = r1
    r2 = r2
    c1 = c1
    c2 = c2
    Rid = {r1, r2}
    NoVec = NoVec
    Caller = {c1, c2}
    Serial = TRUE
    MaxSeq = 4
    MaxGen = 1
SPECIFICATION Spec
SYMMETRY Symmetry
CHECK_DEADLOCK FALSE
INVARIANTS
    TypeOK
    IndexFollowsTier
    OneSpace
    ForgottenIsHidden
