CONSTANTS
    r1 = r1
    r2 = r2
    w1 = w1
    w2 = w2
    q1 = q1
    Rid = {r1, r2}
    Writer = {w1, w2}
    Reader = {q1}
    Nobody = Nobody
    Kinds = {"record", "record_batch", "record_with_rid", "correct", "scalar", "replica", "forget"}
    Reordered = FALSE
    MaxAttempts = 2
    MaxSeq = 3
SPECIFICATION FairSpec
CHECK_DEADLOCK FALSE
INVARIANTS
    TypeOK
    NoStaleCorrection
    SettledIsCoherent
    ForgottenIsOut
PROPERTIES
    AnswersAreAtomic
    RecallReturns
