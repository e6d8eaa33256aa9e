CONSTANTS
    r1 = r1
    r2 = r2
    w1 = w1
    w2 = w2
    q1 = q1
    Rid = {r1}
    Writer = {w1}
    Reader = {q1}
    Nobody = Nobody
    Kinds = {"record_batch"}
    Reordered = FALSE
    MaxAttempts = 2
    MaxSeq = 2
SPECIFICATION Spec
CHECK_DEADLOCK FALSE
INVARIANTS
    ReadYourWrites
