CONSTANTS
    Rid = {1, 2}
    t1 = t1
    t2 = t2
    w1 = w1
    w2 = w2
    Text = {t1, t2}
    NoText = NoText
    Writer = {w1, w2}
    Batch = 1
    MaxGen = 2
    MayFail = {"encode", "tail", "length", "swap", "verify"}
    MayCrash = TRUE
SPECIFICATION Spec
SYMMETRY Symmetry
INVARIANTS StoredVectorsTrue IndexInOneSpace
CHECK_DEADLOCK FALSE
