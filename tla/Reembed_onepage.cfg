CONSTANTS
    Rid = {1, 2}
    t1 = t1
    t2 = t2
    w1 = w1
    w2 = w2
    Text = {t1, t2}
    NoText = NoText
    Writer = {w1, w2}
    Batch = 2
    MaxGen = 1
    MayFail = {"encode", "length", "swap", "verify"}
    MayCrash = TRUE
SPECIFICATION FairSpec
INVARIANTS TypeOK LiveRowsFound CutoverIsQuiet
PROPERTY RouterReopens
CHECK_DEADLOCK FALSE
