SPECIFICATION Spec
CONSTANTS
    t1 = t1
    t2 = t2
    t3 = t3
    Threads = {t1, t2, t3}
    First = {t1, t2}
    Length = 2
    MaxPasses = 1
    MaxMisses = 2
    ChildFirst = TRUE
INVARIANT TargetSurvives
CHECK_DEADLOCK FALSE
