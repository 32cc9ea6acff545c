SPECIFICATION PatchSpec
CONSTANTS
    a = a
    b = b
    Byte = {a, b}
    NoRecord = NoRecord
    Torn = Torn
    Cells <- MCCells
    Int3 = b
    Original <- MCOriginal
    TargetThreads = {t1}
    WatchSlots <- MCSlots
    PatchRuns = {1, 2}
    PatchKinds = {"apply", "undo"}
    AtOnce = 1
    Unreachable = FALSE
INVARIANT EveryChangeIsOnRecord
CHECK_DEADLOCK FALSE
