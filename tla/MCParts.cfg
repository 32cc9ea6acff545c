SPECIFICATION PartsSpec
CONSTANTS
    Callers = {"a", "b"}
    MaxAsks = 2
    MaxIdBytes = 4
    MaxFields = 3
    Values <- MCValues
    Ids <- MCIds
    Root = "k0"
    NoKey = "no key"
    None = None
    Manifests <- MCManifests
    Addresses <- MCAddresses
    MaxLinks = 2
    Updaters = {"u", "v"}
    Kinds = {"registry", "annotations", "table"}
    Entries = {"e", "f"}
    Commands = {"c", "d"}
    MaxRuns = 4
    MaxChanges = 2
    t1 = t1
    t2 = t2
    t3 = t3
    Threads = {t1, t2, t3}
    First = {t1, t2}
    Length = 2
    MaxPasses = 1
    MaxMisses = 2
    ChildFirst = FALSE
    Processes = {"p", "q"}
    Copies = {"x", "y"}
    Releases = {1, 2}
    Day = 2
    MaxTime = 3
    Nil = Nil
    a = a
    b = b
    Byte = {a, b}
    NoRecord = NoRecord
    Torn = Torn
    Cells <- MCCells
    Int3 = b
    Original <- MCOriginal
    TargetThreads = {1, 2}
    WatchSlots <- MCSlots
    PatchRuns = {1, 2, 3, 4}
    PatchKinds = {"apply", "plant", "watch", "undo"}
    AtOnce = 2
    Unreachable = FALSE
INVARIANTS
    NoChildIsLeft
    BlamesTheRightStep
    ReplyIsForItsRequest
    ScanIsExact
    OnlyEndorsed
    JunkCrowdsNothingOut
    RegistryIsWhole
    SettlingKeepsTheReading
    EveryValueIsAnswerable
    TargetSurvives
    NothingIsLeft
    InstructionRunsOnce
    NoticeIsTrue
    OnlyLooseBytesAreOffRecord
    ArmedIsOnRecord
PROPERTIES
    OnlyTheOvertakenCheckAgain
    CallReturns
    SessionEnds
CHECK_DEADLOCK FALSE
