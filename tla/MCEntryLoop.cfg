SPECIFICATION AnalysisSpec
CONSTANTS
    Families <- MCEntryLoops
    Modulus = 3
    Programs <- MCOuterContinues
    DepthLimit = 4
    MaxDupDepth = 4
    Rounds = 4
    Fuel = 60
INVARIANT SsaReadsTheSame
CHECK_DEADLOCK FALSE
