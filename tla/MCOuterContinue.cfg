SPECIFICATION AnalysisSpec
CONSTANTS
    Families <- MCEntryLoops
    Modulus = 3
    Programs <- MCOuterContinues
    DepthLimit = 10
    MaxDupDepth = 4
    Rounds = 4
    Fuel = 60
INVARIANT TextRunsTheSame
CHECK_DEADLOCK FALSE
