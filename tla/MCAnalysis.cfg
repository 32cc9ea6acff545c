SPECIFICATION AnalysisSpec
CONSTANTS
    Families <- MCFamilies
    Modulus = 3
    Programs <- MCPrograms
    DepthLimit = 4
    MaxDupDepth = 4
    Rounds = 4
    Fuel = 60
INVARIANTS
    DominatorTreesAreExact
    SsaReadsTheSame
    TextReadsTheSame
    ReturnIsForTheCaller
    CleanTextRunsTheSame
    GotosHaveLabels
CHECK_DEADLOCK FALSE
