SPECIFICATION InstallSpec
CONSTANTS
    Runs = {r1, r2, r3}
    Components = {"n0xis", "mcp"}
    Main = "n0xis"
    Versions = {1, 2, 3}
    Files <- MCFiles
    OtherFiles = {"own"}
    Entry <- MCEntry
    VersionOf <- MCVersionOf
    None = None
SYMMETRY RunSymmetry
CHECK_DEADLOCK FALSE
INVARIANTS
    TypeOK
    RunningComponentLast
    HoldCoversRollback
    TempsAreFree
PROPERTIES
    InstallKeepsWhatItReplaces
    UntouchedSinceFetch
    ImplementsInstallation
