SPECIFICATION Spec
CONSTANTS
    r1 = r1
    Requests = {r1}
    Hello = Hello
    Initialized = Initialized
    None = None
    MostDeaths = 1
    MaxWorkers = 1
    StallPastGrace = TRUE
INVARIANTS
    NoLineIsTorn
    WorkerKnowsTheClient
    AbandonedIsSilent
