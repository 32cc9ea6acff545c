SPECIFICATION Spec
CONSTANTS
    r1 = r1
    r2 = r2
    Requests = {r1, r2}
    Hello = Hello
    Initialized = Initialized
    None = None
    MostDeaths = 1
    MaxWorkers = 1
    StallPastGrace = FALSE
SYMMETRY RequestSymmetry
INVARIANTS
    AnsweredOnce
    NothingForgotten
PROPERTY ImplementsService
