SPECIFICATION WorkerSpec
CONSTANTS
    Requests = {r1, r2, r3}
    PoolMax = 2
    Backends = {TRUE, FALSE}
    PutsMax = 2
INVARIANTS WorkerTypeOK ResourcesOutliveHandlers
PROPERTIES EveryRequestAnswered StopCompletes
