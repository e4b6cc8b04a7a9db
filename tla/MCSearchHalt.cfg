\* Two search threads, the main thread, two batch workers, batches of two.
\* No symmetry: it is not sound for liveness.
CONSTANTS
    Callers = {main, s1, s2}
    Main = main
    Workers = {w1, w2}
    BatchSize = 2
    Spurious = FALSE
SPECIFICATION FairSpec
INVARIANTS
    NoLostRequest
    ReturnedIsEvaluated
    ResumeFindsQueueEmpty
PROPERTIES
    ImplementsService
    EveryCallReturns
    StopCompletes
    CloseCompletes
