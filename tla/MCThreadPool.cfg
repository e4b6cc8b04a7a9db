\* Three threads and four tasks: some threads sleep while others run.
\* No symmetry: it is not sound for liveness.
CONSTANTS
    t1 = t1
    t2 = t2
    t3 = t3
    k1 = k1
    k2 = k2
    k3 = k3
    k4 = k4
    Threads <- MCThreads
    Tasks <- MCTasks
SPECIFICATION FairSpec
INVARIANTS
    TypeOK
    EveryTaskOnce
    ExitRunsEverything
PROPERTIES
    TasksFinish
    JoinCompletes
