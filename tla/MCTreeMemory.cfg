\* A tree of depth two, or two small trees; two workers.
\* No symmetry: it is not sound for liveness.
CONSTANTS
    i1 = i1
    i2 = i2
    i3 = i3
    i4 = i4
    t1 = t1
    t2 = t2
    Threads <- MCThreads
    PointerSize = 2
    NodeSize = 5
    Ids <- MCIds
SPECIFICATION FairSpec
INVARIANTS
    TypeOK
    AccountExact
    OneOwner
    WorkersInLiveTree
PROPERTY
    EverythingDeleted
