\* The self-play client, one process with what earlier ones left in the directory.
SPECIFICATION FairSpec
CONSTANTS
    N = 2
    MaxGames = 3
    ServerOrders = {"selfplay", "wait", "unknown"}
    LeftStored <- LeftTwo
    LeftKept = 0
    Timeouts = TRUE
    MaxStarts = 1
INVARIANTS TypeOK OneHolder QuitExact
PROPERTIES StoreEnds QuitComes
CHECK_DEADLOCK FALSE
