\* What the program promises for the timeout.
SPECIFICATION Spec
CONSTANTS
    N = 2
    MaxGames = 3
    ServerOrders = {"selfplay"}
    LeftStored <- LeftNone
    LeftKept = 0
    Timeouts = TRUE
    MaxStarts = 1
INVARIANTS RunningGamesSaved
CHECK_DEADLOCK FALSE
