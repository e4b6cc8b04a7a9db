\* What the program promises for --maxgames.
SPECIFICATION Spec
CONSTANTS
    N = 2
    MaxGames = 3
    ServerOrders = {"selfplay", "wait"}
    LeftStored <- LeftNone
    LeftKept = 0
    Timeouts = FALSE
    MaxStarts = 1
INVARIANTS GamesCompleted
CHECK_DEADLOCK FALSE
