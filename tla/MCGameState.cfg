CONSTANTS
    BOARD_SIZE = 2
    None = None
    MaxMoves = 4
    MaxOutOfTurn = 2
SPECIFICATION GameSpec
INVARIANTS HistoryReplays SuperkoExact
