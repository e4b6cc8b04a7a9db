CONSTANTS
    BOARD_SIZE = 3
    None = None
    MaxStones = 5
    MaxPrisoners = 1
    MaxPasses = 5
    PassStones = 1
SPECIFICATION Spec
INVARIANTS StringsExact SuicideExact HashExact
PROPERTIES ImplementsRules KoExact
