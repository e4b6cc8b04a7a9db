\* The contender changes between two rounds of pruning.
CONSTANTS
    Nodes <- MCNodes
    Top = "r"
    Parent <- MCParent
    Superko = {}
    Threads = {t1, t2}
    Ratios = {0}
    Policies <- Stable
    Drains = TRUE
    MaxSearches = 1
    MaxVisits = 5
    Slack = 0
SPECIFICATION Spec
SYMMETRY Symmetry
INVARIANTS
    SelectionFinds
