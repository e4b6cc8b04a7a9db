\* A trimmed node is expanded again while evaluations are halted.
CONSTANTS
    Nodes <- MCNodes
    Top = "r"
    Parent <- MCParent
    Superko = {"ko"}
    Threads = {t1, t2}
    Ratios = {0, 1}
    Policies <- Varying
    Drains = TRUE
    MaxSearches = 2
    MaxVisits = 4
    Slack = 1
SPECIFICATION Spec
SYMMETRY Symmetry
INVARIANTS
    WaitedIsExpanded
