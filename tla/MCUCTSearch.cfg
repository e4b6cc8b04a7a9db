\* Thresholds 0, 0.001 and 2.0; the policy of one move varies.
\* No symmetry: it is not sound for liveness.
CONSTANTS
    Nodes <- MCNodes
    Top = "r"
    Parent <- MCParent
    Superko = {"ko"}
    Threads = {t1, t2}
    Ratios = {0, 1, 3}
    Policies <- Varying
    Drains = TRUE
    MaxSearches = 2
    MaxVisits = 3
    Slack = 0
SPECIFICATION FairSpec
INVARIANTS
    ExpandingIsALock
    PruningLeavesContender
    NothingLeftBehind
    FullNodesStayExpanded
    LinkLowersThreshold
    NoReadDuringLink
    VisitsConserved
PROPERTIES
    SearchStops
