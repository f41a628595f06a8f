CONSTANTS
    N = 3
    Rtt <- UniformRtt
    Cmds <- OneCmd
    Ghost <- OneCmd
    Arrivals <- AtLeaders
    MaxInst = 2
    MaxPhase = 0
    Suspicions <- Nobody
SPECIFICATION FairSpec
PROPERTIES
    BatchesGetExecuted
    GhostsGetCommitted
CHECK_DEADLOCK FALSE
