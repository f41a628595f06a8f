CONSTANTS
    N = 3
    Rtt <- UniformRtt
    Cmds <- TwoClients
    Ghost <- GhostOfFirst
    Arrivals <- AtLeaders
    MaxInst = 2
    MaxPhase = 0
    Suspicions <- Nobody
SPECIFICATION Spec
INVARIANTS
    TypeOK
    MockAgreement
    CommitHasQuorum
    ExecutablePrefix
    NoPanic
PROPERTIES
    ImplementsLog
CHECK_DEADLOCK FALSE
