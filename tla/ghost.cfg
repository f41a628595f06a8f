CONSTANTS
    N = 3
    Rtt <- UniformRtt
    Cmds <- OneCmd
    Ghost <- OneCmd
    Arrivals <- AtNext
    MaxInst = 2
    MaxPhase = 1
    Suspicions <- OnceByNext
SPECIFICATION Spec
INVARIANTS
    MockAgreement
    Agreement
CHECK_DEADLOCK FALSE
