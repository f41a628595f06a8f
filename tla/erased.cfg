CONSTANTS
    N = 3
    Rtt <- UniformRtt
    Cmds <- OneCmd
    Ghost <- OneCmd
    Arrivals <- AtFirst
    MaxInst = 2
    MaxPhase = 1
    Suspicions <- OnceByNext
SPECIFICATION Spec
INVARIANTS
    ExecutablePrefix
CHECK_DEADLOCK FALSE
