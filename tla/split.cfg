CONSTANTS
    N = 3
    Rtt <- UniformRtt
    Cmds <- TwoClients
    Ghost <- NoCmds
    Arrivals <- AtFirst
    MaxInst = 2
    MaxPhase = 1
    Suspicions <- OnceByNext
SPECIFICATION Spec
INVARIANTS
    Agreement
CHECK_DEADLOCK FALSE
