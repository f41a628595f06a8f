CONSTANTS
    N = 3
    Rtt <- UniformRtt
    Cmds <- NoCmds
    Ghost <- NoCmds
    Arrivals <- AtNobody
    MaxInst = 1
    MaxPhase = 1
    Suspicions <- OnceByAnyone
SPECIFICATION FairSpec
PROPERTIES
    RotationCompletes
CHECK_DEADLOCK FALSE
