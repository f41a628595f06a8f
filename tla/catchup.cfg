CONSTANTS
    N = 3
    Rtt <- UniformRtt
    Cmds <- OneCmd
    Ghost <- NoCmds
    Arrivals <- AtNobody
    MaxInst = 2
    MaxPhase = 1
    Suspicions <- NextThenFirst
SPECIFICATION CommittedSpec
INVARIANTS
    PhaseBacked
    ExecutablePrefix
PROPERTIES
    CommittedIsStable
CHECK_DEADLOCK FALSE
