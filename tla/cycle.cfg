CONSTANTS
    N = 3
    Rtt <- UniformRtt
    Cmds <- OneCmd
    Ghost <- NoCmds
    Arrivals <- AtNext
    MaxInst = 1
    MaxPhase = 4
    Suspicions <- AnyoneAlways
SPECIFICATION CycleSpec
INVARIANTS
    PhaseBacked
    ArmageddonIsTerminal
CHECK_DEADLOCK FALSE
