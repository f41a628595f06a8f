CONSTANTS
    N = 3
    Rtt <- UniformRtt
    Cmds <- OneCmd
    Ghost <- NoCmds
    Arrivals <- AtFirst
    MaxInst = 2
    MaxPhase = 1
    Suspicions <- OnceByNext
SPECIFICATION Spec
INVARIANTS
    PhaseBacked
    Agreement
    ChosenIsKept
    ChosenIsMerged
    CommitHasQuorum
    ExecutablePrefix
PROPERTIES
    NoVoteAfterRotate
    ImplementsLog
CHECK_DEADLOCK FALSE
