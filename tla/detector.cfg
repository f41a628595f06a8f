CONSTANTS
    Clients = {client1}
    MaxOp = 3
    RealLat = {10000004}
    GhostLat = {1}
    ExecTime = {0, 2}
    MaxLen = 2
    SlowdownChanSize = 16
    MaxPhase = 1
    Leads = {}
    Timely = TRUE
    Nil = Nil
    client1 = client1
SPECIFICATION Spec
INVARIANTS
    Paired
    GhostEndToEnd
    Recorded
    EvidenceOfPhase
CHECK_DEADLOCK FALSE
