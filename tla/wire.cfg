CONSTANTS
    Base = 4
    BufSize = 16
    Nobody = Nobody
    Table <- Layouts
    Scenarios <- Connections
SPECIFICATION Spec
INVARIANTS
    Intact
    Complete
    CutShort
CHECK_DEADLOCK FALSE
