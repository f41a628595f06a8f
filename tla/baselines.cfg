CONSTANTS
    N = 3
    put1 = put1
    put2 = put2
    put3 = put3
    Cmds = {put1, put2, put3}
    MaxInst = 4
    KeyOf <- SameKey
    Nil = Nil
    Elections = 1
    Flags <- Baselines
SPECIFICATION Spec
INVARIANTS
    Settled
    Agreement
    OneOrder
    Related
PROPERTIES CommittedForGood
CHECK_DEADLOCK FALSE
