SPECIFICATION FairTableSpec
CONSTANTS
    p1 = p1
    p2 = p2
    Procs = {p1, p2}
    Nobody = Nobody
    Old = Old
    Slots <- Blocks
    Days <- Plans
    MaxFaults = 2
INVARIANTS
    LossHasACause
CHECK_DEADLOCK FALSE

    
