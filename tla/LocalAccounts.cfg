SPECIFICATION FairSpec
CONSTANTS
    Terminals = {"t1", "t2"}
    Logins = {"A", "B"}
    None = None
    Inputs <- Ins
    DefaultName <- Default
    FirstLogin <- First
    FileOrder <- Order
    Tables <- NoTable
    CommandOf <- Cmds
    MaxMoves = 3
INVARIANTS
    ActsOnItsAccount
    ActsOncePerAccount
PROPERTIES
    TableSettles
CHECK_DEADLOCK FALSE
