SPECIFICATION MCFairSpec
CONSTANTS
    sl = sl
    be = be
    i1 = i1
    Deals <- MCDeals
    Moves <- MCMoves
    Intents <- MCIntents
    PendingCap = 2
    DeliveredCap = 2
    MaxFaults = 3
    Charts = {"c1", "c2"}
    Tasks = {"long", "short", "flat"}
    TaskOf <- Three
    Books <- SomeBooks
    Orders <- SomeOrders
    MinVol = 1
    MaxVol = 3
    Inputs <- TwoInputs
    MaxTicket = 3
    MaxMishaps = 1
INVARIANTS
    NothingIsLost
    HalfReversalIsTold
PROPERTIES
    DeliveredStaysQuiet
    NoticeIsShown
    EntryStandsAlone
    TaskIsAnswered
CHECK_DEADLOCK FALSE
