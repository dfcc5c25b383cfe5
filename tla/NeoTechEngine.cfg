SPECIFICATION MCSpec
CONSTANTS
    Parts = {"reminder", "clock", "engine"}
    r1 = r1
    w1 = w1
    w2 = w2
    NoRequest = NoRequest
    Requests <- MCRequests
    Ops <- MCOps
    LastSync = 2
    MaxShares = 1
    MaxFaults = 2
    Handlers = {1, 2, 3, 4}
    LastHour = 2
    MaxMisses = 2
    NoHour = NoHour
    AccountLogins = {1, 2}
    Positions = {1, 2}
    Deals = {1, 2}
    MaxSeen = 1
    Nothing = Nothing
    Symbols = {"gold"}
    Products = {"gold"}
    Prices = {1}
    Profits <- Gains
    Expert = {2}
    Far = {2}
    Flows <- OneFlow
    Losses = {0, 5}
    Capital = 100
    Start = 947
    BrokerFrom = 900
    SummerFrom = 960
    SummerTo = 20160
    Delays <- Jumps
    Window = 2890
    MaxSent = 3
    MaxPoints = 2
    FirstTicket = 8
    MaxDeals = 4
    MaxEvents = 5
    MaxFlows = 1
    MaxSyncs = 2
    MaxClock = 3860
INVARIANTS
    HourIsNotSkipped
    
    EpisodesMatchBroker
    
    AdviceIsSafe
CHECK_DEADLOCK FALSE
