SPECIFICATION MCSpec
CONSTANTS
    t1 = t1
    t2 = t2
    NoTick = NoTick
    Ticks <- MCTicks
    Volume = 4
    MinVolume = 1
    Step = 1
    RLevels <- OneLevel
    Percents <- Quarter
    CloseAtR = 2
    EvenAtR = 1
    RuleAt = 1
    RuleVolume = 3
    MaxMark = 2
    MaxMoves = 1
    MaxFaults = 1
    m1 = m1
    m2 = m2
    c1 = c1
    None = None
    Keep = Keep
    Mt5 = {m1, m2}
    CTrader = {c1}
    Legacy = c1
    BrokerOf <- MCBrokerOf
    Logins = {1, 2}
    Profiles = {"p", "q"}
    Servers = {"s"}
    Forms <- MCForms
    Patches <- MCPatches
    Beats <- MCBeats
    Starts <- MCStarts
    Posts = {1, 2}
    MaxStops = 1
    Flows = {1}
    Visits = {1, 2, 3, 4}
    MaxTokens = 4
    Nobody = Nobody
INVARIANTS
    EntryClosesOnce
    RunnerStays
    RegistryAgrees
    VaultIsCurrent
SYMMETRY Alike
CHECK_DEADLOCK FALSE
