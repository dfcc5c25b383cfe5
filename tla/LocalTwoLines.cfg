SPECIFICATION FairSpec
CONSTANTS
    a = a  b = b  c = c  o1 = o1  o2 = o2  chart1 = chart1  chart2 = chart2
    NoIntent = NoIntent
    Intents = {a, b}
    Origins = {o1, o2}
    OriginOf <- TwoLines
    DigestOf <- TwoTasks
    Timed = {a}
    Closes = {a}
    Refusable = {b}
    EAs = {chart1}
    IoFaults = FALSE
    MaxCrashes = 2
INVARIANTS
    HeldIntentLeavesNoTrace
PROPERTIES
    NoReplay
    ResultIsFound
    ArmedIntentSettles
