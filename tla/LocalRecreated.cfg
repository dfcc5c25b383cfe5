SPECIFICATION Spec
CONSTANTS
    a = a  b = b  c = c  o1 = o1  o2 = o2  chart1 = chart1  chart2 = chart2
    NoIntent = NoIntent
    Intents = {a, b, c}
    Origins = {o1}
    OriginOf <- OneLine
    DigestOf <- NewTask
    Timed = {a}
    Closes = {}
    Refusable = {c}
    EAs = {chart1, chart2}
    IoFaults = TRUE
    MaxCrashes = 2
INVARIANTS
    AtMostOneAttempt
PROPERTIES
    KeepsContract
SYMMETRY Charts
