SPECIFICATION FairSpec
CONSTANTS
    a = a  b = b  c = c  o1 = o1  gold = gold
    NoIntent = NoIntent
    Intents = {a, b, c}
    Origins = {o1}
    OriginOf <- OneLine
    DigestOf <- SameAndNew
    SymbolOf <- OneSymbol
    MaxFaults = 2
INVARIANTS
    AtMostOneClick
PROPERTIES
    KeepsContract
    EntrySettles
CHECK_DEADLOCK FALSE
