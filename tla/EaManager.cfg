\* One position of four steps, settings of both partial modes, one fault.
SPECIFICATION FairSpec
CONSTANTS
    Inputs <- MCInputs
    Rules <- MCRules
    Stops <- MCStops
    Lowest <- MCLowest
    Highest = 4
    Volumes = {4}
    MinVol = 1
    Dist = 1
    RollStep = 1
    Far = 50
    MaxFaults = 1
INVARIANTS PartialOnce ActsByFirstRisk
PROPERTIES ProtectionIsKept NakedIsProtected
CHECK_DEADLOCK FALSE
