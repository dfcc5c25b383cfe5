SPECIFICATION FairSpec
CONSTANTS
    ControlModes <- BothModes
    TakeOwnership = TRUE
    LinesOf <- LongThenForeign
    Mutations <- FirstLine
    Threshold = 2
    MaxFaults = 2
    MaxCrashes = 1
    MaxLosses <- FailoverLoses
    MaxSetups <- PrimaryIsTaken
INVARIANTS
    LineRunsOnceLocally
    ConfirmedIsHandled
PROPERTIES
    HandledIsNotRunByCloud
    UpdateIsServed
CHECK_DEADLOCK FALSE
