SPECIFICATION FairSpec
CONSTANTS
    p1 = p1
    p2 = p2
    Processes = {p1, p2}
    Mode <- StandaloneAndSub
    Prices <- TwoPrices
    MaxResigns = 1
    MaxFaults = 1
INVARIANTS
    TypeOK
    OneMasterKey
    OldTipOnlyInRefresh
PROPERTIES
    CleanExit
    ResignedPaysMore
    SignalledExit
    WorkersFollowPrices
\* A process may never be started.
CHECK_DEADLOCK FALSE
