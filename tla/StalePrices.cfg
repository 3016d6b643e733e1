SPECIFICATION FairSpec
CONSTANTS
    p1 = p1
    p2 = p2
    Processes = {p1}
    Mode <- JustAPI
    Prices <- TwoPrices
    MaxResigns = 1
    MaxFaults = 1
PROPERTIES
    SignersFollowPrices
\* A process may never be started.
CHECK_DEADLOCK FALSE
