\* No re-signing: what is mined is settled, under two faults.
SPECIFICATION FairUnlockerSpec
CONSTANTS
    N = 2
    MaxVersion = 0
    MaxFaults = 2
    Sent0 = {0}
    Dear = {}
    Generic = {}
    MaxFailed = 1
    Registrations = {0}
    MaxAttempts = 1
    Unlockers = {u1}
    Creations = {1}
    NoReceipt = {"nil", "error"}
PROPERTIES
    MinedAreSettled
    RegisteredBecomeActive
\* When every OTX is settled nothing more happens.
CHECK_DEADLOCK FALSE
