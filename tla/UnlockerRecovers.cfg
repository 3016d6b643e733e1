\* Two OTXs, refused, evicted, cancelled or crashed upon; the first, already in
\* the network, has become too cheap. The client returns nil for no receipt.
SPECIFICATION FairUnlockerSpec
CONSTANTS
    N = 2
    MaxVersion = 1
    MaxFaults = 2
    Sent0 = {0}
    Dear = {0}
    Generic = {}
    MaxFailed = 2
    Registrations = {}
    MaxAttempts = 1
    Unlockers = {u1}
    Creations = {}
    NoReceipt = {"nil"}
PROPERTIES
    OTXsGetMined
    OrphansRecovered
\* When every OTX is settled nothing more happens.
CHECK_DEADLOCK FALSE
