\* Two OTXs, one of them refused for lack of gas.
SPECIFICATION UnlockerSpec
CONSTANTS
    N = 2
    MaxVersion = 0
    MaxFaults = 1
    Sent0 = {}
    Dear = {}
    Generic = {}
    MaxFailed = 2
    Registrations = {}
    MaxAttempts = 1
    Unlockers = {u1}
    Creations = {}
    NoReceipt = {"nil", "error"}
PROPERTIES
    NoGasStopsSequence
\* When every OTX is settled nothing more happens.
CHECK_DEADLOCK FALSE
