\* Nonce 0 must be re-signed, nonce 1 is already in the network.
SPECIFICATION UnlockerSpec
CONSTANTS
    N = 2
    MaxVersion = 2
    MaxFaults = 1
    Sent0 = {1}
    Dear = {0}
    Generic = {}
    MaxFailed = 2
    Registrations = {0}
    MaxAttempts = 1
    Unlockers = {u1}
    Creations = {}
    NoReceipt = {"nil", "error"}
INVARIANTS
    UnlockerTypeOK
    SettledHashIsMined
PROPERTY
    OutcomeSpec
\* When every OTX is settled nothing more happens.
CHECK_DEADLOCK FALSE
