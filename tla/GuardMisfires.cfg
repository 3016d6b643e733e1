\* One OTX that must be re-signed, the account's last.
SPECIFICATION FairUnlockerSpec
CONSTANTS
    N = 1
    MaxVersion = 1
    MaxFaults = 0
    Sent0 = {}
    Dear = {0}
    Generic = {}
    MaxFailed = 2
    Registrations = {}
    MaxAttempts = 1
    Unlockers = {u1}
    Creations = {}
    NoReceipt = {"nil"}
PROPERTIES
    GuardRecovers
\* When every OTX is settled nothing more happens.
CHECK_DEADLOCK FALSE
