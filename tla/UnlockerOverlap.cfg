\* A run of the worker and one of the command overlap and may re-sign nonce 0
\* at two different prices; nonce 1, a creation, is never re-signed; one fault.
SPECIFICATION CommandSpec
CONSTANTS
    N = 2
    MaxVersion = 2
    MaxFaults = 1
    Sent0 = {}
    Dear = {0, 1}
    Generic = {}
    MaxFailed = 2
    Registrations = {}
    MaxAttempts = 1
    Unlockers = {u1, c1}
    Commands = {c1}
    Creations = {1}
    NoReceipt = {"nil", "error"}
INVARIANT
    FinalStatusIsTrue
\* When every OTX is settled nothing more happens.
CHECK_DEADLOCK FALSE
