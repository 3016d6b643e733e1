\* Two OTXs, each dispatched, mined and reported at its own pace.
SPECIFICATION DispatchSpec
CONSTANTS
    N = 2
    MaxVersion = 0
    MaxFaults = 2
    Sent0 = {}
    Dear = {}
    Generic = {}
    MaxFailed = 2
    Registrations = {0}
    MaxAttempts = 2
INVARIANTS
    DispatchTypeOK
    FinalStatusIsTrue
    AcknowledgedIsActive
PROPERTIES
    ReopenedOnlyInDispatch
    OutcomeSpec
\* The jobs are finite in number and nothing else happens once they ended.
CHECK_DEADLOCK FALSE
