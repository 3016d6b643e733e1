\* Account creation and first use of the account, under two faults and three attempts.
SPECIFICATION FairSpec
CONSTANTS
    Alice = Alice
    Bob = Bob
    master = master
    r1 = r1
    r2 = r2
    Accounts = {Alice}
    Active0 = {}
    Master = master
    Requests = {r1, r2}
    Kinds = {"ACCOUNT_CREATE", "TOKEN_TRANSFER"}
    MaxAttempts = 3
    MaxFaults = 2
    MaxPerPage = 2
    FirstNonce <- NoneRegistered
INVARIANTS
    ReplayOnlyAfterLostRun
    SecondKeyOnlyAfterLostRun
PROPERTIES
    JobsComplete
\* The requests are finite in number: when all are settled, nothing happens.
CHECK_DEADLOCK FALSE
