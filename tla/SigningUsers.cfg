\* Two requests of one account, of any of the user kinds, with their refills.
SPECIFICATION Spec
CONSTANTS
    Alice = Alice
    Bob = Bob
    master = master
    r1 = r1
    r2 = r2
    Accounts = {Alice}
    Active0 = {Alice}
    Master = master
    Requests = {r1, r2}
    Kinds = {"TOKEN_TRANSFER", "TOKEN_SWEEP", "POOL_SWAP", "POOL_DEPOSIT", "ETH_SEND_TRANSACTION"}
    MaxAttempts = 2
    MaxFaults = 1
    MaxPerPage = 2
    FirstNonce <- OneRegistered
SYMMETRY RequestSymmetry
INVARIANTS
    TypeOK
    NoncesUnique
    NoncesWithoutGap
    IdsFollowNonces
    CompletedJobsAreSigned
    PagesAdjoin
PROPERTIES
    VisibleInIdOrder
    PagesStable
    LedgerSpec
\* The requests are finite in number: when all are settled, nothing happens.
CHECK_DEADLOCK FALSE
