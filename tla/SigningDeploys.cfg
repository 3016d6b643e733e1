\* Two concurrent contract deployments signed by the master.
SPECIFICATION Spec
CONSTANTS
    Alice = Alice
    Bob = Bob
    master = master
    r1 = r1
    r2 = r2
    Accounts = {Alice}
    Active0 = {}
    Master = master
    Requests = {r1, r2}
    Kinds = {"STANDARD_TOKEN_DEPLOY", "EXPIRING_TOKEN_DEPLOY", "DEMURRAGE_TOKEN_DEPLOY", "POOL_DEPLOY"}
    MaxAttempts = 2
    MaxFaults = 2
    MaxPerPage = 2
    FirstNonce <- NoneRegistered
SYMMETRY RequestSymmetry
INVARIANTS
    PlansWhole
    AddressesAreDeployed
\* The requests are finite in number: when all are settled, nothing happens.
CHECK_DEADLOCK FALSE
