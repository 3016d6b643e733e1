------------------------------ MODULE Signing ------------------------------
(***************************************************************************)
(* The signing side of eth-custodial: HTTP handlers insert River jobs, and *)
(* each sign job runs one Postgres transaction that acquires nonces, signs *)
(* and stores the transactions (OTXs) of its plan together with their      *)
(* dispatch rows and DISPATCH jobs.  Jobs run concurrently in any number   *)
(* of worker processes, fail and are retried, and a process may die at any *)
(* point, also between the commit and River's record of it.                *)
(*                                                                         *)
(* One record of otx stands for an otx row, its dispatch row (PENDING) and *)
(* its DISPATCH job, which the code always inserts in the same Postgres    *)
(* transaction.  Postgres runs at READ COMMITTED: the UPDATE in            *)
(* acquire-nonce locks the signer's noncestore row until the transaction   *)
(* ends; the identity column otx.id is a sequence, which no rollback gives *)
(* back.  Events published on the bus and key material are left out.       *)
(***************************************************************************)
EXTENDS Integers, Sequences

CONSTANTS Accounts,     \* custodial accounts (addresses)
          Master,       \* the master signer
          Active0,      \* accounts registered and activated before the run
          FirstNonce,   \* [Signers -> Nat]: noncestore at the start
          Requests,     \* requests the HTTP API receives
          Kinds,        \* kinds of requests considered, a subset of AllKinds
          MaxAttempts,  \* River's limit on a job's attempts (25 by default)
          MaxFaults     \* bound: failures, lost replies and crashes in a run

Signers == Accounts \cup {Master}

(***************************************************************************)
(* Plans: the OTXs a sign job inserts, in order.  A step's "uses" are the  *)
(* earlier steps whose contract address its payload embeds, computed from  *)
(* their nonces with CreateAddress before anything has been mined.         *)
(***************************************************************************)
Step(type, uses) == [type |-> type, uses |-> uses]

TokenTransferPlan == <<Step("TOKEN_TRANSFER", {})>>

TokenSweepPlan == <<Step("TOKEN_SWEEP", {})>>

(* The allowance is reset before it is set, then used.                     *)
PoolSwapPlan == << Step("TOKEN_APPROVE", {}), Step("TOKEN_APPROVE", {}),
                   Step("POOL_SWAP", {}) >>

PoolDepositPlan == << Step("TOKEN_APPROVE", {}), Step("TOKEN_APPROVE", {}),
                      Step("POOL_DEPOSIT", {}) >>

AccountCreatePlan == <<Step("ACCOUNT_REGISTER", {})>>

GasRefillPlan == <<Step("GAS_REFILL", {})>>

EthSendTransactionPlan == <<Step("GENERIC_SIGN", {})>>

(* Mutant: the token is added to the index before it is deployed.          *)
TokenDeployPlanIndexFirst(otxType) ==
    << Step("TOKEN_INDEX_ADD", {}), Step(otxType, {}),
       Step("TOKEN_TRANSFER", {1}), Step("TRANSFER_OWNERSHIP", {1}) >>

(* otxType is STANDARD_ or EXPIRING_TOKEN_DEPLOY by the request's expiry.  *)
TokenDeployPlan(otxType) ==
    << Step(otxType, {}), Step("TOKEN_INDEX_ADD", {1}),
       Step("TOKEN_TRANSFER", {1}), Step("TRANSFER_OWNERSHIP", {1}) >>

DemurrageTokenDeployPlan ==
    << Step("DEMURRAGE_TOKEN_DEPLOY", {}), Step("TOKEN_INDEX_ADD", {1}),
       Step("TOKEN_TRANSFER", {1}), Step("TRANSFER_OWNERSHIP", {1}) >>

PoolContracts ==
    << Step("TOKEN_INDEX_DEPLOY", {}), Step("LIMITER_DEPLOY", {}),
       Step("SWAPPOOL_DEPLOY", {1, 2}), Step("PRICEINDEXQUOTER_DEPLOY", {}) >>

PoolWiring == << Step("POOL_INDEX_ADD", {3}), Step("SET_QUOTER", {3, 4}) >>

PoolOwnership ==
    << Step("TRANSFER_OWNERSHIP", {2}), Step("TRANSFER_OWNERSHIP", {1}),
       Step("TRANSFER_OWNERSHIP", {3}), Step("TRANSFER_OWNERSHIP", {4}) >>

PoolDeployPlan == PoolContracts \o PoolWiring \o PoolOwnership

(* Kinds of sign jobs, by the key that signs.                              *)
UserKinds == { "TOKEN_TRANSFER", "TOKEN_SWEEP", "POOL_SWAP", "POOL_DEPOSIT",
               "ETH_SEND_TRANSACTION" }

DeployKinds == { "STANDARD_TOKEN_DEPLOY", "EXPIRING_TOKEN_DEPLOY",
                 "DEMURRAGE_TOKEN_DEPLOY", "POOL_DEPLOY" }

AllKinds == UserKinds \cup DeployKinds \cup {"ACCOUNT_CREATE", "GAS_REFILL"}

PlanOf == [ k \in AllKinds |->
    CASE k = "TOKEN_TRANSFER"         -> TokenTransferPlan
      [] k = "TOKEN_SWEEP"            -> TokenSweepPlan
      [] k = "POOL_SWAP"              -> PoolSwapPlan
      [] k = "POOL_DEPOSIT"           -> PoolDepositPlan
      [] k = "ETH_SEND_TRANSACTION"   -> EthSendTransactionPlan
      [] k = "STANDARD_TOKEN_DEPLOY"  -> TokenDeployPlan("STANDARD_TOKEN_DEPLOY")
      [] k = "EXPIRING_TOKEN_DEPLOY"  -> TokenDeployPlan("EXPIRING_TOKEN_DEPLOY")
      [] k = "DEMURRAGE_TOKEN_DEPLOY" -> DemurrageTokenDeployPlan
      [] k = "POOL_DEPLOY"            -> PoolDeployPlan
      [] k = "ACCOUNT_CREATE"         -> AccountCreatePlan
      [] k = "GAS_REFILL"             -> GasRefillPlan ]

(* Kinds whose worker also inserts a GAS_REFILL job for the signer.        *)
RefillKinds == UserKinds \ {"TOKEN_SWEEP"}

(* The longest plan, POOL_DEPLOY's.                                        *)
MaxBlock == 10

OTXTypes == { "GAS_REFILL", "ACCOUNT_REGISTER", "TOKEN_TRANSFER",
              "TOKEN_APPROVE", "TOKEN_SWEEP", "POOL_SWAP", "POOL_DEPOSIT",
              "GENERIC_SIGN", "STANDARD_TOKEN_DEPLOY", "TRANSFER_OWNERSHIP",
              "TOKEN_INDEX_ADD", "TOKEN_INDEX_DEPLOY", "LIMITER_DEPLOY",
              "SWAPPOOL_DEPLOY", "PRICEINDEXQUOTER_DEPLOY", "POOL_INDEX_ADD",
              "SET_QUOTER", "DEMURRAGE_TOKEN_DEPLOY", "EXPIRING_TOKEN_DEPLOY" }

CreationTypes == { "STANDARD_TOKEN_DEPLOY", "EXPIRING_TOKEN_DEPLOY",
                   "DEMURRAGE_TOKEN_DEPLOY", "TOKEN_INDEX_DEPLOY",
                   "LIMITER_DEPLOY", "SWAPPOOL_DEPLOY",
                   "PRICEINDEXQUOTER_DEPLOY" }

(* A refill job is named by the request and the attempt that inserted it.  *)
RefillJobs == Requests \X (1 .. MaxAttempts)
Jobs == Requests \cup RefillJobs

ASSUME ConstantsAssumption ==
    /\ Master \notin Accounts
    /\ Active0 \subseteq Accounts
    /\ FirstNonce \in [Signers -> Nat]
    /\ Kinds \subseteq AllKinds \ {"GAS_REFILL"}
    /\ MaxAttempts \in Nat \ {0}
    /\ MaxFaults \in Nat
    /\ Requests \cap RefillJobs = {}

VARIABLES
    jobState,    \* River's row of a job: its state
    attempt,     \* ... and how often it was started
    args,        \* a request's kind and the account it names
    phase,       \* what the worker executing a job is doing
    acquired,    \* nonces taken by the job's open transaction
    pend,        \* OTXs inserted by the job's open transaction
    nextNonce,   \* committed noncestore.next_nonce
    nextID,      \* the sequence behind otx.id
    otx,         \* committed OTXs
    keyRows,     \* committed keystore rows per public key
    activeRows,  \* how many of them are active
    lost,        \* history: runs that committed and were never acknowledged
    faults       \* failures, lost replies and crashes so far

vars == <<jobState, attempt, args, phase, acquired, pend, nextNonce, nextID,
          otx, keyRows, activeRows, lost, faults>>

txVars  == <<acquired, pend>>
dbVars  == <<nextNonce, otx, keyRows, activeRows>>
jobVars == <<jobState, attempt, args>>
faultVars == <<lost, faults>>

OTX == [ id : Nat, signer : Signers, nonce : Nat, type : OTXTypes,
         job : Jobs, run : 1 .. MaxAttempts, idx : 1 .. MaxBlock,
         uses : SUBSET Nat ]

NoArgs == [kind |-> "NONE", from |-> Master]

KindOf(j) == IF j \in Requests THEN args[j].kind ELSE "GAS_REFILL"

(* The key a job signs with: the account's own, or the master's.           *)
Signer(j) == IF KindOf(j) \in UserKinds THEN args[j].from ELSE Master

Plan(j) == PlanOf[KindOf(j)]

PlanLen(j) == Len(Plan(j))

(* The database transaction of a run is open.                              *)
InTx(j) == phase[j] \in {"open", "nonce"}

(* Mutant: the nonce is read without locking the row.                      *)
NoRowLock(j) == FALSE

(* Another open transaction has updated this signer's noncestore row.      *)
RowLockedByOther(j) ==
    \E i \in Jobs \ {j} : acquired[i] > 0 /\ Signer(i) = Signer(j)

(* A public key must select exactly one keystore row: LoadPrivateKey scans *)
(* one row, acquire-nonce and insert-otx use it as a scalar subquery.      *)
KeyUsable(s) == keyRows[s] = 1

(* eth_sendTransaction signs in the HTTP handler; nobody retries it.       *)
AttemptLimit(j) ==
    IF KindOf(j) = "ETH_SEND_TRANSACTION" THEN 1 ELSE MaxAttempts
----------------------------------------------------------------------------
Init ==
    /\ jobState = [j \in Jobs |-> "none"]
    /\ attempt = [j \in Jobs |-> 0]
    /\ args = [r \in Requests |-> NoArgs]
    /\ phase = [j \in Jobs |-> "idle"]
    /\ acquired = [j \in Jobs |-> 0]
    /\ pend = [j \in Jobs |-> {}]
    /\ nextNonce = FirstNonce
    /\ nextID = 1
    /\ otx = {}
    /\ keyRows = [s \in Signers |-> IF s \in Active0 \cup {Master} THEN 1 ELSE 0]
    /\ activeRows = keyRows
    /\ lost = {}
    /\ faults = 0
----------------------------------------------------------------------------
(* The HTTP API.  A handler that rejects its request changes nothing.      *)

Enqueue(r, kind, from) ==
    /\ kind \in Kinds
    /\ jobState[r] = "none"
    /\ jobState' = [jobState EXCEPT ![r] = "available"]
    /\ args' = [args EXCEPT ![r] = [kind |-> kind, from |-> from]]
    /\ UNCHANGED <<attempt, phase, txVars, dbVars, nextID, faultVars>>

(* CheckKeypair scans the "active" flag of whichever row comes first.      *)
CheckKeypair(a) == activeRows[a] > 0

transferHandler(r, a) == CheckKeypair(a) /\ Enqueue(r, "TOKEN_TRANSFER", a)

sweepHandler(r, a) == CheckKeypair(a) /\ Enqueue(r, "TOKEN_SWEEP", a)

poolSwapHandler(r, a) == CheckKeypair(a) /\ Enqueue(r, "POOL_SWAP", a)

poolDepositHandler(r, a) == CheckKeypair(a) /\ Enqueue(r, "POOL_DEPOSIT", a)

(* GenerateKeyPair returns an address nothing else has mentioned.          *)
accountCreateHandler(r, a) ==
    /\ keyRows[a] = 0
    /\ \A q \in Requests : args[q].from # a
    /\ Enqueue(r, "ACCOUNT_CREATE", a)

contractsERC20Handler(r) ==
    \E kind \in {"STANDARD_TOKEN_DEPLOY", "EXPIRING_TOKEN_DEPLOY"} :
        Enqueue(r, kind, Master)

contractsDemurrageERC20Handler(r) == Enqueue(r, "DEMURRAGE_TOKEN_DEPLOY", Master)

contractsPoolHandler(r) == Enqueue(r, "POOL_DEPLOY", Master)

(* No CheckKeypair here: any account with a key will do.                   *)
methodEthSendTransaction(r, a) == Enqueue(r, "ETH_SEND_TRANSACTION", a)

API(r) ==
    \/ \E a \in Accounts : \/ transferHandler(r, a)
                           \/ sweepHandler(r, a)
                           \/ poolSwapHandler(r, a)
                           \/ poolDepositHandler(r, a)
                           \/ accountCreateHandler(r, a)
                           \/ methodEthSendTransaction(r, a)
    \/ contractsERC20Handler(r)
    \/ contractsDemurrageERC20Handler(r)
    \/ contractsPoolHandler(r)
----------------------------------------------------------------------------
(* Sign jobs.                                                              *)

(* River hands an available job to a worker, which begins a transaction.   *)
Start(j) ==
    /\ jobState[j] = "available"
    /\ jobState' = [jobState EXCEPT ![j] = "running"]
    /\ attempt' = [attempt EXCEPT ![j] = @ + 1]
    /\ phase' = [phase EXCEPT ![j] = "open"]
    /\ UNCHANGED <<args, txVars, dbVars, nextID, faultVars>>

(* The row is locked from here to the end of the transaction; a second     *)
(* transaction waits, then sees what the first one committed.              *)
AcquireNonce(j) ==
    /\ phase[j] = "open"
    /\ acquired[j] < PlanLen(j)
    /\ KeyUsable(Signer(j))
    /\ ~RowLockedByOther(j)
    /\ acquired' = [acquired EXCEPT ![j] = @ + 1]
    /\ phase' = [phase EXCEPT ![j] = "nonce"]
    /\ UNCHANGED <<jobVars, pend, dbVars, nextID, faultVars>>

(* Mutant: one is subtracted twice from the new next_nonce.                *)
NewOTXOneTooLow(j) ==
    [ id |-> nextID, signer |-> Signer(j),
      nonce |-> nextNonce[Signer(j)] + acquired[j] - 2,
      type |-> Plan(j)[acquired[j]].type, job |-> j, run |-> attempt[j],
      idx |-> acquired[j], uses |-> {} ]

(* Mutant: the transactions of a plan are inserted in reverse.             *)
NewOTXReversed(j) ==
    [ id |-> nextID, signer |-> Signer(j),
      nonce |-> nextNonce[Signer(j)] + PlanLen(j) - acquired[j],
      type |-> Plan(j)[acquired[j]].type, job |-> j, run |-> attempt[j],
      idx |-> acquired[j], uses |-> {} ]

(* The OTX a job inserts for the nonce it acquired last.                   *)
NewOTX(j) ==
    LET step == Plan(j)[acquired[j]]
    IN  [ id     |-> nextID,
          signer |-> Signer(j),
          nonce  |-> nextNonce[Signer(j)] + acquired[j] - 1,
          type   |-> step.type,
          job    |-> j,
          run    |-> attempt[j],
          idx    |-> acquired[j],
          uses   |-> {p.nonce : p \in {q \in pend[j] : q.idx \in step.uses}} ]

(* Sign, InsertOTX, InsertDispatchTx.                                      *)
InsertOTX(j) ==
    /\ phase[j] = "nonce"
    /\ KeyUsable(Signer(j))
    /\ pend' = [pend EXCEPT ![j] = @ \cup {NewOTX(j)}]
    /\ nextID' = nextID + 1
    /\ phase' = [phase EXCEPT ![j] = "open"]
    /\ UNCHANGED <<jobVars, acquired, dbVars, faultVars>>

(* GasRefillWorker returns nil before signing: nextTime is in the future,  *)
(* or the faucet's check says no.                                          *)
FaucetDeclines(j) ==
    /\ KindOf(j) = "GAS_REFILL"
    /\ phase[j] = "open"
    /\ acquired[j] = 0
    /\ phase' = [phase EXCEPT ![j] = "ok"]
    /\ UNCHANGED <<jobVars, txVars, dbVars, nextID, faultVars>>

Fault == faults < MaxFaults /\ faults' = faults + 1

(* Mutant: a job may commit before its plan is complete.                   *)
CommittedEarly(j) ==
    /\ phase[j] = "open"
    /\ acquired[j] > 0
    /\ otx' = otx \cup pend[j]
    /\ nextNonce' = [nextNonce EXCEPT ![Signer(j)] = @ + acquired[j]]
    /\ keyRows' = IF KindOf(j) = "ACCOUNT_CREATE"
                  THEN [keyRows EXCEPT ![args[j].from] = @ + 1]
                  ELSE keyRows
    /\ jobState' = IF KindOf(j) \in RefillKinds
                   THEN [jobState EXCEPT ![<<j, attempt[j]>>] = "available"]
                   ELSE jobState
    /\ acquired' = [acquired EXCEPT ![j] = 0]
    /\ pend' = [pend EXCEPT ![j] = {}]
    /\ UNCHANGED <<attempt, args, nextID, activeRows>>

(* Mutant: next_nonce moves on by one, whatever the length of the plan.    *)
CommittedOneNonce(j) ==
    /\ phase[j] = "open"
    /\ acquired[j] = PlanLen(j)
    /\ otx' = otx \cup pend[j]
    /\ nextNonce' = [nextNonce EXCEPT ![Signer(j)] = @ + 1]
    /\ keyRows' = IF KindOf(j) = "ACCOUNT_CREATE"
                  THEN [keyRows EXCEPT ![args[j].from] = @ + 1]
                  ELSE keyRows
    /\ jobState' = IF KindOf(j) \in RefillKinds
                   THEN [jobState EXCEPT ![<<j, attempt[j]>>] = "available"]
                   ELSE jobState
    /\ acquired' = [acquired EXCEPT ![j] = 0]
    /\ pend' = [pend EXCEPT ![j] = {}]
    /\ UNCHANGED <<attempt, args, nextID, activeRows>>

(* Mutant: the lock on the row outlives the transaction.                   *)
CommittedHoldingLock(j) ==
    /\ phase[j] = "open"
    /\ acquired[j] = PlanLen(j)
    /\ otx' = otx \cup pend[j]
    /\ nextNonce' = [nextNonce EXCEPT ![Signer(j)] = @ + acquired[j]]
    /\ keyRows' = IF KindOf(j) = "ACCOUNT_CREATE"
                  THEN [keyRows EXCEPT ![args[j].from] = @ + 1]
                  ELSE keyRows
    /\ jobState' = IF KindOf(j) \in RefillKinds
                   THEN [jobState EXCEPT ![<<j, attempt[j]>>] = "available"]
                   ELSE jobState
    /\ pend' = [pend EXCEPT ![j] = {}]
    /\ UNCHANGED <<acquired, attempt, args, nextID, activeRows>>

(* The commit takes effect in Postgres: the OTXs and the nonces, the new   *)
(* key of ACCOUNT_CREATE, the GAS_REFILL job of a user's request.          *)
Committed(j) ==
    /\ phase[j] = "open"
    /\ acquired[j] = PlanLen(j)
    /\ otx' = otx \cup pend[j]
    /\ nextNonce' = [nextNonce EXCEPT ![Signer(j)] = @ + acquired[j]]
    /\ keyRows' = IF KindOf(j) = "ACCOUNT_CREATE"
                  THEN [keyRows EXCEPT ![args[j].from] = @ + 1]
                  ELSE keyRows
    /\ jobState' = IF KindOf(j) \in RefillKinds
                   THEN [jobState EXCEPT ![<<j, attempt[j]>>] = "available"]
                   ELSE jobState
    /\ acquired' = [acquired EXCEPT ![j] = 0]
    /\ pend' = [pend EXCEPT ![j] = {}]
    /\ UNCHANGED <<attempt, args, nextID, activeRows>>

(* Mutant: Work may return an error after it has committed, as it would if *)
(* the event were published last and a failure to publish it returned.     *)
CommitThenError(j) ==
    /\ Committed(j)
    /\ \E outcome \in {"ok", "err"} : phase' = [phase EXCEPT ![j] = outcome]
    /\ UNCHANGED faultVars

(* Work returns what the commit returned, nil.                             *)
Commit(j) ==
    /\ Committed(j)
    /\ phase' = [phase EXCEPT ![j] = "ok"]
    /\ UNCHANGED faultVars

(* The commit took effect, its reply did not arrive: Work returns an error.*)
CommitReplyLost(j) ==
    /\ Fault
    /\ Committed(j)
    /\ phase' = [phase EXCEPT ![j] = "err"]
    /\ lost' = lost \cup {<<j, attempt[j]>>}

(* Mutant: nonces are handed out outside the transaction.                  *)
RollbackKeepingNonces(j) ==
    /\ InTx(j)
    /\ phase' = [phase EXCEPT ![j] = "err"]
    /\ nextNonce' = [nextNonce EXCEPT ![Signer(j)] = @ + acquired[j]]
    /\ acquired' = [acquired EXCEPT ![j] = 0]
    /\ pend' = [pend EXCEPT ![j] = {}]
    /\ UNCHANGED <<jobVars, otx, keyRows, activeRows, nextID, lost>>

(* Mutant: Work swallows the error.                                        *)
RollbackSwallowed(j) ==
    /\ InTx(j)
    /\ phase' = [phase EXCEPT ![j] = "ok"]
    /\ acquired' = [acquired EXCEPT ![j] = 0]
    /\ pend' = [pend EXCEPT ![j] = {}]
    /\ UNCHANGED <<jobVars, dbVars, nextID, lost>>

(* Work returns an error: the deferred Rollback releases the row.          *)
Rollback(j) ==
    /\ InTx(j)
    /\ phase' = [phase EXCEPT ![j] = "err"]
    /\ acquired' = [acquired EXCEPT ![j] = 0]
    /\ pend' = [pend EXCEPT ![j] = {}]
    /\ UNCHANGED <<jobVars, dbVars, nextID, lost>>

(* A call on the way failed: the database, the node, an argument.          *)
Fail(j) == Fault /\ Rollback(j)

(* The error no retry repairs: the key does not select one row.            *)
KeyError(j) == ~KeyUsable(Signer(j)) /\ Rollback(j) /\ UNCHANGED faults

(* River's next state for a job whose run failed or vanished.              *)
Reschedule(j) ==
    jobState' = [jobState EXCEPT ![j] = IF attempt[j] < AttemptLimit(j)
                                        THEN "available" ELSE "discarded"]

(* The worker process reports the outcome of Work to River.                *)
Report(j) ==
    /\ phase[j] \in {"ok", "err"}
    /\ IF phase[j] = "ok"
       THEN jobState' = [jobState EXCEPT ![j] = "completed"]
       ELSE Reschedule(j)
    /\ phase' = [phase EXCEPT ![j] = "idle"]
    /\ UNCHANGED <<attempt, args, txVars, dbVars, nextID, faultVars>>

(* The process dies; Postgres rolls an open transaction back.  A commit    *)
(* not yet reported to River is one nobody knows of.                       *)
Crash(j) ==
    /\ Fault
    /\ phase[j] # "idle"
    /\ phase' = [phase EXCEPT ![j] = "idle"]
    /\ acquired' = [acquired EXCEPT ![j] = 0]
    /\ pend' = [pend EXCEPT ![j] = {}]
    /\ lost' = IF phase[j] = "ok" THEN lost \cup {<<j, attempt[j]>>} ELSE lost
    /\ UNCHANGED <<jobVars, dbVars, nextID>>

(* River's job rescuer finds a job marked running that nobody runs.        *)
Rescue(j) ==
    /\ jobState[j] = "running"
    /\ phase[j] = "idle"
    /\ Reschedule(j)
    /\ UNCHANGED <<attempt, args, phase, txVars, dbVars, nextID, faultVars>>

(* The tracker's CUSTODIAL_REGISTRATION event for an ACCOUNT_REGISTER OTX: *)
(* every row of the public key becomes active.                             *)
ActivateKeyPair(a) ==
    /\ \E o \in otx : o.type = "ACCOUNT_REGISTER" /\ args[o.job].from = a
    /\ activeRows[a] # keyRows[a]
    /\ activeRows' = [activeRows EXCEPT ![a] = keyRows[a]]
    /\ UNCHANGED <<jobVars, phase, txVars, nextNonce, otx, keyRows, nextID, faultVars>>

JobStep(j) ==
    \/ Start(j)
    \/ AcquireNonce(j)
    \/ InsertOTX(j)
    \/ FaucetDeclines(j)
    \/ Commit(j)
    \/ CommitReplyLost(j)
    \/ Fail(j)
    \/ KeyError(j)
    \/ Report(j)
    \/ Crash(j)
    \/ Rescue(j)

Next ==
    \/ \E r \in Requests : API(r)
    \/ \E j \in Jobs : JobStep(j)
    \/ \E a \in Accounts : ActivateKeyPair(a)

Spec == Init /\ [][Next]_vars

(* Running code keeps running: River starts available jobs, statements and *)
(* commits finish, outcomes are reported, and River rescues orphaned jobs. *)
(* Nothing is assumed of failures, crashes, requests or the tracker.       *)
Progress(j) ==
    \/ Start(j)
    \/ AcquireNonce(j)
    \/ InsertOTX(j)
    \/ Commit(j)
    \/ KeyError(j)
    \/ Report(j)
    \/ Rescue(j)

FairSpec == Spec /\ \A j \in Jobs : WF_vars(Progress(j))
----------------------------------------------------------------------------
(* Properties.                                                             *)

JobStates == {"none", "available", "running", "completed", "discarded"}
Phases == {"idle", "open", "nonce", "ok", "err"}

(* Every variable has its type: the jobs of the queue, the open            *)
(* transactions and the tables noncestore, keystore and otx.               *)
TypeOK ==
    /\ jobState \in [Jobs -> JobStates]
    /\ attempt \in [Jobs -> 0 .. MaxAttempts]
    /\ args \in [Requests -> [kind : Kinds \cup {"NONE"}, from : Signers]]
    /\ phase \in [Jobs -> Phases]
    /\ acquired \in [Jobs -> 0 .. MaxBlock]
    /\ pend \in [Jobs -> SUBSET OTX]
    /\ nextNonce \in [Signers -> Nat]
    /\ nextID \in Nat
    /\ otx \in SUBSET OTX
    /\ keyRows \in [Signers -> Nat]
    /\ activeRows \in [Signers -> Nat]
    /\ lost \in SUBSET (Jobs \X (1 .. MaxAttempts))
    /\ faults \in 0 .. MaxFaults

(* No nonce is signed twice: concurrent sign jobs of one account, retries  *)
(* and crashed runs included, AcquireNonce never gives two committed OTXs  *)
(* of a signer the same nonce.                                             *)
NoncesUnique ==
    \A o1, o2 \in otx : o1.signer = o2.signer /\ o1.nonce = o2.nonce => o1 = o2

(* No nonce is skipped: whatever failed and was rolled back in between,    *)
(* the committed OTXs of a signer use exactly the nonces below next_nonce. *)
NoncesWithoutGap ==
    \A s \in Signers :
        {o.nonce : o \in {q \in otx : q.signer = s}}
            = FirstNonce[s] .. nextNonce[s] - 1

(* ORDER BY otx.id (the account listing, the failed-OTX scan) is nonce     *)
(* order for the OTXs of one signer.                                       *)
IdsFollowNonces ==
    \A o1, o2 \in otx :
        o1.signer = o2.signer => (o1.id < o2.id <=> o1.nonce < o2.nonce)

(* An OTX that becomes visible has a larger id than every OTX of the same  *)
(* signer already visible, so a client that pages forward with the last id *)
(* it has seen as cursor (get-otx-by-account-next) misses none.            *)
VisibleInIdOrder ==
    [][\A o \in otx' \ otx, p \in otx : o.signer = p.signer => p.id < o.id]_vars

(* The OTXs of one run are all there or none is, have the types of the     *)
(* plan and take consecutive nonces, although other jobs sign with the     *)
(* same key: an approval is directly followed by the swap that spends it.  *)
PlansWhole ==
    \A o \in otx :
        LET plan == Plan(o.job)
            runOf(i) == {q \in otx : q.job = o.job /\ q.run = o.run /\ q.idx = i}
        IN  /\ o.type = plan[o.idx].type
            /\ \A i \in 1 .. Len(plan) :
                   \E q \in runOf(i) : q.nonce - i = o.nonce - o.idx

(* An address embedded before anything was mined (CreateAddress of the     *)
(* master key and a nonce) is that of a contract that an OTX of the same   *)
(* run, earlier in nonce order, does create.                               *)
AddressesAreDeployed ==
    \A o \in otx : \A n \in o.uses :
        \E p \in otx : /\ p.signer = o.signer /\ p.nonce = n
                       /\ p.job = o.job /\ p.run = o.run
                       /\ p.nonce < o.nonce
                       /\ p.type \in CreationTypes

(* A request is signed and stored a second time only if an earlier run of  *)
(* its job committed without River ever learning of it.                    *)
ReplayOnlyAfterLostRun ==
    \A o1, o2 \in otx :
        o1.job = o2.job /\ o1.run < o2.run => <<o1.job, o1.run>> \in lost

(* A job River shows as completed has its OTXs in the database, all of     *)
(* them from its last attempt (a declined refill has none).                *)
CompletedJobsAreSigned ==
    \A j \in Jobs :
        jobState[j] = "completed" /\ KindOf(j) # "GAS_REFILL" =>
            \E o \in otx : o.job = j /\ o.run = attempt[j]

(* An account has a second keystore row, which makes its key unusable for  *)
(* good, only if the ACCOUNT_CREATE job ran again after an unacknowledged  *)
(* commit: keystore.public_key is not unique.                              *)
SecondKeyOnlyAfterLostRun ==
    \A a \in Accounts :
        keyRows[a] > 1 => \E r \in Requests, n \in 1 .. MaxAttempts :
            /\ <<r, n>> \in lost
            /\ args[r] = [kind |-> "ACCOUNT_CREATE", from |-> a]

(* Every accepted job ends, and if it has more attempts than there are     *)
(* failures it ends with its transactions signed and stored: no wait for a *)
(* noncestore row lasts for ever, retries and rescues make up for errors   *)
(* and crashes.  Only a job whose key became unusable is given up.         *)
JobsComplete ==
    \A j \in Jobs :
        jobState[j] = "available" /\ AttemptLimit(j) > MaxFaults ~>
            \/ jobState[j] = "completed"
            \/ jobState[j] = "discarded" /\ ~KeyUsable(Signer(j))

(* Signing implements the nonce ledger: only whole blocks of consecutive   *)
(* nonces are handed out, each bound to one OTX, none is taken back.       *)
Ledger == INSTANCE NonceLedger
    WITH next <- nextNonce,
         signed <- {[signer |-> o.signer, nonce |-> o.nonce] : o \in otx}

LedgerSpec == Ledger!Spec
============================================================================
