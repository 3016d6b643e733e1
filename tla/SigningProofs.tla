--------------------------- MODULE SigningProofs ---------------------------
(* Proofs about Signing, for every set of accounts and requests, every     *)
(* limit on attempts and every number of faults.                           *)
EXTENDS Signing, TLAPS

(* Every kind of job has a plan: one to MaxBlock OTXs of known types.      *)
LEMMA PlanLemma ==
    ASSUME NEW k \in AllKinds
    PROVE  /\ Len(PlanOf[k]) \in 1 .. MaxBlock
           /\ \A i \in 1 .. Len(PlanOf[k]) : PlanOf[k][i].type \in OTXTypes
<1>1. /\ Len(PoolDeployPlan) \in 1 .. MaxBlock
      /\ \A i \in 1 .. Len(PoolDeployPlan) : PoolDeployPlan[i].type \in OTXTypes
  BY DEF PoolDeployPlan, PoolContracts, PoolWiring, PoolOwnership, Step, OTXTypes,
     MaxBlock
<1>2. CASE k \in UserKinds
  BY <1>2 DEF UserKinds, AllKinds, PlanOf, TokenTransferPlan, TokenSweepPlan,
     PoolSwapPlan, PoolDepositPlan, EthSendTransactionPlan, Step, OTXTypes, MaxBlock
<1>3. CASE k \in DeployKinds \ {"POOL_DEPLOY"}
  BY <1>3 DEF DeployKinds, AllKinds, PlanOf, TokenDeployPlan,
     DemurrageTokenDeployPlan, Step, OTXTypes, MaxBlock
<1>4. CASE k = "POOL_DEPLOY"
  <2>1. PlanOf[k] = PoolDeployPlan
    BY <1>4 DEF DeployKinds, AllKinds, PlanOf
  <2> QED BY <1>1, <2>1, Zenon
<1>5. CASE k \in {"ACCOUNT_CREATE", "GAS_REFILL"}
  BY <1>5 DEF AllKinds, PlanOf, AccountCreatePlan, GasRefillPlan, Step, OTXTypes,
     MaxBlock
<1> QED BY <1>2, <1>3, <1>4, <1>5 DEF AllKinds

(***************************************************************************)
(* Control: what the queue's row of a job and the run of its worker have   *)
(* to do with each other.  Without it TypeOK is not inductive.             *)
(***************************************************************************)
RunInv(j) ==
    /\ jobState[j] = "none" => attempt[j] = 0
    /\ jobState[j] = "available" => attempt[j] < MaxAttempts
    /\ phase[j] # "idle" => jobState[j] = "running" /\ attempt[j] > 0
    /\ acquired[j] > 0 => InTx(j)
    /\ phase[j] = "nonce" => acquired[j] > 0
    /\ jobState[j] # "none" => acquired[j] <= PlanLen(j)

(* The refill job of an attempt is there only once the attempt committed.  *)
RefillInv(r, k) ==
    jobState[<<r, k>>] # "none" => k <= attempt[r] /\ (InTx(r) => k < attempt[r])

JobInv ==
    /\ \A r \in Requests : jobState[r] # "none" => args[r].kind \in Kinds
    /\ \A j \in Jobs : RunInv(j)
    /\ \A r \in Requests, k \in 1 .. MaxAttempts : RefillInv(r, k)

Typed == TypeOK /\ JobInv

(* A refill job is not a request.                                          *)
LEMMA JobsLemma ==
    /\ \A r \in Requests : r \in Jobs /\ r \notin RefillJobs
    /\ \A r \in Requests, k \in 1 .. MaxAttempts :
          <<r, k>> \in Jobs /\ <<r, k>> \notin Requests
BY ConstantsAssumption DEF Jobs, RefillJobs

(* A job that was submitted has a plan and a signer.                       *)
LEMMA SubmittedLemma ==
    ASSUME Typed, NEW j \in Jobs, jobState[j] # "none"
    PROVE  /\ KindOf(j) \in AllKinds
           /\ Signer(j) \in Signers
           /\ PlanLen(j) \in 1 .. MaxBlock
           /\ \A i \in 1 .. PlanLen(j) : Plan(j)[i].type \in OTXTypes
           /\ KindOf(j) \in RefillKinds => j \in Requests
<1>1. KindOf(j) \in AllKinds
  BY ConstantsAssumption DEF Typed, JobInv, KindOf, AllKinds
<1>2. KindOf(j) \in UserKinds => j \in Requests
  BY DEF KindOf, UserKinds
<1>3. Signer(j) \in Signers
  BY <1>2 DEF Signer, Signers, Typed, TypeOK
<1> QED BY <1>1, <1>2, <1>3, PlanLemma DEF Plan, PlanLen, RefillKinds

(* The initial state is typed.                                             *)
THEOREM TypedInit == Init => Typed
<1> SUFFICES ASSUME Init PROVE Typed
  OBVIOUS
<1> USE ConstantsAssumption, JobsLemma DEF Init
<1>1. TypeOK
  BY DEF TypeOK, JobStates, Phases, NoArgs, Signers, MaxBlock
<1>2. JobInv
  BY DEF JobInv, RunInv, RefillInv, InTx
<1> QED BY <1>1, <1>2 DEF Typed

(* A request is accepted: only its own rows change.                        *)
LEMMA TypedEnqueue ==
    ASSUME Typed, NEW r \in Requests, NEW kind \in AllKinds, NEW from \in Signers,
           Enqueue(r, kind, from)
    PROVE  Typed'
<1> USE ConstantsAssumption, JobsLemma
<1>1. TypeOK'
  BY DEF Typed, TypeOK, Enqueue, JobStates, txVars, dbVars, faultVars
<1>2. acquired[r] = 0 /\ phase[r] = "idle" /\ attempt[r] = 0
  <2>1. jobState[r] = "none" /\ r \in Jobs
    BY DEF Enqueue
  <2>2. phase[r] = "idle" /\ attempt[r] = 0
    BY <2>1 DEF Typed, JobInv, RunInv
  <2>3. ~(acquired[r] > 0)
    BY <2>1, <2>2 DEF Typed, JobInv, RunInv, InTx
  <2> QED BY <2>1, <2>2, <2>3 DEF Typed, TypeOK, MaxBlock
<1>3. \A j \in Jobs : j # r => KindOf(j)' = KindOf(j) /\ PlanLen(j)' = PlanLen(j)
  BY DEF Enqueue, KindOf, Plan, PlanLen, Typed, TypeOK
<1>4. PlanLen(r)' \in Nat
  <2>1. KindOf(r)' = kind
    BY DEF Enqueue, KindOf, Typed, TypeOK
  <2> QED BY <2>1, PlanLemma DEF Plan, PlanLen, MaxBlock
<1>5. \A i \in Jobs : RunInv(i)'
  <2>1. RunInv(r)'
    BY <1>2, <1>4 DEF Typed, TypeOK, Enqueue, RunInv, InTx, txVars
  <2>2. \A i \in Jobs \ {r} : RunInv(i)'
    BY <1>3 DEF Typed, TypeOK, JobInv, Enqueue, RunInv, InTx, txVars
  <2> QED BY <2>1, <2>2
<1>6. \A q \in Requests, k \in 1 .. MaxAttempts : RefillInv(q, k)'
  BY DEF Typed, TypeOK, JobInv, Enqueue, RefillInv, InTx
<1>7. \A q \in Requests : jobState'[q] # "none" => args'[q].kind \in Kinds
  BY DEF Typed, TypeOK, JobInv, Enqueue
<1> QED BY <1>1, <1>5, <1>6, <1>7 DEF Typed, JobInv

(* Each handler inserts a job of its kind.                                 *)
LEMMA TypedAPI ==
    ASSUME Typed, NEW r \in Requests, API(r)
    PROVE  Typed'
BY TypedEnqueue DEF API, transferHandler, sweepHandler, poolSwapHandler,
   poolDepositHandler, accountCreateHandler, methodEthSendTransaction,
   contractsERC20Handler, contractsDemurrageERC20Handler, contractsPoolHandler,
   AllKinds, UserKinds, DeployKinds, Signers

(* The steps of a job leave the arguments of all jobs alone.               *)
LEMMA ArgsLemma ==
    ASSUME UNCHANGED args, NEW j
    PROVE  /\ KindOf(j)' = KindOf(j)
           /\ PlanLen(j)' = PlanLen(j)
           /\ Signer(j)' = Signer(j)
           /\ Plan(j)' = Plan(j)
           /\ AttemptLimit(j)' = AttemptLimit(j)
BY DEF KindOf, Signer, Plan, PlanLen, AttemptLimit

(* Starting a job keeps types and control.                                 *)
LEMMA TypedStart ==
    ASSUME Typed, NEW j \in Jobs, Start(j)
    PROVE  Typed'
<1> USE ConstantsAssumption, JobsLemma
<1>1. attempt[j] < MaxAttempts /\ RunInv(j)
  BY DEF Typed, JobInv, RunInv, Start
<1>2. TypeOK'
  BY <1>1 DEF Typed, TypeOK, Start, JobStates, Phases, txVars, dbVars, faultVars
<1>3. \A i : PlanLen(i)' = PlanLen(i)
  BY ArgsLemma DEF Start
<1>4. \A i \in Jobs : RunInv(i)'
  <2>1. RunInv(j)'
    BY <1>1, <1>3 DEF Typed, TypeOK, RunInv, Start, InTx, txVars
  <2>2. \A i \in Jobs \ {j} : RunInv(i)'
    BY <1>3 DEF Typed, TypeOK, JobInv, RunInv, Start, InTx, txVars
  <2> QED BY <2>1, <2>2
<1>5. ASSUME NEW r \in Requests, NEW k \in 1 .. MaxAttempts
      PROVE  RefillInv(r, k)'
  <2>1. RefillInv(r, k) /\ attempt[r] \in Nat
    BY DEF Typed, TypeOK, JobInv
  <2>2. CASE r = j
    BY <2>1, <2>2 DEF RefillInv, Start, InTx, Typed, TypeOK
  <2>3. CASE r # j
    BY <2>1, <2>3 DEF RefillInv, Start, InTx, Typed, TypeOK
  <2> QED BY <2>2, <2>3
<1>6. \A r \in Requests : jobState'[r] # "none" => args'[r].kind \in Kinds
  BY DEF Typed, TypeOK, JobInv, Start
<1> QED BY <1>2, <1>4, <1>5, <1>6 DEF Typed, JobInv

(* Acquiring a nonce keeps types and control.                              *)
LEMMA TypedAcquireNonce ==
    ASSUME Typed, NEW j \in Jobs, AcquireNonce(j)
    PROVE  Typed'
<1> USE ConstantsAssumption, JobsLemma
<1>1. RunInv(j) /\ jobState[j] # "none"
  BY DEF Typed, JobInv, RunInv, AcquireNonce
<1>2. PlanLen(j) \in 1 .. MaxBlock
  BY <1>1, SubmittedLemma
<1>3. acquired[j] + 1 \in 0 .. MaxBlock /\ acquired[j] + 1 > 0
  <2>1. acquired[j] \in 0 .. MaxBlock
    BY DEF Typed, TypeOK
  <2>2. acquired[j] < PlanLen(j)
    BY DEF AcquireNonce
  <2> QED BY <1>2, <2>1, <2>2 DEF MaxBlock
<1>4. TypeOK'
  BY <1>3 DEF Typed, TypeOK, AcquireNonce, Phases, jobVars, dbVars, faultVars
<1>5. \A i : PlanLen(i)' = PlanLen(i)
  BY ArgsLemma DEF AcquireNonce, jobVars
<1>6. RunInv(j)'
  <2>1. /\ acquired'[j] = acquired[j] + 1 /\ phase'[j] = "nonce"
        /\ jobState'[j] = jobState[j] /\ attempt'[j] = attempt[j]
        /\ phase[j] = "open" /\ acquired[j] < PlanLen(j)
    BY DEF AcquireNonce, jobVars, Typed, TypeOK
  <2>2. jobState[j] = "running" /\ attempt[j] > 0
    BY <1>1, <2>1 DEF RunInv
  <2>3. acquired[j] \in Nat /\ PlanLen(j) \in Nat
    BY <1>2 DEF Typed, TypeOK, MaxBlock
  <2> QED BY <1>3, <1>5, <2>1, <2>2, <2>3 DEF RunInv, InTx
<1>7. \A i \in Jobs \ {j} : RunInv(i)'
  BY <1>5 DEF Typed, TypeOK, JobInv, RunInv, AcquireNonce, InTx, jobVars
<1>8. \A r \in Requests, k \in 1 .. MaxAttempts : RefillInv(r, k)'
  BY DEF Typed, TypeOK, JobInv, RefillInv, AcquireNonce, InTx, jobVars
<1> QED BY <1>4, <1>6, <1>7, <1>8 DEF Typed, JobInv, AcquireNonce, jobVars

(* What InsertOTX inserts is an OTX.                                       *)
LEMMA NewOTXLemma ==
    ASSUME Typed, NEW j \in Jobs, phase[j] = "nonce"
    PROVE  NewOTX(j) \in OTX
<1>1. RunInv(j)
  BY DEF Typed, JobInv
<1>2. jobState[j] # "none" /\ acquired[j] > 0 /\ attempt[j] > 0
  BY <1>1 DEF RunInv
<1>3. /\ PlanLen(j) \in 1 .. MaxBlock
      /\ Signer(j) \in Signers
      /\ \A i \in 1 .. PlanLen(j) : Plan(j)[i].type \in OTXTypes
  BY <1>2, SubmittedLemma
<1>4. acquired[j] \in 1 .. PlanLen(j)
  <2>1. acquired[j] \in Nat
    BY DEF Typed, TypeOK, MaxBlock
  <2>2. acquired[j] <= PlanLen(j)
    BY <1>1, <1>2 DEF RunInv
  <2> QED BY <1>2, <1>3, <2>1, <2>2 DEF MaxBlock
<1>5. attempt[j] \in 1 .. MaxAttempts /\ acquired[j] \in 1 .. MaxBlock
  BY <1>2, <1>3, <1>4, ConstantsAssumption DEF Typed, TypeOK, MaxBlock
<1>6. nextNonce[Signer(j)] \in Nat /\ nextID \in Nat
  BY <1>3 DEF Typed, TypeOK
<1>7. nextNonce[Signer(j)] + acquired[j] - 1 \in Nat
  BY <1>5, <1>6 DEF MaxBlock
<1>8. \A p \in pend[j] : p.nonce \in Nat
  BY DEF Typed, TypeOK, OTX
<1> QED BY <1>3, <1>4, <1>5, <1>6, <1>7, <1>8 DEF NewOTX, OTX

(* Inserting an OTX keeps types and control.                               *)
LEMMA TypedInsertOTX ==
    ASSUME Typed, NEW j \in Jobs, InsertOTX(j)
    PROVE  Typed'
<1> USE ConstantsAssumption, JobsLemma
<1>1. NewOTX(j) \in OTX
  BY NewOTXLemma DEF InsertOTX
<1>2. TypeOK'
  BY <1>1 DEF Typed, TypeOK, InsertOTX, Phases, jobVars, dbVars, faultVars
<1>3. \A i : PlanLen(i)' = PlanLen(i)
  BY ArgsLemma DEF InsertOTX, jobVars
<1>4. \A i \in Jobs : RunInv(i)'
  BY <1>3 DEF Typed, TypeOK, JobInv, RunInv, InsertOTX, InTx, jobVars
<1>5. \A r \in Requests, k \in 1 .. MaxAttempts : RefillInv(r, k)'
  BY DEF Typed, TypeOK, JobInv, RefillInv, InsertOTX, InTx, jobVars
<1> QED BY <1>2, <1>4, <1>5 DEF Typed, JobInv, InsertOTX, jobVars

(* A declined refill keeps types and control.                              *)
LEMMA TypedFaucetDeclines ==
    ASSUME Typed, NEW j \in Jobs, FaucetDeclines(j)
    PROVE  Typed'
<1>1. TypeOK'
  BY DEF Typed, TypeOK, FaucetDeclines, Phases, jobVars, txVars, dbVars, faultVars
<1>2. \A i : PlanLen(i)' = PlanLen(i)
  BY ArgsLemma DEF FaucetDeclines, jobVars
<1>3. \A i \in Jobs : RunInv(i)'
  BY <1>2 DEF Typed, TypeOK, JobInv, RunInv, FaucetDeclines, InTx, jobVars, txVars,
     MaxBlock
<1>4. \A r \in Requests, k \in 1 .. MaxAttempts : RefillInv(r, k)'
  BY JobsLemma DEF Typed, TypeOK, JobInv, RefillInv, FaucetDeclines, InTx, jobVars
<1> QED BY <1>1, <1>3, <1>4 DEF Typed, JobInv, FaucetDeclines, jobVars

(* The commit of a request's run is the first to insert its refill job.    *)
LEMMA TypedCommitted ==
    ASSUME Typed, NEW j \in Jobs, Committed(j),
           \/ lost' = lost \/ lost' = lost \cup {<<j, attempt[j]>>},
           NEW outcome \in {"ok", "err"}, phase' = [phase EXCEPT ![j] = outcome],
           faults' \in 0 .. MaxFaults
    PROVE  Typed'
<1> DEFINE refill == <<j, attempt[j]>>
<1> USE ConstantsAssumption, JobsLemma
<1>1. /\ RunInv(j) /\ jobState[j] = "running" /\ attempt[j] \in 1 .. MaxAttempts
      /\ InTx(j)
  BY DEF Typed, TypeOK, JobInv, RunInv, Committed, InTx
<1>2. /\ KindOf(j) \in RefillKinds => j \in Requests
      /\ Signer(j) \in Signers
  BY <1>1, SubmittedLemma
<1>3. KindOf(j) \in RefillKinds =>
          /\ refill \in Jobs \ {j} /\ jobState[refill] = "none"
          /\ refill \notin Requests
  BY <1>1, <1>2 DEF Typed, JobInv, RefillInv
<1>4. jobState' \in [Jobs -> JobStates]
  BY DEF Typed, TypeOK, Committed, JobStates
<1>5. nextNonce' \in [Signers -> Nat]
  <2>1. acquired[j] \in Nat
    BY DEF Typed, TypeOK, MaxBlock
  <2> QED BY <1>2, <2>1 DEF Typed, TypeOK, Committed
<1>6. keyRows' \in [Signers -> Nat]
  <2>1. keyRows \in [Signers -> Nat]
    BY DEF Typed, TypeOK
  <2>2. CASE KindOf(j) = "ACCOUNT_CREATE"
    <3>1. args[j].from \in Signers
      BY <2>2 DEF KindOf, Typed, TypeOK
    <3>2. keyRows[args[j].from] + 1 \in Nat
      BY <2>1, <3>1
    <3> QED BY <2>1, <2>2, <3>1, <3>2 DEF Committed
  <2> QED BY <2>1, <2>2 DEF Committed
<1>7. /\ acquired' \in [Jobs -> 0 .. MaxBlock]
      /\ pend' \in [Jobs -> SUBSET OTX]
      /\ otx' \in SUBSET OTX
      /\ phase' \in [Jobs -> Phases]
  BY DEF Typed, TypeOK, Committed, MaxBlock, Phases
<1>8. lost' \in SUBSET (Jobs \X (1 .. MaxAttempts))
  <2>1. <<j, attempt[j]>> \in Jobs \X (1 .. MaxAttempts)
    BY <1>1
  <2> QED BY <2>1 DEF Typed, TypeOK
<1>9. TypeOK'
  <2>1. /\ attempt' = attempt /\ args' = args /\ nextID' = nextID
        /\ activeRows' = activeRows
    BY DEF Committed
  <2> QED BY <1>4, <1>5, <1>6, <1>7, <1>8, <2>1 DEF Typed, TypeOK
<1>10. \A i : PlanLen(i)' = PlanLen(i)
  BY ArgsLemma DEF Committed
<1>11. jobState'[j] = "running" /\ acquired'[j] = 0 /\ attempt' = attempt
  BY <1>1, <1>3 DEF Typed, TypeOK, Committed
<1>12. ASSUME NEW i \in Jobs PROVE RunInv(i)'
  <2>1. RunInv(i) /\ attempt[i] \in Nat
    BY DEF Typed, TypeOK, JobInv
  <2>2. CASE i = j
    <3>1. PlanLen(j) \in Nat
      BY <1>1, SubmittedLemma DEF MaxBlock
    <3> QED BY <1>1, <1>10, <1>11, <2>1, <2>2, <3>1 DEF RunInv, InTx, Typed, TypeOK
  <2>3. CASE i = refill /\ KindOf(j) \in RefillKinds
    <3>1. /\ phase[i] = "idle" /\ attempt[i] = 0 /\ ~(acquired[i] > 0)
      BY <1>3, <2>1, <2>3 DEF RunInv, InTx
    <3>2. acquired[i] = 0
      BY <3>1 DEF Typed, TypeOK, MaxBlock
    <3>3. jobState'[i] = "available" /\ acquired'[i] = 0 /\ phase'[i] = "idle"
      BY <1>3, <2>3, <3>1, <3>2 DEF Committed, Typed, TypeOK
    <3>4. PlanLen(i)' \in Nat
      <4>1. KindOf(i) \in AllKinds
        BY <1>3, <2>3 DEF KindOf, AllKinds
      <4> QED BY <1>10, <4>1, PlanLemma DEF PlanLen, Plan, MaxBlock
    <3> QED BY <1>11, <3>1, <3>3, <3>4 DEF RunInv
  <2>4. CASE i # j /\ ~(i = refill /\ KindOf(j) \in RefillKinds)
    <3>1. /\ jobState'[i] = jobState[i] /\ acquired'[i] = acquired[i]
          /\ phase'[i] = phase[i]
      BY <2>4 DEF Committed, Typed, TypeOK
    <3> QED BY <1>10, <1>11, <2>1, <3>1 DEF RunInv, InTx
  <2> QED BY <2>2, <2>3, <2>4
<1>13. ASSUME NEW r \in Requests, NEW k \in 1 .. MaxAttempts
       PROVE  RefillInv(r, k)'
  <2>1. RefillInv(r, k)
    BY DEF Typed, JobInv
  <2>2. CASE <<r, k>> = refill
    BY <1>1, <1>11, <2>2 DEF RefillInv, InTx, Typed, TypeOK
  <2>3. CASE <<r, k>> # refill
    <3>1. jobState'[<<r, k>>] = jobState[<<r, k>>]
      BY <2>3 DEF Committed, Typed, TypeOK
    <3>2. InTx(r)' => InTx(r)
      BY DEF InTx, Typed, TypeOK
    <3> QED BY <1>11, <2>1, <3>1, <3>2 DEF RefillInv
  <2> QED BY <2>2, <2>3
<1>14. \A r \in Requests : jobState'[r] # "none" => args'[r].kind \in Kinds
  <2>1. \A r \in Requests : jobState'[r] = jobState[r]
    BY <1>3 DEF Committed, Typed, TypeOK
  <2> QED BY <2>1 DEF Committed, Typed, JobInv
<1> QED BY <1>9, <1>12, <1>13, <1>14 DEF Typed, JobInv

(* A commit keeps types and control,                                       *)
LEMMA TypedCommit ==
    ASSUME Typed, NEW j \in Jobs, Commit(j)
    PROVE  Typed'
BY TypedCommitted DEF Commit, faultVars, Typed, TypeOK

(* A fault stays within the bound on faults.                               *)
LEMMA FaultLemma ==
    ASSUME Typed, Fault
    PROVE  faults' \in 0 .. MaxFaults
BY ConstantsAssumption DEF Typed, TypeOK, Fault

(* and so does one whose reply is lost.                                    *)
LEMMA TypedCommitReplyLost ==
    ASSUME Typed, NEW j \in Jobs, CommitReplyLost(j)
    PROVE  Typed'
BY TypedCommitted, FaultLemma DEF CommitReplyLost

(* A transaction is rolled back, by an error or by a crash.                *)
LEMMA TypedRolledBack ==
    ASSUME Typed, NEW j \in Jobs, phase[j] # "idle",
           NEW outcome \in {"idle", "err"}, phase' = [phase EXCEPT ![j] = outcome],
           acquired' = [acquired EXCEPT ![j] = 0],
           pend' = [pend EXCEPT ![j] = {}],
           UNCHANGED <<jobVars, dbVars, nextID>>,
           lost' \in SUBSET (Jobs \X (1 .. MaxAttempts)),
           faults' \in 0 .. MaxFaults
    PROVE  Typed'
<1>1. TypeOK'
  BY DEF Typed, TypeOK, Phases, jobVars, dbVars, MaxBlock
<1>2. \A i : PlanLen(i)' = PlanLen(i)
  BY ArgsLemma DEF jobVars
<1>3. RunInv(j) /\ jobState[j] = "running" /\ attempt[j] > 0
  BY DEF Typed, JobInv, RunInv
<1>4. PlanLen(j) \in Nat
  BY <1>3, SubmittedLemma DEF MaxBlock
<1>5. RunInv(j)'
  BY <1>2, <1>3, <1>4 DEF Typed, TypeOK, RunInv, InTx, jobVars
<1>6. \A i \in Jobs \ {j} : RunInv(i)'
  BY <1>2 DEF Typed, TypeOK, JobInv, RunInv, InTx, jobVars
<1>7. \A r \in Requests, k \in 1 .. MaxAttempts : RefillInv(r, k)'
  BY JobsLemma DEF Typed, TypeOK, JobInv, RefillInv, InTx, jobVars
<1> QED BY <1>1, <1>5, <1>6, <1>7 DEF Typed, JobInv, jobVars

(* A failure, of whatever kind, keeps types and control.                   *)
LEMMA TypedFail ==
    ASSUME Typed, NEW j \in Jobs, Fail(j) \/ KeyError(j)
    PROVE  Typed'
<1>1. faults' \in 0 .. MaxFaults
  BY FaultLemma DEF Fail, KeyError, Typed, TypeOK
<1>2. lost' \in SUBSET (Jobs \X (1 .. MaxAttempts))
  BY DEF Fail, KeyError, Rollback, Typed, TypeOK
<1> QED BY <1>1, <1>2, TypedRolledBack DEF Fail, KeyError, Rollback, InTx

(* The death of a worker process keeps types and control.                  *)
LEMMA TypedCrash ==
    ASSUME Typed, NEW j \in Jobs, Crash(j)
    PROVE  Typed'
<1>1. attempt[j] \in 1 .. MaxAttempts
  BY DEF Typed, TypeOK, JobInv, RunInv, Crash
<1>2. <<j, attempt[j]>> \in Jobs \X (1 .. MaxAttempts)
  BY <1>1
<1>3. lost' \in SUBSET (Jobs \X (1 .. MaxAttempts))
  BY <1>2 DEF Crash, Typed, TypeOK
<1> QED BY <1>3, FaultLemma, TypedRolledBack DEF Crash

(* River settles a run that ended: completed, available again, discarded.  *)
LEMMA TypedSettled ==
    ASSUME Typed, NEW j \in Jobs, jobState[j] = "running",
           ~InTx(j), phase' = [phase EXCEPT ![j] = "idle"],
           \/ jobState' = [jobState EXCEPT ![j] = "completed"]
           \/ Reschedule(j),
           UNCHANGED <<attempt, args, txVars, dbVars, nextID, faultVars>>
    PROVE  Typed'
<1>1. \/ jobState' = [jobState EXCEPT ![j] = "completed"]
      \/ jobState' = [jobState EXCEPT ![j] = "discarded"]
      \/ /\ jobState' = [jobState EXCEPT ![j] = "available"]
         /\ attempt[j] < MaxAttempts
  BY ConstantsAssumption DEF Reschedule, AttemptLimit, Typed, TypeOK
<1>2. TypeOK'
  BY <1>1 DEF Typed, TypeOK, Phases, JobStates, txVars, dbVars, faultVars
<1>3. \A i : PlanLen(i)' = PlanLen(i)
  BY ArgsLemma
<1>4. RunInv(j) /\ ~(acquired[j] > 0)
  BY DEF Typed, JobInv, RunInv
<1>5. PlanLen(j) \in Nat
  BY SubmittedLemma DEF MaxBlock
<1>6. RunInv(j)'
  BY <1>1, <1>3, <1>4, <1>5 DEF Typed, TypeOK, RunInv, InTx, txVars
<1>7. \A i \in Jobs \ {j} : RunInv(i)'
  BY <1>1, <1>3 DEF Typed, TypeOK, JobInv, RunInv, InTx, txVars
<1>8. \A r \in Requests, k \in 1 .. MaxAttempts : RefillInv(r, k)'
  BY <1>1, JobsLemma DEF Typed, TypeOK, JobInv, RefillInv, InTx
<1>9. \A r \in Requests : jobState'[r] # "none" => args'[r].kind \in Kinds
  BY <1>1, JobsLemma DEF Typed, TypeOK, JobInv
<1> QED BY <1>2, <1>6, <1>7, <1>8, <1>9 DEF Typed, JobInv

(* Reporting an outcome keeps types and control.                           *)
LEMMA TypedReport ==
    ASSUME Typed, NEW j \in Jobs, Report(j)
    PROVE  Typed'
<1>1. jobState[j] = "running" /\ ~InTx(j)
  BY DEF Typed, JobInv, RunInv, Report, InTx
<1> QED BY <1>1, TypedSettled DEF Report

(* Rescuing a job keeps types and control.                                 *)
LEMMA TypedRescue ==
    ASSUME Typed, NEW j \in Jobs, Rescue(j)
    PROVE  Typed'
<1>1. ~InTx(j) /\ phase' = [phase EXCEPT ![j] = "idle"]
  BY DEF Typed, TypeOK, Rescue, InTx
<1> QED BY <1>1, TypedSettled DEF Rescue

(* The activation of a key keeps types and control.                        *)
LEMMA TypedActivateKeyPair ==
    ASSUME Typed, NEW a \in Accounts, ActivateKeyPair(a)
    PROVE  Typed'
<1>1. TypeOK'
  BY DEF Typed, TypeOK, ActivateKeyPair, jobVars, txVars, faultVars, Signers
<1>2. JobInv'
  BY ArgsLemma DEF Typed, JobInv, RunInv, RefillInv, ActivateKeyPair, InTx, jobVars,
     txVars
<1> QED BY <1>1, <1>2 DEF Typed

(* Every step of the signing side keeps types and control.                 *)
THEOREM TypedNext == Typed /\ [Next]_vars => Typed'
<1> SUFFICES ASSUME Typed, [Next]_vars PROVE Typed'
  OBVIOUS
<1>1. CASE \E r \in Requests : API(r)
  BY <1>1, TypedAPI
<1>2. CASE \E j \in Jobs : JobStep(j)
  BY <1>2, TypedStart, TypedAcquireNonce, TypedInsertOTX, TypedFaucetDeclines,
     TypedCommit, TypedCommitReplyLost, TypedFail, TypedReport, TypedCrash,
     TypedRescue DEF JobStep
<1>3. CASE \E a \in Accounts : ActivateKeyPair(a)
  BY <1>3, TypedActivateKeyPair
<1>4. CASE UNCHANGED vars
  <2>1. TypeOK'
    BY <1>4 DEF Typed, TypeOK, vars
  <2>2. JobInv'
    BY <1>4, ArgsLemma DEF Typed, JobInv, RunInv, RefillInv, InTx, vars
  <2> QED BY <2>1, <2>2 DEF Typed
<1> QED BY <1>1, <1>2, <1>3, <1>4 DEF Next

(* Every variable of the signing side has its type in every reachable      *)
(* state, and a job's row agrees with the run of its worker.               *)
THEOREM TypeCorrect == Spec => [](TypeOK /\ JobInv)
<1>1. Spec => []Typed
  BY TypedInit, TypedNext, PTL DEF Spec
<1> QED BY <1>1, PTL DEF Typed
============================================================================
