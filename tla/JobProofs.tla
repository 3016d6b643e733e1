----------------------------- MODULE JobProofs -----------------------------
(***************************************************************************)
(* What the committed OTXs say of the jobs that signed them: an OTX of an  *)
(* earlier attempt is there only because River never learned of its        *)
(* commit, a run's OTXs are its whole plan, and an account gets a second   *)
(* key only from a run of its own ACCOUNT_CREATE job that was repeated.    *)
(***************************************************************************)
EXTENDS NonceProofs

(* The run of a committed OTX was its job's last, and River knows or will  *)
(* be told, or nobody will ever tell it.                                   *)
Stored(o) ==
    /\ o.job \in Jobs
    /\ jobState[o.job] # "none"
    /\ o.run <= attempt[o.job]
    /\ \/ <<o.job, o.run>> \in lost
       \/ /\ o.run = attempt[o.job]
          /\ phase[o.job] = "ok" \/ jobState[o.job] = "completed"

(* The OTX is one of those its plan lists, and the others are there too.   *)
Whole(o) ==
    /\ o.type = Plan(o.job)[o.idx].type
    /\ \A i \in 1 .. PlanLen(o.job) :
          \E q \in otx : /\ q.job = o.job /\ q.run = o.run /\ q.idx = i
                         /\ q.nonce - i = o.nonce - o.idx

(* The contracts whose addresses it embeds are created before it.          *)
Deployed(o) ==
    \A n \in o.uses :
        \E p \in otx : /\ p.signer = o.signer /\ p.nonce = n
                       /\ p.job = o.job /\ p.run = o.run
                       /\ p.nonce < o.nonce
                       /\ p.type \in CreationTypes

(* The same of the OTXs of an open transaction.                            *)
Planned(j, p) ==
    /\ p.type = Plan(j)[p.idx].type
    /\ \A n \in p.uses :
          \E q \in pend[j] : q.nonce = n /\ q.idx < p.idx /\ q.type \in CreationTypes

(* A run that succeeded has left OTXs, unless the faucet declined.         *)
Signed(j) ==
    (phase[j] = "ok" \/ jobState[j] = "completed") /\ KindOf(j) # "GAS_REFILL" =>
        \E o \in otx : o.job = j /\ o.run = attempt[j]

(* Request r creates the account a.                                        *)
Creates(r, a) == args[r] = [kind |-> "ACCOUNT_CREATE", from |-> a]

(* At most one request creates an account, and the account's first key     *)
(* came with an OTX of that request.                                       *)
KeyInv ==
    /\ \A x \in lost : jobState[x[1]] # "none"
    /\ \A a \in Accounts, r, q \in Requests : Creates(r, a) /\ Creates(q, a) => r = q
    /\ \A a \in Accounts, r \in Requests :
          Creates(r, a) /\ keyRows[a] > 0 => \E o \in otx : o.job = r
    /\ SecondKeyOnlyAfterLostRun

LifeInv ==
    /\ \A o \in otx : Stored(o) /\ Whole(o) /\ Deployed(o)
    /\ \A j \in Jobs : (\A p \in pend[j] : Planned(j, p)) /\ Signed(j)
    /\ KeyInv

(* The addresses a plan's steps embed are of contracts it creates.         *)
SelfContained(plan) ==
    \A i \in 1 .. Len(plan) : \A u \in plan[i].uses :
        u \in 1 .. Len(plan) /\ plan[u].type \in CreationTypes

(* A plan embeds the addresses of contracts its own steps create.          *)
LEMMA UsesLemma == ASSUME NEW k \in AllKinds PROVE SelfContained(PlanOf[k])
<1>1. SelfContained(PoolDeployPlan)
  BY DEF SelfContained, PoolDeployPlan, PoolContracts, PoolWiring, PoolOwnership,
     Step, CreationTypes
<1>2. ASSUME NEW t \in OTXTypes PROVE SelfContained(<<Step(t, {})>>)
  BY DEF SelfContained, Step
<1>3. ASSUME NEW t \in OTXTypes
      PROVE  SelfContained(<<Step("TOKEN_APPROVE", {}), Step("TOKEN_APPROVE", {}),
                             Step(t, {})>>)
  BY DEF SelfContained, Step
<1>4. ASSUME NEW t \in {"STANDARD_TOKEN_DEPLOY", "EXPIRING_TOKEN_DEPLOY",
                        "DEMURRAGE_TOKEN_DEPLOY"}
      PROVE  SelfContained(<<Step(t, {}), Step("TOKEN_INDEX_ADD", {1}),
                 Step("TOKEN_TRANSFER", {1}), Step("TRANSFER_OWNERSHIP", {1})>>)
  <2> DEFINE plan == <<Step(t, {}), Step("TOKEN_INDEX_ADD", {1}),
                 Step("TOKEN_TRANSFER", {1}), Step("TRANSFER_OWNERSHIP", {1})>>
  <2>1. Len(plan) = 4 /\ plan[1].type = t
    BY DEF Step
  <2>2. plan[1].uses = {} /\ plan[2].uses = {1} /\ plan[3].uses = {1} /\ plan[4].uses = {1}
    BY DEF Step
  <2>3. t \in CreationTypes
    BY DEF CreationTypes
  <2> HIDE DEF plan
  <2>4. SelfContained(plan)
    BY <2>1, <2>2, <2>3 DEF SelfContained
  <2> QED BY <2>4 DEF plan
<1>5. CASE k \in {"TOKEN_TRANSFER", "TOKEN_SWEEP", "ETH_SEND_TRANSACTION",
                  "ACCOUNT_CREATE", "GAS_REFILL"}
  <2>1. \E t \in OTXTypes : PlanOf[k] = <<Step(t, {})>>
    BY <1>5 DEF PlanOf, AllKinds, UserKinds, TokenTransferPlan, TokenSweepPlan,
       EthSendTransactionPlan, AccountCreatePlan, GasRefillPlan, OTXTypes
  <2> QED BY <1>2, <2>1
<1>6. CASE k \in {"POOL_SWAP", "POOL_DEPOSIT"}
  <2>1. \E t \in OTXTypes : PlanOf[k] = <<Step("TOKEN_APPROVE", {}),
                                          Step("TOKEN_APPROVE", {}), Step(t, {})>>
    BY <1>6 DEF PlanOf, AllKinds, UserKinds, PoolSwapPlan, PoolDepositPlan, OTXTypes
  <2> QED BY <1>3, <2>1
<1>7. CASE k \in DeployKinds \ {"POOL_DEPLOY"}
  <2>1. \E t \in {"STANDARD_TOKEN_DEPLOY", "EXPIRING_TOKEN_DEPLOY",
                  "DEMURRAGE_TOKEN_DEPLOY"} :
           PlanOf[k] = <<Step(t, {}), Step("TOKEN_INDEX_ADD", {1}),
                 Step("TOKEN_TRANSFER", {1}), Step("TRANSFER_OWNERSHIP", {1})>>
    BY <1>7 DEF PlanOf, AllKinds, DeployKinds, TokenDeployPlan,
       DemurrageTokenDeployPlan
  <2> QED BY <1>4, <2>1
<1>8. CASE k = "POOL_DEPLOY"
  <2>1. PlanOf[k] = PoolDeployPlan
    BY <1>8 DEF DeployKinds, AllKinds, PlanOf
  <2> QED BY <1>1, <2>1, Zenon
<1> QED BY <1>5, <1>6, <1>7, <1>8 DEF AllKinds, UserKinds, DeployKinds

(* What TypeOK says of the jobs of OTXs.                                   *)
LEMMA OTXLemma ==
    ASSUME TypeOK, NEW o \in otx
    PROVE  /\ o.job \in Jobs /\ o.run \in Nat \ {0} /\ o.idx \in Nat \ {0}
           /\ o.run \in 1 .. MaxAttempts
BY ConstantsAssumption DEF TypeOK, OTX, MaxBlock

(* At the start nothing has been signed.                                   *)
LEMMA LifeInit == Init => LifeInv
<1> SUFFICES ASSUME Init PROVE LifeInv
  OBVIOUS
<1>1. \A a \in Accounts : ~(keyRows[a] > 1)
  BY DEF Init, Signers
<1>2. \A a \in Accounts, r \in Requests : ~Creates(r, a)
  BY DEF Init, Creates, NoArgs
<1> QED BY <1>1, <1>2 DEF Init, LifeInv, KeyInv, Signed, SecondKeyOnlyAfterLostRun

(* What steps that neither commit nor submit have in common.               *)
Quiet ==
    /\ UNCHANGED <<args, otx, keyRows>>
    /\ \A j \in Jobs : jobState[j] # "none" => jobState'[j] # "none"
    /\ lost \subseteq lost'
    /\ \A x \in lost' : x \in lost \/ jobState'[x[1]] # "none"

(* Steps that neither commit nor submit leave the books of keys right.     *)
LEMMA KeyQuiet ==
    ASSUME Typed, LifeInv, Quiet
    PROVE  KeyInv'
<1>1. \A x \in lost' : jobState'[x[1]] # "none"
  BY DEF Quiet, LifeInv, KeyInv, Typed, TypeOK
<1> QED BY <1>1 DEF Quiet, LifeInv, KeyInv, Creates, SecondKeyOnlyAfterLostRun

(* Steps of a job that commit nothing keep the rest.                       *)
LEMMA LifeQuiet ==
    ASSUME Typed, LifeInv, Quiet,
           \A j \in Jobs : \A p \in pend'[j] : Planned(j, p)',
           \A j \in Jobs : Signed(j)',
           \A o \in otx : Stored(o)'
    PROVE  LifeInv'
<1>1. KeyInv'
  BY KeyQuiet
<1>2. ASSUME NEW o \in otx PROVE (Whole(o) /\ Deployed(o))'
  BY ArgsLemma DEF Quiet, LifeInv, Whole, Deployed
<1> QED BY <1>1, <1>2 DEF Quiet, LifeInv

(* A job stays known to River, and its OTXs accounted for, while its run   *)
(* starts, acquires a nonce or is declined.                                *)
LEMMA LifeRunning ==
    ASSUME Typed, LifeInv, NEW j \in Jobs,
           Start(j) \/ AcquireNonce(j) \/ FaucetDeclines(j)
    PROVE  LifeInv'
<1>1. /\ UNCHANGED <<args, otx, keyRows, lost, pend>>
      /\ \A i \in Jobs \ {j} : /\ jobState'[i] = jobState[i]
                              /\ attempt'[i] = attempt[i] /\ phase'[i] = phase[i]
      /\ jobState'[j] = "running" /\ phase[j] # "ok" /\ jobState[j] # "completed"
      /\ jobState[j] # "none"
      /\ attempt[j] \in Nat /\ attempt'[j] \in Nat /\ attempt[j] <= attempt'[j]
      /\ phase'[j] = "ok" => KindOf(j) = "GAS_REFILL"
  <2>1. RunInv(j) /\ attempt[j] \in Nat
    BY ConstantsAssumption DEF Typed, TypeOK, JobInv
  <2>2. CASE Start(j)
    BY <2>1, <2>2 DEF Start, RunInv, txVars, dbVars, faultVars, Typed, TypeOK
  <2>3. CASE AcquireNonce(j)
    BY <2>1, <2>3 DEF AcquireNonce, RunInv, jobVars, dbVars, faultVars, Typed, TypeOK
  <2>4. CASE FaucetDeclines(j)
    BY <2>1, <2>4 DEF FaucetDeclines, RunInv, jobVars, txVars, dbVars, faultVars,
       Typed, TypeOK
  <2> QED BY <2>2, <2>3, <2>4
<1>2. \A i \in Jobs : KindOf(i)' = KindOf(i) /\ Plan(i)' = Plan(i)
  BY <1>1, ArgsLemma
<1>3. \A i \in Jobs : \A p \in pend'[i] : Planned(i, p)'
  BY <1>1, <1>2 DEF LifeInv, Planned
<1>4. \A i \in Jobs : Signed(i)'
  BY <1>1, <1>2 DEF LifeInv, Signed
<1>5. ASSUME NEW o \in otx PROVE Stored(o)'
  <2>1. Stored(o) /\ o.run \in Nat
    BY OTXLemma DEF LifeInv, Typed
  <2>2. CASE o.job = j
    BY <1>1, <2>1, <2>2 DEF Stored
  <2>3. CASE o.job # j
    BY <1>1, <2>1, <2>3 DEF Stored
  <2> QED BY <2>2, <2>3
<1>6. Quiet
  BY <1>1 DEF Quiet
<1> QED BY <1>3, <1>4, <1>5, <1>6, LifeQuiet

(* River records what it was told of a run, or that nobody runs it.        *)
LEMMA LifeReported ==
    ASSUME Typed, LifeInv, NEW j \in Jobs, Report(j) \/ Rescue(j)
    PROVE  LifeInv'
<1>1. /\ UNCHANGED <<args, otx, keyRows, lost, pend, attempt>>
      /\ \A i \in Jobs \ {j} : jobState'[i] = jobState[i] /\ phase'[i] = phase[i]
      /\ phase'[j] = "idle" /\ jobState[j] = "running" /\ jobState'[j] # "none"
      /\ jobState'[j] = "completed" <=> phase[j] = "ok"
  <2>1. RunInv(j)
    BY DEF Typed, JobInv
  <2>2. CASE Report(j)
    BY <2>1, <2>2 DEF Report, Reschedule, RunInv, txVars, dbVars, faultVars, Typed,
       TypeOK
  <2>3. CASE Rescue(j)
    BY <2>1, <2>3 DEF Rescue, Reschedule, RunInv, txVars, dbVars, faultVars, Typed,
       TypeOK
  <2> QED BY <2>2, <2>3
<1>2. \A i \in Jobs : KindOf(i)' = KindOf(i) /\ Plan(i)' = Plan(i)
  BY <1>1, ArgsLemma
<1>3. \A i \in Jobs : \A p \in pend'[i] : Planned(i, p)'
  BY <1>1, <1>2 DEF LifeInv, Planned
<1>4. \A i \in Jobs : Signed(i)'
  BY <1>1, <1>2 DEF LifeInv, Signed
<1>5. \A o \in otx : Stored(o)'
  BY <1>1 DEF LifeInv, Stored
<1>6. Quiet
  BY <1>1 DEF Quiet
<1> QED BY <1>3, <1>4, <1>5, <1>6, LifeQuiet

(* A rollback leaves no OTX; a crash after the commit loses its outcome.   *)
LEMMA LifeRolledBack ==
    ASSUME Typed, LifeInv, NEW j \in Jobs, Fail(j) \/ KeyError(j) \/ Crash(j)
    PROVE  LifeInv'
<1>1. /\ UNCHANGED <<args, otx, keyRows, attempt, jobState>>
      /\ pend' = [pend EXCEPT ![j] = {}]
      /\ \A i \in Jobs \ {j} : phase'[i] = phase[i]
      /\ phase'[j] # "ok" /\ phase[j] # "idle"
      /\ lost' = IF phase[j] = "ok" THEN lost \cup {<<j, attempt[j]>>} ELSE lost
  BY DEF Fail, KeyError, Rollback, Crash, Fault, InTx, jobVars, dbVars, Typed, TypeOK
<1>2. jobState[j] = "running"
  BY <1>1 DEF Typed, JobInv, RunInv
<1>3. \A i \in Jobs : KindOf(i)' = KindOf(i) /\ Plan(i)' = Plan(i)
  BY <1>1, ArgsLemma
<1>4. ASSUME NEW i \in Jobs, NEW p \in pend'[i] PROVE Planned(i, p)'
  <2>1. i # j /\ pend'[i] = pend[i]
    BY <1>1, <1>4 DEF Typed, TypeOK
  <2> QED BY <1>3, <1>4, <2>1 DEF LifeInv, Planned
<1>5. \A i \in Jobs : Signed(i)'
  BY <1>1, <1>2, <1>3 DEF LifeInv, Signed
<1>6. \A o \in otx : Stored(o)'
  BY <1>1, <1>2 DEF LifeInv, Stored
<1>7. Quiet
  BY <1>1, <1>2 DEF Quiet
<1> QED BY <1>4, <1>5, <1>6, <1>7, LifeQuiet

(* The next OTX of the plan, with the addresses of its earlier contracts.  *)
LEMMA LifeInsert ==
    ASSUME Typed, NonceInv, LifeInv, NEW j \in Jobs, InsertOTX(j)
    PROVE  LifeInv'
<1>0. PICK new : new = NewOTX(j)
  OBVIOUS
<1>1. /\ UNCHANGED <<args, otx, keyRows, lost, attempt, jobState>>
      /\ pend' = [pend EXCEPT ![j] = @ \cup {new}]
      /\ \A i \in Jobs \ {j} : phase'[i] = phase[i]
      /\ phase'[j] = "open" /\ phase[j] = "nonce"
  BY <1>0 DEF InsertOTX, jobVars, dbVars, faultVars, Typed, TypeOK
<1>2. jobState[j] = "running" /\ acquired[j] \in 1 .. PlanLen(j) /\ PlanLen(j) \in Nat
  <2>1. RunInv(j) /\ acquired[j] \in Nat
    BY NumbersLemma DEF Typed, JobInv
  <2>2. jobState[j] = "running" /\ acquired[j] > 0 /\ acquired[j] <= PlanLen(j)
    BY <1>1, <2>1 DEF RunInv
  <2>3. PlanLen(j) \in 1 .. MaxBlock
    BY <2>2, SubmittedLemma
  <2> QED BY <2>1, <2>2, <2>3
<1>3. \A i \in Jobs : KindOf(i)' = KindOf(i) /\ Plan(i)' = Plan(i)
  BY <1>1, ArgsLemma
<1>4. pend'[j] = pend[j] \cup {new} /\ \A i \in Jobs \ {j} : pend'[i] = pend[i]
  BY <1>1 DEF Typed, TypeOK
<1>5. /\ new.idx = acquired[j] /\ new.type = Plan(j)[acquired[j]].type
      /\ new.uses = {p.nonce : p \in {q \in pend[j] : q.idx \in Plan(j)[acquired[j]].uses}}
  BY <1>0 DEF NewOTX
<1>6. Planned(j, new)'
  <2> SUFFICES ASSUME NEW n \in new.uses
               PROVE  \E q \in pend[j] : /\ q.nonce = n /\ q.idx < new.idx
                                         /\ q.type \in CreationTypes
    BY <1>3, <1>4, <1>5 DEF Planned
  <2>1. PICK q \in pend[j] : q.nonce = n /\ q.idx \in Plan(j)[acquired[j]].uses
    BY <1>5
  <2>2. q.idx < acquired[j]
    BY <1>1 DEF NonceInv, PendInv, PendOTX
  <2>3. q.type = Plan(j)[q.idx].type
    BY DEF LifeInv, Planned
  <2>4. KindOf(j) \in AllKinds
    BY <1>2, SubmittedLemma
  <2>5. Plan(j)[q.idx].type \in CreationTypes
    BY <1>2, <2>1, <2>4, UsesLemma DEF SelfContained, Plan, PlanLen
  <2> QED BY <1>5, <2>1, <2>2, <2>3, <2>5
<1>7. ASSUME NEW i \in Jobs, NEW p \in pend'[i] PROVE Planned(i, p)'
  <2>1. CASE p \in pend[i]
    BY <1>3, <1>4, <2>1 DEF LifeInv, Planned
  <2>2. CASE i = j /\ p = new
    BY <1>6, <2>2
  <2> QED BY <1>4, <2>1, <2>2
<1>8. \A i \in Jobs : Signed(i)'
  BY <1>1, <1>2, <1>3 DEF LifeInv, Signed
<1>9. \A o \in otx : Stored(o)'
  BY <1>1 DEF LifeInv, Stored
<1>10. Quiet
  BY <1>1 DEF Quiet
<1> QED BY <1>7, <1>8, <1>9, <1>10, LifeQuiet

(* A new job has signed nothing, and names an account no other job creates.*)
LEMMA LifeAPI ==
    ASSUME Typed, NonceInv, LifeInv, NEW r \in Requests, API(r)
    PROVE  LifeInv'
<1>1. PICK kind, from :
         /\ Enqueue(r, kind, from)
         /\ kind = "ACCOUNT_CREATE" => accountCreateHandler(r, from) /\ from \in Accounts
  BY DEF API, transferHandler, sweepHandler, poolSwapHandler, poolDepositHandler,
     accountCreateHandler, methodEthSendTransaction, contractsERC20Handler,
     contractsDemurrageERC20Handler, contractsPoolHandler
<1>2. /\ UNCHANGED <<otx, keyRows, lost, attempt, phase, pend>>
      /\ \A i \in Jobs \ {r} : jobState'[i] = jobState[i]
      /\ \A q \in Requests \ {r} : args'[q] = args[q]
      /\ args'[r] = [kind |-> kind, from |-> from]
      /\ jobState[r] = "none" /\ jobState'[r] = "available" /\ r \in Jobs
  BY <1>1, JobsLemma DEF Enqueue, txVars, dbVars, faultVars, Typed, TypeOK
<1>3. \A i \in Jobs \ {r} : KindOf(i)' = KindOf(i) /\ Plan(i)' = Plan(i)
                            /\ PlanLen(i)' = PlanLen(i)
  BY <1>2 DEF KindOf, Plan, PlanLen
<1>4. phase[r] = "idle" /\ pend[r] = {}
  <2>1. RunInv(r) /\ PendInv(r)
    BY <1>2 DEF Typed, JobInv, NonceInv
  <2>2. ~(acquired[r] > 0) /\ phase[r] = "idle"
    BY <1>2, <2>1 DEF RunInv, InTx
  <2> QED BY <1>2, <2>1, <2>2, NothingLemma
<1>5. \A o \in otx : o.job \in Jobs \ {r}
  BY <1>2 DEF LifeInv, Stored
<1>6. \A o \in otx : (Stored(o) /\ Whole(o) /\ Deployed(o))'
  <2> SUFFICES ASSUME NEW o \in otx PROVE (Stored(o) /\ Whole(o) /\ Deployed(o))'
    OBVIOUS
  <2>1. o.job \in Jobs \ {r} /\ Stored(o) /\ Whole(o) /\ Deployed(o)
    BY <1>5 DEF LifeInv
  <2>2. Stored(o)'
    BY <1>2, <2>1 DEF Stored
  <2>3. Whole(o)'
    BY <1>2, <1>3, <2>1 DEF Whole
  <2>4. Deployed(o)'
    BY <1>2, <2>1 DEF Deployed
  <2> QED BY <2>2, <2>3, <2>4
<1>7. \A i \in Jobs : \A p \in pend'[i] : Planned(i, p)'
  BY <1>2, <1>3, <1>4 DEF LifeInv, Planned
<1>8. \A i \in Jobs : Signed(i)'
  BY <1>2, <1>3, <1>4 DEF LifeInv, Signed
<1>9. KeyInv'
  <2>1. \A x \in lost' : jobState'[x[1]] # "none"
    BY <1>2 DEF LifeInv, KeyInv, Typed, TypeOK
  <2>2. \A x \in lost : x[1] # r
    BY <1>2 DEF LifeInv, KeyInv
  <2>3. \A a \in Accounts, q \in Requests \ {r} : Creates(q, a)' <=> Creates(q, a)
    BY <1>2 DEF Creates
  <2>4. ASSUME NEW a \in Accounts, Creates(r, a)'
        PROVE  keyRows[a] = 0 /\ \A q \in Requests \ {r} : ~Creates(q, a)
    <3>1. kind = "ACCOUNT_CREATE" /\ from = a
      BY <1>2, <2>4 DEF Creates
    <3>2. keyRows[a] = 0 /\ \A q \in Requests : args[q].from # a
      BY <1>1, <3>1 DEF accountCreateHandler
    <3> QED BY <3>2 DEF Creates
  <2>5. \A a \in Accounts, p, q \in Requests : (Creates(p, a) /\ Creates(q, a))' => p = q
    BY <2>3, <2>4 DEF LifeInv, KeyInv
  <2>6. \A a \in Accounts, q \in Requests :
           Creates(q, a)' /\ keyRows'[a] > 0 => \E o \in otx' : o.job = q
    BY <1>2, <2>3, <2>4 DEF LifeInv, KeyInv
  <2>7. SecondKeyOnlyAfterLostRun'
    <3> SUFFICES ASSUME NEW a \in Accounts, keyRows[a] > 1
                 PROVE  \E q \in Requests, n \in 1 .. MaxAttempts :
                            <<q, n>> \in lost /\ Creates(q, a)'
      BY <1>2 DEF SecondKeyOnlyAfterLostRun, Creates
    <3>1. PICK q \in Requests, n \in 1 .. MaxAttempts :
              <<q, n>> \in lost /\ Creates(q, a)
      BY DEF LifeInv, KeyInv, SecondKeyOnlyAfterLostRun, Creates
    <3>2. q # r
      BY <2>2, <3>1
    <3> QED BY <2>3, <3>1, <3>2
  <2> QED BY <2>1, <2>5, <2>6, <2>7 DEF KeyInv
<1> QED BY <1>2, <1>6, <1>7, <1>8, <1>9 DEF LifeInv

(* A commit adds the whole plan of its run, which is the first of its job  *)
(* or follows only runs nobody knows of.                                   *)
LEMMA LifeCommitted ==
    ASSUME Typed, NonceInv, LifeInv, NEW j \in Jobs, Commit(j) \/ CommitReplyLost(j)
    PROVE  LifeInv'
<1>1. /\ phase[j] = "open" /\ acquired[j] = PlanLen(j)
      /\ UNCHANGED <<args, attempt>>
      /\ otx' = otx \cup pend[j]
      /\ pend'[j] = {} /\ \A i \in Jobs \ {j} : pend'[i] = pend[i]
      /\ \A i \in Jobs \ {j} : phase'[i] = phase[i]
      /\ lost \subseteq lost' /\ \A x \in lost' : x \in lost \/ x[1] = j
      /\ phase'[j] = "ok" \/ (phase'[j] = "err" /\ <<j, attempt[j]>> \in lost')
  BY DEF Commit, CommitReplyLost, Committed, faultVars, Typed, TypeOK
<1>2. Committed(j)
  BY DEF Commit, CommitReplyLost
<1>3. jobState[j] = "running" /\ attempt[j] > 0 /\ attempt[j] \in 1 .. MaxAttempts
  <2>1. RunInv(j) /\ attempt[j] \in 0 .. MaxAttempts
    BY DEF Typed, TypeOK, JobInv
  <2> QED BY <1>1, <2>1, ConstantsAssumption DEF RunInv
<1>4. /\ PlanLen(j) \in 1 .. MaxBlock /\ KindOf(j) \in AllKinds
      /\ KindOf(j) \in RefillKinds => j \in Requests
  BY <1>3, SubmittedLemma
<1>5. \A i \in Jobs : KindOf(i)' = KindOf(i) /\ Plan(i)' = Plan(i) /\ PlanLen(i)' = PlanLen(i)
  BY <1>1, ArgsLemma
(* The refill job it inserts, if any, is new.                              *)
<1>6. \A i \in Jobs : \/ jobState'[i] = jobState[i]
                      \/ jobState[i] = "none" /\ jobState'[i] = "available" /\ i # j
  <2>1. CASE KindOf(j) \in RefillKinds
    <3>1. /\ <<j, attempt[j]>> \in Jobs /\ j \in Requests
          /\ <<j, attempt[j]>> \notin Requests
      BY <1>3, <1>4, <2>1, JobsLemma
    <3>2. RefillInv(j, attempt[j]) /\ attempt[j] \in Nat
      BY <1>3, <3>1 DEF Typed, JobInv
    <3>3. jobState[<<j, attempt[j]>>] = "none"
      BY <1>1, <3>2 DEF RefillInv, InTx
    <3>4. jobState' = [jobState EXCEPT ![<<j, attempt[j]>>] = "available"]
      BY <1>2, <2>1 DEF Committed
    <3> QED BY <3>1, <3>3, <3>4 DEF Typed, TypeOK
  <2>2. CASE KindOf(j) \notin RefillKinds
    BY <1>2, <2>2 DEF Committed
  <2> QED BY <2>1, <2>2
<1>7. PendInv(j) /\ \A p \in pend[j] : Planned(j, p)
  BY DEF NonceInv, LifeInv
<1>8. ASSUME NEW o \in otx PROVE (Stored(o) /\ Whole(o) /\ Deployed(o))'
  <2>1. Stored(o) /\ Whole(o) /\ Deployed(o) /\ o.job \in Jobs
    BY DEF LifeInv, Stored
  <2>2. Stored(o)'
    <3>1. CASE o.job = j
      BY <1>1, <1>3, <1>6, <2>1, <3>1 DEF Stored
    <3>2. CASE o.job # j
      BY <1>1, <1>6, <2>1, <3>2 DEF Stored
    <3> QED BY <3>1, <3>2
  <2>3. Whole(o)'
    BY <1>1, <1>5, <2>1 DEF Whole
  <2>4. Deployed(o)'
    BY <1>1, <2>1 DEF Deployed
  <2> QED BY <2>2, <2>3, <2>4
<1>9. ASSUME NEW o \in pend[j] PROVE (Stored(o) /\ Whole(o) /\ Deployed(o))'
  <2>1. /\ o.job = j /\ o.run = attempt[j] /\ o.signer = Signer(j)
        /\ o.nonce = nextNonce[Signer(j)] + o.idx - 1 /\ o.idx \in Nat
        /\ nextNonce[Signer(j)] \in Nat
    BY <1>4, <1>7, CommittedLemma, <1>2, NumbersLemma DEF PendInv, PendOTX, Typed
  <2>2. Stored(o)'
    BY <1>1, <1>3, <1>6, <2>1 DEF Stored
  <2>3. Whole(o)'
    <3>1. ASSUME NEW i \in 1 .. PlanLen(j)
          PROVE  \E q \in pend[j] : /\ q.job = j /\ q.run = attempt[j] /\ q.idx = i
                                    /\ q.nonce - i = o.nonce - o.idx
      <4>1. PICK q \in pend[j] : q.idx = i
        BY <1>1, <1>7 DEF PendInv
      <4>2. /\ q.job = j /\ q.run = attempt[j]
            /\ q.nonce = nextNonce[Signer(j)] + q.idx - 1
        BY <1>7 DEF PendInv, PendOTX
      <4> QED BY ONLY <2>1, <4>1, <4>2, i \in Nat, o.idx \in Nat, nextNonce[Signer(j)] \in Nat
    <3> QED BY <1>1, <1>5, <1>7, <2>1, <3>1 DEF Whole, Planned
  <2>4. Deployed(o)'
    <3> SUFFICES ASSUME NEW n \in o.uses
                 PROVE  \E p \in pend[j] : /\ p.signer = o.signer /\ p.nonce = n
                                           /\ p.job = o.job /\ p.run = o.run
                                           /\ p.nonce < o.nonce
                                           /\ p.type \in CreationTypes
      BY <1>1 DEF Deployed
    <3>1. PICK p \in pend[j] : p.nonce = n /\ p.idx < o.idx /\ p.type \in CreationTypes
      BY <1>7 DEF Planned
    <3>2. /\ p.job = j /\ p.run = attempt[j] /\ p.signer = Signer(j)
          /\ p.nonce = nextNonce[Signer(j)] + p.idx - 1
      BY <1>7 DEF PendInv, PendOTX
    <3>3. p.idx \in Nat
      BY NumbersLemma DEF Typed
    <3>4. p.nonce < o.nonce
      BY <2>1, <3>1, <3>2, <3>3
    <3> QED BY <2>1, <3>1, <3>2, <3>4
  <2> QED BY <2>2, <2>3, <2>4
<1>10. ASSUME NEW i \in Jobs, NEW p \in pend'[i] PROVE Planned(i, p)'
  <2>1. i # j /\ pend'[i] = pend[i]
    BY <1>1, <1>10
  <2> QED BY <1>5, <1>10, <2>1 DEF LifeInv, Planned
<1>11. PICK first \in pend[j] : first.job = j /\ first.run = attempt[j]
  <2>1. 1 \in 1 .. acquired[j]
    BY <1>1, <1>4
  <2> QED BY <1>1, <1>7, <2>1 DEF PendInv, PendOTX
<1>12. ASSUME NEW i \in Jobs PROVE Signed(i)'
  <2>1. CASE i = j
    BY <1>1, <1>11, <2>1 DEF Signed
  <2>2. CASE i # j
    BY <1>1, <1>5, <1>6, <2>2 DEF LifeInv, Signed
  <2> QED BY <2>1, <2>2
<1>13. KeyInv'
  <2>1. \A x \in lost' : jobState'[x[1]] # "none"
    BY <1>1, <1>3, <1>6 DEF LifeInv, KeyInv, Typed, TypeOK
  <2>2. \A a, q : Creates(q, a)' <=> Creates(q, a)
    BY <1>1 DEF Creates
  <2>3. \A a \in Accounts :
           \/ keyRows'[a] = keyRows[a]
           \/ j \in Requests /\ Creates(j, a) /\ keyRows'[a] = keyRows[a] + 1
    <3>1. CASE KindOf(j) # "ACCOUNT_CREATE"
      BY <1>2, <3>1 DEF Committed
    <3>2. CASE KindOf(j) = "ACCOUNT_CREATE"
      <4>1. j \in Requests /\ args[j].kind = "ACCOUNT_CREATE"
        BY <3>2 DEF KindOf
      <4>2. args[j] = [kind |-> "ACCOUNT_CREATE", from |-> args[j].from]
        BY <4>1 DEF Typed, TypeOK
      <4>3. keyRows' = [keyRows EXCEPT ![args[j].from] = @ + 1]
        BY <1>2, <3>2 DEF Committed
      <4> QED BY <4>1, <4>2, <4>3 DEF Creates, Typed, TypeOK, Signers
    <3> QED BY <3>1, <3>2
  <2>4. \A a \in Accounts, q \in Requests :
           Creates(q, a) /\ keyRows'[a] > 0 => \E o \in otx' : o.job = q
    <3> SUFFICES ASSUME NEW a \in Accounts, NEW q \in Requests, Creates(q, a),
                        keyRows'[a] > 0
                 PROVE  \E o \in otx' : o.job = q
      OBVIOUS
    <3>1. CASE keyRows'[a] = keyRows[a]
      BY <1>1, <3>1 DEF LifeInv, KeyInv
    <3>2. CASE j \in Requests /\ Creates(j, a)
      <4>1. q = j
        BY <3>2 DEF LifeInv, KeyInv
      <4> QED BY <1>1, <1>11, <4>1
    <3> QED BY <2>3, <3>1, <3>2
  <2>5. SecondKeyOnlyAfterLostRun'
    <3> SUFFICES ASSUME NEW a \in Accounts, keyRows'[a] > 1
                 PROVE  \E r \in Requests, n \in 1 .. MaxAttempts :
                            <<r, n>> \in lost' /\ Creates(r, a)'
      BY DEF SecondKeyOnlyAfterLostRun, Creates
    <3>1. CASE keyRows[a] > 1
      BY <1>1, <2>2, <3>1 DEF LifeInv, KeyInv, SecondKeyOnlyAfterLostRun, Creates
    <3>2. CASE ~(keyRows[a] > 1)
      <4>1. keyRows[a] \in Nat
        BY DEF Typed, TypeOK, Signers
      <4>2. j \in Requests /\ Creates(j, a) /\ keyRows[a] > 0
        BY <2>3, <3>2, <4>1
      <4>3. PICK o \in otx : o.job = j
        BY <4>2 DEF LifeInv, KeyInv
      <4>4. <<j, o.run>> \in lost
        BY <1>1, <1>3, <4>3 DEF LifeInv, Stored
      <4>5. o.run \in 1 .. MaxAttempts
        BY OTXLemma DEF Typed
      <4> QED BY <1>1, <2>2, <4>2, <4>4, <4>5
    <3> QED BY <3>1, <3>2
  <2> QED BY <2>1, <2>2, <2>4, <2>5 DEF LifeInv, KeyInv
<1> QED BY <1>1, <1>8, <1>9, <1>10, <1>12, <1>13 DEF LifeInv

(* Every step of the signing side keeps the books of runs.                 *)
THEOREM LifeNext == Typed /\ NonceInv /\ LifeInv /\ [Next]_vars => LifeInv'
<1> SUFFICES ASSUME Typed, NonceInv, LifeInv, [Next]_vars PROVE LifeInv'
  OBVIOUS
<1>1. CASE \E r \in Requests : API(r)
  BY <1>1, LifeAPI
<1>2. ASSUME NEW j \in Jobs, JobStep(j) PROVE LifeInv'
  <2>1. CASE Start(j) \/ AcquireNonce(j) \/ FaucetDeclines(j)
    BY <2>1, LifeRunning
  <2>2. CASE Report(j) \/ Rescue(j)
    BY <2>2, LifeReported
  <2>3. CASE Fail(j) \/ KeyError(j) \/ Crash(j)
    BY <2>3, LifeRolledBack
  <2>4. CASE InsertOTX(j)
    BY <2>4, LifeInsert
  <2>5. CASE Commit(j) \/ CommitReplyLost(j)
    BY <2>5, LifeCommitted
  <2> QED BY <1>2, <2>1, <2>2, <2>3, <2>4, <2>5 DEF JobStep
<1>3. ASSUME UNCHANGED <<jobVars, phase, pend, otx, keyRows, lost>> PROVE LifeInv'
  <2>1. UNCHANGED <<args, jobState, attempt, phase, pend, otx, keyRows, lost>>
    BY <1>3 DEF jobVars
  <2>2. \A j \in Jobs : KindOf(j)' = KindOf(j) /\ Plan(j)' = Plan(j)
    BY <2>1, ArgsLemma
  <2>3. \A j \in Jobs : (\A p \in pend'[j] : Planned(j, p)') /\ Signed(j)'
    BY <2>1, <2>2 DEF LifeInv, Planned, Signed
  <2>4. \A o \in otx : Stored(o)'
    BY <2>1 DEF LifeInv, Stored
  <2>5. Quiet
    BY <2>1 DEF Quiet
  <2> QED BY <2>3, <2>4, <2>5, LifeQuiet
<1>4. CASE \E a \in Accounts : ActivateKeyPair(a)
  <2>1. UNCHANGED <<jobVars, phase, pend, otx, keyRows, lost>>
    BY <1>4 DEF ActivateKeyPair, txVars, faultVars
  <2> QED BY <1>3, <2>1
<1>5. CASE UNCHANGED vars
  <2>1. UNCHANGED <<jobVars, phase, pend, otx, keyRows, lost>>
    BY <1>5 DEF vars, jobVars
  <2> QED BY <1>3, <2>1
<1> QED BY <1>1, <1>2, <1>3, <1>4, <1>5 DEF Next

(* The books of runs are right throughout.                                 *)
THEOREM LifeInvariant == Spec => [](Typed /\ LifeInv)
<1>1. Typed /\ NonceInv /\ LifeInv /\ [Next]_vars => LifeInv'
  BY LifeNext
<1> QED BY <1>1, LifeInit, NonceInvariant, PTL DEF Spec

(* A run's OTXs are its whole plan, in consecutive nonces.                 *)
THEOREM RunsAreWhole == Spec => []PlansWhole
<1>1. Typed /\ LifeInv => PlansWhole
  <2> SUFFICES ASSUME Typed, LifeInv, NEW o \in otx
               PROVE  /\ o.type = Plan(o.job)[o.idx].type
                      /\ \A i \in 1 .. Len(Plan(o.job)) :
                            \E q \in {p \in otx : /\ p.job = o.job /\ p.run = o.run
                                                  /\ p.idx = i} :
                                q.nonce - i = o.nonce - o.idx
    BY DEF PlansWhole
  <2> QED BY DEF LifeInv, Whole, PlanLen
<1> QED BY <1>1, LifeInvariant, PTL

(* Every address embedded ahead of its contract is of one that is created. *)
THEOREM AddressesComeTrue == Spec => []AddressesAreDeployed
<1>1. LifeInv => AddressesAreDeployed
  BY DEF LifeInv, Deployed, AddressesAreDeployed
<1> QED BY <1>1, LifeInvariant, PTL

(* A job River shows as completed has its OTXs in the database.            *)
THEOREM CompletionIsTruthful == Spec => []CompletedJobsAreSigned
<1>1. LifeInv => CompletedJobsAreSigned
  BY DEF LifeInv, Signed, CompletedJobsAreSigned
<1> QED BY <1>1, LifeInvariant, PTL

(* A request is signed again only after a commit nobody heard of.          *)
THEOREM ReplaysAreExcused == Spec => []ReplayOnlyAfterLostRun
<1>1. Typed /\ LifeInv => ReplayOnlyAfterLostRun
  <2> SUFFICES ASSUME Typed, LifeInv, NEW o1 \in otx, NEW o2 \in otx,
                      o1.job = o2.job, o1.run < o2.run
               PROVE  <<o1.job, o1.run>> \in lost
    BY DEF ReplayOnlyAfterLostRun
  <2>1. Stored(o1) /\ Stored(o2)
    BY DEF LifeInv
  <2>2. o1.run \in Nat /\ o2.run \in Nat /\ attempt[o1.job] \in Nat
    BY <2>1, OTXLemma, NumbersLemma DEF Typed
  <2>3. o2.run <= attempt[o1.job]
    BY <2>1 DEF Stored
  <2>4. o1.run # attempt[o1.job]
    BY <2>2, <2>3
  <2> QED BY <2>1, <2>4 DEF Stored
<1> QED BY <1>1, LifeInvariant, PTL

(* A second key of an account comes from a repeated ACCOUNT_CREATE run.    *)
THEOREM SecondKeysAreExcused == Spec => []SecondKeyOnlyAfterLostRun
<1>1. LifeInv => SecondKeyOnlyAfterLostRun
  BY DEF LifeInv, KeyInv
<1> QED BY <1>1, LifeInvariant, PTL
============================================================================
