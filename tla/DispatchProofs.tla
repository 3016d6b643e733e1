--------------------------- MODULE DispatchProofs ---------------------------
(* Proofs about Dispatch, for any number of OTXs, versions, attempts and   *)
(* faults.                                                                 *)
EXTENDS Dispatch, TLAPS

(* Nonces are mined in order: those below some nonce, and no other.        *)
ChainInv == \E k \in 0 .. N : \A n \in Nonces : IsMined(n) <=> n < k

(* A DISPATCH job that may start has an attempt left.                      *)
AttemptInv == \A n \in Nonces : job[n] = "available" => attempt[n] < MaxAttempts

(* What the subscriber is about to write is what was mined.                *)
SubInv ==
    sub # NoSub => /\ IsMined(sub.nonce)
                   /\ sub.status = OutcomeStatus(mined[sub.nonce].ok)

Books == DispatchTypeOK /\ ChainInv /\ AttemptInv
Inv == Books /\ SubInv /\ FinalStatusIsTrue

(* The network nonce is that of the next transaction to be mined.          *)
LEMMA NetworkNonceLemma ==
    ASSUME ChainInv
    PROVE  /\ NetworkNonce \in 0 .. N
           /\ \A n \in Nonces : IsMined(n) <=> n < NetworkNonce
<1> DEFINE P(k) == \A n \in Nonces : IsMined(n) <=> n < k
<1>1. \E k \in 0 .. N : P(k)
  BY DEF ChainInv
<1>2. NetworkNonce = CHOOSE k \in 0 .. N : P(k)
  BY DEF NetworkNonce
<1> HIDE DEF P
<1>3. NetworkNonce \in 0 .. N /\ P(NetworkNonce)
  BY <1>1, <1>2
<1> QED BY <1>3 DEF P

(* The writers' statuses are statuses.                                     *)
LEMMA StatusLemma ==
    /\ \A ok \in BOOLEAN : OutcomeStatus(ok) \in Final
    /\ \A a \in DOMAIN DispatchStatus : DispatchStatus[a] \in Statuses \ Final
    /\ Final \subseteq Statuses
    /\ "SUCCESS" \in Final /\ "PENDING" \in Statuses /\ "IN_NETWORK" \in Statuses
    /\ OutcomeStatus(TRUE) = "SUCCESS"
<1>1. DOMAIN DispatchStatus = { "ok", "unclassified", "network", "gas_price",
                                "no_gas", "nonce_low", "replacement_underpriced" }
  BY DEF DispatchStatus
<1>2. \A a \in DOMAIN DispatchStatus : DispatchStatus[a] \in Statuses \ Final
  BY <1>1 DEF DispatchStatus, Statuses, Final
<1> QED BY <1>2 DEF OutcomeStatus, Final, Statuses

(* What holds of the custodial and the node at the start.                  *)
THEOREM InvInit == DispatchInit => Inv
<1> SUFFICES ASSUME DispatchInit
             PROVE  Inv
  OBVIOUS
<1> USE ChainAssumption, DispatchAssumption
<1>1. DispatchTypeOK
  BY StatusLemma DEF ChainInit, DispatchInit, DispatchTypeOK, Nonces, Versions
<1>2. ChainInv
  <2>1. 0 \in 0 .. N /\ \A n \in Nonces : ~IsMined(n) /\ ~(n < 0)
    BY DEF DispatchInit, ChainInit, IsMined, Nonces
  <2> QED BY <2>1 DEF ChainInv
<1>3. AttemptInv
  BY DEF DispatchInit, AttemptInv
<1>4. SubInv /\ FinalStatusIsTrue
  BY DEF DispatchInit, SubInv, FinalStatusIsTrue, Final
<1> QED BY <1>1, <1>2, <1>3, <1>4 DEF Inv, Books

(* What the chain may do: it types, keeps what is mined, mines in order.   *)
ChainTyped ==
    /\ pool \in [Nonces -> Versions \cup {NoVersion}]
    /\ mined \in [Nonces -> Receipts \cup {NotMined}]
    /\ faults \in 0 .. MaxFaults

MinedStays == \A n \in Nonces : IsMined(n) => mined'[n] = mined[n]

(* A fault stays within the bound on faults.                               *)
LEMMA FaultLemma ==
    ASSUME faults \in 0 .. MaxFaults, Fault
    PROVE  faults' \in 0 .. MaxFaults
BY ChainAssumption DEF Fault

(* A transaction that is sent is not thereby mined.                        *)
LEMMA SubmitLemma ==
    ASSUME ChainTyped, ChainInv, NEW n \in Nonces, NEW v \in Versions,
           NEW outcome, Submit(n, v, outcome)
    PROVE  ChainTyped' /\ ChainInv' /\ MinedStays
<1>1. pool' \in [Nonces -> Versions \cup {NoVersion}]
  BY DEF Submit, Accept, ChainTyped
<1>2. faults' \in 0 .. MaxFaults
  BY FaultLemma DEF Submit, ChainTyped
<1>3. mined' = mined
  BY DEF Submit
<1> QED BY <1>1, <1>2, <1>3 DEF ChainTyped, ChainInv, MinedStays, IsMined

(* A block mines the next nonce; an eviction mines nothing.                *)
LEMMA ChainStepLemma ==
    ASSUME ChainTyped, ChainInv, NEW n \in Nonces, ChainStep(n)
    PROVE  ChainTyped' /\ ChainInv' /\ MinedStays
<1>1. CASE Evict(n)
  <2>1. pool' \in [Nonces -> Versions \cup {NoVersion}] /\ mined' = mined
    BY <1>1 DEF Evict, ChainTyped
  <2>2. faults' \in 0 .. MaxFaults
    BY <1>1, FaultLemma DEF Evict, ChainTyped
  <2> QED BY <2>1, <2>2 DEF ChainTyped, ChainInv, MinedStays, IsMined
<1>2. CASE Mine(n)
  <2>1. PICK ok \in BOOLEAN, near \in BOOLEAN :
            mined' = [mined EXCEPT ![n] = [ver |-> pool[n], ok |-> ok, near |-> near]]
    BY <1>2 DEF Mine
  <2>2. pool[n] \in Versions
    BY <1>2 DEF Mine, ChainTyped
  <2>3. [ver |-> pool[n], ok |-> ok, near |-> near] \in Receipts
    BY <2>2 DEF Receipts
  <2>4. ChainTyped'
    BY <1>2, <2>1, <2>3 DEF Mine, ChainTyped
  <2>5. n = NetworkNonce /\ \A m \in Nonces : IsMined(m) <=> m < n
    BY <1>2, NetworkNonceLemma DEF Mine
  <2>6. MinedStays
    BY <2>1, <2>5 DEF MinedStays, ChainTyped, Nonces
  <2>7. (mined'[n]).ver = pool[n] /\ NotMined.ver = NoVersion
    BY <2>1 DEF ChainTyped, NotMined
  <2>8. mined'[n] # NotMined
    BY <1>2, <2>7 DEF Mine
  <2>9. \A m \in Nonces : m # n => mined'[m] = mined[m]
    BY <2>1 DEF ChainTyped
  <2>10. \A m \in Nonces : IsMined(m)' <=> m < n + 1
    BY <2>5, <2>8, <2>9 DEF IsMined, Nonces
  <2>11. n + 1 \in 0 .. N
    BY ChainAssumption DEF Nonces
  <2>12. ChainInv'
    BY <2>10, <2>11 DEF ChainInv
  <2> QED BY <2>4, <2>6, <2>12
<1> QED BY <1>1, <1>2 DEF ChainStep

(* Writing what is not final, or what was mined, keeps the outcomes true.  *)
LEMMA OutcomeLemma ==
    ASSUME Inv, MinedStays, DispatchTypeOK',
           sub' = sub \/ sub' = NoSub,
           \A n \in Nonces :
               \/ status'[n] = status[n]
               \/ status'[n] \notin Final
               \/ IsMined(n) /\ status'[n] = OutcomeStatus(mined[n].ok)
    PROVE  SubInv' /\ FinalStatusIsTrue'
<1>1. \A n \in Nonces : IsMined(n) => IsMined(n)' /\ (mined'[n]).ok = mined[n].ok
  BY DEF MinedStays, IsMined
<1>2. FinalStatusIsTrue'
  BY <1>1 DEF FinalStatusIsTrue, Inv
<1>3. sub # NoSub => sub.nonce \in Nonces
  BY DEF Inv, Books, DispatchTypeOK
<1>4. SubInv'
  BY <1>1, <1>3 DEF SubInv, Inv
<1> QED BY <1>2, <1>4

(* Steps of the node, alone or called from elsewhere.                      *)
LEMMA ChainOnlyLemma ==
    ASSUME Inv, ChainTyped', ChainInv', MinedStays, UNCHANGED dispatchVars
    PROVE  Inv'
<1>1. DispatchTypeOK'
  BY DEF dispatchVars, subVars, Inv, Books, DispatchTypeOK, ChainTyped
<1>2. AttemptInv'
  BY DEF dispatchVars, Inv, Books, AttemptInv
<1>3. SubInv' /\ FinalStatusIsTrue'
  BY <1>1, OutcomeLemma DEF dispatchVars, subVars
<1> QED BY <1>1, <1>2, <1>3 DEF Inv, Books

(* The part of the invariant that is about the node.                       *)
LEMMA TypedLemma ==
    ASSUME Inv
    PROVE  ChainTyped /\ ChainInv
BY DEF Inv, Books, DispatchTypeOK, ChainTyped

(* Steps that leave the node alone, but for the count of faults.           *)
LEMMA OffChainLemma ==
    ASSUME Inv, UNCHANGED <<pool, mined>>, faults' = faults \/ Fault
    PROVE  ChainTyped' /\ ChainInv' /\ MinedStays
<1>1. faults' \in 0 .. MaxFaults
  BY TypedLemma, FaultLemma DEF ChainTyped
<1> QED BY <1>1, TypedLemma DEF ChainTyped, ChainInv, MinedStays, IsMined

(* River makes a job available again only with an attempt left.            *)
LEMMA RetryLemma ==
    ASSUME Inv, NEW n \in Nonces, Retry(n), attempt' = attempt
    PROVE  /\ job' \in [Nonces -> {"available", "running", "completed", "cancelled",
                                   "discarded"}]
           /\ AttemptInv'
BY DispatchAssumption DEF Inv, Books, DispatchTypeOK, AttemptInv, Retry

(* Sending writes no status.                                               *)
LEMMA SendRawTxStep ==
    ASSUME Inv, NEW n \in Nonces, SendRawTx(n)
    PROVE  Inv'
<1>1. PICK outcome \in Outcomes :
          Submit(n, 0, outcome) /\ answer' = [answer EXCEPT ![n] = outcome]
  BY DEF SendRawTx
<1>2. ChainTyped' /\ ChainInv' /\ MinedStays
  BY <1>1, SubmitLemma, TypedLemma, ChainAssumption DEF Versions
<1>3. attempt' \in [Nonces -> 0 .. MaxAttempts]
  BY DispatchAssumption DEF SendRawTx, Inv, Books, DispatchTypeOK, AttemptInv
<1>4. DispatchTypeOK'
  BY <1>1, <1>2, <1>3 DEF SendRawTx, subVars, Inv, Books, DispatchTypeOK, ChainTyped
<1>5. AttemptInv'
  BY DEF SendRawTx, Inv, Books, DispatchTypeOK, AttemptInv
<1>6. SubInv' /\ FinalStatusIsTrue'
  BY <1>2, <1>4, OutcomeLemma DEF SendRawTx, subVars
<1> QED BY <1>2, <1>4, <1>5, <1>6 DEF Inv, Books

(* The DISPATCH worker writes no final status.                             *)
LEMMA RecordAnswerStep ==
    ASSUME Inv, NEW n \in Nonces, RecordAnswer(n)
    PROVE  Inv'
<1>1. ChainTyped' /\ ChainInv' /\ MinedStays
  BY OffChainLemma DEF RecordAnswer
<1>2. /\ job' \in [Nonces -> {"available", "running", "completed", "cancelled",
                              "discarded"}]
      /\ AttemptInv'
  <2>1. CASE Retry(n)
    BY <2>1, RetryLemma DEF RecordAnswer
  <2>2. CASE job' = [job EXCEPT ![n] = "completed"] \/ job' = [job EXCEPT ![n] = "cancelled"]
    BY <2>2 DEF RecordAnswer, Inv, Books, DispatchTypeOK, AttemptInv
  <2> QED BY <2>1, <2>2 DEF RecordAnswer, JobAfter
<1>3. DispatchStatus[answer[n]] \in Statuses \ Final
  BY StatusLemma DEF RecordAnswer
<1>4. DispatchTypeOK'
  BY <1>1, <1>2, <1>3 DEF RecordAnswer, UpdateDispatchTxStatus, subVars, Inv,
     Books, DispatchTypeOK, ChainTyped
<1>5. SubInv' /\ FinalStatusIsTrue'
  BY <1>1, <1>3, <1>4, OutcomeLemma
     DEF RecordAnswer, UpdateDispatchTxStatus, subVars, Inv, Books, DispatchTypeOK
<1> QED BY <1>1, <1>2, <1>4, <1>5 DEF Inv, Books

(* A run that is abandoned writes no status.                               *)
LEMMA AbandonRunStep ==
    ASSUME Inv, NEW n \in Nonces, AbandonRun(n)
    PROVE  Inv'
<1>1. ChainTyped' /\ ChainInv' /\ MinedStays
  BY OffChainLemma DEF AbandonRun
<1>2. /\ job' \in [Nonces -> {"available", "running", "completed", "cancelled",
                              "discarded"}]
      /\ AttemptInv'
  BY RetryLemma DEF AbandonRun
<1>3. DispatchTypeOK'
  BY <1>1, <1>2 DEF AbandonRun, subVars, Inv, Books, DispatchTypeOK, ChainTyped
<1>4. SubInv' /\ FinalStatusIsTrue'
  BY <1>1, <1>3, OutcomeLemma DEF AbandonRun, subVars
<1> QED BY <1>1, <1>2, <1>3, <1>4 DEF Inv, Books

(* A receipt of a hash is a receipt of what was mined.                     *)
LEMMA ReceiptLemma ==
    ASSUME ChainTyped, NEW n \in Nonces, NEW v \in Versions, HasReceipt(n, v)
    PROVE  IsMined(n) /\ mined[n] \in Receipts /\ mined[n].ok \in BOOLEAN
<1>1. mined[n] # NotMined
  BY ChainAssumption DEF HasReceipt, NotMined, NoVersion, Versions
<1> QED BY <1>1 DEF ChainTyped, IsMined, Receipts

(* The subscriber writes the outcome of the receipt it was told of.        *)
LEMMA SubscriberStep ==
    ASSUME Inv, Subscriber
    PROVE  Inv'
<1>1. CASE \E n \in Nonces : ReadEvent(n)
  <2>1. PICK n \in Nonces : ReadEvent(n)
    BY <1>1
  <2>2. ChainTyped' /\ ChainInv' /\ MinedStays
    BY <2>1, OffChainLemma DEF ReadEvent, chainVars
  <2>3. AttemptInv'
    BY <2>1 DEF ReadEvent, Inv, Books, AttemptInv
  <2>4. CASE HasReceipt(n, ver[n])
    <3>1. IsMined(n) /\ mined[n].ok \in BOOLEAN
      BY <2>4, ReceiptLemma, TypedLemma DEF Inv, Books, DispatchTypeOK
    <3>2. sub' = [nonce |-> n, status |-> OutcomeStatus(mined[n].ok)]
      BY <2>1, <2>4 DEF ReadEvent
    <3>3. DispatchTypeOK'
      BY <2>1, <2>2, <2>4, <3>1, <3>2, StatusLemma
         DEF ReadEvent, Inv, Books, DispatchTypeOK, ChainTyped
    <3>4. SubInv'
      BY <2>1, <3>1, <3>2 DEF ReadEvent, chainVars, SubInv, IsMined
    <3>5. FinalStatusIsTrue'
      BY <2>1 DEF ReadEvent, chainVars, Inv, FinalStatusIsTrue, IsMined
    <3> QED BY <2>2, <2>3, <3>3, <3>4, <3>5 DEF Inv, Books
  <2>5. CASE ~HasReceipt(n, ver[n])
    <3>1. DispatchTypeOK'
      BY <2>1, <2>2, <2>5 DEF ReadEvent, Inv, Books, DispatchTypeOK, ChainTyped
    <3>2. SubInv' /\ FinalStatusIsTrue'
      BY <2>1, <2>2, <2>5, <3>1, OutcomeLemma DEF ReadEvent
    <3> QED BY <2>2, <2>3, <3>1, <3>2 DEF Inv, Books
  <2> QED BY <2>4, <2>5
<1>2. CASE CommitEvent
  <2>1. ChainTyped' /\ ChainInv' /\ MinedStays
    BY <1>2, OffChainLemma DEF CommitEvent
  <2>2. AttemptInv'
    BY <1>2 DEF CommitEvent, Inv, Books, AttemptInv
  <2>3. sub.nonce \in Nonces /\ sub.status \in Final
    BY <1>2 DEF CommitEvent, Inv, Books, DispatchTypeOK
  <2>4. DispatchTypeOK'
    BY <1>2, <2>1, <2>3, StatusLemma
       DEF CommitEvent, UpdateDispatchTxStatus, ActivateKeyPair, Inv, Books,
           DispatchTypeOK, ChainTyped
  <2>5. SubInv' /\ FinalStatusIsTrue'
    BY <1>2, <2>1, <2>3, <2>4, OutcomeLemma
       DEF CommitEvent, UpdateDispatchTxStatus, Inv, Books, DispatchTypeOK, SubInv
  <2> QED BY <2>1, <2>2, <2>4, <2>5 DEF Inv, Books
<1>3. CASE DropEvent
  <2>1. ChainTyped' /\ ChainInv' /\ MinedStays
    BY <1>3, OffChainLemma DEF DropEvent
  <2>2. AttemptInv' /\ DispatchTypeOK'
    BY <1>3, <2>1 DEF DropEvent, Inv, Books, AttemptInv, DispatchTypeOK, ChainTyped
  <2>3. SubInv' /\ FinalStatusIsTrue'
    BY <1>3, <2>1, <2>2, OutcomeLemma DEF DropEvent
  <2> QED BY <2>1, <2>2, <2>3 DEF Inv, Books
<1> QED BY <1>1, <1>2, <1>3 DEF Subscriber

(* The health check writes SUCCESS only for a hash that was mined and did  *)
(* not revert.                                                             *)
LEMMA HealthCheckStep ==
    ASSUME Inv, HealthCheck
    PROVE  Inv'
<1>1. CASE ReadFailedOTX
  <2>1. ChainTyped' /\ ChainInv' /\ MinedStays
    BY <1>1, OffChainLemma DEF ReadFailedOTX, chainVars
  <2>2. check' \subseteq [nonce : Nonces, ver : Versions]
    <3>1. GetFailedOTX \subseteq Nonces
      BY DEF GetFailedOTX
    <3>2. InNetwork \subseteq Nonces
      BY <3>1 DEF InNetwork
    <3> QED BY <1>1, <3>2 DEF ReadFailedOTX, Inv, Books, DispatchTypeOK
  <2>3. AttemptInv' /\ DispatchTypeOK'
    BY <1>1, <2>1, <2>2
       DEF ReadFailedOTX, subVars, Inv, Books, AttemptInv, DispatchTypeOK, ChainTyped
  <2>4. SubInv' /\ FinalStatusIsTrue'
    BY <1>1, <2>1, <2>3, OutcomeLemma DEF ReadFailedOTX, subVars
  <2> QED BY <2>1, <2>3, <2>4 DEF Inv, Books
<1>2. CASE CommitReceipts
  <2>1. PICK got \in SUBSET check :
            /\ IF got = check THEN UNCHANGED faults ELSE Fault
            /\ status' = [n \in Nonces |->
                   IF \E c \in got : c.nonce = n /\ HasReceipt(n, c.ver) /\ mined[n].ok
                   THEN "SUCCESS" ELSE status[n]]
    BY <1>2 DEF CommitReceipts
  <2>2. ChainTyped' /\ ChainInv' /\ MinedStays
    BY <1>2, <2>1, OffChainLemma DEF CommitReceipts
  <2>3. ASSUME NEW n \in Nonces
        PROVE  \/ status'[n] = status[n]
               \/ /\ IsMined(n)
                  /\ status'[n] = "SUCCESS"
                  /\ OutcomeStatus(mined[n].ok) = "SUCCESS"
    <3>1. CASE \E c \in got : c.nonce = n /\ HasReceipt(n, c.ver) /\ mined[n].ok
      <4>1. PICK c \in got : c.nonce = n /\ HasReceipt(n, c.ver) /\ mined[n].ok
        BY <3>1
      <4>2. c.ver \in Versions
        BY DEF Inv, Books, DispatchTypeOK
      <4>3. IsMined(n)
        BY <4>1, <4>2, ReceiptLemma, TypedLemma
      <4> QED BY <2>1, <3>1, <4>1, <4>3 DEF OutcomeStatus
    <3> QED BY <2>1, <3>1
  <2>4. status' \in [Nonces -> Statuses]
    BY <2>1, StatusLemma DEF Inv, Books, DispatchTypeOK
  <2>5. AttemptInv' /\ DispatchTypeOK'
    BY <1>2, <2>2, <2>4
       DEF CommitReceipts, subVars, Inv, Books, AttemptInv, DispatchTypeOK, ChainTyped
  <2>6. SubInv' /\ FinalStatusIsTrue'
    BY <1>2, <2>2, <2>3, <2>5, OutcomeLemma DEF CommitReceipts, subVars
  <2> QED BY <2>2, <2>5, <2>6 DEF Inv, Books
<1> QED BY <1>1, <1>2 DEF HealthCheck

(* Every step of the dispatch side keeps the invariant.                    *)
THEOREM InvNext == Inv /\ [DispatchNext]_<<chainVars, dispatchVars>> => Inv'
<1> SUFFICES ASSUME Inv, [DispatchNext]_<<chainVars, dispatchVars>>
             PROVE  Inv'
  OBVIOUS
<1>1. CASE UNCHANGED <<chainVars, dispatchVars>>
  BY <1>1, OffChainLemma, ChainOnlyLemma DEF chainVars
<1>2. ASSUME NEW n \in Nonces, ChainStep(n), UNCHANGED dispatchVars
      PROVE  Inv'
  BY <1>2, ChainStepLemma, TypedLemma, ChainOnlyLemma
<1>3. ASSUME NEW n \in Nonces, DispatchWork(n)
      PROVE  Inv'
  BY <1>3, SendRawTxStep, RecordAnswerStep, AbandonRunStep DEF DispatchWork
<1> QED BY <1>1, <1>2, <1>3, SubscriberStep, HealthCheckStep DEF DispatchNext

(* The invariant holds throughout.                                         *)
THEOREM DispatchInvariant == DispatchSpec => []Inv
BY InvInit, InvNext, PTL DEF DispatchSpec

(* In every behaviour of the dispatch side every variable has its type.    *)
THEOREM DispatchTypeCorrect == DispatchSpec => []DispatchTypeOK
<1>1. Inv => DispatchTypeOK
  BY DEF Inv, Books
<1> QED BY <1>1, DispatchInvariant, PTL

(* The DISPATCH job, the subscriber and the health check never record an   *)
(* outcome that did not happen, whatever the order of their writes.        *)
THEOREM DispatchShowsWhatHappened == DispatchSpec => []FinalStatusIsTrue
<1>1. Inv => FinalStatusIsTrue
  BY DEF Inv
<1> QED BY <1>1, DispatchInvariant, PTL

(* What a job knows of the chain before it first sends, and at its first   *)
(* answer: a refusal met there means that nothing was sent.  While nothing *)
(* fails there is one attempt, and its answer arrives.                     *)
Unsent(n) == ~IsMined(n) /\ pool[n] = NoVersion

Refused(n) == answer[n] \notin {"none", "ok", "network", "other"}

TryInv ==
    \A n \in Nonces :
        /\ job[n] = "available" /\ attempt[n] = 0 => Unsent(n)
        /\ answer[n] # "none" => job[n] = "running" /\ attempt[n] > 0
        /\ Refused(n) /\ attempt[n] = 1 => Unsent(n)
        /\ faults = 0 /\ job[n] = "available" => attempt[n] = 0
        /\ faults = 0 /\ answer[n] # "none" =>
               attempt[n] = 1 /\ answer[n] \notin {"network", "other"}

(* What is neither sent nor mined is not mined by a block.                 *)
LEMMA UnsentLemma ==
    ASSUME ChainTyped, NEW n \in Nonces, NEW m \in Nonces, ChainStep(n), Unsent(m)
    PROVE  Unsent(m)'
<1>1. CASE Evict(n)
  BY <1>1 DEF Evict, ChainTyped, Unsent, IsMined
<1>2. CASE Mine(n)
  <2>1. n # m
    BY <1>2 DEF Mine, Unsent
  <2> QED BY <1>2, <2>1 DEF Mine, ChainTyped, Unsent, IsMined
<1> QED BY <1>1, <1>2 DEF ChainStep

(* Sending is the only way to an answer.                                   *)
LEMMA TrySendStep ==
    ASSUME Inv, TryInv, NEW n \in Nonces, SendRawTx(n)
    PROVE  TryInv'
<1>1. PICK o \in Outcomes : Submit(n, 0, o) /\ answer' = [answer EXCEPT ![n] = o]
  BY DEF SendRawTx
<1>2. /\ job[n] = "available" /\ job' = [job EXCEPT ![n] = "running"]
      /\ attempt' = [attempt EXCEPT ![n] = @ + 1] /\ mined' = mined
  BY <1>1 DEF SendRawTx, Submit
<1>3. /\ faults \in Nat /\ attempt \in [Nonces -> Nat]
      /\ job \in [Nonces -> {"available", "running", "completed", "cancelled", "discarded"}]
      /\ answer \in [Nonces -> Outcomes \cup {"none"}]
      /\ pool \in [Nonces -> Versions \cup {NoVersion}]
  BY ChainAssumption, DispatchAssumption DEF Inv, Books, DispatchTypeOK
<1>4. faults' = faults \/ faults' = faults + 1
  BY <1>1 DEF Submit, Fault
<1>5. faults' = 0 => faults = 0 /\ o \notin {"network", "other"}
  <2>1. faults' = 0 => faults = 0 /\ faults' = faults
    BY <1>3, <1>4
  <2>2. Refusal(n, 0) \notin {"network", "other"}
    BY DEF Refusal
  <2> QED BY <1>1, <1>3, <2>1, <2>2 DEF Submit, Fault
<1>6. o \notin {"ok", "network", "other"} => pool' = pool
  BY <1>1 DEF Submit
<1>7. \A m \in Nonces : m # n => pool'[m] = pool[m]
  BY <1>1, <1>3 DEF Submit, Accept
<1>8. ASSUME NEW m \in Nonces, m # n
      PROVE  /\ job'[m] = job[m] /\ attempt'[m] = attempt[m] /\ answer'[m] = answer[m]
             /\ (Unsent(m) => Unsent(m)')
  BY <1>1, <1>2, <1>3, <1>7, <1>8 DEF Unsent, IsMined
<1>9. job'[n] = "running" /\ attempt'[n] = attempt[n] + 1 /\ answer'[n] = o
  BY <1>1, <1>2, <1>3
<1>10. o # "none" /\ attempt[n] \in Nat
  BY <1>3 DEF Outcomes
<1>11. Refused(n)' /\ attempt'[n] = 1 => Unsent(n)'
  <2>1. attempt'[n] = 1 => Unsent(n)
    BY <1>2, <1>9, <1>10 DEF TryInv
  <2> QED BY <1>2, <1>6, <1>9, <2>1 DEF Refused, Unsent, IsMined
<1>12. faults' = 0 => attempt'[n] = 1
  BY <1>2, <1>5, <1>9 DEF TryInv
<1>13. attempt'[n] > 0
  BY <1>9, <1>10
<1>14. ASSUME NEW m \in Nonces
       PROVE  /\ job'[m] = "available" /\ attempt'[m] = 0 => Unsent(m)'
              /\ answer'[m] # "none" => job'[m] = "running" /\ attempt'[m] > 0
              /\ Refused(m)' /\ attempt'[m] = 1 => Unsent(m)'
              /\ faults' = 0 /\ job'[m] = "available" => attempt'[m] = 0
              /\ faults' = 0 /\ answer'[m] # "none" =>
                     attempt'[m] = 1 /\ answer'[m] \notin {"network", "other"}
  <2>1. CASE m = n
    BY <1>5, <1>9, <1>10, <1>11, <1>12, <1>13, <2>1
  <2>2. CASE m # n
    BY <1>5, <1>8, <2>2 DEF TryInv, Refused
  <2> QED BY <2>1, <2>2
<1> QED BY <1>14 DEF TryInv

(* A run that ends, and whose job is retried only after a failure.         *)
LEMMA TryEndStep ==
    ASSUME Inv, TryInv, NEW n \in Nonces, RecordAnswer(n) \/ AbandonRun(n)
    PROVE  TryInv'
<1>1. /\ answer[n] # "none" /\ answer' = [answer EXCEPT ![n] = "none"]
      /\ UNCHANGED <<pool, mined, attempt>>
  BY DEF RecordAnswer, AbandonRun, DispatchStatus
<1>2. /\ faults \in Nat /\ attempt \in [Nonces -> Nat]
      /\ job \in [Nonces -> {"available", "running", "completed", "cancelled", "discarded"}]
      /\ answer \in [Nonces -> Outcomes \cup {"none"}]
  BY ChainAssumption, DispatchAssumption DEF Inv, Books, DispatchTypeOK
<1>3. /\ faults' = faults \/ faults' = faults + 1
      /\ \A m \in Nonces : m # n => job'[m] = job[m]
  BY <1>2 DEF RecordAnswer, AbandonRun, JobAfter, Retry, Fault
<1>4. faults' = 0 => job'[n] # "available"
  <2>1. SUFFICES ASSUME faults' = 0 PROVE job'[n] # "available"
    OBVIOUS
  <2>2. faults = 0 /\ faults' = faults
    BY <1>2, <1>3, <2>1
  <2>3. answer[n] \notin {"network", "other"}
    BY <1>1, <2>2 DEF TryInv
  <2>4. ~Fault
    BY <2>2 DEF Fault
  <2>5. RecordAnswer(n) /\ JobAfter(n)
    BY <2>3, <2>4 DEF RecordAnswer, AbandonRun
  <2> QED BY <1>2, <2>3, <2>5 DEF JobAfter
<1>5. attempt[n] > 0
  BY <1>1 DEF TryInv
<1>6. answer'[n] = "none" /\ \A m \in Nonces : m # n => answer'[m] = answer[m]
  BY <1>1, <1>2
<1>7. faults' = 0 => faults = 0
  BY <1>2, <1>3
<1>8. \A m \in Nonces : Unsent(m)' <=> Unsent(m)
  BY <1>1 DEF Unsent, IsMined
<1> QED BY <1>1, <1>3, <1>4, <1>5, <1>6, <1>7, <1>8 DEF TryInv, Refused

(* The jobs and the chain keep what the answers mean.                      *)
LEMMA TryStep ==
    ASSUME Inv, TryInv, [DispatchNext]_<<chainVars, dispatchVars>>
    PROVE  TryInv'
<1>1. ASSUME NEW n \in Nonces, ChainStep(n), UNCHANGED dispatchVars
      PROVE  TryInv'
  <2>1. \A m \in Nonces : Unsent(m) => Unsent(m)'
    BY <1>1, UnsentLemma, TypedLemma
  <2>2. UNCHANGED <<job, attempt, answer>>
    BY <1>1 DEF dispatchVars
  <2>3. faults' = 0 => faults = 0
    <3>1. faults \in Nat
      BY ChainAssumption DEF Inv, Books, DispatchTypeOK
    <3> QED BY <1>1, <3>1 DEF ChainStep, Evict, Mine, Fault
  <2> QED BY <2>1, <2>2, <2>3 DEF TryInv, Refused
<1>2. CASE /\ UNCHANGED <<pool, mined, job, attempt, answer>>
           /\ faults' = faults \/ Fault
  <2>1. faults' = 0 => faults = 0
    <3>1. faults \in Nat
      BY ChainAssumption DEF Inv, Books, DispatchTypeOK
    <3> QED BY <1>2, <3>1 DEF Fault
  <2>2. \A m \in Nonces : Unsent(m)' <=> Unsent(m)
    BY <1>2 DEF Unsent, IsMined
  <2> QED BY <1>2, <2>1, <2>2 DEF TryInv, Refused
<1>3. CASE UNCHANGED <<chainVars, dispatchVars>>
  BY <1>2, <1>3 DEF chainVars, dispatchVars
<1>4. CASE Subscriber
  BY <1>2, <1>4 DEF Subscriber, ReadEvent, CommitEvent, DropEvent, chainVars
<1>5. CASE HealthCheck
  BY <1>2, <1>5 DEF HealthCheck, ReadFailedOTX, CommitReceipts, chainVars
<1>6. ASSUME NEW n \in Nonces, DispatchWork(n)
      PROVE  TryInv'
  BY <1>6, TrySendStep, TryEndStep DEF DispatchWork
<1> QED BY <1>1, <1>3, <1>4, <1>5, <1>6 DEF DispatchNext

(* A final status is only taken back by the OTX's own job while it runs:   *)
(* at its first attempt by an answer that says that it sent, by a refusal  *)
(* only at a later one.                                                    *)
THEOREM DispatchReopens == DispatchSpec => ReopenedOnlyInDispatch
<1> DEFINE Own(n) ==
             /\ job[n] = "running"
             /\ attempt[n] = 1 => status'[n] \in {"IN_NETWORK", "NETWORK_ERROR"}
             /\ faults = 0 => attempt[n] = 1 /\ status'[n] = "IN_NETWORK"
           A == \A n \in Nonces : status[n] \in Final /\ status'[n] \notin Final => Own(n)
<1>1. DispatchInit => TryInv
  BY NetworkNonceLemma DEF DispatchInit, ChainInit, TryInv, Unsent, IsMined, Refused
<1>2. Inv /\ TryInv /\ [DispatchNext]_<<chainVars, dispatchVars>> => TryInv'
  BY TryStep
<1>3. Inv /\ TryInv /\ [DispatchNext]_<<chainVars, dispatchVars>>
          => [A]_<<chainVars, dispatchVars>>
  <2> SUFFICES ASSUME Inv, TryInv, DispatchNext
               PROVE  A
    OBVIOUS
  <2>1. CASE status' = status
    BY <2>1
  <2>2. ASSUME NEW n \in Nonces, RecordAnswer(n)
        PROVE  A
    <3>1. /\ answer[n] \in DOMAIN DispatchStatus
          /\ status' = [status EXCEPT ![n] = DispatchStatus[answer[n]]]
      BY <2>2 DEF RecordAnswer, UpdateDispatchTxStatus
    <3>2. answer[n] # "none" /\ answer[n] # "other"
      BY <3>1 DEF DispatchStatus
    <3>3. SUFFICES ASSUME status[n] \in Final PROVE Own(n)
      BY <3>1 DEF Inv, Books, DispatchTypeOK
    <3>4. IsMined(n)
      BY <3>3 DEF Inv, FinalStatusIsTrue
    <3>5. attempt[n] = 1 => answer[n] \in {"ok", "network"}
      BY <3>2, <3>4 DEF TryInv, Refused, Unsent
    <3>6. faults = 0 => attempt[n] = 1 /\ answer[n] # "network"
      BY <3>2 DEF TryInv
    <3>7. status'[n] = DispatchStatus[answer[n]]
      BY <3>1 DEF Inv, Books, DispatchTypeOK
    <3>8. DispatchStatus["ok"] = "IN_NETWORK" /\ DispatchStatus["network"] = "NETWORK_ERROR"
      BY DEF DispatchStatus
    <3>9. job[n] = "running"
      BY <3>2 DEF TryInv
    <3> QED BY <3>5, <3>6, <3>7, <3>8, <3>9
  <2>3. CASE CommitEvent
    <3>1. sub.status \in Final
      BY <2>3 DEF CommitEvent, Inv, Books, DispatchTypeOK
    <3> QED BY <2>3, <3>1 DEF CommitEvent, UpdateDispatchTxStatus, Inv, Books,
               DispatchTypeOK
  <2>4. CASE CommitReceipts
    BY <2>4, StatusLemma DEF CommitReceipts
  <2> QED BY <2>1, <2>2, <2>3, <2>4
          DEF DispatchNext, dispatchVars, DispatchWork, SendRawTx, AbandonRun,
              Subscriber, ReadEvent, DropEvent, HealthCheck, ReadFailedOTX
<1> QED BY <1>1, <1>2, <1>3, DispatchInvariant, PTL DEF DispatchSpec, ReopenedOnlyInDispatch

(* Nobody re-signs here: every version is the first, so a message that     *)
(* arrives always finds its row, and only mined nonces have messages.      *)
FirstVersions ==
    \A n \in Nonces : /\ ver[n] = 0
                      /\ pool[n] \in {0, NoVersion}
                      /\ IsMined(n) => mined[n].ver = 0

AckInv ==
    /\ FirstVersions
    /\ \A n \in acked : IsMined(n)
    /\ AcknowledgedIsActive

(* Mined transactions stay mined, and new ones are of the first version.   *)
LEMMA MinedFirstLemma ==
    ASSUME Inv, AckInv, MinedStays,
           UNCHANGED <<ver, acked, active>>,
           \A n \in Nonces : pool'[n] \in {0, NoVersion},
           \A n \in Nonces : mined'[n] = mined[n] \/ mined'[n].ver = 0
    PROVE  AckInv'
<1>1. FirstVersions'
  BY DEF AckInv, FirstVersions, IsMined
<1>2. acked \subseteq Nonces /\ active \subseteq Nonces
  BY DispatchAssumption DEF Inv, Books, DispatchTypeOK
<1>3. (\A n \in acked : IsMined(n))'
  BY <1>2 DEF AckInv, MinedStays, IsMined
<1>4. AcknowledgedIsActive'
  BY <1>2 DEF AckInv, AcknowledgedIsActive, MinedStays, IsMined
<1> QED BY <1>1, <1>3, <1>4 DEF AckInv

(* The node, the DISPATCH worker and the health check activate nobody.     *)
LEMMA NoActivationStep ==
    ASSUME Inv, AckInv, UNCHANGED <<ver, acked, active>>,
           \/ UNCHANGED <<pool, mined>>
           \/ \E n \in Nonces, outcome \in Outcomes : Submit(n, 0, outcome)
           \/ \E n \in Nonces : ChainStep(n)
    PROVE  AckInv'
<1>1. CASE UNCHANGED <<pool, mined>>
  <2>1. MinedStays
    BY <1>1 DEF MinedStays
  <2> QED BY <1>1, <2>1, MinedFirstLemma DEF AckInv, FirstVersions
<1>2. CASE \E n \in Nonces, outcome \in Outcomes : Submit(n, 0, outcome)
  <2>1. PICK n \in Nonces, outcome \in Outcomes : Submit(n, 0, outcome)
    BY <1>2
  <2>2. mined' = mined /\ (pool' = pool \/ pool' = [pool EXCEPT ![n] = 0])
    BY <2>1 DEF Submit, Accept
  <2>3. \A m \in Nonces : pool'[m] \in {0, NoVersion}
    BY <2>2, TypedLemma DEF AckInv, FirstVersions, ChainTyped
  <2>4. MinedStays
    BY <2>2 DEF MinedStays
  <2> QED BY <2>2, <2>3, <2>4, MinedFirstLemma
<1>3. CASE \E n \in Nonces : ChainStep(n)
  <2>1. PICK n \in Nonces : ChainStep(n)
    BY <1>3
  <2>2. MinedStays
    BY <2>1, ChainStepLemma, TypedLemma
  <2>3. \A m \in Nonces : pool'[m] \in {0, NoVersion}
    BY <2>1, TypedLemma DEF ChainStep, Evict, Mine, AckInv, FirstVersions, ChainTyped
  <2>4. \A m \in Nonces : mined'[m] = mined[m] \/ mined'[m].ver = 0
    <3>1. CASE Evict(n)
      BY <3>1 DEF Evict
    <3>2. CASE Mine(n)
      <4>1. pool[n] = 0
        BY <3>2 DEF Mine, AckInv, FirstVersions
      <4>2. PICK ok \in BOOLEAN, near \in BOOLEAN :
                mined' = [mined EXCEPT ![n] = [ver |-> pool[n], ok |-> ok, near |-> near]]
        BY <3>2 DEF Mine
      <4> QED BY <4>1, <4>2, TypedLemma DEF ChainTyped
    <3> QED BY <2>1, <3>1, <3>2 DEF ChainStep
  <2> QED BY <2>2, <2>3, <2>4, MinedFirstLemma
<1> QED BY <1>1, <1>2, <1>3

(* The subscriber acknowledges when it commits, and commits what was mined.*)
LEMMA AckSubscriberStep ==
    ASSUME Inv, AckInv, Subscriber
    PROVE  AckInv'
<1>1. CASE \E n \in Nonces : ReadEvent(n)
  <2>1. PICK n \in Nonces : ReadEvent(n)
    BY <1>1
  <2>2. HasReceipt(n, ver[n])
    BY <2>1 DEF ReadEvent, AckInv, FirstVersions, HasReceipt
  <2> QED BY <2>1, <2>2, NoActivationStep DEF ReadEvent, chainVars
<1>2. CASE DropEvent
  BY <1>2, NoActivationStep DEF DropEvent
<1>3. CASE CommitEvent
  <2> DEFINE n == sub.nonce
  <2>1. /\ n \in Nonces /\ IsMined(n)
        /\ sub.status = OutcomeStatus(mined[n].ok)
    BY <1>3 DEF CommitEvent, Inv, SubInv, Books, DispatchTypeOK
  <2>2. UNCHANGED <<pool, mined, ver>>
    BY <1>3 DEF CommitEvent
  <2>3. FirstVersions'
    BY <2>2 DEF AckInv, FirstVersions, IsMined
  <2>4. acked' \subseteq acked \cup {n}
    BY <1>3 DEF CommitEvent
  <2>5. sub.status = "SUCCESS" <=> mined[n].ok
    BY <2>1 DEF OutcomeStatus
  <2>6. active' = IF n \in Registrations /\ mined[n].ok THEN active \cup {n} ELSE active
    BY <1>3, <2>5 DEF CommitEvent, ActivateKeyPair
  <2>7. (\A m \in acked : IsMined(m))'
    BY <2>1, <2>2, <2>4 DEF AckInv, IsMined
  <2>8. AcknowledgedIsActive'
    BY <2>1, <2>2, <2>4, <2>6 DEF AckInv, AcknowledgedIsActive, IsMined
  <2> QED BY <2>3, <2>7, <2>8 DEF AckInv
<1> QED BY <1>1, <1>2, <1>3 DEF Subscriber

(* A registration whose message is acknowledged has its account active,    *)
(* and no account is active that is not registered on chain.               *)
THEOREM DispatchActivates == DispatchSpec => []AcknowledgedIsActive
<1>1. DispatchInit => AckInv
  BY DEF DispatchInit, ChainInit, AckInv, FirstVersions, IsMined, AcknowledgedIsActive
<1>2. Inv /\ AckInv /\ [DispatchNext]_<<chainVars, dispatchVars>> => AckInv'
  <2> SUFFICES ASSUME Inv, AckInv, [DispatchNext]_<<chainVars, dispatchVars>>
               PROVE  AckInv'
    OBVIOUS
  <2>1. CASE UNCHANGED <<chainVars, dispatchVars>>
    BY <2>1, NoActivationStep DEF chainVars, dispatchVars, subVars
  <2>2. ASSUME NEW n \in Nonces, ChainStep(n), UNCHANGED dispatchVars
        PROVE  AckInv'
    BY <2>2, NoActivationStep DEF dispatchVars, subVars
  <2>3. ASSUME NEW n \in Nonces, DispatchWork(n)
        PROVE  AckInv'
    BY <2>3, NoActivationStep
       DEF DispatchWork, SendRawTx, RecordAnswer, AbandonRun, subVars
  <2>4. CASE HealthCheck
    BY <2>4, NoActivationStep
       DEF HealthCheck, ReadFailedOTX, CommitReceipts, chainVars, subVars
  <2> QED BY <2>1, <2>2, <2>3, <2>4, AckSubscriberStep DEF DispatchNext
<1>3. AckInv => AcknowledgedIsActive
  BY DEF AckInv
<1> QED BY <1>1, <1>2, <1>3, DispatchInvariant, PTL DEF DispatchSpec

(* A step that mines nothing and writes one row, or only outcomes, or that *)
(* mines the next transaction and writes no row, is one the board allows.  *)
LEMMA BoardLemma ==
    ASSUME Inv, Inv',
           \/ UNCHANGED <<mined, status, active>>
           \/ UNCHANGED <<status, active>> /\ \E n \in Nonces : Mine(n)
           \/ /\ UNCHANGED <<mined, active>>
              /\ \E n \in Nonces, s \in Statuses \ Final : status' = [status EXCEPT ![n] = s]
           \/ /\ UNCHANGED mined
              /\ \A n \in Nonces : status'[n] = status[n] \/ status'[n] \in Final
              /\ \E some \in SUBSET Registrations :
                     /\ active' = active \cup some
                     /\ \A n \in some : status'[n] = "SUCCESS"
    PROVE  [Board!Next]_(Board!outcomeVars)
<1> USE DEF Board!Transactions, Nonces
<1>1. /\ status \in [Nonces -> Statuses] /\ status' \in [Nonces -> Statuses]
      /\ DOMAIN mined = Nonces /\ "open" \notin Final
  BY DEF Inv, Books, DispatchTypeOK, Final
<1>2. mined' = mined => OnChain' = OnChain
  BY DEF OnChain, IsMined
<1>3. status' = status => Shown' = Shown
  BY DEF Shown
<1>4. CASE UNCHANGED <<mined, status, active>>
  BY <1>2, <1>3, <1>4 DEF Board!outcomeVars
<1>5. ASSUME UNCHANGED <<status, active>>, NEW n \in Nonces, Mine(n)
      PROVE  Board!Next
  <2>1. PICK ok \in BOOLEAN, near \in BOOLEAN :
            mined' = [mined EXCEPT ![n] = [ver |-> pool[n], ok |-> ok, near |-> near]]
    BY <1>5 DEF Mine
  <2> DEFINE o == OutcomeStatus(ok)
  <2>2. o \in {"SUCCESS", "REVERTED"}
    BY DEF OutcomeStatus
  <2>3. \A m \in Nonces : IsMined(m) <=> m < n
    BY <1>5, NetworkNonceLemma, TypedLemma DEF Mine
  <2>4. \A m \in Nonces : IsMined(m) => mined[m].ok \in BOOLEAN
    BY TypedLemma DEF ChainTyped, IsMined, Receipts
  <2>5. \A m \in Nonces : OnChain[m] = IF m < n THEN OutcomeStatus(mined[m].ok) ELSE "open"
    BY <2>3 DEF OnChain
  <2>6. \A m \in Nonces : m < n => OnChain[m] # "open"
    BY <2>4, <2>3, <2>5 DEF OutcomeStatus
  <2>7. IsMined(n)' /\ mined'[n].ok = ok
    <3>1. pool[n] # NoVersion
      BY <1>5 DEF Mine
    <3> QED BY <1>1, <2>1, <3>1 DEF IsMined, NotMined
  <2>8. \A m \in Nonces : m # n => mined'[m] = mined[m]
    BY <1>1, <2>1
  <2>9. OnChain' = [OnChain EXCEPT ![n] = o]
    BY <2>7, <2>8 DEF OnChain, IsMined
  <2>10. Board!Happen(n, o)
    BY <1>3, <1>5, <2>5, <2>6, <2>9 DEF Board!Happen
  <2> QED BY <2>2, <2>10 DEF Board!Next
<1>6. ASSUME UNCHANGED <<mined, active>>, NEW n \in Nonces, NEW s \in Statuses \ Final,
             status' = [status EXCEPT ![n] = s]
      PROVE  Board!Next
  <2>1. Shown' = [Shown EXCEPT ![n] = "open"]
    BY <1>1, <1>6 DEF Shown
  <2>2. Board!Reopen(n)
    BY <1>2, <1>6, <2>1 DEF Board!Reopen
  <2> QED BY <2>2 DEF Board!Next
<1>7. ASSUME UNCHANGED mined,
             \A n \in Nonces : status'[n] = status[n] \/ status'[n] \in Final,
             NEW registered \in SUBSET Registrations, active' = active \cup registered,
             \A n \in registered : status'[n] = "SUCCESS"
      PROVE  Board!Next
  <2> DEFINE some == {n \in Nonces : status'[n] \in Final}
  <2>1. \A n \in some : IsMined(n) /\ status'[n] = OutcomeStatus(mined[n].ok)
    BY <1>7 DEF Inv, FinalStatusIsTrue, IsMined
  <2>2. \A n \in some : OnChain[n] = status'[n] /\ OnChain[n] # "open"
    BY <1>1, <2>1 DEF OnChain
  <2>3. \A n \in registered : n \in some /\ OnChain[n] = "SUCCESS"
    <3>1. \A n \in registered : n \in some
      BY <1>7, DispatchAssumption DEF Final
    <3> QED BY <1>7, <2>2, <3>1
  <2>4. Shown' = [n \in Nonces |-> IF n \in some THEN OnChain[n] ELSE Shown[n]]
    <3>1. \A n \in Nonces : n \notin some => status'[n] = status[n] /\ status[n] \notin Final
      BY <1>7
    <3> QED BY <2>2, <3>1 DEF Shown
  <2> HIDE DEF some
  <2>5. Board!Show(some, registered)
    BY <1>2, <1>7, <2>2, <2>3, <2>4 DEF Board!Show
  <2>6. some \in SUBSET Nonces
    BY DEF some
  <2> QED BY <2>5, <2>6 DEF Board!Next
<1> QED BY <1>4, <1>5, <1>6, <1>7

(* A step of the dispatch side is one the board allows.                    *)
LEMMA BoardDispatchStep ==
    ASSUME Inv, Inv', [DispatchNext]_<<chainVars, dispatchVars>>
    PROVE  [Board!Next]_(Board!outcomeVars)
<1>1. CASE UNCHANGED <<mined, status, active>>
  BY <1>1, BoardLemma
<1>2. ASSUME NEW n \in Nonces, Mine(n), UNCHANGED dispatchVars
      PROVE  [Board!Next]_(Board!outcomeVars)
  BY <1>2, BoardLemma DEF dispatchVars, subVars
<1>3. ASSUME NEW n \in Nonces, RecordAnswer(n)
      PROVE  [Board!Next]_(Board!outcomeVars)
  BY <1>3, BoardLemma, StatusLemma DEF RecordAnswer, UpdateDispatchTxStatus, subVars
<1>4. CASE CommitEvent
  <2>1. sub.nonce \in Nonces /\ sub.status \in Final /\ mined' = mined
    BY <1>4 DEF CommitEvent, Inv, Books, DispatchTypeOK
  <2>2. \A n \in Nonces : status'[n] = IF n = sub.nonce THEN sub.status ELSE status[n]
    BY <1>4 DEF CommitEvent, UpdateDispatchTxStatus, Inv, Books, DispatchTypeOK
  <2>3. \E some \in SUBSET Registrations :
            active' = active \cup some /\ \A n \in some : status'[n] = "SUCCESS"
    <3> DEFINE some == IF sub.nonce \in Registrations /\ sub.status = "SUCCESS"
                       THEN {sub.nonce} ELSE {}
    <3>1. some \in SUBSET Registrations
      OBVIOUS
    <3>2. active' = active \cup some
      BY <1>4 DEF CommitEvent, ActivateKeyPair
    <3>3. \A n \in some : status'[n] = "SUCCESS"
      BY <2>1, <2>2
    <3> HIDE DEF some
    <3> QED BY <3>1, <3>2, <3>3
  <2> QED BY <2>1, <2>2, <2>3, BoardLemma
<1>5. CASE CommitReceipts
  <2>1. UNCHANGED <<mined, active>>
    BY <1>5 DEF CommitReceipts, subVars
  <2>2. \A n \in Nonces : status'[n] = status[n] \/ status'[n] \in Final
    BY <1>5, StatusLemma DEF CommitReceipts
  <2>3. {} \in SUBSET Registrations /\ active' = active \cup {}
    BY <2>1
  <2> QED BY <2>1, <2>2, <2>3, BoardLemma
<1> QED BY <1>1, <1>2, <1>3, <1>4, <1>5
        DEF DispatchNext, chainVars, dispatchVars, subVars, ChainStep, Evict, DispatchWork,
            SendRawTx, Submit, AbandonRun, Subscriber, ReadEvent, DropEvent, HealthCheck,
            ReadFailedOTX

(* At the start nothing is mined and nothing is shown.                     *)
LEMMA BoardInit == DispatchInit => Board!Init
BY DEF DispatchInit, ChainInit, Board!Init, Board!Transactions, Nonces, OnChain, Shown,
       IsMined, Final

(* The DISPATCH job, the subscriber and the health check implement the     *)
(* ledger of outcomes, for any number of OTXs, attempts and faults.        *)
THEOREM DispatchImplementsLedger == DispatchSpec => OutcomeSpec
<1>1. Inv /\ Inv' /\ [DispatchNext]_<<chainVars, dispatchVars>>
          => [Board!Next]_(Board!outcomeVars)
  BY BoardDispatchStep
<1> QED BY <1>1, BoardInit, DispatchInvariant, PTL DEF DispatchSpec, OutcomeSpec, Board!Spec

(* An account is active only if its registration succeeded on chain.       *)
ActiveIsRegistered == active \subseteq Nonces /\ \A n \in active : OnChain[n] = "SUCCESS"

(* ... which follows from what the board allows alone, re-signing or not.  *)
LEMMA BoardKeepsActive ==
    ASSUME ActiveIsRegistered, [Board!Next]_(Board!outcomeVars)
    PROVE  ActiveIsRegistered'
<1> USE DEF ActiveIsRegistered, Board!Transactions
<1>1. CASE UNCHANGED Board!outcomeVars
  BY <1>1 DEF Board!outcomeVars
<1>2. ASSUME NEW n \in Nonces, NEW o, Board!Happen(n, o)
      PROVE  ActiveIsRegistered'
  <2>1. n \notin active
    BY <1>2 DEF Board!Happen
  <2>2. OnChain' = [OnChain EXCEPT ![n] = o] /\ active' = active
    BY <1>2 DEF Board!Happen
  <2>3. \A m \in active : OnChain'[m] = OnChain[m]
    BY <2>1, <2>2 DEF OnChain
  <2> QED BY <2>2, <2>3
<1>3. ASSUME NEW some \in SUBSET Nonces, NEW registered \in SUBSET Registrations,
             Board!Show(some, registered)
      PROVE  ActiveIsRegistered'
  BY <1>3, DispatchAssumption DEF Board!Show
<1>4. ASSUME NEW n \in Nonces, Board!Reopen(n)
      PROVE  ActiveIsRegistered'
  BY <1>4 DEF Board!Reopen
<1> QED BY <1>1, <1>2, <1>3, <1>4 DEF Board!Next, Nonces
============================================================================
