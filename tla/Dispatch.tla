------------------------------ MODULE Dispatch -----------------------------
(***************************************************************************)
(* What happens to the OTXs of one signer once they are signed: the        *)
(* DISPATCH worker sends each to the node and records the answer; the      *)
(* subscriber records the outcome the tracker reports; the health check    *)
(* looks receipts up.  All of them read, call out, and write the dispatch  *)
(* row later, in transactions that lock nothing while they wait, so their  *)
(* writes may land in any order.  (RETRIER only reads: its job changes no  *)
(* state and is left out.)  Ages compared with a minute are abstracted:    *)
(* an OTX in the network is always old enough.                             *)
(***************************************************************************)
EXTENDS Chain, FiniteSets

CONSTANTS Generic,        \* nonces of GENERIC_SIGN transactions
          Registrations,  \* nonces of ACCOUNT_REGISTER transactions
          MaxAttempts,    \* River's limit on a DISPATCH job's attempts
          MaxFailed       \* LIMIT of get-failed-otx: 100 in the code

ASSUME DispatchAssumption ==
    /\ Generic \subseteq Nonces /\ Registrations \subseteq Nonces
    /\ MaxAttempts \in Nat \ {0} /\ MaxFailed \in Nat \ {0}

VARIABLES
    status,    \* dispatch.status of each OTX
    ver,       \* the version in otx.raw_tx and otx.tx_hash
    job,       \* state of the DISPATCH job of each OTX
    attempt,   \* how often it was started
    answer,    \* what the node answered a run in progress, or "none"
    acked,     \* nonces whose tracker event was acknowledged
    sub,       \* the subscriber's open transaction
    active,    \* registrations whose account is active in the keystore
    check      \* the health check's open transaction: OTXs and hashes it read

subVars == <<acked, sub, active>>
dispatchVars == <<status, ver, job, attempt, answer, subVars, check>>

Final == {"SUCCESS", "REVERTED"}

Statuses == Final \cup { "PENDING", "IN_NETWORK", "LOW_NONCE", "NO_GAS",
                         "LOW_GAS_PRICE", "REPLACEMENT_UNDERPRICED",
                         "NETWORK_ERROR" }

NoSub == [nonce |-> NoVersion, status |-> "PENDING"]

OutcomeStatus(ok) == IF ok THEN "SUCCESS" ELSE "REVERTED"

DispatchInit ==
    /\ ChainInit
    /\ status = [n \in Nonces |-> IF n \in Sent0 THEN "IN_NETWORK" ELSE "PENDING"]
    /\ ver = [n \in Nonces |-> 0]
    /\ job = [n \in Nonces |-> IF n \in Sent0 THEN "completed" ELSE "available"]
    /\ attempt = [n \in Nonces |-> IF n \in Sent0 THEN 1 ELSE 0]
    /\ answer = [n \in Nonces |-> "none"]
    /\ acked = {}
    /\ sub = NoSub
    /\ active = {}
    /\ check = {}

(* UPDATE dispatch SET status: last writer wins.                           *)
UpdateDispatchTxStatus(n, s) == status' = [status EXCEPT ![n] = s]
----------------------------------------------------------------------------
(* The DISPATCH worker.                                                    *)

Retry(n) == job' = [job EXCEPT ![n] = IF attempt[n] < MaxAttempts
                                      THEN "available" ELSE "discarded"]

(* Work begins and sends the transaction it was given when the job was     *)
(* inserted, version 0, whatever the otx row holds by now.                 *)
SendRawTx(n) ==
    /\ job[n] = "available"
    /\ \E outcome \in Outcomes :
          /\ Submit(n, 0, outcome)
          /\ answer' = [answer EXCEPT ![n] = outcome]
    /\ job' = [job EXCEPT ![n] = "running"]
    /\ attempt' = [attempt EXCEPT ![n] = @ + 1]
    /\ UNCHANGED <<status, ver, subVars, check>>

(* The status an answer leads to.  An answer nobody classified counts as   *)
(* success: sendRawTx returns nil for it.                                  *)
DispatchStatus ==
    [ ok |-> "IN_NETWORK", unclassified |-> "IN_NETWORK",
      network |-> "NETWORK_ERROR", gas_price |-> "LOW_GAS_PRICE",
      no_gas |-> "NO_GAS", nonce_low |-> "LOW_NONCE",
      replacement_underpriced |-> "REPLACEMENT_UNDERPRICED" ]

(* Mutant: a refused transaction is tried again, whatever the attempts.    *)
JobAfterSnooze(n) ==
    IF answer[n] \in {"ok", "unclassified"}
    THEN job' = [job EXCEPT ![n] = "completed"]
    ELSE job' = [job EXCEPT ![n] = "available"]

(* How the job ends once the status is committed: a network error is       *)
(* returned and retried, any other refusal cancels the job.                *)
JobAfter(n) ==
    CASE answer[n] \in {"ok", "unclassified"} ->
             job' = [job EXCEPT ![n] = "completed"]
      [] answer[n] = "network" -> Retry(n)
      [] OTHER -> job' = [job EXCEPT ![n] = "cancelled"]

(* The status is committed; then the job ends, unless the process dies,    *)
(* the reply to the commit is lost or the RETRIER job cannot be inserted.  *)
RecordAnswer(n) ==
    /\ answer[n] \in DOMAIN DispatchStatus
    /\ UpdateDispatchTxStatus(n, DispatchStatus[answer[n]])
    /\ answer' = [answer EXCEPT ![n] = "none"]
    /\ \/ JobAfter(n) /\ UNCHANGED faults
       \/ Fault /\ Retry(n)
    /\ UNCHANGED <<pool, mined, ver, attempt, subVars, check>>

(* Nothing is committed: an error that is no DispatchError, or a crash or  *)
(* a database error after the transaction was sent.                        *)
AbandonRun(n) ==
    /\ answer[n] # "none"
    /\ IF answer[n] = "other" THEN UNCHANGED faults ELSE Fault
    /\ answer' = [answer EXCEPT ![n] = "none"]
    /\ Retry(n)
    /\ UNCHANGED <<pool, mined, status, ver, attempt, subVars, check>>

DispatchWork(n) == SendRawTx(n) \/ RecordAnswer(n) \/ AbandonRun(n)
----------------------------------------------------------------------------
(* The subscriber: one message at a time, redelivered until acknowledged.  *)

(* Mutant: the message is acknowledged when it is read.                    *)
ReadEventAcked(n) ==
    /\ sub = NoSub
    /\ IsMined(n) /\ n \notin acked
    /\ acked' = acked \cup {n}
    /\ sub' = IF HasReceipt(n, ver[n])
              THEN [nonce |-> n, status |-> OutcomeStatus(mined[n].ok)] ELSE NoSub
    /\ UNCHANGED <<chainVars, status, ver, job, attempt, answer, active, check>>

(* Mutant: the account is activated outside the transaction.               *)
ReadEventActivating(n) ==
    /\ sub = NoSub
    /\ IsMined(n) /\ n \notin acked
    /\ IF HasReceipt(n, ver[n])
       THEN /\ sub' = [nonce |-> n, status |-> OutcomeStatus(mined[n].ok)]
            /\ active' = IF n \in Registrations /\ mined[n].ok
                         THEN active \cup {n} ELSE active
            /\ UNCHANGED acked
       ELSE /\ acked' = acked \cup {n}
            /\ UNCHANGED <<sub, active>>
    /\ UNCHANGED <<chainVars, status, ver, job, attempt, answer, check>>

(* GetOTXByTxHash: an event whose hash no row holds is acknowledged and    *)
(* forgotten.                                                              *)
ReadEvent(n) ==
    /\ sub = NoSub
    /\ IsMined(n) /\ n \notin acked
    /\ IF HasReceipt(n, ver[n])
       THEN /\ sub' = [nonce |-> n, status |-> OutcomeStatus(mined[n].ok)]
            /\ UNCHANGED acked
       ELSE /\ acked' = acked \cup {n}
            /\ UNCHANGED sub
    /\ UNCHANGED <<chainVars, status, ver, job, attempt, answer, active, check>>

(* Mutant: the account is activated whatever the outcome.                  *)
ActivateAnyway(n, s) ==
    active' = IF n \in Registrations THEN active \cup {n} ELSE active

(* A successful registration activates the account, in the transaction     *)
(* that records the outcome.                                               *)
ActivateKeyPair(n, s) ==
    active' = IF n \in Registrations /\ s = "SUCCESS" THEN active \cup {n} ELSE active

(* The transaction commits and the message is acknowledged; or the         *)
(* acknowledgement is lost and the message delivered again.                *)
CommitEvent ==
    /\ sub # NoSub
    /\ UpdateDispatchTxStatus(sub.nonce, sub.status)
    /\ ActivateKeyPair(sub.nonce, sub.status)
    /\ \/ acked' = acked \cup {sub.nonce} /\ UNCHANGED faults
       \/ Fault /\ UNCHANGED acked
    /\ sub' = NoSub
    /\ UNCHANGED <<pool, mined, ver, job, attempt, answer, check>>

(* processEvent fails, or the process dies: the message comes again.       *)
DropEvent ==
    /\ Fault
    /\ sub # NoSub
    /\ sub' = NoSub
    /\ UNCHANGED <<pool, mined, status, ver, job, attempt, answer, acked, active, check>>

Subscriber == (\E n \in Nonces : ReadEvent(n)) \/ CommitEvent \/ DropEvent
----------------------------------------------------------------------------
(* The periodic health check.                                              *)

(* The oldest OTXs without an outcome.  One that was refused, or reverted, *)
(* keeps its place among them.                                             *)
GetFailedOTX ==
    LET failed == {n \in Nonces \ Generic : status[n] \notin Final \cup {"PENDING"}}
    IN  {n \in failed : Cardinality({k \in failed : k < n}) < MaxFailed}

InNetwork == {n \in GetFailedOTX : status[n] = "IN_NETWORK"}

(* Of the OTXs it gets, the health check looks up those IN_NETWORK.        *)
ReadFailedOTX ==
    /\ check = {}
    /\ InNetwork # {}
    /\ check' = {[nonce |-> n, ver |-> ver[n]] : n \in InNetwork}
    /\ UNCHANGED <<chainVars, status, ver, job, attempt, answer, subVars>>

(* Mutant: the receipt's own status is not looked at.                      *)
CommitAnyReceipt ==
    /\ check # {}
    /\ status' = [n \in Nonces |->
                     IF \E c \in check : c.nonce = n /\ HasReceipt(n, c.ver)
                     THEN "SUCCESS" ELSE status[n]]
    /\ check' = {}
    /\ UNCHANGED <<chainVars, ver, job, attempt, answer, subVars>>

(* Mutant: an OTX without a successful receipt is confirmed IN_NETWORK.    *)
CommitEveryCheck ==
    /\ check # {}
    /\ status' = [n \in Nonces |->
           IF \A c \in check : c.nonce # n THEN status[n]
           ELSE IF \E c \in check : c.nonce = n /\ HasReceipt(n, c.ver) /\ mined[n].ok
           THEN "SUCCESS" ELSE "IN_NETWORK"]
    /\ check' = {}
    /\ UNCHANGED <<chainVars, ver, job, attempt, answer, subVars>>

(* Receipts of the hashes read arrive, or some of a failing batch; only a  *)
(* successful one is recorded.                                             *)
CommitReceipts ==
    /\ check # {}
    /\ \E got \in SUBSET check :
          /\ IF got = check THEN UNCHANGED faults ELSE Fault
          /\ status' = [n \in Nonces |->
                 IF \E c \in got : c.nonce = n /\ HasReceipt(n, c.ver) /\ mined[n].ok
                 THEN "SUCCESS" ELSE status[n]]
    /\ check' = {}
    /\ UNCHANGED <<pool, mined, ver, job, attempt, answer, subVars>>

HealthCheck == ReadFailedOTX \/ CommitReceipts
----------------------------------------------------------------------------
DispatchNext ==
    \/ \E n \in Nonces : ChainStep(n) /\ UNCHANGED dispatchVars
    \/ \E n \in Nonces : DispatchWork(n)
    \/ Subscriber
    \/ HealthCheck

DispatchSpec == DispatchInit /\ [][DispatchNext]_<<chainVars, dispatchVars>>
----------------------------------------------------------------------------
(* What the rows promise: the outcomes on chain, and those the rows show.  *)
OnChain == [n \in Nonces |-> IF IsMined(n) THEN OutcomeStatus(mined[n].ok) ELSE "open"]
Shown == [n \in Nonces |-> IF status[n] \in Final THEN status[n] ELSE "open"]

Board == INSTANCE OutcomeLedger WITH outcome <- OnChain, shown <- Shown
----------------------------------------------------------------------------
(* Properties.                                                             *)

(* Every variable of the dispatch side has its type.                       *)
DispatchTypeOK ==
    /\ pool \in [Nonces -> Versions \cup {NoVersion}]
    /\ mined \in [Nonces -> Receipts \cup {NotMined}]
    /\ faults \in 0 .. MaxFaults
    /\ status \in [Nonces -> Statuses]
    /\ ver \in [Nonces -> Versions]
    /\ job \in [Nonces -> {"available", "running", "completed", "cancelled", "discarded"}]
    /\ attempt \in [Nonces -> 0 .. MaxAttempts]
    /\ answer \in [Nonces -> Outcomes \cup {"none"}]
    /\ acked \subseteq Nonces
    /\ sub = NoSub \/ sub \in [nonce : Nonces, status : Final]
    /\ active \subseteq Registrations
    /\ check \subseteq [nonce : Nonces, ver : Versions]

(* What a client reads in the end is what happened on chain: a status of   *)
(* SUCCESS or REVERTED is the outcome of the transaction mined with the    *)
(* OTX's nonce, whichever of the four writers set it and however late.     *)
FinalStatusIsTrue ==
    \A n \in Nonces :
        status[n] \in Final =>
            IsMined(n) /\ status[n] = OutcomeStatus(mined[n].ok)

(* Without re-signing, an account is active only if it is registered on    *)
(* chain, and the tracker's one message about its registration is not      *)
(* acknowledged before the activation is committed, whatever failed, was   *)
(* lost or came twice.                                                     *)
AcknowledgedIsActive ==
    /\ \A n \in active : IsMined(n) /\ mined[n].ok
    /\ \A n \in acked \cap Registrations : mined[n].ok => n \in active

(* The writers of the dispatch rows keep what OutcomeLedger promises: a    *)
(* row shows the one outcome there was, after it happened, or is open; it  *)
(* never turns from one outcome to the other; and an account is activated  *)
(* only by the transaction that records the success of its registration.   *)
OutcomeSpec == Board!Spec

(* Only the OTX's own DISPATCH job, before it has ended, takes a final     *)
(* status back.  Its first attempt met no outcome when it sent, so it can  *)
(* write IN_NETWORK or NETWORK_ERROR; to write a refusal, such as          *)
(* LOW_NONCE, over an outcome takes an attempt that sends once more.  As   *)
(* long as nothing fails, the first attempt writes IN_NETWORK at worst.    *)
ReopenedOnlyInDispatch ==
    [][\A n \in Nonces :
          status[n] \in Final /\ status'[n] \notin Final =>
              /\ job[n] = "running"
              /\ attempt[n] = 1 => status'[n] \in {"IN_NETWORK", "NETWORK_ERROR"}
              /\ faults = 0 => attempt[n] = 1 /\ status'[n] = "IN_NETWORK"
      ]_<<chainVars, dispatchVars>>
============================================================================
