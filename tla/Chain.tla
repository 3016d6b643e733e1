------------------------------- MODULE Chain -------------------------------
(***************************************************************************)
(* The blockchain node as the custodial sees it over JSON-RPC, for the     *)
(* transactions of one signer.  It is outside the repository: it is        *)
(* modelled from the answers the code distinguishes (dispatch_error.go,    *)
(* unlocker.go) and from the comments on races with block inclusion.       *)
(*                                                                         *)
(* Nonce n is that of one OTX.  A version of a transaction is how often it *)
(* was re-signed at a higher price: version 0 is the one first signed.     *)
(***************************************************************************)
EXTENDS Integers

CONSTANTS N,            \* number of OTXs of the signer, nonces 0 .. N-1
          MaxVersion,   \* bound: how often an OTX is re-signed
          MaxFaults,    \* bound: refusals, lost messages, evictions, failures
          Sent0,        \* nonces whose version 0 the node holds at the start
          Dear          \* nonces whose version 0 is below today's fees

ASSUME ChainAssumption ==
    /\ N \in Nat \ {0} /\ MaxVersion \in Nat /\ MaxFaults \in Nat
    /\ Sent0 \subseteq 0 .. N - 1 /\ Dear \subseteq 0 .. N - 1
    /\ MaxVersion = 0 => Dear = {}

VARIABLES pool,    \* the version the node holds for each nonce, or NoVersion
          mined,   \* what was mined with each nonce, or NotMined
          faults   \* faults so far

chainVars == <<pool, mined, faults>>

Nonces == 0 .. N - 1
Versions == 0 .. MaxVersion
NoVersion == -1
NotMined == [ver |-> NoVersion, ok |-> FALSE, near |-> FALSE]

(* near: mined at most five blocks after the signer's previous one.        *)
Receipts == [ver : Versions, ok : BOOLEAN, near : BOOLEAN]

IsMined(n) == mined[n] # NotMined

(* The receipt lookup of a hash finds the transaction mined with n.        *)
HasReceipt(n, v) == mined[n].ver = v

(* eth.Nonce at the latest block: nonces are mined in order, so this is    *)
(* the number of those mined.                                              *)
NetworkNonce == CHOOSE k \in 0 .. N : \A n \in Nonces : IsMined(n) <=> n < k

Outcomes == {"ok", "nonce_low", "replacement_underpriced", "gas_price", "no_gas",
             "unclassified", "network", "other"}

ChainInit ==
    /\ pool = [n \in Nonces |-> IF n \in Sent0 THEN 0 ELSE NoVersion]
    /\ mined = [n \in Nonces |-> NotMined]
    /\ faults = 0

Fault == faults < MaxFaults /\ faults' = faults + 1

TooCheap(n, v) == n \in Dear /\ v = 0

Accept(n, v) ==
    /\ ~IsMined(n)
    /\ v > pool[n]
    /\ ~TooCheap(n, v)
    /\ pool' = [pool EXCEPT ![n] = v]

(* Refusals for as long as the node is in the state it is in.  "Already    *)
(* known" is one of the answers nobody classifies.                         *)
Refusal(n, v) ==
    CASE IsMined(n)     -> "nonce_low"
      [] pool[n] = v    -> "unclassified"
      [] v < pool[n]    -> "replacement_underpriced"
      [] TooCheap(n, v) -> "gas_price"
      [] OTHER          -> "none"

(* Refusals that a later attempt may not meet: the balance, the fees of    *)
(* the moment, the node's limits.  The last version is never too cheap.    *)
PassingRefusals(n, v) ==
    {"no_gas", "unclassified"} \cup
    (IF v < MaxVersion THEN {"gas_price"} ELSE {}) \cup
    (IF v < MaxVersion /\ pool[n] # NoVersion THEN {"replacement_underpriced"} ELSE {})

(* eth_sendRawTransaction of version v with nonce n, and what comes back.  *)
Submit(n, v, outcome) ==
    /\ \/ /\ outcome = "ok"
          /\ Accept(n, v)
          /\ UNCHANGED faults
       \/ /\ outcome = Refusal(n, v)
          /\ UNCHANGED <<pool, faults>>
       \/ /\ Fault
          /\ outcome \in PassingRefusals(n, v)
          /\ UNCHANGED pool
       \/ /\ Fault               \* the answer does not arrive
          /\ outcome \in {"network", "other"}
          /\ Accept(n, v) \/ UNCHANGED pool
    /\ UNCHANGED mined

(* The next nonce's transaction, unless its price is below today's fees,   *)
(* is sealed into a block and succeeds or reverts.  How near matters only  *)
(* where an OTX may have two versions.                                     *)
Mine(n) ==
    /\ n = NetworkNonce
    /\ pool[n] # NoVersion /\ ~TooCheap(n, pool[n])
    /\ \E ok \in BOOLEAN, near \in BOOLEAN :
           /\ n = 0 \/ MaxVersion = 0 => ~near
           /\ mined' = [mined EXCEPT ![n] = [ver |-> pool[n], ok |-> ok, near |-> near]]
    /\ pool' = [pool EXCEPT ![n] = NoVersion]
    /\ UNCHANGED faults

(* The node forgets a pending transaction.                                 *)
Evict(n) ==
    /\ Fault
    /\ pool[n] # NoVersion
    /\ pool' = [pool EXCEPT ![n] = NoVersion]
    /\ UNCHANGED mined

ChainStep(n) == Mine(n) \/ Evict(n)
============================================================================
