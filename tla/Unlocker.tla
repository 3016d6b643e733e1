------------------------------ MODULE Unlocker ------------------------------
(***************************************************************************)
(* UnlockerWorker: every five minutes it resubmits the signer's OTXs that  *)
(* have no outcome, lowest nonce first, re-signs at a higher price those   *)
(* the node finds too cheap, and looks up what became of those whose nonce *)
(* is already used.  It works from rows it read once, calls the node       *)
(* between its reads and its writes, and holds no lock meanwhile, so the   *)
(* DISPATCH job, the subscriber, the health check, block production and    *)
(* another run of itself (RunOnStart of a second process) interleave.      *)
(*                                                                         *)
(* Keys and gas settings are abstracted to the version signed: a re-signed *)
(* transaction is a later version of the same nonce.                       *)
(***************************************************************************)
EXTENDS Dispatch

CONSTANTS Unlockers,   \* runs of the worker that may overlap
          Creations,   \* nonces of contract creations (To is nil)
          NoReceipt    \* what the client library may make of a missing
                       \* receipt: the code reckons with "nil" and "error"

ASSUME UnlockerAssumption ==
    /\ Creations \subseteq Nonces
    /\ NoReceipt \subseteq {"nil", "error"} /\ NoReceipt # {}

VARIABLE run           \* what each run of the worker is doing

unlockerVars == <<chainVars, dispatchVars, run>>

Rows == [nonce : Nonces, ver : Versions]

(* A pending write of setStatus, recoverOrphanedNonce or resignAndResubmit *)
(* to the OTX being processed; NoVersion leaves raw_tx and tx_hash alone.  *)
Writes == [ver : Versions \cup {NoVersion}, status : Final \cup {"IN_NETWORK"}]
NoWrite == [ver |-> NoVersion, status |-> "IN_NETWORK"]

Idle == [at |-> "idle", from |-> 0, todo |-> {}, write |-> NoWrite]

At(u, place) == run[u].at = place

(* The OTX being processed, as it was when the rows were read.             *)
OTX(u) == CHOOSE r \in run[u].todo : \A q \in run[u].todo : r.nonce <= q.nonce

Go(u, place) == run' = [run EXCEPT ![u].at = place]

Stop(u) == run' = [run EXCEPT ![u] = Idle]

(* processOTX returned nil: on to the next row.                            *)
NextOTX(u) ==
    LET rest == run[u].todo \ {OTX(u)}
    IN  run' = [run EXCEPT ![u] =
                   IF rest = {} THEN Idle
                   ELSE [Idle EXCEPT !.at = "send", !.todo = rest]]

WriteLater(u, v, s) ==
    run' = [run EXCEPT ![u].at = "write",
                       ![u].write = [ver |-> v, status |-> s]]
----------------------------------------------------------------------------
Unsettled == {n \in Nonces : status[n] \notin Final}

(* Work and processAccount: some OTX is stuck, so its account's network    *)
(* nonce is read (one account: affectedAccounts is a singleton).           *)
getStuckOTXs(u) ==
    /\ At(u, "idle")
    /\ Unsettled \ Generic # {}
    /\ run' = [run EXCEPT ![u].at = "load", ![u].from = NetworkNonce]
    /\ UNCHANGED <<chainVars, dispatchVars>>

(* Mutant: only rows from the network nonce on are read.                   *)
getOTXsFromNonceOnly(u) ==
    /\ At(u, "load")
    /\ LET rows == {n \in Nonces : n >= run[u].from}
       IN  run' = [run EXCEPT ![u] =
                      IF rows = {} THEN Idle
                      ELSE [Idle EXCEPT !.at = "send",
                               !.todo = {[nonce |-> n, ver |-> ver[n]] : n \in rows}]]
    /\ UNCHANGED <<chainVars, dispatchVars>>

(* The rows from that nonce on and all those without an outcome, those of  *)
(* GENERIC_SIGN included.                                                  *)
getOTXsFromNonce(u) ==
    /\ At(u, "load")
    /\ LET rows == {n \in Nonces : n >= run[u].from \/ n \in Unsettled}
       IN  run' = [run EXCEPT ![u] =
                      IF rows = {} THEN Idle
                      ELSE [Idle EXCEPT !.at = "send",
                               !.todo = {[nonce |-> n, ver |-> ver[n]] : n \in rows}]]
    /\ UNCHANGED <<chainVars, dispatchVars>>

(* Mutant: a low nonce is recorded as such, as the DISPATCH worker does.   *)
processOTXLowNonce(u) ==
    /\ At(u, "send")
    /\ \E outcome \in Outcomes :
          /\ Submit(OTX(u).nonce, OTX(u).ver, outcome)
          /\ CASE outcome = "ok" -> WriteLater(u, NoVersion, "IN_NETWORK")
               [] outcome = "nonce_low" -> WriteLater(u, NoVersion, "LOW_NONCE")
               [] outcome \in {"gas_price", "replacement_underpriced"} -> Go(u, "resign")
               [] outcome = "no_gas" -> NextOTX(u)
               [] OTHER -> Stop(u)
    /\ UNCHANGED dispatchVars

(* processOTX: the stored transaction is sent as it is.  A creation is     *)
(* never re-signed; an answer nobody classified stops the account.         *)
processOTX(u) ==
    /\ At(u, "send")
    /\ \E outcome \in Outcomes :
          /\ Submit(OTX(u).nonce, OTX(u).ver, outcome)
          /\ CASE outcome = "ok" -> WriteLater(u, NoVersion, "IN_NETWORK")
               [] outcome = "nonce_low" -> Go(u, "receipt")
               [] outcome \in {"gas_price", "replacement_underpriced"} ->
                      IF OTX(u).nonce \in Creations THEN NextOTX(u) ELSE Go(u, "resign")
               [] outcome = "no_gas" -> NextOTX(u)
               [] OTHER -> Stop(u)
    /\ UNCHANGED dispatchVars

(* Mutant: the transaction is signed again at its old price.               *)
resignUnbumped(u) ==
    /\ At(u, "resign")
    /\ \E outcome \in Outcomes :
          /\ Submit(OTX(u).nonce, OTX(u).ver, outcome)
          /\ IF outcome = "ok" THEN Go(u, "guard") ELSE Stop(u)
    /\ UNCHANGED dispatchVars

(* resignAndResubmit: signed at the oracle's price or 15% above the old    *)
(* one, and sent before anything is stored.                                *)
resignAndResubmit(u) ==
    /\ At(u, "resign")
    /\ \E v \in Versions, outcome \in Outcomes :
          /\ v > OTX(u).ver
          /\ Submit(OTX(u).nonce, v, outcome)
          /\ IF outcome = "ok"
             THEN run' = [run EXCEPT ![u].at = "guard", ![u].write.ver = v]
             ELSE Stop(u)
    /\ UNCHANGED dispatchVars

(* The nonce is consumed: "recover from the original", the hash that was   *)
(* stored when the rows were read.                                         *)
GuardFires(u) ==
    /\ At(u, "guard")
    /\ NetworkNonce > OTX(u).nonce
    /\ Go(u, "receipt")
    /\ UNCHANGED <<chainVars, dispatchVars>>

(* It is not, or the node did not say: the new transaction is stored.      *)
GuardPasses(u) ==
    /\ At(u, "guard")
    /\ IF NetworkNonce > OTX(u).nonce THEN Fault ELSE UNCHANGED faults
    /\ WriteLater(u, run[u].write.ver, "IN_NETWORK")
    /\ UNCHANGED <<pool, mined, dispatchVars>>

(* The next nonce's OTX is settled, and its block is at most five after    *)
(* the one that holds the transaction sought.                              *)
Anchored(n) ==
    /\ n + 1 \in Nonces
    /\ status[n + 1] = "SUCCESS"
    /\ HasReceipt(n + 1, ver[n + 1])
    /\ mined[n + 1].near

(* Mutant: the status of an orphan is recovered, its hash is not.          *)
recoverStatusOnly(u) ==
    LET n == OTX(u).nonce
    IN  IF Anchored(n)
        THEN WriteLater(u, NoVersion, OutcomeStatus(mined[n].ok))
        ELSE NextOTX(u)

(* Mutant: what consumed the nonce is taken to have succeeded.             *)
recoverAsSuccess(u) ==
    LET n == OTX(u).nonce
    IN  IF Anchored(n)
        THEN WriteLater(u, mined[n].ver, "SUCCESS")
        ELSE NextOTX(u)

(* Mutant: an orphan is left alone.                                        *)
recoverNothing(u) == NextOTX(u)

(* The transaction that did consume the nonce is looked for below the      *)
(* anchor; without one, or if it is too far, nothing changes.              *)
recoverOrphanedNonce(u) ==
    LET n == OTX(u).nonce
    IN  IF Anchored(n)
        THEN WriteLater(u, mined[n].ver, OutcomeStatus(mined[n].ok))
        ELSE NextOTX(u)

(* A receipt of the hash read with the rows, or none.  Where a missing     *)
(* receipt is an error of the lookup it stops the account; where it is nil *)
(* the nonce is looked at.  What is mined stays mined, so the lookups that *)
(* follow are part of this step.                                           *)
checkReceipt(u) ==
    /\ At(u, "receipt")
    /\ LET n == OTX(u).nonce
       IN  IF HasReceipt(n, OTX(u).ver)
           THEN WriteLater(u, NoVersion, OutcomeStatus(mined[n].ok))
           ELSE \/ "error" \in NoReceipt /\ Stop(u)
                \/ /\ "nil" \in NoReceipt
                   /\ IF NetworkNonce > n THEN recoverOrphanedNonce(u) ELSE NextOTX(u)
    /\ UNCHANGED <<chainVars, dispatchVars>>

(* The transaction that updates the rows of otx and dispatch commits.      *)
CommitWrite(u) ==
    /\ At(u, "write")
    /\ LET n == OTX(u).nonce
           w == run[u].write
       IN  /\ UpdateDispatchTxStatus(n, w.status)
           /\ ver' = IF w.ver = NoVersion THEN ver ELSE [ver EXCEPT ![n] = w.ver]
    /\ NextOTX(u)
    /\ UNCHANGED <<chainVars, job, attempt, answer, subVars, check>>

(* An error of the node or the database, the job's timeout, a crash.  Only *)
(* a search for an orphan that meets one leaves it at that and goes on.    *)
FailUnlocker(u) ==
    /\ Fault
    /\ ~At(u, "idle")
    /\ \/ Stop(u)
       \/ At(u, "receipt") /\ ~HasReceipt(OTX(u).nonce, OTX(u).ver) /\ NextOTX(u)
    /\ UNCHANGED <<pool, mined, dispatchVars>>

Unlock(u) ==
    \/ getStuckOTXs(u)
    \/ getOTXsFromNonce(u)
    \/ processOTX(u)
    \/ resignAndResubmit(u)
    \/ GuardFires(u)
    \/ GuardPasses(u)
    \/ checkReceipt(u)
    \/ CommitWrite(u)

UnlockerInit == DispatchInit /\ run = [u \in Unlockers |-> Idle]

UnlockerNext ==
    \/ DispatchNext /\ UNCHANGED run
    \/ \E u \in Unlockers : Unlock(u) \/ FailUnlocker(u)

UnlockerSpec == UnlockerInit /\ [][UnlockerNext]_unlockerVars

(* Blocks are produced, River runs its jobs, the tracker's messages are    *)
(* redelivered, and the periodic jobs go on: all of them code or services  *)
(* that keep running.  Nothing is assumed of refusals, losses and crashes. *)
Fairness ==
    /\ \A n \in Nonces :
          /\ WF_unlockerVars(Mine(n) /\ UNCHANGED <<dispatchVars, run>>)
          /\ WF_unlockerVars(DispatchWork(n) /\ UNCHANGED run)
    /\ WF_unlockerVars(Subscriber /\ UNCHANGED run)
    /\ WF_unlockerVars(HealthCheck /\ UNCHANGED run)
    /\ \A u \in Unlockers : WF_unlockerVars(Unlock(u))

FairUnlockerSpec == UnlockerSpec /\ Fairness
----------------------------------------------------------------------------
(* Properties.                                                             *)

(* The dispatch side's types, and those of the runs in progress.           *)
UnlockerTypeOK ==
    /\ DispatchTypeOK
    /\ run \in [Unlockers ->
          [ at : {"idle", "load", "send", "resign", "guard", "receipt", "write"},
            from : 0 .. N, todo : SUBSET Rows, write : Writes ]]

(* The hash a settled OTX shows is that of the transaction that was mined: *)
(* a re-signed OTX is not settled under the hash it was replaced with, nor *)
(* is the hash of a settled OTX replaced.  So it is after one fault, with  *)
(* one run at a time.  A refusal and an eviction together let the DISPATCH *)
(* job's version be mined while a later one waits to be stored, and of two *)
(* runs that sign at different prices either may store its hash last.      *)
SettledHashIsMined ==
    faults <= 1 => \A n \in Nonces : status[n] \in Final => HasReceipt(n, ver[n])

(* Liveness: an OTX nobody re-signs gets its outcome recorded for good     *)
(* once it is mined, whichever event, answer or receipt was lost or late   *)
(* and in whichever order the four writers wrote.                          *)
MinedAreSettled ==
    \A n \in Nonces \ Generic :
        IsMined(n) ~> [](status[n] \in Final)

(* Liveness: an account whose registration nobody re-signs becomes active  *)
(* once it is mined, although the tracker's event is the only thing that   *)
(* activates it: the health check and the unlocker just set the status.    *)
RegisteredBecomeActive ==
    \A n \in Registrations : IsMined(n) /\ mined[n].ok ~> n \in active

(* What no run gets past: a creation that became too cheap, as it is never *)
(* signed again; a transaction that became too cheap while the node keeps  *)
(* it, as sending it again is answered "already known", which stops the    *)
(* account before it is signed again; and an orphan, where the lookup of   *)
(* its hash is an error.                                                   *)
HoldsUp(m) ==
    \/ m \in Creations \cap Dear
    \/ pool[m] # NoVersion /\ TooCheap(m, pool[m])
    \/ /\ "error" \in NoReceipt
       /\ IsMined(m) /\ ~HasReceipt(m, ver[m]) /\ status[m] \notin Final

(* Liveness: every OTX of the custodial's own kinds is mined in the end,   *)
(* unless one of its own or a lower nonce holds the account up for good:   *)
(* the unlocker gets going again what refusals, evictions, crashes and     *)
(* cancelled DISPATCH jobs held up, and signs again what became too cheap. *)
OTXsGetMined ==
    \A n \in Nonces \ Generic :
        <>IsMined(n) \/ <>[](\E m \in 0 .. n : HoldsUp(m))

(* Liveness, where the client returns nil for a missing receipt: an OTX    *)
(* whose stored hash was never mined is recovered by recoverOrphanedNonce  *)
(* once the next OTX of the account is settled and near.                   *)
OrphansRecovered ==
    NoReceipt = {"nil"} =>
        \A n \in Nonces \ Generic :
            <>[]Anchored(n) => <>[](status[n] \in Final)

(* "If the original tx was sealed into a block while we were re-signing,   *)
(* our new tx is now invalid.  Recover via checkReceipt" (comment in       *)
(* resignAndResubmit): an OTX whose nonce is consumed before the guard     *)
(* looks ends up with its outcome.                                         *)
GuardRecovers ==
    \A u \in Unlockers, n \in Nonces \ Generic :
        At(u, "guard") /\ OTX(u).nonce = n /\ IsMined(n) ~> status[n] \in Final

(* "account has no gas, stopping sequence" (processOTX): short of a        *)
(* creation, which it may leave as it is, a run goes on to the next nonce  *)
(* only after it sent this one or looked up what became of it.             *)
NoGasStopsSequence ==
    [][\A u \in Unlockers :
          At(u, "send") /\ OTX(u).nonce \notin Creations =>
              ~(At(u, "send")' /\ run'[u].todo # run[u].todo)]_unlockerVars
============================================================================
