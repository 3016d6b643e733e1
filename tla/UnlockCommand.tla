---------------------------- MODULE UnlockCommand ----------------------------
(***************************************************************************)
(* cmd/unlocker: the unlocker as a command, run by hand while the service  *)
(* goes on, so that it is a fifth writer of the same rows.  It shares the  *)
(* worker's way through the rows (run, todo, write) but not its care: it   *)
(* does not look at the nonce again after it sent a re-signed transaction, *)
(* it goes on after most errors, recovers no orphans, and tries several    *)
(* endpoints of the node in turn.  With -dry-run it changes nothing, which *)
(* is the behaviour without it.                                            *)
(***************************************************************************)
EXTENDS Unlocker

CONSTANT Commands    \* the runs that are runs of the command

ASSUME CommandAssumption == Commands \subseteq Unlockers

(* getStuckOTXs, then the account's network nonce.                         *)
FindStuck(c) == getStuckOTXs(c)

(* getOTXsFromNonce: unlike the worker's, only the rows from the nonce on, *)
(* so that main's branch for rows below it is never taken.                 *)
LoadFromNonce(c) ==
    /\ At(c, "load")
    /\ LET rows == {n \in Nonces : n >= run[c].from}
       IN  run' = [run EXCEPT ![c] =
                      IF rows = {} THEN Idle
                      ELSE [Idle EXCEPT !.at = "send",
                               !.todo = {[nonce |-> n, ver |-> ver[n]] : n \in rows}]]
    /\ UNCHANGED <<chainVars, dispatchVars>>

(* sendRawTxMultiNode of the stored transaction.  After a network error    *)
(* the next endpoint is tried; without one, or after an answer nobody      *)
(* classified, the next row.  Without gas the account is skipped.          *)
Resubmit(c) ==
    /\ At(c, "send")
    /\ \E outcome \in Outcomes :
          /\ Submit(OTX(c).nonce, OTX(c).ver, outcome)
          /\ CASE outcome = "ok" -> WriteLater(c, NoVersion, "IN_NETWORK")
               [] outcome = "nonce_low" -> Go(c, "receipt")
               [] outcome \in {"gas_price", "replacement_underpriced"} -> Go(c, "resign")
               [] outcome = "no_gas" -> Stop(c)
               [] outcome = "network" -> UNCHANGED run \/ NextOTX(c)
               [] OTHER -> NextOTX(c)
    /\ UNCHANGED dispatchVars

(* A contract creation is refused by resignTx.                             *)
LeaveCreation(c) ==
    /\ At(c, "resign")
    /\ OTX(c).nonce \in Creations
    /\ NextOTX(c)
    /\ UNCHANGED <<chainVars, dispatchVars>>

(* resignAndSubmit: signed once, sent to one endpoint after the other, and *)
(* written as soon as one accepts it.                                      *)
resignAndSubmit(c) ==
    /\ At(c, "resign")
    /\ OTX(c).nonce \notin Creations
    /\ \E v \in Versions, outcome \in Outcomes :
          /\ v > OTX(c).ver
          /\ run[c].write.ver \in {NoVersion, v}
          /\ Submit(OTX(c).nonce, v, outcome)
          /\ CASE outcome = "ok" -> WriteLater(c, v, "IN_NETWORK")
               [] outcome = "no_gas" -> Stop(c)
               [] outcome = "network" ->
                      \/ run' = [run EXCEPT ![c].write.ver = v]
                      \/ NextOTX(c)
               [] OTHER -> NextOTX(c)
    /\ UNCHANGED dispatchVars

(* Mutant: an absent receipt is taken for a failed transaction.            *)
checkReceiptOrUpdate(c) ==
    /\ At(c, "receipt")
    /\ LET n == OTX(c).nonce
       IN  WriteLater(c, NoVersion, OutcomeStatus(HasReceipt(n, OTX(c).ver) /\ mined[n].ok))
    /\ UNCHANGED <<chainVars, dispatchVars>>

(* checkReceiptAndUpdate.  Without a receipt the lookup fails and the next *)
(* row follows, or it returns nil, on which the command dies.              *)
checkReceiptAndUpdate(c) ==
    /\ At(c, "receipt")
    /\ LET n == OTX(c).nonce
       IN  IF HasReceipt(n, OTX(c).ver)
           THEN WriteLater(c, NoVersion, OutcomeStatus(mined[n].ok))
           ELSE \/ "error" \in NoReceipt /\ NextOTX(c)
                \/ "nil" \in NoReceipt /\ Stop(c)
    /\ UNCHANGED <<chainVars, dispatchVars>>

(* updateDispatchStatus, updateOTXAndDispatch.                             *)
CommitUpdate(c) == CommitWrite(c)

(* An error is logged and the next row follows, or the command is killed   *)
(* or cannot go on.                                                        *)
FailCommand(c) ==
    /\ Fault
    /\ ~At(c, "idle")
    /\ Stop(c) \/ (~At(c, "load") /\ NextOTX(c))
    /\ UNCHANGED <<pool, mined, dispatchVars>>

Command(c) ==
    \/ FindStuck(c)
    \/ LoadFromNonce(c)
    \/ Resubmit(c)
    \/ LeaveCreation(c)
    \/ resignAndSubmit(c)
    \/ checkReceiptAndUpdate(c)
    \/ CommitUpdate(c)
    \/ FailCommand(c)

CommandNext ==
    \/ DispatchNext /\ UNCHANGED run
    \/ \E u \in Unlockers \ Commands : Unlock(u) \/ FailUnlocker(u)
    \/ \E c \in Commands : Command(c)

CommandSpec == UnlockerInit /\ [][CommandNext]_unlockerVars
==============================================================================
