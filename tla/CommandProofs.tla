---------------------------- MODULE CommandProofs ----------------------------
(* Proofs about UnlockCommand: the invariant of the unlocker is kept by    *)
(* the command as well, for any number of its runs.                        *)
EXTENDS UnlockCommand, UnlockerProofs

(* Finding the stuck OTXs and reading rows.                                *)
LEMMA LoadFromNonceStep ==
    ASSUME UInv, NEW c \in Unlockers, LoadFromNonce(c)
    PROVE  UInv'
<1> DEFINE rows == {n \in Nonces : n >= run[c].from}
           read == {[nonce |-> n, ver |-> ver[n]] : n \in rows}
           r == IF rows = {} THEN Idle
                ELSE [Idle EXCEPT !.at = "send", !.todo = read]
<1>1. Inv' /\ MinedStays
  BY NoCallLemma DEF LoadFromNonce, chainVars
<1>2. read \in SUBSET Rows
  BY DEF Rows, UInv, Inv, Books, DispatchTypeOK
<1>3. run' = [run EXCEPT ![c] = r]
  BY DEF LoadFromNonce
<1>4. r \in RunType /\ r.at # "write" /\ (r.at \notin {"idle", "load"} => r.todo # {})
  <2>1. CASE rows = {}
    BY <2>1, IdleLemma
  <2>2. CASE rows # {}
    <3>1. read # {}
      BY <2>2
    <3>2. r = [Idle EXCEPT !.at = "send", !.todo = read]
      BY <2>2
    <3> HIDE DEF read, rows, r
    <3> QED BY <1>2, <3>1, <3>2, IdleLemma DEF RunType, Places
  <2> QED BY <2>1, <2>2
<1> HIDE DEF r
<1> QED BY <1>1, <1>3, <1>4, OneRunLemma

(* Sending the stored transaction again.                                   *)
LEMMA ResubmitStep ==
    ASSUME UInv, NEW c \in Unlockers, Resubmit(c)
    PROVE  UInv'
<1>1. run[c].at \notin {"idle", "load"}
  BY DEF Resubmit, At
<1>2. Inv' /\ MinedStays
  BY <1>1, OTXLemma, SubmitOnlyLemma DEF Resubmit
<1>3. \/ WriteLater(c, NoVersion, "IN_NETWORK")
      \/ Go(c, "receipt")
      \/ Go(c, "resign")
      \/ NextOTX(c)
      \/ Stop(c)
      \/ UNCHANGED run
  BY DEF Resubmit
<1>4. "IN_NETWORK" \notin Final /\ "receipt" \in Places \ {"write"}
      /\ "resign" \in Places \ {"write"}
  BY DEF Final, Places
<1>5. CASE UNCHANGED run
  BY <1>2, <1>5, OtherRunLemma DEF UInv
<1> QED BY <1>1, <1>2, <1>3, <1>4, <1>5, WriteLaterLemma, GoLemma, NextOTXLemma, StopLemma

(* Sending a re-signed transaction, to one endpoint or the next.           *)
LEMMA resignAndSubmitStep ==
    ASSUME UInv, NEW c \in Unlockers, resignAndSubmit(c)
    PROVE  UInv'
<1>1. run[c].at = "resign"
  BY DEF resignAndSubmit, At
<1>2. PICK v \in Versions, outcome \in Outcomes :
          /\ Submit(OTX(c).nonce, v, outcome)
          /\ \/ WriteLater(c, v, "IN_NETWORK")
             \/ Stop(c)
             \/ run' = [run EXCEPT ![c].write.ver = v]
             \/ NextOTX(c)
  BY DEF resignAndSubmit
<1>3. Inv' /\ MinedStays
  BY <1>1, <1>2, OTXLemma, SubmitOnlyLemma DEF resignAndSubmit
<1>4. CASE run' = [run EXCEPT ![c].write.ver = v]
  <2> DEFINE w == [run[c].write EXCEPT !.ver = v]
             r == [run[c] EXCEPT !.write = w]
  <2>1. run[c] \in RunType
    BY DEF UInv
  <2>2. w \in Writes
    BY <2>1 DEF RunType, Writes
  <2>3. r \in RunType /\ r.at = "resign" /\ r.todo = run[c].todo
    BY <1>1, <2>1, <2>2 DEF RunType
  <2>4. run' = [run EXCEPT ![c] = r]
    BY <1>4, <2>1 DEF UInv, RunType
  <2>5. run[c].todo # {}
    BY <1>1 DEF UInv, RunInv
  <2> HIDE DEF r
  <2> QED BY <1>3, <2>3, <2>4, <2>5, OneRunLemma
<1>5. "IN_NETWORK" \notin Final
  BY DEF Final
<1> QED BY <1>1, <1>2, <1>3, <1>4, <1>5, WriteLaterLemma, StopLemma, NextOTXLemma

(* An outcome is prepared only from the receipt of what was mined.         *)
LEMMA checkReceiptAndUpdateStep ==
    ASSUME UInv, NEW c \in Unlockers, checkReceiptAndUpdate(c)
    PROVE  UInv'
<1> DEFINE n == OTX(c).nonce
<1>1. run[c].at \notin {"idle", "load"}
  BY DEF checkReceiptAndUpdate, At
<1>2. n \in Nonces /\ OTX(c).ver \in Versions
  BY <1>1, OTXLemma
<1>3. Inv' /\ MinedStays
  BY NoCallLemma DEF checkReceiptAndUpdate, chainVars
<1>4. CASE HasReceipt(n, OTX(c).ver)
  <2>1. WriteLater(c, NoVersion, OutcomeStatus(mined[n].ok))
    BY <1>4 DEF checkReceiptAndUpdate
  <2>2. IsMined(n)
    BY <1>2, <1>4, ReceiptLemma, TypedLemma DEF UInv
  <2> QED BY <1>1, <1>2, <1>3, <2>1, <2>2, MinedLemma, WriteLaterLemma
<1>5. CASE ~ HasReceipt(n, OTX(c).ver)
  BY <1>1, <1>3, <1>5, NextOTXLemma, StopLemma DEF checkReceiptAndUpdate
<1> QED BY <1>4, <1>5

(* Every step of the command keeps the invariant.                          *)
LEMMA CommandStep ==
    ASSUME UInv, NEW c \in Unlockers, Command(c)
    PROVE  UInv'
<1>1. CASE FindStuck(c)
  BY <1>1, ReadRowsStep DEF FindStuck
<1>2. CASE LeaveCreation(c)
  <2>1. Inv' /\ MinedStays
    BY <1>2, NoCallLemma DEF LeaveCreation, chainVars
  <2> QED BY <1>2, <2>1, NextOTXLemma DEF LeaveCreation, At
<1>3. CASE CommitUpdate(c)
  BY <1>3, CommitWriteStep DEF CommitUpdate
<1>4. CASE FailCommand(c)
  <2>1. Inv' /\ MinedStays
    BY <1>4, NoCallLemma DEF FailCommand
  <2> QED BY <1>4, <2>1, StopLemma, NextOTXLemma DEF FailCommand, At
<1> QED BY <1>1, <1>2, <1>3, <1>4, LoadFromNonceStep, ResubmitStep, resignAndSubmitStep,
           checkReceiptAndUpdateStep DEF Command

(* With the service and the command at work the invariant holds.           *)
THEOREM CommandInvariant == CommandSpec => []UInv
<1>1. UInv /\ [CommandNext]_unlockerVars => UInv'
  <2> SUFFICES ASSUME UInv, [CommandNext]_unlockerVars
               PROVE  UInv'
    OBVIOUS
  <2>1. ASSUME NEW c \in Commands, Command(c)
        PROVE  UInv'
    BY <2>1, CommandStep, CommandAssumption
  <2>2. CASE [UnlockerNext]_unlockerVars
    BY <2>2, UInvNext
  <2> QED BY <2>1, <2>2 DEF CommandNext, UnlockerNext
<1> QED BY <1>1, UInvInit, PTL DEF CommandSpec

(* The unlocker command, however many runs of it overlap with the service, *)
(* records no outcome that did not happen.                                 *)
THEOREM CommandShowsWhatHappened == CommandSpec => []FinalStatusIsTrue
<1>1. UInv => FinalStatusIsTrue
  BY DEF UInv, Inv
<1> QED BY <1>1, CommandInvariant, PTL

(* In every behaviour with the command every variable has its type.        *)
THEOREM CommandTypeCorrect == CommandSpec => []UnlockerTypeOK
<1>1. UInv => UnlockerTypeOK
  BY DEF UInv, Inv, Books, UnlockerTypeOK, RunType, Places
<1> QED BY <1>1, CommandInvariant, PTL

(* The command reads the rows as they are.                                 *)
LEMMA HashLoadFromNonce ==
    ASSUME UInv, HashInv, OneRun, NEW c \in Unlockers, LoadFromNonce(c)
    PROVE  HashInv'
<1> DEFINE rows == {n \in Nonces : n >= run[c].from}
           read == {[nonce |-> n, ver |-> ver[n]] : n \in rows}
<1>1. UNCHANGED <<pool, mined, dispatchVars>> /\ FaultsGrow /\ ver' = ver
  BY DEF LoadFromNonce, chainVars, dispatchVars, FaultsGrow
<1>2. run[c].at \notin {"guard", "write"}
  BY DEF LoadFromNonce, At
<1>3. run'[c] = IF rows = {} THEN Idle ELSE [Idle EXCEPT !.at = "send", !.todo = read]
  BY DEF LoadFromNonce, UInv
<1>4. \A r \in read : r.ver = ver[r.nonce]
  OBVIOUS
<1> HIDE DEF rows, read
<1>5. run'[c].at \in {"idle", "send"} /\ run'[c].todo \subseteq read
  BY <1>3 DEF Idle
<1>6. Current(c)'
  BY <1>1, <1>4, <1>5 DEF Current
<1> QED BY <1>1, <1>2, <1>5, <1>6, QuietStep

(* It stores what it re-signed without looking at the nonce again.         *)
LEMMA HashResignAndSubmit ==
    ASSUME UInv, HashInv, OneRun, NEW c \in Unlockers, resignAndSubmit(c)
    PROVE  HashInv'
<1>1. PICK v \in Versions, outcome \in Outcomes :
          /\ v > OTX(c).ver
          /\ Submit(OTX(c).nonce, v, outcome)
          /\ \/ outcome = "ok" /\ WriteLater(c, v, "IN_NETWORK")
             \/ outcome # "ok" /\ (Stop(c) \/ NextOTX(c))
             \/ outcome = "network" /\ run' = [run EXCEPT ![c].write.ver = v]
  BY DEF resignAndSubmit
<1>2. WriteLater(c, v, "IN_NETWORK") =>
          /\ run'[c].at = "write" /\ run'[c].todo = run[c].todo
          /\ run'[c].write.ver = v /\ run'[c].write.status \notin Final
  <2>1. "IN_NETWORK" \notin Final
    BY DEF Final
  <2>2. WriteLater(c, v, "IN_NETWORK") =>
            /\ run'[c].at = "write" /\ run'[c].todo = run[c].todo
            /\ run'[c].write = [ver |-> v, status |-> "IN_NETWORK"]
    BY GoesOnLemma, Zenon
  <2> QED BY <2>1, <2>2
<1>3. run' = [run EXCEPT ![c].write.ver = v] =>
          run'[c].at = "resign" /\ run'[c].todo = run[c].todo
  BY DEF resignAndSubmit, At, UInv, RunType
<1> QED BY <1>1, <1>2, <1>3, HashSendResigned DEF resignAndSubmit

(* A step of the command.                                                  *)
LEMMA HashCommand ==
    ASSUME UInv, HashInv, OneRun, NEW c \in Unlockers, Command(c)
    PROVE  HashInv'
<1>1. CASE FindStuck(c)
  BY <1>1, HashReadRows DEF FindStuck
<1>2. CASE Resubmit(c)
  <2>1. PICK outcome \in Outcomes :
            /\ Submit(OTX(c).nonce, OTX(c).ver, outcome)
            /\ \/ WriteLater(c, NoVersion, "IN_NETWORK")
               \/ Go(c, "receipt")
               \/ outcome \in {"gas_price", "replacement_underpriced"} /\ Go(c, "resign")
               \/ NextOTX(c)
               \/ Stop(c)
               \/ UNCHANGED run
    BY <1>2 DEF Resubmit
  <2> QED BY <1>2, <2>1, HashSendStored DEF Resubmit
<1>3. CASE LeaveCreation(c)
  <2>1. UNCHANGED <<pool, mined, dispatchVars>> /\ FaultsGrow /\ ver' = ver
    BY <1>3 DEF LeaveCreation, chainVars, dispatchVars, FaultsGrow
  <2>2. run[c].at \notin {"guard", "write"}
    BY <1>3 DEF LeaveCreation, At
  <2>3. run'[c].at \in {"idle", "send"} /\ Current(c)'
    BY <1>3, <2>1, GoesOnLemma, CurrentLemma DEF LeaveCreation
  <2> QED BY <2>1, <2>2, <2>3, QuietStep
<1>4. CASE checkReceiptAndUpdate(c)
  <2> DEFINE n == OTX(c).nonce
  <2>1. \/ HasReceipt(n, OTX(c).ver) /\ WriteLater(c, NoVersion, OutcomeStatus(mined[n].ok))
        \/ NextOTX(c)
        \/ Stop(c)
    BY <1>4 DEF checkReceiptAndUpdate
  <2> QED BY <1>4, <2>1, HashLookUp DEF checkReceiptAndUpdate
<1>5. CASE CommitUpdate(c)
  BY <1>5, HashCommitWrite DEF CommitUpdate
<1>6. CASE FailCommand(c)
  BY <1>6, HashFail DEF FailCommand
<1> QED BY <1>1, <1>2, <1>3, <1>4, <1>5, <1>6, HashLoadFromNonce, HashResignAndSubmit
        DEF Command

(* Run alone, whether as the worker or as the command that does not look   *)
(* at the nonce again, the unlocker leaves every settled OTX with the hash *)
(* that was mined, whatever one fault does.                                *)
THEOREM CommandSettlesMinedHashes ==
    ASSUME OneRun
    PROVE  CommandSpec => []SettledHashIsMined
<1>1. UInv /\ UInv' /\ HashInv /\ [CommandNext]_unlockerVars => HashInv'
  <2> SUFFICES ASSUME UInv, UInv', HashInv, [CommandNext]_unlockerVars
               PROVE  HashInv'
    OBVIOUS
  <2>1. CASE UNCHANGED unlockerVars
    BY <2>1, HashDispatchStep DEF unlockerVars
  <2>2. CASE DispatchNext /\ UNCHANGED run
    BY <2>2, HashDispatchStep
  <2>3. ASSUME NEW u \in Unlockers, Unlock(u) \/ FailUnlocker(u)
        PROVE  HashInv'
    BY <2>3, HashUnlock
  <2>4. ASSUME NEW c \in Commands, Command(c)
        PROVE  HashInv'
    BY <2>4, HashCommand, CommandAssumption
  <2> QED BY <2>1, <2>2, <2>3, <2>4 DEF CommandNext
<1>2. HashInv => SettledHashIsMined
  BY DEF HashInv, ShownHash, SettledHashIsMined
<1> QED BY <1>1, <1>2, HashInit, CommandInvariant, PTL DEF CommandSpec

(* The command is a fifth writer of the same rows, without the worker's    *)
(* care, and they implement the ledger of outcomes all the same.           *)
THEOREM CommandImplementsLedger == CommandSpec => OutcomeSpec
<1>1. UInv /\ UInv' /\ [CommandNext]_unlockerVars => [Board!Next]_(Board!outcomeVars)
  <2> SUFFICES ASSUME UInv, UInv', [CommandNext]_unlockerVars
               PROVE  [Board!Next]_(Board!outcomeVars)
    OBVIOUS
  <2>1. Inv /\ Inv'
    BY DEF UInv
  <2>2. CASE [DispatchNext]_<<chainVars, dispatchVars>>
    BY <2>1, <2>2, BoardDispatchStep
  <2>3. ASSUME NEW u \in Unlockers, Unlock(u) \/ FailUnlocker(u)
        PROVE  [Board!Next]_(Board!outcomeVars)
    BY <2>3, BoardUnlockStep
  <2>4. ASSUME NEW c \in Commands, Command(c)
        PROVE  [Board!Next]_(Board!outcomeVars)
    <3>1. CASE UNCHANGED <<mined, status, active>>
      BY <2>1, <3>1, BoardLemma
    <3>2. CASE CommitWrite(c)
      BY <3>2, BoardCommitLemma, CommandAssumption
    <3> QED BY <2>4, <3>1, <3>2
            DEF Command, FindStuck, getStuckOTXs, LoadFromNonce, Resubmit, LeaveCreation,
                resignAndSubmit, Submit, checkReceiptAndUpdate, CommitUpdate, FailCommand,
                chainVars, dispatchVars, subVars
  <2> QED BY <2>2, <2>3, <2>4 DEF CommandNext, unlockerVars
<1>2. UnlockerInit => Board!Init
  BY BoardInit DEF UnlockerInit
<1> QED BY <1>1, <1>2, CommandInvariant, PTL DEF CommandSpec, OutcomeSpec, Board!Spec

(* Nor does one with the command at work, which re-signs without looking   *)
(* at the nonce again.                                                     *)
THEOREM CommandActivatesRegistered == CommandSpec => []ActiveIsRegistered
<1>1. Board!Init => ActiveIsRegistered
  BY DEF Board!Init, ActiveIsRegistered
<1>2. ActiveIsRegistered /\ [Board!Next]_(Board!outcomeVars) => ActiveIsRegistered'
  BY BoardKeepsActive
<1> QED BY <1>1, <1>2, CommandImplementsLedger, PTL DEF OutcomeSpec, Board!Spec
============================================================================
