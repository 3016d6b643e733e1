--------------------------- MODULE UnlockerProofs ---------------------------
(* Proofs about Unlocker, for any number of OTXs, versions, overlapping    *)
(* runs, attempts and faults.                                              *)
EXTENDS Unlocker, DispatchProofs, WellFoundedInduction

Places == {"idle", "load", "send", "resign", "guard", "receipt", "write"}

RunType == [at : Places, from : 0 .. N, todo : SUBSET Rows, write : Writes]

(* A run that has read its rows has an OTX in hand, and an outcome it is   *)
(* about to write is that of what was mined with the OTX's nonce.          *)
RunInv(u) ==
    /\ run[u].at \notin {"idle", "load"} => run[u].todo # {}
    /\ run[u].at = "write" /\ run[u].write.status \in Final =>
          /\ IsMined(OTX(u).nonce)
          /\ run[u].write.status = OutcomeStatus(mined[OTX(u).nonce].ok)

UInv ==
    /\ Inv
    /\ run \in [Unlockers -> RunType]
    /\ \A u \in Unlockers : RunInv(u)

(* Among any rows there is one with the lowest nonce.                      *)
LEMMA LowestLemma ==
    ASSUME NEW rows \in SUBSET Rows, rows # {}
    PROVE  \E r \in rows : \A q \in rows : r.nonce <= q.nonce
<1> DEFINE nonces == {r.nonce : r \in rows}
           less == {p \in Nat \X Nat : p[1] < p[2]}
<1>1. nonces # {} /\ nonces \subseteq Nat
  BY DEF Rows, Nonces
<1>2. IsWellFoundedOn(less, Nat)
  BY NatLessThanWellFounded DEF OpToRel
<1>3. PICK n \in nonces : \A m \in nonces : ~ (<<m, n>> \in less)
  <2> HIDE DEF less, nonces
  <2> QED BY <1>1, <1>2, WFMin
<1>4. \A m \in nonces : ~ (m < n)
  BY <1>1, <1>3
<1>5. PICK r \in rows : r.nonce = n
  OBVIOUS
<1>6. \A q \in rows : q.nonce \in Nat /\ ~ (q.nonce < r.nonce)
  BY <1>1, <1>4, <1>5
<1>7. r.nonce \in Nat
  BY <1>6
<1> QED BY <1>6, <1>7

(* The OTX in hand is one of the rows read.                                *)
LEMMA OTXLemma ==
    ASSUME UInv, NEW u \in Unlockers, run[u].at \notin {"idle", "load"}
    PROVE  OTX(u) \in run[u].todo /\ OTX(u).nonce \in Nonces /\ OTX(u).ver \in Versions
<1> DEFINE Lowest(r) == \A q \in run[u].todo : r.nonce <= q.nonce
<1>1. run[u].todo \in SUBSET Rows /\ run[u].todo # {}
  BY DEF UInv, RunType, RunInv
<1>2. \E r \in run[u].todo : Lowest(r)
  BY <1>1, LowestLemma
<1>3. OTX(u) = CHOOSE r \in run[u].todo : Lowest(r)
  BY DEF OTX
<1>4. OTX(u) \in run[u].todo
  <2> HIDE DEF Lowest
  <2> QED BY <1>2, <1>3
<1> QED BY <1>1, <1>4 DEF Rows

(* At the start no run is in progress.                                     *)
THEOREM UInvInit == UnlockerInit => UInv
<1> SUFFICES ASSUME UnlockerInit
             PROVE  UInv
  OBVIOUS
<1>1. Inv
  BY InvInit DEF UnlockerInit
<1>2. run \in [Unlockers -> RunType]
  BY ChainAssumption
     DEF UnlockerInit, Idle, RunType, Places, Writes, NoWrite
<1>3. \A u \in Unlockers : RunInv(u)
  BY DEF UnlockerInit, Idle, RunInv
<1> QED BY <1>1, <1>2, <1>3 DEF UInv

(* A run whose record did not change: what is mined stays mined.           *)
LEMMA OtherRunLemma ==
    ASSUME UInv, MinedStays, NEW u \in Unlockers, run'[u] = run[u]
    PROVE  RunInv(u)'
<1>1. OTX(u)' = OTX(u)
  BY DEF OTX
<1>2. CASE run[u].at = "write"
  <2>1. OTX(u).nonce \in Nonces
    BY <1>2, OTXLemma
  <2> QED BY <1>1, <1>2, <2>1 DEF UInv, RunInv, MinedStays, IsMined
<1>3. CASE run[u].at # "write"
  BY <1>3 DEF UInv, RunInv
<1> QED BY <1>2, <1>3

(* A step of one run, after which its record is r.                         *)
LEMMA OneRunLemma ==
    ASSUME UInv, Inv', MinedStays, NEW u \in Unlockers, NEW r \in RunType,
           run' = [run EXCEPT ![u] = r],
           r.at \notin {"idle", "load"} => r.todo # {},
           r.at = "write" /\ r.write.status \in Final =>
               /\ run[u].at \notin {"idle", "load"}
               /\ r.todo = run[u].todo
               /\ IsMined(OTX(u).nonce)
               /\ r.write.status = OutcomeStatus(mined[OTX(u).nonce].ok)
    PROVE  UInv'
<1>1. run' \in [Unlockers -> RunType] /\ run'[u] = r
  BY DEF UInv
<1>2. \A i \in Unlockers \ {u} : RunInv(i)'
  BY OtherRunLemma DEF UInv
<1>3. RunInv(u)'
  <2>1. CASE r.at = "write" /\ r.write.status \in Final
    <3>1. OTX(u)' = OTX(u)
      BY <1>1, <2>1 DEF OTX
    <3>2. OTX(u).nonce \in Nonces
      BY <2>1, OTXLemma
    <3> QED BY <1>1, <2>1, <3>1, <3>2 DEF RunInv, MinedStays, IsMined
  <2>2. CASE ~ (r.at = "write" /\ r.write.status \in Final)
    BY <1>1, <2>2 DEF RunInv
  <2> QED BY <2>1, <2>2
<1> QED BY <1>1, <1>2, <1>3 DEF UInv

(* A run that is over has its type.                                        *)
LEMMA IdleLemma == Idle \in RunType /\ Idle.at = "idle"
BY ChainAssumption DEF Idle, RunType, Places, Writes, NoWrite

(* The ways a run goes on.                                                 *)
LEMMA StopLemma ==
    ASSUME UInv, Inv', MinedStays, NEW u \in Unlockers, Stop(u)
    PROVE  UInv'
BY IdleLemma, OneRunLemma DEF Stop

(* A run goes to another place with the same rows.                         *)
LEMMA GoLemma ==
    ASSUME UInv, Inv', MinedStays, NEW u \in Unlockers,
           run[u].at \notin {"idle", "load"},
           NEW place \in Places \ {"write"}, Go(u, place)
    PROVE  UInv'
<1> DEFINE r == [run[u] EXCEPT !.at = place]
<1>1. run[u] \in RunType
  BY DEF UInv
<1>2. r \in RunType /\ r.at = place /\ r.todo = run[u].todo
  BY <1>1 DEF RunType
<1>3. run' = [run EXCEPT ![u] = r]
  BY <1>1 DEF UInv, Go
<1>4. run[u].todo # {}
  BY DEF UInv, RunInv
<1> HIDE DEF r
<1> QED BY <1>2, <1>3, <1>4, OneRunLemma

(* A run goes on to the next row, or ends.                                 *)
LEMMA NextOTXLemma ==
    ASSUME UInv, Inv', MinedStays, NEW u \in Unlockers,
           run[u].at \notin {"idle", "load"}, NextOTX(u)
    PROVE  UInv'
<1> DEFINE rest == run[u].todo \ {OTX(u)}
           r == IF rest = {} THEN Idle ELSE [Idle EXCEPT !.at = "send", !.todo = rest]
<1>1. rest \in SUBSET Rows
  BY DEF UInv, RunType
<1>2. r \in RunType /\ r.at # "write" /\ (r.at \notin {"idle", "load"} => r.todo # {})
  <2>1. CASE rest = {}
    BY <2>1, IdleLemma
  <2>2. CASE rest # {}
    <3> HIDE DEF rest
    <3>1. r = [Idle EXCEPT !.at = "send", !.todo = rest]
      BY <2>2
    <3> QED BY <1>1, <2>2, <3>1, IdleLemma DEF RunType, Places
  <2> QED BY <2>1, <2>2
<1>3. run' = [run EXCEPT ![u] = r]
  BY DEF NextOTX
<1> HIDE DEF r
<1> QED BY <1>2, <1>3, OneRunLemma

(* A run prepares a write: of no outcome, or of the one on chain.          *)
LEMMA WriteLaterLemma ==
    ASSUME UInv, Inv', MinedStays, NEW u \in Unlockers,
           run[u].at \notin {"idle", "load"},
           NEW v \in Versions \cup {NoVersion}, NEW s \in Final \cup {"IN_NETWORK"},
           s \in Final => /\ IsMined(OTX(u).nonce)
                          /\ s = OutcomeStatus(mined[OTX(u).nonce].ok),
           WriteLater(u, v, s)
    PROVE  UInv'
<1> DEFINE w == [ver |-> v, status |-> s]
           r == [run[u] EXCEPT !.at = "write", !.write = w]
<1>1. run[u] \in RunType /\ w \in Writes
  BY DEF UInv, Writes
<1>2. r \in RunType /\ r.todo = run[u].todo /\ r.write = w /\ w.status = s
  BY <1>1 DEF RunType, Places
<1>3. run' = [run EXCEPT ![u] = r]
  BY <1>1 DEF UInv, WriteLater
<1>4. run[u].todo # {}
  BY DEF UInv, RunInv
<1> HIDE DEF r, w
<1> QED BY <1>2, <1>3, <1>4, OneRunLemma

(* Steps that call the node, or nobody, and write no row.                  *)
LEMMA SubmitOnlyLemma ==
    ASSUME UInv, NEW n \in Nonces, NEW v \in Versions, NEW outcome,
           Submit(n, v, outcome), UNCHANGED dispatchVars
    PROVE  Inv' /\ MinedStays
BY SubmitLemma, TypedLemma, ChainOnlyLemma DEF UInv

(* Steps that send nothing keep the invariant of the dispatch side.        *)
LEMMA NoCallLemma ==
    ASSUME UInv, UNCHANGED <<pool, mined, dispatchVars>>, faults' = faults \/ Fault
    PROVE  Inv' /\ MinedStays
BY OffChainLemma, ChainOnlyLemma DEF UInv

(* Reading rows.                                                           *)
LEMMA ReadRowsStep ==
    ASSUME UInv, NEW u \in Unlockers, getStuckOTXs(u) \/ getOTXsFromNonce(u)
    PROVE  UInv'
<1>1. Inv' /\ MinedStays
  BY NoCallLemma DEF getStuckOTXs, getOTXsFromNonce, chainVars
<1>2. run[u] \in RunType
  BY DEF UInv
<1>3. CASE getStuckOTXs(u)
  <2> DEFINE r == [run[u] EXCEPT !.at = "load", !.from = NetworkNonce]
  <2>1. NetworkNonce \in 0 .. N
    BY TypedLemma, NetworkNonceLemma DEF UInv
  <2>2. r \in RunType /\ r.at = "load"
    BY <1>2, <2>1 DEF RunType, Places
  <2>3. run' = [run EXCEPT ![u] = r]
    BY <1>2, <1>3 DEF getStuckOTXs, UInv
  <2> HIDE DEF r
  <2> QED BY <1>1, <2>2, <2>3, OneRunLemma
<1>4. CASE getOTXsFromNonce(u)
  <2> DEFINE rows == {n \in Nonces : n >= run[u].from \/ n \in Unsettled}
             read == {[nonce |-> n, ver |-> ver[n]] : n \in rows}
             r == IF rows = {} THEN Idle
                  ELSE [Idle EXCEPT !.at = "send", !.todo = read]
  <2>1. read \in SUBSET Rows
    BY DEF Rows, UInv, Inv, Books, DispatchTypeOK
  <2>2. run' = [run EXCEPT ![u] = r]
    BY <1>4 DEF getOTXsFromNonce
  <2>3. r \in RunType /\ r.at # "write" /\ (r.at \notin {"idle", "load"} => r.todo # {})
    <3>1. CASE rows = {}
      BY <3>1, IdleLemma
    <3>2. CASE rows # {}
      <4>1. read # {}
        BY <3>2
      <4>2. r = [Idle EXCEPT !.at = "send", !.todo = read]
        BY <3>2
      <4> HIDE DEF read, rows, r
      <4> QED BY <2>1, <4>1, <4>2, IdleLemma DEF RunType, Places
    <3> QED BY <3>1, <3>2
  <2> HIDE DEF r
  <2> QED BY <1>1, <2>2, <2>3, OneRunLemma
<1> QED BY <1>3, <1>4

(* Sending the stored transaction again.                                   *)
LEMMA processOTXStep ==
    ASSUME UInv, NEW u \in Unlockers, processOTX(u)
    PROVE  UInv'
<1>1. run[u].at \notin {"idle", "load"}
  BY DEF processOTX, At
<1>2. OTX(u).nonce \in Nonces /\ OTX(u).ver \in Versions
  BY <1>1, OTXLemma
<1>3. Inv' /\ MinedStays
  BY <1>2, SubmitOnlyLemma DEF processOTX
<1>4. \/ WriteLater(u, NoVersion, "IN_NETWORK")
      \/ Go(u, "receipt")
      \/ Go(u, "resign")
      \/ NextOTX(u)
      \/ Stop(u)
  BY DEF processOTX
<1>5. "IN_NETWORK" \notin Final /\ "receipt" \in Places \ {"write"}
      /\ "resign" \in Places \ {"write"}
  BY DEF Final, Places
<1> QED BY <1>1, <1>3, <1>4, <1>5, WriteLaterLemma, GoLemma, NextOTXLemma, StopLemma

(* Sending a re-signed transaction.                                        *)
LEMMA resignAndResubmitStep ==
    ASSUME UInv, NEW u \in Unlockers, resignAndResubmit(u)
    PROVE  UInv'
<1>1. run[u].at \notin {"idle", "load"}
  BY DEF resignAndResubmit, At
<1>2. PICK v \in Versions, outcome \in Outcomes :
          /\ Submit(OTX(u).nonce, v, outcome)
          /\ IF outcome = "ok"
             THEN run' = [run EXCEPT ![u].at = "guard", ![u].write.ver = v]
             ELSE Stop(u)
  BY DEF resignAndResubmit
<1>3. Inv' /\ MinedStays
  BY <1>1, <1>2, OTXLemma, SubmitOnlyLemma DEF resignAndResubmit
<1>4. CASE outcome = "ok"
  <2> DEFINE w == [run[u].write EXCEPT !.ver = v]
             r == [run[u] EXCEPT !.at = "guard", !.write = w]
  <2>1. run[u] \in RunType
    BY DEF UInv
  <2>2. w \in Writes
    BY <2>1 DEF RunType, Writes
  <2>3. r \in RunType /\ r.at = "guard" /\ r.todo = run[u].todo
    BY <2>1, <2>2 DEF RunType, Places
  <2>4. run' = [run EXCEPT ![u] = r]
    BY <1>2, <1>4, <2>1 DEF UInv, RunType
  <2>5. run[u].todo # {}
    BY <1>1 DEF UInv, RunInv
  <2> HIDE DEF r
  <2> QED BY <1>3, <2>3, <2>4, <2>5, OneRunLemma
<1>5. CASE outcome # "ok"
  BY <1>2, <1>3, <1>5, StopLemma
<1> QED BY <1>4, <1>5

(* The guard after it was sent prepares no outcome.                        *)
LEMMA GuardStep ==
    ASSUME UInv, NEW u \in Unlockers, GuardFires(u) \/ GuardPasses(u)
    PROVE  UInv'
<1>1. run[u].at \notin {"idle", "load"}
  BY DEF GuardFires, GuardPasses, At
<1>2. CASE GuardFires(u)
  <2>1. Inv' /\ MinedStays
    BY <1>2, NoCallLemma DEF GuardFires, chainVars
  <2> QED BY <1>1, <1>2, <2>1, GoLemma DEF GuardFires, Places
<1>3. CASE GuardPasses(u)
  <2>1. Inv' /\ MinedStays
    BY <1>3, NoCallLemma DEF GuardPasses
  <2>2. run[u].write.ver \in Versions \cup {NoVersion}
    BY DEF UInv, RunType, Writes
  <2>3. "IN_NETWORK" \notin Final
    BY DEF Final
  <2> QED BY <1>1, <1>3, <2>1, <2>2, <2>3, WriteLaterLemma DEF GuardPasses
<1> QED BY <1>2, <1>3

(* What is mined has a version and an outcome.                             *)
LEMMA MinedLemma ==
    ASSUME UInv, NEW n \in Nonces, IsMined(n)
    PROVE  mined[n].ver \in Versions /\ OutcomeStatus(mined[n].ok) \in Final
BY TypedLemma, StatusLemma DEF UInv, ChainTyped, IsMined, Receipts

(* An outcome is prepared only from the receipt of what was mined.         *)
LEMMA checkReceiptStep ==
    ASSUME UInv, NEW u \in Unlockers, checkReceipt(u)
    PROVE  UInv'
<1> DEFINE n == OTX(u).nonce
<1>1. run[u].at \notin {"idle", "load"}
  BY DEF checkReceipt, At
<1>2. n \in Nonces /\ OTX(u).ver \in Versions
  BY <1>1, OTXLemma
<1>3. Inv' /\ MinedStays
  BY NoCallLemma DEF checkReceipt, chainVars
<1>4. CASE HasReceipt(n, OTX(u).ver)
  <2>1. WriteLater(u, NoVersion, OutcomeStatus(mined[n].ok))
    BY <1>4 DEF checkReceipt
  <2>2. IsMined(n)
    BY <1>2, <1>4, ReceiptLemma, TypedLemma DEF UInv
  <2> QED BY <1>1, <1>2, <1>3, <2>1, <2>2, MinedLemma, WriteLaterLemma
<1>5. CASE /\ ~ HasReceipt(n, OTX(u).ver) /\ ~ Stop(u)
           /\ NetworkNonce > n /\ Anchored(n)
  <2>1. WriteLater(u, mined[n].ver, OutcomeStatus(mined[n].ok))
    BY <1>5 DEF checkReceipt, recoverOrphanedNonce
  <2>2. IsMined(n)
    BY <1>2, <1>5, NetworkNonceLemma, TypedLemma DEF UInv, Nonces
  <2> QED BY <1>1, <1>2, <1>3, <2>1, <2>2, MinedLemma, WriteLaterLemma
<1>6. CASE /\ ~ HasReceipt(n, OTX(u).ver) /\ ~ Stop(u)
           /\ ~ (NetworkNonce > n /\ Anchored(n))
  <2>1. NextOTX(u)
    BY <1>6 DEF checkReceipt, recoverOrphanedNonce
  <2> QED BY <1>1, <1>3, <2>1, NextOTXLemma
<1>7. CASE Stop(u)
  BY <1>3, <1>7, StopLemma
<1> QED BY <1>4, <1>5, <1>6, <1>7

(* A prepared outcome is still what was mined when it is committed.        *)
LEMMA CommitWriteStep ==
    ASSUME UInv, NEW u \in Unlockers, CommitWrite(u)
    PROVE  UInv'
<1> DEFINE n == OTX(u).nonce
           w == run[u].write
<1>1. run[u].at = "write"
  BY DEF CommitWrite, At
<1>2. n \in Nonces
  BY <1>1, OTXLemma
<1>3. w \in Writes
  BY DEF UInv, RunType
<1>4. ChainTyped' /\ ChainInv' /\ MinedStays
  BY OffChainLemma DEF CommitWrite, chainVars, UInv
<1>5. status' = [status EXCEPT ![n] = w.status]
  BY DEF CommitWrite, UpdateDispatchTxStatus
<1>6. ver' \in [Nonces -> Versions]
  BY <1>2, <1>3 DEF CommitWrite, Writes, UInv, Inv, Books, DispatchTypeOK
<1>7. w.status \in Statuses
  BY <1>3, StatusLemma DEF Writes
<1>8. DispatchTypeOK' /\ AttemptInv'
  BY <1>4, <1>5, <1>6, <1>7
     DEF CommitWrite, subVars, UInv, Inv, Books, DispatchTypeOK, AttemptInv, ChainTyped
<1>9. w.status \in Final => IsMined(n) /\ w.status = OutcomeStatus(mined[n].ok)
  BY <1>1 DEF UInv, RunInv
<1>10. \A m \in Nonces : \/ status'[m] = status[m]
                         \/ status'[m] \notin Final
                         \/ IsMined(m) /\ status'[m] = OutcomeStatus(mined[m].ok)
  <2> SUFFICES ASSUME NEW m \in Nonces, m = n
               PROVE  \/ status'[m] \notin Final
                      \/ IsMined(m) /\ status'[m] = OutcomeStatus(mined[m].ok)
    BY <1>5 DEF UInv, Inv, Books, DispatchTypeOK
  <2>1. status'[m] = w.status
    BY <1>5 DEF UInv, Inv, Books, DispatchTypeOK
  <2> QED BY <1>9, <2>1
<1>11. SubInv' /\ FinalStatusIsTrue'
  BY <1>4, <1>8, <1>10, OutcomeLemma DEF CommitWrite, subVars, UInv
<1>12. Inv'
  BY <1>4, <1>8, <1>11 DEF Inv, Books
<1> QED BY <1>1, <1>4, <1>12, NextOTXLemma DEF CommitWrite

(* A run that fails forgets what it was about to write.                    *)
LEMMA FailUnlockerStep ==
    ASSUME UInv, NEW u \in Unlockers, FailUnlocker(u)
    PROVE  UInv'
<1>1. Inv' /\ MinedStays
  BY NoCallLemma DEF FailUnlocker
<1> QED BY <1>1, StopLemma, NextOTXLemma DEF FailUnlocker, At

(* A step of another writer.                                               *)
LEMMA DispatchStep ==
    ASSUME UInv, [DispatchNext]_<<chainVars, dispatchVars>>, UNCHANGED run
    PROVE  UInv'
<1>1. Inv'
  BY InvNext DEF UInv
<1>2. MinedStays
  <2>1. CASE mined' = mined
    BY <2>1 DEF MinedStays
  <2>2. ASSUME NEW n \in Nonces, ChainStep(n)
        PROVE  MinedStays
    BY <2>2, ChainStepLemma, TypedLemma DEF UInv
  <2> QED BY <2>1, <2>2
          DEF DispatchNext, chainVars, DispatchWork, SendRawTx, Submit, RecordAnswer,
              AbandonRun, Subscriber, ReadEvent, CommitEvent, DropEvent, HealthCheck,
              ReadFailedOTX, CommitReceipts
<1>3. \A u \in Unlockers : RunInv(u)'
  BY <1>2, OtherRunLemma
<1> QED BY <1>1, <1>3 DEF UInv

(* Every step, of the unlocker or of another writer, keeps the invariant.  *)
THEOREM UInvNext == UInv /\ [UnlockerNext]_unlockerVars => UInv'
<1> SUFFICES ASSUME UInv, [UnlockerNext]_unlockerVars
             PROVE  UInv'
  OBVIOUS
<1>1. CASE UNCHANGED unlockerVars
  BY <1>1, DispatchStep DEF unlockerVars
<1>2. CASE DispatchNext /\ UNCHANGED run
  BY <1>2, DispatchStep
<1>3. ASSUME NEW u \in Unlockers, Unlock(u)
      PROVE  UInv'
  BY <1>3, ReadRowsStep, processOTXStep, resignAndResubmitStep, GuardStep,
     checkReceiptStep, CommitWriteStep DEF Unlock
<1> QED BY <1>1, <1>2, <1>3, FailUnlockerStep DEF UnlockerNext

(* The invariant holds throughout.                                         *)
THEOREM UnlockerInvariant == UnlockerSpec => []UInv
BY UInvInit, UInvNext, PTL DEF UnlockerSpec

(* In every behaviour with the unlocker every variable has its type.       *)
THEOREM UnlockerTypeCorrect == UnlockerSpec => []UnlockerTypeOK
<1>1. UInv => UnlockerTypeOK
  BY DEF UInv, Inv, Books, UnlockerTypeOK, RunType, Places
<1> QED BY <1>1, UnlockerInvariant, PTL

(* Nor does the unlocker, in however many overlapping runs, record an      *)
(* outcome that did not happen, although it writes long after it looked.   *)
THEOREM AllWritersShowWhatHappened == UnlockerSpec => []FinalStatusIsTrue
<1>1. UInv => FinalStatusIsTrue
  BY DEF UInv, Inv
<1> QED BY <1>1, UnlockerInvariant, PTL

(***************************************************************************)
(* The hash a settled OTX shows, with one run at a time and at most one    *)
(* fault.  A prepared write holds a version that is, or will be, the one   *)
(* mined: the node has it and refuses the DISPATCH job's version 0, as too *)
(* cheap if it was never ahead of it, as underpriced otherwise.            *)
(***************************************************************************)
OneRun == \A u, w \in Unlockers : u = w

(* Nobody else re-signs: the rows a run has read are still as they were.   *)
Current(u) == \A r \in run[u].todo : r.ver = ver[r.nonce]

(* The run is about to store another version of n.                         *)
Holding(u, n) ==
    /\ run[u].at \in {"guard", "write"}
    /\ run[u].write.ver # NoVersion
    /\ OTX(u).nonce = n

(* A version v about to be stored for n.                                   *)
HeldInv(n, v) ==
    /\ ver[n] <= v
    /\ IsMined(n) => mined[n].ver = v
    /\ ~IsMined(n) =>
          /\ pool[n] = v \/ (faults = 1 /\ pool[n] = NoVersion)
          /\ n \in Dear \/ (faults = 1 /\ pool[n] = v)

RunHash(u) ==
    /\ At(u, "resign") /\ faults = 0 => OTX(u).nonce \in Dear /\ ver[OTX(u).nonce] = 0
    /\ At(u, "guard") => run[u].write.ver # NoVersion
    /\ \A n \in Nonces : Holding(u, n) => HeldInv(n, run[u].write.ver)
    /\ At(u, "write") /\ run[u].write.status \in Final /\ run[u].write.ver = NoVersion =>
          HasReceipt(OTX(u).nonce, ver[OTX(u).nonce])

(* The node never falls behind what is stored.                             *)
ChainHash ==
    \A n \in Nonces :
        /\ IsMined(n) => pool[n] = NoVersion /\ ver[n] <= mined[n].ver
        /\ ~IsMined(n) =>
              /\ pool[n] # NoVersion => ver[n] <= pool[n]
              /\ ver[n] > 0 /\ (pool[n] = NoVersion \/ faults = 0) => n \in Dear

(* Without a fault it is ahead of it only while a run holds the version.   *)
NodeAhead == {n \in Nonces : pool[n] > ver[n]}

AheadInv ==
    faults = 0 => \A n \in NodeAhead : \E u \in Unlockers :
                      Holding(u, n) /\ run[u].write.ver = pool[n]

(* What is shown or about to be shown bears the hash that was mined.       *)
ShownHash ==
    /\ \A n \in Nonces : status[n] \in Final => HasReceipt(n, ver[n])
    /\ \A c \in check : c.ver <= ver[c.nonce]
    /\ sub # NoSub => HasReceipt(sub.nonce, ver[sub.nonce])

HashInv ==
    /\ \A u \in Unlockers : Current(u)
    /\ faults <= 1 => /\ ChainHash /\ AheadInv /\ ShownHash
                      /\ \A u \in Unlockers : RunHash(u)

(* Faults only become more.                                                *)
FaultsGrow == faults' = faults \/ faults' = faults + 1

(* What the numbers of the node and the rows are.                          *)
LEMMA HashTypes ==
    ASSUME UInv
    PROVE  /\ faults \in Nat /\ NoVersion = -1 /\ MaxVersion \in Nat
           /\ \A n \in Nonces : /\ ver[n] \in Versions /\ ver[n] \in Nat
                                /\ pool[n] \in Versions \cup {NoVersion} /\ pool[n] \in Int
                                /\ mined[n].ver \in Int
           /\ pool \in [Nonces -> Versions \cup {NoVersion}]
           /\ DOMAIN mined = Nonces
           /\ \A v \in Versions : v \in Nat /\ v # NoVersion
<1> USE ChainAssumption DEF Versions, NoVersion
<1>1. ChainTyped /\ ver \in [Nonces -> Versions]
  BY TypedLemma DEF UInv, Inv, Books, DispatchTypeOK
<1>2. \A n \in Nonces : mined[n].ver \in Int
  BY <1>1 DEF ChainTyped, Receipts, NotMined
<1> QED BY <1>1, <1>2 DEF ChainTyped

(* A receipt of a row's hash is one of what was mined.                     *)
LEMMA HashReceipt ==
    ASSUME UInv, NEW n \in Nonces, HasReceipt(n, ver[n])
    PROVE  IsMined(n)
BY HashTypes, ReceiptLemma, TypedLemma DEF UInv

(* Without a fault the node holds nothing newer than the row of an OTX     *)
(* nobody is about to write.                                               *)
LEMMA NoneAheadLemma ==
    ASSUME UInv, HashInv, OneRun, NEW u \in Unlockers, faults = 0,
           run[u].at \notin {"guard", "write"} \/ run[u].write.ver = NoVersion
    PROVE  NodeAhead = {}
<1>1. AheadInv
  BY DEF HashInv
<1>2. \A n \in Nonces, w \in Unlockers : ~Holding(w, n)
  BY DEF OneRun, Holding
<1> QED BY <1>1, <1>2 DEF AheadInv, NodeAhead

(* What eth_sendRawTransaction may do.                                     *)
LEMMA SubmitEffect ==
    ASSUME NEW n, NEW v, NEW outcome, Submit(n, v, outcome), faults \in Nat
    PROVE  /\ mined' = mined /\ FaultsGrow
           /\ pool' = pool \/ Accept(n, v)
           /\ outcome = "ok" => Accept(n, v) /\ faults' = faults
           /\ outcome # "ok" /\ faults' = faults => pool' = pool
           /\ outcome = "gas_price" /\ faults' = faults => TooCheap(n, v)
           /\ outcome = "replacement_underpriced" /\ faults' = faults => v < pool[n]
           /\ outcome = "network" => faults' = faults + 1
<1>1. CASE outcome = "ok" /\ Accept(n, v) /\ UNCHANGED faults
  BY <1>1 DEF Submit, FaultsGrow
<1>2. CASE outcome = Refusal(n, v) /\ UNCHANGED <<pool, faults>>
  BY <1>2 DEF Submit, FaultsGrow, Refusal
<1>3. CASE Fault /\ outcome \in PassingRefusals(n, v) /\ UNCHANGED pool
  <2>1. outcome # "ok"
    BY <1>3 DEF PassingRefusals
  <2> QED BY <1>3, <2>1 DEF Submit, FaultsGrow, Fault
<1>4. CASE Fault /\ outcome \in {"network", "other"} /\ (Accept(n, v) \/ UNCHANGED pool)
  BY <1>4 DEF Submit, FaultsGrow, Fault
<1> QED BY <1>1, <1>2, <1>3, <1>4 DEF Submit

(* A version the node accepts keeps it level with the row.                 *)
LEMMA AcceptLemma ==
    ASSUME UInv, ChainHash, NEW n \in Nonces, NEW v \in Versions,
           UNCHANGED <<mined, ver>>, FaultsGrow,
           pool' = pool \/ (Accept(n, v) /\ ver[n] <= v)
    PROVE  ChainHash'
<1>1. \A m \in Nonces : \/ pool'[m] = pool[m]
                        \/ /\ m = n /\ pool'[m] = v /\ ~IsMined(m) /\ v > pool[m]
                           /\ ver[m] <= v
  BY HashTypes DEF Accept
<1>2. faults' = 0 => faults = 0
  BY HashTypes DEF FaultsGrow
<1>3. \A m \in Nonces : IsMined(m)' <=> IsMined(m)
  BY DEF IsMined
<1> QED BY <1>1, <1>2, <1>3, HashTypes DEF ChainHash

(* A step of the run itself.                                               *)
LEMMA OwnStep ==
    ASSUME UInv, HashInv, OneRun, NEW u \in Unlockers,
           NEW n \in Nonces, NEW v \in Versions,
           UNCHANGED <<mined, dispatchVars>>, FaultsGrow,
           pool' = pool \/ (Accept(n, v) /\ ver[n] <= v),
           Current(u)',
           faults' <= 1 => AheadInv' /\ RunHash(u)'
    PROVE  HashInv'
<1>1. UNCHANGED <<ver, status, check, sub>>
  BY DEF dispatchVars, subVars
<1>2. faults' <= 1 => faults <= 1
  BY HashTypes DEF FaultsGrow
<1>3. faults' <= 1 => ChainHash'
  BY <1>1, <1>2, AcceptLemma DEF HashInv
<1>4. faults' <= 1 => ShownHash'
  BY <1>1, <1>2 DEF HashInv, ShownHash, HasReceipt
<1>5. \A w \in Unlockers : w = u
  BY DEF OneRun
<1> QED BY <1>3, <1>4, <1>5 DEF HashInv

(* ... that leaves it where nothing is prepared.                           *)
LEMMA OwnStepToRest ==
    ASSUME UInv, HashInv, OneRun, NEW u \in Unlockers,
           NEW n \in Nonces, NEW v \in Versions,
           UNCHANGED <<mined, dispatchVars>>, FaultsGrow,
           pool' = pool \/ (Accept(n, v) /\ ver[n] <= v),
           Current(u)', run'[u].at \notin {"resign", "guard", "write"},
           faults' = 0 => NodeAhead' = {}
    PROVE  HashInv'
<1>1. AheadInv'
  BY DEF AheadInv
<1>2. RunHash(u)'
  BY DEF RunHash, At, Holding
<1> QED BY <1>1, <1>2, OwnStep

(* What a step of another writer or of the node does to one nonce: nothing,*)
(* it is mined, it is forgotten, or its first version is accepted.         *)
Same(n)    == pool'[n] = pool[n] /\ mined'[n] = mined[n]
Sealed(n)  == /\ ~IsMined(n) /\ pool[n] # NoVersion
              /\ IsMined(n)' /\ mined'[n].ver = pool[n] /\ pool'[n] = NoVersion
Dropped(n) == pool'[n] = NoVersion /\ mined'[n] = mined[n] /\ faults' = faults + 1
First(n)   == Accept(n, 0) /\ pool'[n] = 0 /\ mined'[n] = mined[n]
Move(n)    == Same(n) \/ Sealed(n) \/ Dropped(n) \/ First(n)

(* With a later version prepared or stored, the first is not accepted.     *)
LEMMA FirstLemma ==
    ASSUME UInv, HashInv, faults <= 1, NEW n \in Nonces, First(n)
    PROVE  /\ ver[n] = 0 /\ pool[n] = NoVersion /\ ~IsMined(n)
           /\ \A u \in Unlockers : ~Holding(u, n)
<1>1. ~IsMined(n) /\ 0 > pool[n] /\ n \notin Dear
  BY DEF First, Accept, TooCheap
<1>2. pool[n] = NoVersion
  BY <1>1, HashTypes
<1>3. ver[n] = 0
  BY <1>1, <1>2, HashTypes DEF HashInv, ChainHash
<1>4. ASSUME NEW u \in Unlockers, Holding(u, n) PROVE FALSE
  <2>1. run[u].write.ver # NoVersion
    BY <1>4 DEF Holding
  <2>2. HeldInv(n, run[u].write.ver)
    BY <1>4 DEF HashInv, RunHash
  <2> QED BY <1>1, <1>2, <2>1, <2>2 DEF HeldInv
<1> QED BY <1>1, <1>2, <1>3, <1>4

(* A step of another writer or of the node, which changes no run.          *)
LEMMA MoveLemma ==
    ASSUME UInv, HashInv, FaultsGrow, UNCHANGED <<ver, run>>,
           \A n \in Nonces : Move(n), faults' <= 1 => ShownHash'
    PROVE  HashInv'
<1>1. \A u \in Unlockers : Current(u)'
  BY DEF HashInv, Current
<1> SUFFICES ASSUME faults' <= 1
             PROVE  ChainHash' /\ AheadInv' /\ \A u \in Unlockers : RunHash(u)'
  BY <1>1 DEF HashInv
<1>2. faults <= 1 /\ (faults' = 0 => faults = 0)
  BY HashTypes DEF FaultsGrow
<1>3. ChainHash /\ AheadInv /\ \A u \in Unlockers : RunHash(u)
  BY <1>2 DEF HashInv
<1>4. ASSUME NEW n \in Nonces
      PROVE  /\ IsMined(n)' => pool'[n] = NoVersion /\ ver[n] <= mined'[n].ver
             /\ ~IsMined(n)' =>
                   /\ pool'[n] # NoVersion => ver[n] <= pool'[n]
                   /\ ver[n] > 0 /\ (pool'[n] = NoVersion \/ faults' = 0) => n \in Dear
             /\ faults' = 0 /\ pool'[n] > ver[n] => pool'[n] = pool[n]
  <2>1. CASE Same(n)
    BY <1>2, <1>3, <2>1 DEF Same, ChainHash, IsMined
  <2>2. CASE Sealed(n)
    BY <1>3, <2>2, HashTypes DEF Sealed, ChainHash
  <2>3. CASE Dropped(n)
    <3>1. faults = 0 /\ faults' = 1
      BY <1>2, <2>3, HashTypes DEF Dropped
    <3> QED BY <1>3, <2>3, <3>1, HashTypes DEF Dropped, ChainHash, IsMined
  <2>4. CASE First(n)
    <3>1. ver[n] = 0 /\ ~IsMined(n)
      BY <1>2, <2>4, FirstLemma
    <3> QED BY <2>4, <3>1, HashTypes DEF First, IsMined
  <2> QED BY <2>1, <2>2, <2>3, <2>4 DEF Move
<1>5. ChainHash'
  BY <1>4 DEF ChainHash
<1>6. \A u \in Unlockers : OTX(u)' = OTX(u)
  BY DEF OTX
<1>7. \A u \in Unlockers, n \in Nonces : Holding(u, n)' <=> Holding(u, n)
  BY <1>6 DEF Holding
<1>8. AheadInv'
  BY <1>2, <1>3, <1>4, <1>7 DEF AheadInv, NodeAhead
<1>9. ASSUME NEW u \in Unlockers PROVE RunHash(u)'
  <2>1. (At(u, "resign") /\ faults = 0 => OTX(u).nonce \in Dear /\ ver[OTX(u).nonce] = 0)'
    BY <1>2, <1>3, <1>6 DEF RunHash, At
  <2>2. (At(u, "guard") => run[u].write.ver # NoVersion)'
    BY <1>3 DEF RunHash, At
  <2>3. ASSUME NEW n \in Nonces, Holding(u, n)
        PROVE  HeldInv(n, run[u].write.ver)'
    <3> DEFINE v == run[u].write.ver
    <3>1. HeldInv(n, v) /\ v # NoVersion
      BY <1>3, <2>3 DEF RunHash, Holding
    <3>2. CASE Same(n)
      BY <1>2, <3>1, <3>2, HashTypes DEF Same, HeldInv, IsMined, FaultsGrow
    <3>3. CASE Sealed(n)
      BY <3>1, <3>3 DEF Sealed, HeldInv
    <3>4. CASE Dropped(n)
      <4>1. faults = 0 /\ faults' = 1
        BY <1>2, <3>4, HashTypes DEF Dropped
      <4> QED BY <3>1, <3>4, <4>1 DEF Dropped, HeldInv, IsMined
    <3>5. CASE First(n)
      BY <1>2, <2>3, <3>5, FirstLemma
    <3> QED BY <3>2, <3>3, <3>4, <3>5 DEF Move
  <2>4. (At(u, "write") /\ run[u].write.status \in Final /\ run[u].write.ver = NoVersion =>
             HasReceipt(OTX(u).nonce, ver[OTX(u).nonce]))'
    <3> SUFFICES ASSUME At(u, "write"), run[u].write.status \in Final,
                        run[u].write.ver = NoVersion
                 PROVE  HasReceipt(OTX(u).nonce, ver[OTX(u).nonce])'
      BY DEF At
    <3> DEFINE n == OTX(u).nonce
    <3>1. n \in Nonces
      BY OTXLemma DEF At
    <3>2. HasReceipt(n, ver[n])
      BY <1>3 DEF RunHash
    <3>3. IsMined(n)
      BY <3>1, <3>2, HashReceipt
    <3>4. mined'[n] = mined[n]
      BY <3>1, <3>3 DEF Move, Same, Sealed, Dropped, First
    <3> QED BY <1>6, <3>2, <3>4 DEF HasReceipt
  <2> QED BY <1>7, <2>1, <2>2, <2>3, <2>4 DEF RunHash
<1> QED BY <1>5, <1>8, <1>9

(* What the other writers read and write bears a hash that was mined.      *)
LEMMA ShownLemma ==
    ASSUME UInv, UInv', HashInv, faults <= 1, UNCHANGED ver,
           \A n \in Nonces : Move(n),
           \A n \in Nonces : status'[n] \in Final =>
               status[n] \in Final \/ HasReceipt(n, ver[n]),
           \A c \in check' : c \in check \/ c.ver = ver[c.nonce],
           sub' \in {sub, NoSub} \/ HasReceipt(sub'.nonce, ver[sub'.nonce])
    PROVE  ShownHash'
<1>1. ShownHash
  BY DEF HashInv
<1>2. \A n \in Nonces : HasReceipt(n, ver[n]) => HasReceipt(n, ver[n])'
  <2> SUFFICES ASSUME NEW n \in Nonces, HasReceipt(n, ver[n])
               PROVE  HasReceipt(n, ver[n])'
    OBVIOUS
  <2>1. IsMined(n)
    BY HashReceipt
  <2>2. mined'[n] = mined[n]
    BY <2>1 DEF Move, Same, Sealed, Dropped, First
  <2> QED BY <2>2 DEF HasReceipt
<1>3. \A c \in check : c.ver <= ver[c.nonce]
  BY <1>1 DEF ShownHash
<1>4. /\ \A c \in check' : c.nonce \in Nonces
      /\ sub' # NoSub => sub'.nonce \in Nonces
  BY DEF UInv, Inv, Books, DispatchTypeOK
<1>5. \A c \in check' : c.ver <= ver[c.nonce]
  BY <1>3, <1>4, HashTypes
<1> QED BY <1>1, <1>2, <1>4, <1>5 DEF ShownHash

(* The node moves, or is sent version 0 of a transaction.                  *)
LEMMA NodeMoves ==
    ASSUME UInv, NEW n \in Nonces, ChainStep(n) \/ \E o \in Outcomes : Submit(n, 0, o)
    PROVE  FaultsGrow /\ \A m \in Nonces : Move(m)
<1> USE HashTypes
<1>1. CASE Evict(n)
  <2>1. \A m \in Nonces : m # n => Same(m)
    BY <1>1 DEF Evict, Same
  <2>2. Dropped(n)
    BY <1>1 DEF Evict, Dropped, Fault
  <2> QED BY <1>1, <2>1, <2>2 DEF Evict, Fault, FaultsGrow, Move
<1>2. CASE Mine(n)
  <2>1. PICK ok \in BOOLEAN, near \in BOOLEAN :
            mined' = [mined EXCEPT ![n] = [ver |-> pool[n], ok |-> ok, near |-> near]]
    BY <1>2 DEF Mine
  <2>2. \A m \in Nonces : m # n => Same(m)
    BY <1>2, <2>1 DEF Mine, Same
  <2>3. ~IsMined(n)
    BY <1>2, NetworkNonceLemma, TypedLemma DEF Mine, UInv, Nonces
  <2>4. mined'[n].ver = pool[n] /\ pool[n] # NoVersion /\ pool'[n] = NoVersion
    BY <1>2, <2>1 DEF Mine
  <2>5. IsMined(n)'
    <3>1. NotMined.ver = NoVersion
      BY DEF NotMined
    <3> QED BY <2>4, <3>1 DEF IsMined
  <2>6. Sealed(n)
    BY <2>3, <2>4, <2>5 DEF Sealed
  <2> QED BY <1>2, <2>2, <2>6 DEF Mine, FaultsGrow, Move
<1>3. ASSUME NEW o \in Outcomes, Submit(n, 0, o)
      PROVE  FaultsGrow /\ \A m \in Nonces : Move(m)
  <2>1. FaultsGrow /\ mined' = mined /\ (pool' = pool \/ Accept(n, 0))
    BY <1>3, SubmitEffect
  <2>2. CASE pool' = pool
    BY <2>1, <2>2 DEF Same, Move
  <2>3. CASE Accept(n, 0)
    <3>1. pool' = [pool EXCEPT ![n] = 0]
      BY <2>3 DEF Accept
    <3>2. \A m \in Nonces : m # n => Same(m)
      BY <2>1, <3>1 DEF Same
    <3>3. First(n)
      BY <2>1, <2>3, <3>1 DEF First
    <3> QED BY <2>1, <3>2, <3>3 DEF Move
  <2> QED BY <2>1, <2>2, <2>3
<1> QED BY <1>1, <1>2, <1>3 DEF ChainStep

(* No step of the DISPATCH worker, the subscriber, the health check or the *)
(* node settles an OTX under a hash that was not mined.                    *)
LEMMA HashDispatchStep ==
    ASSUME UInv, UInv', HashInv, [DispatchNext]_<<chainVars, dispatchVars>>,
           UNCHANGED run
    PROVE  HashInv'
<1>1. ver' = ver
  BY DEF DispatchNext, dispatchVars, DispatchWork, SendRawTx, RecordAnswer, AbandonRun,
         Subscriber, ReadEvent, CommitEvent, DropEvent, HealthCheck, ReadFailedOTX,
         CommitReceipts
<1>2. FaultsGrow /\ \A n \in Nonces : Move(n)
  <2>1. CASE \E n \in Nonces : ChainStep(n) \/ SendRawTx(n)
    BY <2>1, NodeMoves DEF SendRawTx
  <2>2. CASE UNCHANGED <<pool, mined>> /\ (UNCHANGED faults \/ Fault)
    BY <2>2 DEF Move, Same, Fault, FaultsGrow
  <2> QED BY <2>1, <2>2
          DEF DispatchNext, chainVars, DispatchWork, RecordAnswer, AbandonRun, Subscriber,
              ReadEvent, CommitEvent, DropEvent, HealthCheck, ReadFailedOTX, CommitReceipts
<1> SUFFICES ASSUME faults' <= 1 PROVE ShownHash'
  BY <1>1, <1>2, MoveLemma
<1>3. faults <= 1 /\ ShownHash
  BY <1>2, HashTypes DEF FaultsGrow, HashInv
<1>4. CASE UNCHANGED <<status, check, sub>>
  BY <1>1, <1>2, <1>3, <1>4, ShownLemma
<1>5. ASSUME NEW n \in Nonces, RecordAnswer(n)
      PROVE  ShownHash'
  <2>1. \A m \in Nonces : status'[m] \in Final => status[m] \in Final
    BY <1>5, StatusLemma
       DEF RecordAnswer, UpdateDispatchTxStatus, UInv, Inv, Books, DispatchTypeOK
  <2> QED BY <1>1, <1>2, <1>3, <1>5, <2>1, ShownLemma DEF RecordAnswer, subVars
<1>6. ASSUME NEW n \in Nonces, ReadEvent(n)
      PROVE  ShownHash'
  <2>1. sub' = sub \/ HasReceipt(sub'.nonce, ver[sub'.nonce])
    BY <1>6 DEF ReadEvent
  <2> QED BY <1>1, <1>2, <1>3, <1>6, <2>1, ShownLemma DEF ReadEvent
<1>7. CASE CommitEvent
  <2>1. \A m \in Nonces : status'[m] \in Final => status[m] \in Final \/ m = sub.nonce
    BY <1>7 DEF CommitEvent, UpdateDispatchTxStatus, UInv, Inv, Books, DispatchTypeOK
  <2>2. HasReceipt(sub.nonce, ver[sub.nonce])
    BY <1>3, <1>7 DEF CommitEvent, ShownHash
  <2> QED BY <1>1, <1>2, <1>3, <1>7, <2>1, <2>2, ShownLemma DEF CommitEvent
<1>8. CASE DropEvent
  BY <1>1, <1>2, <1>3, <1>8, ShownLemma DEF DropEvent
<1>9. CASE ReadFailedOTX
  <2>1. \A c \in check' : c.ver = ver[c.nonce]
    <3>1. check' = {[nonce |-> n, ver |-> ver[n]] : n \in InNetwork}
      BY <1>9 DEF ReadFailedOTX
    <3> HIDE DEF InNetwork
    <3> QED BY <3>1
  <2> QED BY <1>1, <1>2, <1>3, <1>9, <2>1, ShownLemma DEF ReadFailedOTX, subVars
<1>10. CASE CommitReceipts
  <2>1. PICK got \in SUBSET check :
            status' = [n \in Nonces |->
                   IF \E c \in got : c.nonce = n /\ HasReceipt(n, c.ver) /\ mined[n].ok
                   THEN "SUCCESS" ELSE status[n]]
    BY <1>10 DEF CommitReceipts
  <2>2. ASSUME NEW n \in Nonces, status'[n] \in Final, status[n] \notin Final
        PROVE  HasReceipt(n, ver[n])
    <3>1. PICK c \in got : c.nonce = n /\ HasReceipt(n, c.ver)
      BY <2>1, <2>2
    <3>2. c.ver <= ver[n] /\ c.ver \in Versions
      BY <1>3, <3>1 DEF ShownHash, UInv, Inv, Books, DispatchTypeOK
    <3>3. IsMined(n) /\ mined[n].ver = c.ver
      BY <3>1, <3>2, ReceiptLemma, TypedLemma DEF UInv, HasReceipt
    <3>4. ver[n] <= mined[n].ver
      BY <1>3, <3>3 DEF HashInv, ChainHash
    <3> QED BY <3>2, <3>3, <3>4, HashTypes DEF HasReceipt
  <2>3. check' = {} /\ sub' = sub
    BY <1>10 DEF CommitReceipts, subVars
  <2> QED BY <1>1, <1>2, <1>3, <2>2, <2>3, ShownLemma
<1> QED BY <1>4, <1>5, <1>6, <1>7, <1>8, <1>9, <1>10
        DEF DispatchNext, dispatchVars, subVars, DispatchWork, SendRawTx, AbandonRun,
            Subscriber, HealthCheck

(* Where a run is after it went on in one of the usual ways.               *)
LEMMA GoesOnLemma ==
    ASSUME UInv, NEW u \in Unlockers
    PROVE  /\ Stop(u) => run'[u].at = "idle" /\ run'[u].todo = {}
           /\ NextOTX(u) => /\ run'[u].at \in {"idle", "send"}
                            /\ run'[u].todo \subseteq run[u].todo \ {OTX(u)}
           /\ \A p \in Places : Go(u, p) =>
                  run'[u].at = p /\ run'[u].todo = run[u].todo
           /\ \A v, s : WriteLater(u, v, s) =>
                  /\ run'[u].at = "write" /\ run'[u].todo = run[u].todo
                  /\ run'[u].write = [ver |-> v, status |-> s]
<1> USE DEF UInv, RunType
<1>1. Stop(u) => run'[u].at = "idle" /\ run'[u].todo = {}
  BY DEF Stop, Idle
<1>2. ASSUME NextOTX(u)
      PROVE  /\ run'[u].at \in {"idle", "send"}
             /\ run'[u].todo \subseteq run[u].todo \ {OTX(u)}
  <2> DEFINE rest == run[u].todo \ {OTX(u)}
  <2>1. run'[u] = IF rest = {} THEN Idle ELSE [Idle EXCEPT !.at = "send", !.todo = rest]
    BY <1>2 DEF NextOTX
  <2> HIDE DEF rest
  <2>2. run'[u].at \in {"idle", "send"} /\ run'[u].todo \subseteq rest
    BY <2>1 DEF Idle
  <2> QED BY <2>2 DEF rest
<1>3. \A p \in Places : Go(u, p) => run'[u].at = p /\ run'[u].todo = run[u].todo
  BY DEF Go
<1>4. \A v, s : WriteLater(u, v, s) =>
          /\ run'[u].at = "write" /\ run'[u].todo = run[u].todo
          /\ run'[u].write = [ver |-> v, status |-> s]
  BY DEF WriteLater
<1> QED BY <1>1, <1>2, <1>3, <1>4

(* The rows a run has not dealt with yet are still as they were.           *)
LEMMA CurrentLemma ==
    ASSUME HashInv, UNCHANGED ver, NEW u \in Unlockers, run'[u].todo \subseteq run[u].todo
    PROVE  Current(u)'
BY DEF HashInv, Current

(* The OTX in hand is one of the rows, as they are.                        *)
LEMMA InHandLemma ==
    ASSUME UInv, HashInv, NEW u \in Unlockers, run[u].at \notin {"idle", "load"}
    PROVE  /\ OTX(u) \in run[u].todo
           /\ OTX(u).nonce \in Nonces
           /\ OTX(u).ver = ver[OTX(u).nonce]
           /\ run'[u].todo = run[u].todo => OTX(u)' = OTX(u)
<1>1. run'[u].todo = run[u].todo => OTX(u)' = OTX(u)
  BY DEF OTX
<1> QED BY <1>1, OTXLemma DEF HashInv, Current

(* A step of the run that calls nobody and prepares nothing.               *)
LEMMA QuietStep ==
    ASSUME UInv, HashInv, OneRun, NEW u \in Unlockers,
           UNCHANGED <<pool, mined, dispatchVars>>, FaultsGrow,
           run[u].at \notin {"guard", "write"} \/ faults' = faults + 1,
           Current(u)', run'[u].at \notin {"resign", "guard", "write"}
    PROVE  HashInv'
<1>1. 0 \in Nonces /\ 0 \in Versions
  BY ChainAssumption DEF Nonces, Versions
<1>2. faults' = 0 => NodeAhead' = {}
  <2> SUFFICES ASSUME faults' = 0 PROVE NodeAhead' = {}
    OBVIOUS
  <2>1. faults = 0 /\ run[u].at \notin {"guard", "write"}
    BY HashTypes DEF FaultsGrow
  <2>2. NodeAhead = {}
    BY <2>1, NoneAheadLemma
  <2> QED BY <2>2 DEF NodeAhead, dispatchVars
<1> QED BY <1>1, <1>2, OwnStepToRest

(* The rows are read as they are.                                          *)
LEMMA HashReadRows ==
    ASSUME UInv, HashInv, OneRun, NEW u \in Unlockers,
           getStuckOTXs(u) \/ getOTXsFromNonce(u)
    PROVE  HashInv'
<1>1. UNCHANGED <<pool, mined, dispatchVars>> /\ FaultsGrow /\ ver' = ver
  BY DEF getStuckOTXs, getOTXsFromNonce, chainVars, dispatchVars, FaultsGrow
<1>2. run[u] \in RunType /\ run[u].at \notin {"guard", "write"}
  BY DEF UInv, getStuckOTXs, getOTXsFromNonce, At
<1>3. CASE getStuckOTXs(u)
  <2>1. run'[u].at = "load" /\ run'[u].todo = run[u].todo
    BY <1>2, <1>3 DEF getStuckOTXs, UInv, RunType
  <2> QED BY <1>1, <1>2, <2>1, CurrentLemma, QuietStep
<1>4. CASE getOTXsFromNonce(u)
  <2> DEFINE rows == {n \in Nonces : n >= run[u].from \/ n \in Unsettled}
             read == {[nonce |-> n, ver |-> ver[n]] : n \in rows}
  <2>1. run'[u] = IF rows = {} THEN Idle ELSE [Idle EXCEPT !.at = "send", !.todo = read]
    BY <1>4 DEF getOTXsFromNonce, UInv
  <2>2. \A r \in read : r.ver = ver[r.nonce]
    OBVIOUS
  <2> HIDE DEF rows, read
  <2>3. run'[u].at \in {"idle", "send"} /\ run'[u].todo \subseteq read
    BY <2>1 DEF Idle
  <2>4. Current(u)'
    BY <1>1, <2>2, <2>3 DEF Current
  <2> QED BY <1>1, <1>2, <2>3, <2>4, QuietStep
<1> QED BY <1>3, <1>4

(* Sending the stored transaction, whose version the node may be at but    *)
(* not ahead of: a fault apart, it is refused only as too cheap.           *)
LEMMA HashSendStored ==
    ASSUME UInv, HashInv, OneRun, NEW u \in Unlockers, At(u, "send"),
           UNCHANGED dispatchVars,
           NEW outcome, Submit(OTX(u).nonce, OTX(u).ver, outcome),
           \/ WriteLater(u, NoVersion, "IN_NETWORK")
           \/ Go(u, "receipt")
           \/ outcome \in {"gas_price", "replacement_underpriced"} /\ Go(u, "resign")
           \/ NextOTX(u)
           \/ Stop(u)
           \/ UNCHANGED run
    PROVE  HashInv'
<1> DEFINE n == OTX(u).nonce
<1>1. run[u].at \notin {"idle", "load", "guard", "write"}
  BY DEF At
<1>2. n \in Nonces /\ OTX(u).ver = ver[n] /\ ver[n] \in Versions
  BY <1>1, InHandLemma, HashTypes
<1>3. /\ mined' = mined /\ ver' = ver /\ FaultsGrow
      /\ pool' = pool \/ Accept(n, ver[n])
      /\ outcome = "gas_price" /\ faults' = faults => TooCheap(n, ver[n])
      /\ outcome = "replacement_underpriced" /\ faults' = faults => ver[n] < pool[n]
  BY <1>2, SubmitEffect, HashTypes DEF dispatchVars
<1>4. faults' = 0 => faults = 0 /\ NodeAhead = {}
  BY <1>1, <1>3, NoneAheadLemma, HashTypes DEF FaultsGrow
<1>5. faults' = 0 => NodeAhead' = {}
  <2> SUFFICES ASSUME faults' = 0, NEW m \in Nonces PROVE ~ (pool'[m] > ver[m])
    BY <1>3 DEF NodeAhead
  <2>1. ~ (pool[m] > ver[m])
    BY <1>4 DEF NodeAhead
  <2>2. pool'[m] = pool[m] \/ pool'[m] = ver[m]
    BY <1>2, <1>3, HashTypes DEF Accept
  <2> QED BY <2>1, <2>2, HashTypes
<1>6. pool' = pool \/ (Accept(n, ver[n]) /\ ver[n] <= ver[n])
  BY <1>2, <1>3, HashTypes
<1>7. "receipt" \in Places /\ "resign" \in Places /\ "IN_NETWORK" \notin Final
  BY DEF Places, Final
<1>8. run'[u].todo \subseteq run[u].todo
  BY <1>7, GoesOnLemma
<1>9. Current(u)'
  BY <1>3, <1>8, CurrentLemma
<1>10. CASE run'[u].at \notin {"resign", "guard", "write"}
  BY <1>2, <1>3, <1>5, <1>6, <1>9, <1>10, OwnStepToRest
<1>11. CASE WriteLater(u, NoVersion, "IN_NETWORK")
  <2>1. run'[u].at = "write" /\ run'[u].write = [ver |-> NoVersion, status |-> "IN_NETWORK"]
    BY <1>11, GoesOnLemma
  <2>2. RunHash(u)'
    BY <1>7, <2>1 DEF RunHash, At, Holding
  <2>3. faults' <= 1 => AheadInv'
    BY <1>5 DEF AheadInv
  <2> QED BY <1>2, <1>3, <1>6, <1>9, <2>2, <2>3, OwnStep
<1>12. CASE outcome \in {"gas_price", "replacement_underpriced"} /\ Go(u, "resign")
  <2>1. run'[u].at = "resign" /\ OTX(u)' = OTX(u)
    BY <1>1, <1>7, <1>12, GoesOnLemma, InHandLemma
  <2>2. faults' = 0 => n \in Dear /\ ver[n] = 0
    <3> SUFFICES ASSUME faults' = 0 PROVE n \in Dear /\ ver[n] = 0
      OBVIOUS
    <3>1. ~ (pool[n] > ver[n]) /\ faults' = faults
      BY <1>2, <1>4 DEF NodeAhead
    <3>2. outcome = "gas_price"
      BY <1>2, <1>3, <1>12, <3>1, HashTypes
    <3> QED BY <1>3, <3>1, <3>2 DEF TooCheap
  <2>3. RunHash(u)'
    BY <1>3, <2>1, <2>2 DEF RunHash, At, Holding
  <2>4. faults' <= 1 => AheadInv'
    BY <1>5 DEF AheadInv
  <2> QED BY <1>2, <1>3, <1>6, <1>9, <2>3, <2>4, OwnStep
<1>13. CASE UNCHANGED run
  BY <1>10, <1>13 DEF At
<1> QED BY <1>7, <1>10, <1>11, <1>12, <1>13, GoesOnLemma

(* Sending a re-signed transaction, which the run then holds, to be        *)
(* guarded or stored.                                                      *)
LEMMA HashSendResigned ==
    ASSUME UInv, HashInv, OneRun, NEW u \in Unlockers, At(u, "resign"),
           UNCHANGED dispatchVars,
           NEW v \in Versions, v > OTX(u).ver,
           NEW outcome, Submit(OTX(u).nonce, v, outcome),
           \/ /\ outcome = "ok"
              /\ run'[u].at = "guard" \/ (run'[u].at = "write" /\ run'[u].write.status \notin Final)
              /\ run'[u].todo = run[u].todo
              /\ run'[u].write.ver = v
           \/ outcome # "ok" /\ (Stop(u) \/ NextOTX(u))
           \/ outcome = "network" /\ run'[u].at = "resign" /\ run'[u].todo = run[u].todo
    PROVE  HashInv'
<1> DEFINE n == OTX(u).nonce
<1>1. run[u].at \notin {"idle", "load", "guard", "write"}
  BY DEF At
<1>2. n \in Nonces /\ OTX(u).ver = ver[n] /\ v \in Nat /\ v # NoVersion /\ ver[n] < v
  BY <1>1, InHandLemma, HashTypes
<1>3. /\ mined' = mined /\ ver' = ver /\ FaultsGrow
      /\ pool' = pool \/ Accept(n, v)
      /\ outcome = "ok" => Accept(n, v) /\ faults' = faults
      /\ outcome # "ok" /\ faults' = faults => pool' = pool
      /\ outcome = "network" => faults' = faults + 1
  BY <1>2, SubmitEffect, HashTypes DEF dispatchVars
<1>4. faults' = 0 => faults = 0 /\ NodeAhead = {}
  BY <1>1, <1>3, NoneAheadLemma, HashTypes DEF FaultsGrow
<1>5. pool' = pool \/ (Accept(n, v) /\ ver[n] <= v)
  BY <1>2, <1>3, HashTypes
<1>6. Current(u)'
  BY <1>3, CurrentLemma, GoesOnLemma
<1>7. CASE /\ outcome = "ok"
           /\ run'[u].at = "guard" \/ (run'[u].at = "write" /\ run'[u].write.status \notin Final)
           /\ run'[u].todo = run[u].todo
           /\ run'[u].write.ver = v
  <2>1. OTX(u)' = OTX(u)
    BY <1>1, <1>7, InHandLemma
  <2>2. Accept(n, v) /\ faults' = faults /\ pool'[n] = v /\ ~IsMined(n)
        /\ \A m \in Nonces : m # n => pool'[m] = pool[m]
    BY <1>2, <1>3, <1>7, HashTypes DEF Accept
  <2>3. AheadInv'
    <3> SUFFICES ASSUME faults' = 0, NEW m \in Nonces, pool'[m] > ver[m]
                 PROVE  (Holding(u, m) /\ run[u].write.ver = pool[m])'
      BY <1>3 DEF AheadInv, NodeAhead
    <3>1. m = n
      BY <1>4, <2>2 DEF NodeAhead
    <3> QED BY <1>2, <1>7, <2>1, <2>2, <3>1 DEF Holding
  <2>4. ASSUME faults' <= 1 PROVE RunHash(u)'
    <3>1. n \in Dear \/ faults = 1
      <4>1. faults = 0 \/ faults = 1
        BY <2>2, <2>4, HashTypes
      <4>2. CASE faults = 0
        BY <4>2 DEF HashInv, RunHash
      <4> QED BY <4>1, <4>2
    <3>2. HeldInv(n, v)'
      BY <1>2, <1>3, <2>1, <2>2, <3>1, HashTypes DEF HeldInv, IsMined
    <3>3. \A m \in Nonces : Holding(u, m)' => HeldInv(m, run[u].write.ver)'
      BY <1>7, <2>1, <3>2 DEF Holding
    <3> QED BY <1>2, <1>7, <3>3 DEF RunHash, At
  <2> QED BY <1>2, <1>3, <1>5, <1>6, <2>3, <2>4, OwnStep
<1>8. CASE outcome # "ok" /\ (Stop(u) \/ NextOTX(u))
  <2>1. run'[u].at \notin {"resign", "guard", "write"}
    BY <1>8, GoesOnLemma
  <2>2. faults' = 0 => NodeAhead' = {}
    <3> SUFFICES ASSUME faults' = 0 PROVE NodeAhead' = {}
      OBVIOUS
    <3>1. pool' = pool
      BY <1>3, <1>4, <1>8
    <3> QED BY <1>3, <1>4, <3>1 DEF NodeAhead
  <2> QED BY <1>2, <1>3, <1>5, <1>6, <2>1, <2>2, OwnStepToRest
<1>9. CASE outcome = "network" /\ run'[u].at = "resign" /\ run'[u].todo = run[u].todo
  <2>1. faults' # 0
    BY <1>3, <1>9, HashTypes
  <2>2. AheadInv' /\ RunHash(u)'
    BY <1>9, <2>1 DEF AheadInv, RunHash, At, Holding
  <2> QED BY <1>2, <1>3, <1>5, <1>6, <2>2, OwnStep
<1> QED BY <1>7, <1>8, <1>9

(* The nonce is consumed after all: the run drops the version it held.     *)
LEMMA HashGuardFires ==
    ASSUME UInv, HashInv, OneRun, NEW u \in Unlockers, GuardFires(u)
    PROVE  HashInv'
<1> DEFINE n == OTX(u).nonce
<1>1. UNCHANGED <<pool, mined, faults, dispatchVars>> /\ FaultsGrow /\ ver' = ver
  BY DEF GuardFires, chainVars, dispatchVars, FaultsGrow
<1>2. run[u].at \notin {"idle", "load"} /\ n \in Nonces
  BY InHandLemma DEF GuardFires, At
<1>3. IsMined(n)
  BY <1>2, NetworkNonceLemma, TypedLemma DEF GuardFires, UInv, Nonces
<1>4. run'[u].at = "receipt" /\ run'[u].todo = run[u].todo
  BY GoesOnLemma DEF GuardFires, Places
<1>5. Current(u)'
  BY <1>1, <1>4, CurrentLemma
<1>6. faults' = 0 => NodeAhead' = {}
  <2> SUFFICES ASSUME faults' = 0, NEW m \in Nonces, pool[m] > ver[m] PROVE FALSE
    BY <1>1 DEF NodeAhead
  <2>1. AheadInv /\ ChainHash /\ faults = 0
    BY <1>1 DEF HashInv
  <2>2. PICK w \in Unlockers : Holding(w, m)
    BY <2>1 DEF AheadInv, NodeAhead
  <2>3. m = n
    BY <2>2 DEF OneRun, Holding
  <2> QED BY <1>3, <2>1, <2>3, HashTypes DEF ChainHash
<1>7. 0 \in Versions
  BY ChainAssumption DEF Versions
<1> QED BY <1>1, <1>2, <1>4, <1>5, <1>6, <1>7, OwnStepToRest

(* It is not, or the node did not say: the run goes on holding it.         *)
LEMMA HashGuardPasses ==
    ASSUME UInv, HashInv, OneRun, NEW u \in Unlockers, GuardPasses(u)
    PROVE  HashInv'
<1> DEFINE n == OTX(u).nonce
           v == run[u].write.ver
<1>1. UNCHANGED <<pool, mined, dispatchVars>> /\ FaultsGrow /\ ver' = ver
  BY DEF GuardPasses, dispatchVars, FaultsGrow, Fault
<1>2. run[u].at = "guard" /\ n \in Nonces
  BY InHandLemma DEF GuardPasses, At
<1>3. /\ run'[u].at = "write" /\ run'[u].todo = run[u].todo
      /\ run'[u].write = [ver |-> v, status |-> "IN_NETWORK"]
  BY GoesOnLemma DEF GuardPasses
<1>4. Current(u)' /\ OTX(u)' = OTX(u)
  BY <1>1, <1>2, <1>3, CurrentLemma, InHandLemma
<1>5. ASSUME faults' <= 1 PROVE AheadInv' /\ RunHash(u)'
  <2>1. faults <= 1 /\ (faults' = 0 => faults = 0) /\ (faults = 1 => faults' = 1)
        /\ faults' \in {0, 1}
    BY <1>1, <1>5, HashTypes DEF FaultsGrow
  <2>2. v # NoVersion /\ HeldInv(n, v)
    BY <1>2, <2>1 DEF HashInv, RunHash, At, Holding
  <2>3. \A m \in Nonces : Holding(u, m)' <=> Holding(u, m)
    BY <1>2, <1>3, <1>4, <2>2 DEF Holding
  <2>4. AheadInv'
    <3>1. run'[u].write.ver = run[u].write.ver
      BY <1>3
    <3>2. \A w \in Unlockers : w = u
      BY DEF OneRun
    <3> QED BY <1>1, <2>1, <2>3, <3>1, <3>2 DEF HashInv, AheadInv, NodeAhead
  <2>5. HeldInv(n, v)'
    BY <1>1, <1>3, <1>4, <2>1, <2>2 DEF HeldInv, IsMined
  <2>6. \A m \in Nonces : Holding(u, m)' => HeldInv(m, run[u].write.ver)'
    BY <1>4, <2>5 DEF Holding
  <2>7. "IN_NETWORK" \notin Final
    BY DEF Final
  <2> QED BY <1>3, <2>4, <2>6, <2>7 DEF RunHash, At
<1>6. 0 \in Versions
  BY ChainAssumption DEF Versions
<1> QED BY <1>1, <1>2, <1>4, <1>5, <1>6, OwnStep

(* A run that fails forgets what it held; the fault is counted.            *)
LEMMA HashFail ==
    ASSUME UInv, HashInv, OneRun, NEW u \in Unlockers,
           Fault, Stop(u) \/ NextOTX(u), UNCHANGED <<pool, mined, dispatchVars>>
    PROVE  HashInv'
<1>1. FaultsGrow /\ faults' = faults + 1 /\ ver' = ver
  BY DEF Fault, FaultsGrow, dispatchVars
<1>2. Current(u)' /\ run'[u].at \in {"idle", "send"}
  BY <1>1, CurrentLemma, GoesOnLemma
<1> QED BY <1>1, <1>2, QuietStep

(* The lookups that prepare an outcome find the receipt of the stored hash *)
(* or take over the hash that was mined.                                   *)
LEMMA HashLookUp ==
    ASSUME UInv, HashInv, OneRun, NEW u \in Unlockers, At(u, "receipt"),
           UNCHANGED <<chainVars, dispatchVars>>,
           NEW v \in Versions \cup {NoVersion}, NEW s,
           \/ /\ WriteLater(u, v, s)
              /\ \/ v = NoVersion /\ HasReceipt(OTX(u).nonce, OTX(u).ver)
                 \/ IsMined(OTX(u).nonce) /\ v = mined[OTX(u).nonce].ver
           \/ NextOTX(u)
           \/ Stop(u)
    PROVE  HashInv'
<1> DEFINE n == OTX(u).nonce
<1>1. UNCHANGED <<pool, mined, faults, dispatchVars>> /\ FaultsGrow /\ ver' = ver
  BY DEF chainVars, dispatchVars, FaultsGrow
<1>2. run[u].at \notin {"idle", "load", "guard", "write"}
  BY DEF At
<1>3. n \in Nonces /\ OTX(u).ver = ver[n]
  BY <1>2, InHandLemma
<1>4. Current(u)'
  BY <1>1, CurrentLemma, GoesOnLemma
<1>5. CASE NextOTX(u) \/ Stop(u)
  <2>1. run'[u].at \in {"idle", "send"}
    BY <1>5, GoesOnLemma
  <2> QED BY <1>1, <1>2, <1>4, <2>1, QuietStep
<1>6. CASE /\ WriteLater(u, v, s)
           /\ \/ v = NoVersion /\ HasReceipt(n, OTX(u).ver)
              \/ IsMined(n) /\ v = mined[n].ver
  <2>1. /\ run'[u].at = "write" /\ run'[u].write = [ver |-> v, status |-> s]
        /\ OTX(u)' = OTX(u)
    BY <1>2, <1>6, GoesOnLemma, InHandLemma
  <2>2. ASSUME faults' <= 1 PROVE AheadInv' /\ RunHash(u)'
    <3>1. AheadInv'
      <4>1. faults = 0 => NodeAhead = {}
        BY <1>2, NoneAheadLemma
      <4> QED BY <1>1, <4>1 DEF AheadInv, NodeAhead
    <3>2. v # NoVersion => HeldInv(n, v)
      BY <1>1, <1>3, <1>6, <2>2 DEF HeldInv, HashInv, ChainHash
    <3>3. v # NoVersion => HeldInv(n, v)'
      BY <1>1, <1>3, <2>1, <3>2 DEF HeldInv, IsMined
    <3>4. \A m \in Nonces : Holding(u, m)' => HeldInv(m, run[u].write.ver)'
      BY <2>1, <3>3 DEF Holding
    <3>5. v = NoVersion => HasReceipt(OTX(u).nonce, ver[OTX(u).nonce])'
      <4>1. v = NoVersion => HasReceipt(n, ver[n])
        BY <1>3, <1>6, MinedLemma, HashTypes
      <4> QED BY <1>1, <2>1, <4>1 DEF HasReceipt
    <3> QED BY <2>1, <3>1, <3>4, <3>5 DEF RunHash, At
  <2>3. 0 \in Versions
    BY ChainAssumption DEF Versions
  <2> QED BY <1>1, <1>3, <1>4, <2>2, <2>3, OwnStep
<1> QED BY <1>5, <1>6

(* What is stored is the version held, or nothing but the status.          *)
LEMMA HashCommitWrite ==
    ASSUME UInv, HashInv, OneRun, NEW u \in Unlockers, CommitWrite(u)
    PROVE  HashInv'
<1> DEFINE n == OTX(u).nonce
           v == run[u].write.ver
           s == run[u].write.status
<1>1. UNCHANGED <<pool, mined, faults, sub, check>>
  BY DEF CommitWrite, chainVars, subVars
<1>2. run[u].at = "write" /\ n \in Nonces /\ OTX(u) \in run[u].todo /\ OTX(u).ver = ver[n]
  BY InHandLemma DEF CommitWrite, At
<1>3. v \in Versions \cup {NoVersion}
  BY DEF UInv, RunType, Writes
<1>4. \A m \in Nonces : /\ m # n \/ v = NoVersion => ver'[m] = ver[m]
                        /\ m = n /\ v # NoVersion => ver'[m] = v
  BY <1>2, <1>3, HashTypes DEF CommitWrite, UInv, Inv, Books, DispatchTypeOK
<1>5. \A m \in Nonces : status'[m] = IF m = n THEN s ELSE status[m]
  BY <1>2 DEF CommitWrite, UpdateDispatchTxStatus, UInv, Inv, Books, DispatchTypeOK
<1>6. run'[u].at \in {"idle", "send"} /\ run'[u].todo \subseteq run[u].todo \ {OTX(u)}
  BY GoesOnLemma DEF CommitWrite
<1>7. Current(u)'
  <2> SUFFICES ASSUME NEW r \in run[u].todo, r # OTX(u) PROVE r.ver = ver'[r.nonce]
    BY <1>6 DEF Current
  <2>1. r \in Rows /\ OTX(u) \in Rows
    BY <1>2 DEF UInv, RunType
  <2>2. r.ver = ver[r.nonce]
    BY DEF HashInv, Current
  <2>3. r.nonce # n
    BY <1>2, <2>1, <2>2 DEF Rows
  <2> QED BY <1>4, <2>1, <2>2, <2>3 DEF Rows
<1>8. \A w \in Unlockers : w = u
  BY DEF OneRun
<1> SUFFICES ASSUME faults <= 1
             PROVE  ChainHash' /\ AheadInv' /\ ShownHash' /\ RunHash(u)'
  BY <1>1, <1>7, <1>8 DEF HashInv
<1>9. ChainHash /\ AheadInv /\ ShownHash /\ RunHash(u)
  BY DEF HashInv
<1>10. v # NoVersion => HeldInv(n, v)
  BY <1>2, <1>9 DEF RunHash, Holding
<1>11. faults \in {0, 1}
  BY HashTypes
<1>12. ChainHash'
  <2> SUFFICES ASSUME NEW m \in Nonces
      PROVE  /\ IsMined(m) => pool[m] = NoVersion /\ ver'[m] <= mined[m].ver
             /\ ~IsMined(m) =>
                   /\ pool[m] # NoVersion => ver'[m] <= pool[m]
                   /\ ver'[m] > 0 /\ (pool[m] = NoVersion \/ faults = 0) => m \in Dear
    BY <1>1 DEF ChainHash, IsMined
  <2>1. CASE m # n \/ v = NoVersion
    BY <1>4, <1>9, <2>1 DEF ChainHash
  <2>2. CASE m = n /\ v # NoVersion
    BY <1>3, <1>4, <1>9, <1>10, <1>11, <2>2, HashTypes DEF ChainHash, HeldInv
  <2> QED BY <2>1, <2>2
<1>13. AheadInv'
  <2> SUFFICES ASSUME faults = 0, NEW m \in Nonces, pool[m] > ver'[m] PROVE FALSE
    BY <1>1 DEF AheadInv, NodeAhead
  <2>1. CASE m # n \/ v = NoVersion
    <3>1. PICK w \in Unlockers : Holding(w, m)
      BY <1>4, <1>9, <2>1 DEF AheadInv, NodeAhead
    <3> QED BY <1>8, <2>1, <3>1 DEF Holding
  <2>2. CASE m = n /\ v # NoVersion
    BY <1>3, <1>4, <1>9, <1>10, <2>2, HashTypes DEF ChainHash, HeldInv
  <2> QED BY <2>1, <2>2
<1>14. \A m \in Nonces : HasReceipt(m, ver[m]) => HasReceipt(m, ver[m])'
  <2> SUFFICES ASSUME NEW m \in Nonces, HasReceipt(m, ver[m]) PROVE HasReceipt(m, ver[m])'
    OBVIOUS
  <2>1. IsMined(m)
    BY HashReceipt
  <2> QED BY <1>1, <1>4, <1>10, <2>1 DEF HeldInv, HasReceipt
<1>15. ShownHash'
  <2>1. ASSUME NEW m \in Nonces, status'[m] \in Final PROVE HasReceipt(m, ver[m])'
    <3>1. CASE m # n
      BY <1>5, <1>9, <1>14, <2>1, <3>1 DEF ShownHash
    <3>2. CASE m = n /\ v = NoVersion
      BY <1>2, <1>5, <1>9, <1>14, <2>1, <3>2 DEF RunHash, At
    <3>3. CASE m = n /\ v # NoVersion
      <4>1. IsMined(n)
        BY <1>2, <1>5, <2>1, <3>3 DEF UInv, RunInv
      <4> QED BY <1>1, <1>4, <1>10, <3>3, <4>1 DEF HeldInv, HasReceipt
    <3> QED BY <3>1, <3>2, <3>3
  <2>2. \A m \in Nonces : ver[m] <= ver'[m]
    BY <1>3, <1>4, <1>10, HashTypes DEF HeldInv
  <2>3. \A c \in check : c.ver <= ver'[c.nonce]
    <3> SUFFICES ASSUME NEW c \in check PROVE c.ver <= ver'[c.nonce]
      OBVIOUS
    <3>1. c.nonce \in Nonces /\ c.ver \in Nat /\ c.ver <= ver[c.nonce]
      BY <1>9, HashTypes DEF ShownHash, UInv, Inv, Books, DispatchTypeOK
    <3>2. ver'[c.nonce] \in Int
      BY <1>3, <1>4, <3>1, HashTypes
    <3> QED BY <2>2, <3>1, <3>2, HashTypes
  <2>4. sub # NoSub => sub.nonce \in Nonces
    BY DEF UInv, Inv, Books, DispatchTypeOK
  <2>5. sub # NoSub => HasReceipt(sub.nonce, ver[sub.nonce])'
    BY <1>1, <1>9, <1>14, <2>4 DEF ShownHash
  <2> QED BY <1>1, <2>1, <2>3, <2>5 DEF ShownHash
<1>16. RunHash(u)'
  BY <1>6 DEF RunHash, At, Holding
<1> QED BY <1>12, <1>13, <1>15, <1>16

(* A step of the unlocker.                                                 *)
LEMMA HashUnlock ==
    ASSUME UInv, HashInv, OneRun, NEW u \in Unlockers, Unlock(u) \/ FailUnlocker(u)
    PROVE  HashInv'
<1>1. CASE processOTX(u)
  <2>1. PICK outcome \in Outcomes :
            /\ Submit(OTX(u).nonce, OTX(u).ver, outcome)
            /\ \/ WriteLater(u, NoVersion, "IN_NETWORK")
               \/ Go(u, "receipt")
               \/ outcome \in {"gas_price", "replacement_underpriced"} /\ Go(u, "resign")
               \/ NextOTX(u)
               \/ Stop(u)
    BY <1>1 DEF processOTX
  <2> QED BY <1>1, <2>1, HashSendStored DEF processOTX
<1>2. CASE resignAndResubmit(u)
  <2>1. PICK v \in Versions, outcome \in Outcomes :
            /\ v > OTX(u).ver
            /\ Submit(OTX(u).nonce, v, outcome)
            /\ IF outcome = "ok"
               THEN run' = [run EXCEPT ![u].at = "guard", ![u].write.ver = v]
               ELSE Stop(u)
    BY <1>2 DEF resignAndResubmit
  <2>2. outcome = "ok" => /\ run'[u].at = "guard" /\ run'[u].todo = run[u].todo
                          /\ run'[u].write.ver = v
    BY <2>1 DEF UInv, RunType, Writes
  <2> QED BY <1>2, <2>1, <2>2, HashSendResigned DEF resignAndResubmit
<1>3. CASE checkReceipt(u)
  <2> DEFINE n == OTX(u).nonce
  <2>1. n \in Nonces
    BY <1>3, OTXLemma DEF checkReceipt, At
  <2>2. CASE HasReceipt(n, OTX(u).ver)
    <3>1. WriteLater(u, NoVersion, OutcomeStatus(mined[n].ok))
      BY <1>3, <2>2 DEF checkReceipt
    <3> QED BY <1>3, <2>2, <3>1, HashLookUp DEF checkReceipt
  <2>3. CASE /\ ~ HasReceipt(n, OTX(u).ver) /\ ~ Stop(u)
             /\ NetworkNonce > n /\ Anchored(n)
    <3>1. WriteLater(u, mined[n].ver, OutcomeStatus(mined[n].ok))
      BY <1>3, <2>3 DEF checkReceipt, recoverOrphanedNonce
    <3>2. IsMined(n)
      BY <2>1, <2>3, NetworkNonceLemma, TypedLemma DEF UInv, Nonces
    <3>3. mined[n].ver \in Versions
      BY <2>1, <3>2, MinedLemma
    <3> QED BY <1>3, <3>1, <3>2, <3>3, HashLookUp DEF checkReceipt
  <2>4. CASE /\ ~ HasReceipt(n, OTX(u).ver) /\ ~ Stop(u)
             /\ ~ (NetworkNonce > n /\ Anchored(n))
    <3>1. NextOTX(u)
      BY <1>3, <2>4 DEF checkReceipt, recoverOrphanedNonce
    <3> QED BY <1>3, <3>1, HashLookUp DEF checkReceipt
  <2>5. CASE Stop(u)
    BY <1>3, <2>5, HashLookUp DEF checkReceipt
  <2> QED BY <2>2, <2>3, <2>4, <2>5
<1>4. CASE FailUnlocker(u)
  BY <1>4, HashFail DEF FailUnlocker
<1> QED BY <1>1, <1>2, <1>3, <1>4, HashReadRows, HashGuardFires, HashGuardPasses,
           HashCommitWrite DEF Unlock

(* At the start only first versions are sent, and stored.                  *)
LEMMA HashInit == UnlockerInit => HashInv
<1> SUFFICES ASSUME UnlockerInit
             PROVE  HashInv
  OBVIOUS
<1>1. \A n \in Nonces : /\ pool[n] \in {0, NoVersion} /\ ver[n] = 0 /\ ~IsMined(n)
                        /\ status[n] \notin Final
  BY DEF UnlockerInit, DispatchInit, ChainInit, IsMined, Final
<1>2. \A u \in Unlockers : run[u] = Idle
  BY DEF UnlockerInit
<1>3. \A u \in Unlockers : Current(u) /\ RunHash(u)
  BY <1>2 DEF Current, RunHash, Idle, At, Holding
<1>4. ChainHash
  BY <1>1 DEF ChainHash, NoVersion
<1>5. AheadInv
  BY <1>1 DEF AheadInv, NodeAhead, NoVersion
<1>6. ShownHash
  BY <1>1 DEF ShownHash, UnlockerInit, DispatchInit
<1> QED BY <1>3, <1>4, <1>5, <1>6 DEF HashInv

(* With one run of the unlocker at a time, and whatever one fault does, a  *)
(* settled OTX shows the hash of the transaction that was mined, for any   *)
(* number of OTXs and versions.                                            *)
THEOREM OneRunSettlesMinedHashes ==
    ASSUME OneRun
    PROVE  UnlockerSpec => []SettledHashIsMined
<1>1. UInv /\ UInv' /\ HashInv /\ [UnlockerNext]_unlockerVars => HashInv'
  <2> SUFFICES ASSUME UInv, UInv', HashInv, [UnlockerNext]_unlockerVars
               PROVE  HashInv'
    OBVIOUS
  <2>1. CASE UNCHANGED unlockerVars
    BY <2>1, HashDispatchStep DEF unlockerVars
  <2>2. CASE DispatchNext /\ UNCHANGED run
    BY <2>2, HashDispatchStep
  <2>3. ASSUME NEW u \in Unlockers, Unlock(u) \/ FailUnlocker(u)
        PROVE  HashInv'
    BY <2>3, HashUnlock
  <2> QED BY <2>1, <2>2, <2>3 DEF UnlockerNext
<1>2. HashInv => SettledHashIsMined
  BY DEF HashInv, ShownHash, SettledHashIsMined
<1> QED BY <1>1, <1>2, HashInit, UnlockerInvariant, PTL DEF UnlockerSpec

(* What a run commits is the outcome on chain, or leaves the row open.     *)
LEMMA BoardCommitLemma ==
    ASSUME UInv, UInv', NEW u \in Unlockers, CommitWrite(u)
    PROVE  [Board!Next]_(Board!outcomeVars)
<1> DEFINE n == OTX(u).nonce
           s == run[u].write.status
<1>1. n \in Nonces
  BY OTXLemma DEF CommitWrite, At
<1>2. s \in Statuses
  BY StatusLemma DEF UInv, RunType, Writes
<1>3. status' = [status EXCEPT ![n] = s] /\ UNCHANGED <<mined, active>>
  BY DEF CommitWrite, UpdateDispatchTxStatus, chainVars, subVars
<1>4. Inv /\ Inv'
  BY DEF UInv
<1>5. CASE s \notin Final
  BY <1>1, <1>2, <1>3, <1>4, <1>5, BoardLemma
<1>6. CASE s \in Final
  <2>1. \A m \in Nonces : status'[m] = status[m] \/ status'[m] \in Final
    BY <1>3, <1>6 DEF UInv, Inv, Books, DispatchTypeOK
  <2>2. {} \in SUBSET Registrations /\ active' = active \cup {}
    BY <1>3
  <2> QED BY <1>3, <1>4, <2>1, <2>2, BoardLemma
<1> QED BY <1>5, <1>6

(* A step of a run is one the board of outcomes allows: only the commit of *)
(* a prepared write changes a row, and it writes what was mined or nothing *)
(* final.                                                                  *)
LEMMA BoardUnlockStep ==
    ASSUME UInv, UInv', NEW u \in Unlockers, Unlock(u) \/ FailUnlocker(u)
    PROVE  [Board!Next]_(Board!outcomeVars)
<1>1. Inv /\ Inv'
  BY DEF UInv
<1>2. CASE UNCHANGED <<mined, status, active>>
  BY <1>1, <1>2, BoardLemma
<1>3. CASE CommitWrite(u)
  BY <1>3, BoardCommitLemma
<1> QED BY <1>2, <1>3
        DEF Unlock, getStuckOTXs, getOTXsFromNonce, processOTX, resignAndResubmit, Submit,
            GuardFires, GuardPasses, checkReceipt, FailUnlocker, chainVars, dispatchVars,
            subVars

(* The unlocker, in however many overlapping runs, implements the ledger   *)
(* of outcomes together with the other writers: re-signing, recovering     *)
(* orphans and writing late turn no row from one outcome to the other.     *)
THEOREM UnlockerImplementsLedger == UnlockerSpec => OutcomeSpec
<1>1. UInv /\ UInv' /\ [UnlockerNext]_unlockerVars => [Board!Next]_(Board!outcomeVars)
  <2> SUFFICES ASSUME UInv, UInv', [UnlockerNext]_unlockerVars
               PROVE  [Board!Next]_(Board!outcomeVars)
    OBVIOUS
  <2>1. Inv /\ Inv'
    BY DEF UInv
  <2>2. CASE [DispatchNext]_<<chainVars, dispatchVars>>
    BY <2>1, <2>2, BoardDispatchStep
  <2>3. ASSUME NEW u \in Unlockers, Unlock(u) \/ FailUnlocker(u)
        PROVE  [Board!Next]_(Board!outcomeVars)
    BY <2>3, BoardUnlockStep
  <2> QED BY <2>2, <2>3 DEF UnlockerNext, unlockerVars
<1>2. UnlockerInit => Board!Init
  BY BoardInit DEF UnlockerInit
<1> QED BY <1>1, <1>2, UnlockerInvariant, PTL DEF UnlockerSpec, OutcomeSpec, Board!Spec

(* However OTXs are re-signed and runs overlap, no account becomes active  *)
(* whose registration was not mined or reverted.                           *)
THEOREM UnlockerActivatesRegistered == UnlockerSpec => []ActiveIsRegistered
<1>1. Board!Init => ActiveIsRegistered
  BY DEF Board!Init, ActiveIsRegistered
<1>2. ActiveIsRegistered /\ [Board!Next]_(Board!outcomeVars) => ActiveIsRegistered'
  BY BoardKeepsActive
<1> QED BY <1>1, <1>2, UnlockerImplementsLedger, PTL DEF OutcomeSpec, Board!Spec
============================================================================
