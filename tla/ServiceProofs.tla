---------------------------- MODULE ServiceProofs ----------------------------
(* Proofs about Service and GasOracle, for any processes, modes, prices,   *)
(* re-signings and faults.                                                 *)
EXTENDS Service, TLAPS

(* The two fields are of one refresh, but between the updater's two        *)
(* stores, and no reader is ahead of the first.  A process that has an     *)
(* oracle has its prices before anything of it runs.                       *)
OracleInv(p) ==
    /\ reader[p] <= feeCap[p]
    /\ tipCap[p] <= feeCap[p]
    /\ ~UpdaterAt(p, "tip") => tipCap[p] = feeCap[p]
    /\ UpdaterAt(p, "cap") => updater[p].got >= feeCap[p]
    /\ UpdaterAt(p, "tip") => updater[p].got = feeCap[p]
    /\ feeCap[p] # 0 => tipCap[p] # 0
    /\ HasPrices(p) /\ main[p] \notin Exited \cup {"down"} => feeCap[p] # 0
    /\ main[p] \notin Up => updater[p] = Off

(* Keys are inserted one at a time unless there was a race.                *)
KeyInv ==
    /\ ~raced => masterKeys <= 1
    /\ \A p, q \in Processes :
          ~raced /\ main[p] = "commit" =>
              masterKeys = 0 /\ (main[q] = "commit" => p = q)

(* Jobs are fetched only before the signal and only where there are        *)
(* workers, the updater has ended when the River client is stopped, and    *)
(* that is past only with its deadline or idle.                            *)
CloserInv(p) ==
    /\ fetching[p] => MainAt(p, "running")
    /\ ~HasWorkers(p) => ~working[p]
    /\ MainAt(p, "stopping") /\ closer[p] \in {"workers", "done"} => updater[p] = Off
    /\ MainAt(p, "stopping") /\ closer[p] = "done" => (working[p] => expired[p])

ServiceInv ==
    /\ TypeOK
    /\ \A p \in Processes : OracleInv(p)
    /\ KeyInv
    /\ OneMasterKey
    /\ \A p \in Processes : CloserInv(p)

(* What a transaction is signed again for: never less than before, and     *)
(* more unless 15% of the old price is less than a wei.                    *)
LEMMA RaisedLemma ==
    ASSUME NEW old \in Nat, NEW current \in Nat
    PROVE  /\ Raised(old, current) \in Nat
           /\ Raised(old, current) >= old
           /\ old >= 7 => Raised(old, current) > old
<1> DEFINE bumped == (old * 115) \div 100
<1>1. bumped \in Nat /\ bumped >= old /\ (old >= 7 => bumped > old)
  OBVIOUS
<1>2. Raised(old, current) = IF current > old THEN current ELSE bumped
  BY DEF Raised
<1> HIDE DEF bumped
<1>3. CASE current > old
  BY <1>2, <1>3
<1>4. CASE ~(current > old)
  BY <1>1, <1>2, <1>4
<1> QED BY <1>3, <1>4

(* Prices of an epoch are natural numbers.                                 *)
LEMMA PriceLemma ==
    ASSUME NEW e \in Epochs
    PROVE  FeeCap(e) \in Nat /\ TipCap(e) \in Nat
<1> DEFINE Price == [cap : Nat, tip : Nat]
<1>1. Prices[e] \in Price
  <2>1. Prices \in Seq(Price) /\ e \in 1 .. Len(Prices)
    BY GasAssumption DEF GasAssumption, Epochs
  <2> HIDE DEF Price
  <2> QED BY <2>1
<1> DEFINE cap == Prices[e].cap
<1>2. cap \in Nat /\ Prices[e].tip \in Nat
  BY <1>1
<1>3. (cap * 120) \div 100 \in Nat
  <2> HIDE DEF cap
  <2> QED BY <1>2
<1> QED BY <1>2, <1>3 DEF FeeCap, TipCap

(* A signer that has read a fee cap finds both prices set.                 *)
LEMMA ReaderLemma ==
    ASSUME TypeOK, NEW p \in Processes, OracleInv(p), reader[p] # 0
    PROVE  reader[p] \in Epochs /\ tipCap[p] \in Epochs
<1>1. now \in Epochs /\ reader[p] \in 0 .. now /\ tipCap[p] \in 0 .. now /\ feeCap[p] \in 0 .. now
  BY DEF TypeOK, GasTypeOK
<1>2. tipCap[p] # 0
  BY <1>1 DEF OracleInv
<1> QED BY <1>1, <1>2 DEF Epochs

(* The initial states.                                                     *)
LEMMA InitLemma == Init => ServiceInv
<1> SUFFICES ASSUME Init PROVE ServiceInv
  OBVIOUS
<1> USE DEF Init, GasInit
<1>1. TypeOK
  <2>1. GasTypeOK
    BY GasAssumption DEF GasAssumption, GasTypeOK, Epochs, Off, Unsigned
  <2> QED BY <2>1 DEF TypeOK, Exited
<1>2. ASSUME NEW p \in Processes PROVE OracleInv(p) /\ CloserInv(p)
  BY DEF OracleInv, CloserInv, UpdaterAt, MainAt, Off, Exited
<1>3. KeyInv /\ OneMasterKey
  BY DEF KeyInv, OneMasterKey, Up
<1> QED BY <1>1, <1>2, <1>3 DEF ServiceInv

(* The parts of the type invariant.                                        *)
CapTypes ==
    /\ now \in Epochs
    /\ feeCap \in [Processes -> 0 .. now] /\ tipCap \in [Processes -> 0 .. now]
    /\ reader \in [Processes -> 0 .. now]

UpdaterType ==
    updater \in [Processes -> [at : {"off", "select", "call", "cap", "tip"}, got : 0 .. now]]

TxTypes == 
    /\ tx \in [cap : Nat, tip : Nat, resigns : 0 .. MaxResigns]
    /\ faults \in 0 .. MaxFaults

LifeTypes ==
    /\ main \in [Processes -> Exited \cup Up \cup
                    {"down", "bootstrap", "insert", "commit", "start"}]
    /\ closer \in [Processes -> {"none", "sub", "api", "oracle", "workers", "done"}]
    /\ subUp \in [Processes -> BOOLEAN] /\ working \in [Processes -> BOOLEAN]
    /\ fetching \in [Processes -> BOOLEAN] /\ expired \in [Processes -> BOOLEAN]

(* The type invariant is the conjunction of its parts.                     *)
LEMMA TypeParts ==
    TypeOK <=> /\ CapTypes /\ UpdaterType /\ TxTypes /\ LifeTypes
               /\ \A p \in Processes : ~HasWorkers(p) => updater[p] = Off /\ ~fetching[p]
               /\ masterKeys \in Nat /\ raced \in BOOLEAN /\ keyLost \in BOOLEAN
BY DEF TypeOK, GasTypeOK, CapTypes, UpdaterType, TxTypes, LifeTypes

(* Epochs are counted from 1.                                              *)
LEMMA EpochsLemma == Epochs = 1 .. Len(Prices) /\ Len(Prices) \in Nat /\ Epochs \subseteq Nat \ {0}
<1>1. Len(Prices) \in Nat
  BY GasAssumption DEF GasAssumption
<1> QED BY <1>1 DEF Epochs

(* The parts of the type invariant, one after the other.                   *)
LEMMA CapLemma ==
    ASSUME CapTypes, UpdaterType, NEW p \in Processes, Process(p)
    PROVE  CapTypes'
<1> USE DEF CapTypes, UpdaterType, oracleVars
<1>0. now \in Nat \ {0}
  BY EpochsLemma
<1>1. CASE LoadGasOracle(p)
  BY <1>0, <1>1 DEF LoadGasOracle
<1>2. ASSUME NEW code, Exit(p, code)
      PROVE  CapTypes'
  BY <1>0, <1>2 DEF Exit
<1>10. CASE FailStart(p) \/ Kill(p) \/ ExitStopped(p) \/ ExitForced(p)
  BY <1>2, <1>10 DEF FailStart, Kill, ExitStopped, ExitForced
<1>3. CASE LoadMasterSignerKey(p) \/ BootstrapMasterKey(p) \/ CommitBootstrap(p) \/ StartParts(p)
  BY <1>0, <1>3 DEF LoadMasterSignerKey, BootstrapMasterKey, CommitBootstrap, StartParts, gasVars
<1>4. CASE WorkJob(p) \/ EndJob(p) \/ Signal(p)
  BY <1>0, <1>4 DEF WorkJob, EndJob, Signal, gasVars
<1>5. CASE CloseSub(p) \/ EndSub(p) \/ StopAPI(p) \/ StopOracle(p) \/ StopWorkers(p) \/ Deadline(p)
  BY <1>0, <1>5 DEF CloseSub, EndSub, StopAPI, StopOracle, StopWorkers, Deadline, gasVars
<1>6. CASE Tick(p) \/ Answer(p) \/ NoAnswer(p) \/ Sign(p) \/ Resign(p)
  BY <1>0, <1>6 DEF Tick, Answer, NoAnswer, Sign, Resign
<1>7. CASE StoreCap(p)
  BY <1>0, <1>7 DEF StoreCap
<1>8. CASE StoreTip(p)
  BY <1>0, <1>8 DEF StoreTip
<1>9. CASE ReadCap(p)
  BY <1>0, <1>9 DEF ReadCap
<1> QED BY <1>1, <1>10, <1>3, <1>4, <1>5, <1>6, <1>7, <1>8, <1>9 DEF Process, Boot, Stop, UseOracle, updateGasPrice

(* Likewise for the updaters.                                              *)
LEMMA UpdaterLemma ==
    ASSUME CapTypes, UpdaterType, NEW p \in Processes, Process(p)
    PROVE  UpdaterType'
<1> USE DEF CapTypes, UpdaterType, Off, Waiting, oracleVars
<1>0. now \in Nat \ {0}
  BY EpochsLemma
<1>1. CASE Boot(p)
  BY <1>0, <1>1 DEF Boot, LoadGasOracle, LoadMasterSignerKey, BootstrapMasterKey, CommitBootstrap, StartParts, gasVars
<1>2. ASSUME NEW code, Exit(p, code)
      PROVE  UpdaterType'
  BY <1>0, <1>2 DEF Exit
<1>10. CASE FailStart(p) \/ Kill(p) \/ ExitStopped(p) \/ ExitForced(p)
  BY <1>2, <1>10 DEF FailStart, Kill, ExitStopped, ExitForced
<1>3. CASE WorkJob(p) \/ EndJob(p) \/ Signal(p)
  BY <1>0, <1>3 DEF WorkJob, EndJob, Signal, gasVars
<1>4. CASE CloseSub(p) \/ EndSub(p) \/ StopAPI(p) \/ StopOracle(p) \/ StopWorkers(p) \/ Deadline(p)
  BY <1>0, <1>4 DEF CloseSub, EndSub, StopAPI, StopOracle, StopWorkers, Deadline, gasVars
<1>5. CASE UseOracle(p)
  BY <1>0, <1>5 DEF UseOracle, updateGasPrice, Tick, Answer, StoreCap, StoreTip, NoAnswer,
              ReadCap, Sign, Resign, UpdaterAt
<1> QED BY <1>1, <1>10, <1>3, <1>4, <1>5 DEF Process, Stop

(* Likewise for the processes.                                             *)
LEMMA LifeLemma ==
    ASSUME LifeTypes, NEW p \in Processes, Process(p)
    PROVE  LifeTypes'
<1> USE DEF LifeTypes
<1>1. CASE LoadGasOracle(p) \/ LoadMasterSignerKey(p) \/ BootstrapMasterKey(p)
  BY <1>1 DEF LoadGasOracle, LoadMasterSignerKey, BootstrapMasterKey, GoMain
<1>6. CASE CommitBootstrap(p)
  BY <1>6 DEF CommitBootstrap, GoMain
<1>7. CASE StartParts(p)
  <2>1. fetching' = fetching \/ fetching' = [fetching EXCEPT ![p] = HasWorkers(p)]
    BY <1>7 DEF StartParts
  <2>2. HasWorkers(p) \in BOOLEAN /\ HasSub(p) \in BOOLEAN
    BY DEF HasWorkers, HasSub
  <2> QED BY <1>7, <2>1, <2>2 DEF StartParts, GoMain, Up
<1>3. CASE FailStart(p) \/ Kill(p) \/ ExitStopped(p) \/ ExitForced(p)
  BY <1>3 DEF FailStart, Kill, Exit, 
    ExitStopped, ExitForced, Exited
<1>4. CASE  WorkJob(p) \/ EndJob(p) \/ Signal(p) 
  BY <1>4 DEF WorkJob, EndJob, Signal, GoMain, GoCloser, Up
<1>5. CASE CloseSub(p) \/ EndSub(p) \/ StopAPI(p) \/ StopOracle(p) \/ StopWorkers(p)
    \/ Deadline(p) 
  BY <1>5 DEF CloseSub, EndSub, StopAPI, StopOracle, StopWorkers, GoCloser,
    Deadline
<1>2. CASE UseOracle(p)
  BY <1>2 DEF UseOracle, lifeVars
<1> QED BY <1>1, <1>2, <1>3, <1>4, <1>5, <1>6, <1>7 DEF Process, Boot, Stop

(* Likewise for the transaction that is followed.                          *)
LEMMA TxLemma ==
    ASSUME TypeOK, NEW p \in Processes, OracleInv(p), Process(p)
    PROVE  TxTypes'
<1> USE TypeParts DEF TxTypes, oracleVars
<1>1. MaxFaults \in Nat /\ MaxResigns \in Nat
  BY GasAssumption DEF GasAssumption
<1>2. CASE Boot(p)
  BY <1>1, <1>2 DEF Boot, LoadGasOracle, LoadMasterSignerKey, BootstrapMasterKey, CommitBootstrap,
                    StartParts, Fault, gasVars
<1>3. CASE FailStart(p) \/ Kill(p) \/ ExitStopped(p) \/ ExitForced(p)
  <2>1. tx' = tx
    BY <1>3 DEF FailStart, Kill, ExitStopped, ExitForced, Exit
  <2>2. faults' = faults \/ (faults < MaxFaults /\ faults' = faults + 1)
    BY <1>3 DEF FailStart, Kill, ExitStopped, ExitForced, Fault
  <2> QED BY <1>1, <2>1, <2>2
<1>4. CASE WorkJob(p) \/ EndJob(p) \/ Signal(p)
  BY <1>4 DEF WorkJob, EndJob, Signal, gasVars
<1>5. CASE CloseSub(p) \/ EndSub(p) \/ StopAPI(p) \/ StopOracle(p) \/ StopWorkers(p) \/ Deadline(p)
  BY <1>5 DEF CloseSub, EndSub, StopAPI, StopOracle, StopWorkers, Deadline, gasVars
<1>6. CASE Tick(p) \/ Answer(p) \/ StoreCap(p) \/ StoreTip(p) \/ NoAnswer(p) \/ ReadCap(p)
  BY <1>1, <1>6 DEF Tick, Answer, StoreCap, StoreTip, NoAnswer, ReadCap, Fault
<1>7. ASSUME reader[p] # 0
      PROVE  /\ FeeCap(reader[p]) \in Nat /\ TipCap(tipCap[p]) \in Nat
             /\ Raised(tx.cap, FeeCap(reader[p])) \in Nat
             /\ Raised(tx.tip, TipCap(tipCap[p])) \in Nat
  <2>1. FeeCap(reader[p]) \in Nat /\ TipCap(tipCap[p]) \in Nat
    BY <1>7, ReaderLemma, PriceLemma
  <2>2. tx.cap \in Nat /\ tx.tip \in Nat
    OBVIOUS
  <2> QED BY <2>1, <2>2, RaisedLemma
<1>8. CASE Sign(p)
  BY <1>1, <1>7, <1>8 DEF Sign
<1>9. CASE Resign(p)
  BY <1>1, <1>7, <1>9 DEF Resign
<1> QED BY <1>2, <1>3, <1>4, <1>5, <1>6, <1>8, <1>9
        DEF Process, Stop, UseOracle, updateGasPrice

(* Only processes with workers refresh prices and fetch jobs, and the keys *)
(* are counted.                                                            *)
LEMMA PartsLemma ==
    ASSUME TypeOK, NEW p \in Processes, Process(p)
    PROVE  /\ \A q \in Processes : ~HasWorkers(q) => updater'[q] = Off /\ ~fetching'[q]
           /\ masterKeys' \in Nat /\ raced' \in BOOLEAN /\ keyLost' \in BOOLEAN
<1> USE DEF TypeOK, GasTypeOK, keyVars, oracleVars, Off, Waiting
<1>1. CASE LoadGasOracle(p) \/ LoadMasterSignerKey(p) \/ BootstrapMasterKey(p)
  BY <1>1 DEF LoadGasOracle, LoadMasterSignerKey, BootstrapMasterKey, gasVars
<1>6. CASE CommitBootstrap(p)
  <2>1. UNCHANGED <<updater, fetching, raced>>
    BY <1>6 DEF CommitBootstrap
  <2>2. (masterKeys' = masterKeys + 1 \/ masterKeys' = masterKeys)
    BY <1>6 DEF CommitBootstrap
  <2>3. keyLost' \in BOOLEAN
    BY <1>6 DEF CommitBootstrap
  <2>4. masterKeys' \in Nat /\ raced' \in BOOLEAN
    BY <2>1, <2>2
  <2>5. \A q \in Processes : ~HasWorkers(q) => updater'[q] = Off /\ ~fetching'[q]
    BY <2>1
  <2> QED BY <2>3, <2>4, <2>5
<1>7. CASE StartParts(p)
  BY <1>7 DEF StartParts
<1>2. CASE FailStart(p) \/ Kill(p) \/ ExitStopped(p) \/ ExitForced(p)
  BY <1>2 DEF FailStart, Kill, ExitStopped, ExitForced, Exit
<1>3. CASE WorkJob(p) \/ EndJob(p) \/ Signal(p)
  BY <1>3 DEF WorkJob, EndJob, Signal, gasVars
<1>4. CASE CloseSub(p) \/ EndSub(p) \/ StopAPI(p) \/ StopOracle(p) \/ StopWorkers(p) \/ Deadline(p)
  BY <1>4 DEF CloseSub, EndSub, StopAPI, StopOracle, StopWorkers, Deadline, gasVars
<1>5. CASE UseOracle(p)
  BY <1>5 DEF UseOracle, updateGasPrice, Tick, Answer, StoreCap, StoreTip, NoAnswer, ReadCap,
              Sign, Resign, UpdaterAt, lifeVars
<1> QED BY <1>1, <1>2, <1>3, <1>4, <1>5, <1>6, <1>7 DEF Process, Boot, Stop

(* Every step of a process keeps the types.                                *)
LEMMA TypeLemma ==
    ASSUME TypeOK, NEW p \in Processes, OracleInv(p), Process(p)
    PROVE  TypeOK'
<1>1. CapTypes' /\ UpdaterType' /\ TxTypes' /\ LifeTypes'
  BY TypeParts, CapLemma, UpdaterLemma, TxLemma, LifeLemma
<1> QED BY <1>1, PartsLemma DEF TypeOK, GasTypeOK, CapTypes, UpdaterType, TxTypes, LifeTypes

(* A step of one process leaves the others alone.                          *)
LEMMA FrameLemma ==
    ASSUME TypeOK, NEW p \in Processes, NEW q \in Processes, p # q, Process(p)
    PROVE  /\ feeCap'[q] = feeCap[q] /\ tipCap'[q] = tipCap[q] /\ reader'[q] = reader[q]
           /\ updater'[q] = updater[q]
           /\ main'[q] = main[q] /\ closer'[q] = closer[q] /\ subUp'[q] = subUp[q]
           /\ working'[q] = working[q] /\ fetching'[q] = fetching[q]
           /\ expired'[q] = expired[q]
<1> USE TypeParts DEF CapTypes, UpdaterType, LifeTypes, oracleVars, GoMain, GoCloser
<1>1. CASE LoadGasOracle(p) \/ LoadMasterSignerKey(p) \/ BootstrapMasterKey(p)
  BY <1>1 DEF LoadGasOracle, LoadMasterSignerKey, BootstrapMasterKey, gasVars
<1>2. CASE CommitBootstrap(p) \/ StartParts(p)
  BY <1>2 DEF CommitBootstrap, StartParts
<1>3. ASSUME NEW code, Exit(p, code)
      PROVE  /\ feeCap'[q] = feeCap[q] /\ tipCap'[q] = tipCap[q] /\ reader'[q] = reader[q]
             /\ updater'[q] = updater[q]
             /\ main'[q] = main[q] /\ closer'[q] = closer[q] /\ subUp'[q] = subUp[q]
             /\ expired'[q] = expired[q]
  BY <1>3 DEF Exit
<1>4. CASE FailStart(p) \/ Kill(p) \/ ExitStopped(p) \/ ExitForced(p)
  <2>1. \E code : Exit(p, code)
    BY <1>4 DEF FailStart, Kill, ExitStopped, ExitForced
  <2>2. working'[q] = working[q] /\ fetching'[q] = fetching[q]
    BY <1>4 DEF FailStart, Kill, ExitStopped, ExitForced
  <2> QED BY <1>3, <2>1, <2>2
<1>5. CASE WorkJob(p) \/ EndJob(p) \/ Signal(p)
  BY <1>5 DEF WorkJob, EndJob, Signal, gasVars
<1>6. CASE CloseSub(p) \/ EndSub(p) \/ StopAPI(p) \/ StopOracle(p) \/ StopWorkers(p) \/ Deadline(p)
  BY <1>6 DEF CloseSub, EndSub, StopAPI, StopOracle, StopWorkers, Deadline, gasVars
<1>7. CASE UseOracle(p)
  BY <1>7 DEF UseOracle, updateGasPrice, Tick, Answer, StoreCap, StoreTip, NoAnswer, ReadCap,
              Sign, Resign, lifeVars
<1> QED BY <1>1, <1>2, <1>4, <1>5, <1>6, <1>7 DEF Process, Boot, Stop

(* The oracle's fields are one refresh apart at most.                      *)
LEMMA OracleLemma ==
    ASSUME TypeOK, NEW p \in Processes, OracleInv(p), Process(p)
    PROVE  OracleInv(p)'
<1> USE TypeParts DEF CapTypes, UpdaterType, LifeTypes, OracleInv, UpdaterAt, Off, Waiting,
                      Exited, Up, MainAt, GoMain, oracleVars
<1>1. now \in Nat /\ now # 0
  BY EpochsLemma
<1>0. /\ feeCap[p] \in Nat /\ tipCap[p] \in Nat /\ reader[p] \in Nat /\ updater[p].got \in Nat
      /\ feeCap[p] <= now /\ tipCap[p] <= now /\ reader[p] <= now
  <2>1. feeCap[p] \in 0 .. now /\ tipCap[p] \in 0 .. now /\ reader[p] \in 0 .. now
    OBVIOUS
  <2>2. updater[p].got \in 0 .. now
    OBVIOUS
  <2> QED BY ONLY <1>1, <2>1, <2>2
<1>2. CASE LoadGasOracle(p)
  <2>1. /\ reader'[p] = reader[p] /\ updater'[p] = updater[p] /\ main'[p] = "bootstrap"
        /\ updater[p] = Off
    BY <1>2 DEF LoadGasOracle
  <2>2. CASE HasPrices(p)
    <3>1. feeCap'[p] = now /\ tipCap'[p] = now
      BY <1>2, <2>2 DEF LoadGasOracle
    <3> QED BY ONLY <1>0, <1>1, <2>1, <3>1 DEF OracleInv, UpdaterAt, Off, Up, Exited, HasPrices
  <2>3. CASE ~HasPrices(p)
    <3>1. feeCap'[p] = feeCap[p] /\ tipCap'[p] = tipCap[p]
      BY <1>2, <2>3 DEF LoadGasOracle
    <3> QED BY <2>1, <2>3, <3>1 DEF HasPrices
  <2> QED BY <2>2, <2>3
<1>3. CASE LoadMasterSignerKey(p) \/ BootstrapMasterKey(p)
  BY <1>3 DEF LoadMasterSignerKey, BootstrapMasterKey, gasVars
<1>4. CASE CommitBootstrap(p)
  BY <1>4 DEF CommitBootstrap
<1>5. CASE StartParts(p)
  <2>1. /\ feeCap'[p] = feeCap[p] /\ tipCap'[p] = tipCap[p] /\ reader'[p] = reader[p]
        /\ updater[p] = Off /\ updater'[p] \in {Waiting, Off}
        /\ main[p] = "start" /\ main'[p] = "running"
    BY <1>5 DEF StartParts
  <2> QED BY ONLY OracleInv(p), <1>0, <1>1, <2>1
          DEF OracleInv, UpdaterAt, Off, Waiting, Up, Exited, HasPrices
<1>6. ASSUME NEW code, code \in Exited, Exit(p, code)
      PROVE  OracleInv(p)'
  <2>1. /\ feeCap'[p] = 0 /\ tipCap'[p] = 0 /\ reader'[p] = 0 /\ updater'[p] = Off
        /\ main'[p] = code
    BY <1>6 DEF Exit
  <2>2. updater'[p].at = "off"
    BY ONLY <2>1 DEF Off
  <2>3. reader'[p] \in Nat /\ feeCap'[p] \in Nat /\ tipCap'[p] \in Nat
    BY ONLY <2>1
  <2>4. reader'[p] <= feeCap'[p] /\ tipCap'[p] <= feeCap'[p]
    BY ONLY <2>1, <2>3
  <2>5. main'[p] \in Exited
    BY <1>6, <2>1
  <2> QED BY ONLY <2>1, <2>2, <2>4, <2>5 DEF OracleInv, UpdaterAt, Up, Exited
<1>7. CASE FailStart(p) \/ Kill(p) \/ ExitStopped(p) \/ ExitForced(p)
  BY <1>6, <1>7 DEF FailStart, Kill, ExitStopped, ExitForced
<1>8. CASE WorkJob(p) \/ EndJob(p) \/ Signal(p)
  BY <1>8 DEF WorkJob, EndJob, Signal, gasVars
<1>9. CASE CloseSub(p) \/ EndSub(p) \/ StopAPI(p) \/ StopWorkers(p) \/ Deadline(p)
  BY <1>9 DEF CloseSub, EndSub, StopAPI, StopWorkers, Deadline, gasVars
<1>10. CASE StopOracle(p)
  BY <1>10 DEF StopOracle
<1>11. CASE UseOracle(p)
  <2>1. main'[p] = main[p] /\ main[p] \in Up
    BY <1>11 DEF UseOracle, lifeVars
  <2>6. updater[p] # Off => HasPrices(p)
    BY DEF TypeOK, HasWorkers, HasPrices
  <2>2. CASE Tick(p) \/ Answer(p) \/ NoAnswer(p)
    <3>1. /\ feeCap'[p] = feeCap[p] /\ tipCap'[p] = tipCap[p] /\ reader'[p] = reader[p]
          /\ updater[p].at \in {"select", "call"}
          /\ \/ updater'[p].at \in {"select", "call"}
             \/ updater'[p].at = "cap" /\ updater'[p].got = now
      <4>1. CASE Tick(p)
        BY <4>1 DEF Tick
      <4>2. CASE Answer(p)
        BY <4>2 DEF Answer
      <4>3. CASE NoAnswer(p)
        BY <4>3 DEF NoAnswer
      <4> QED BY <2>2, <4>1, <4>2, <4>3
    <3> QED BY ONLY OracleInv(p), <1>0, <1>1, <2>1, <3>1 DEF OracleInv, UpdaterAt, Up, Exited, HasPrices
  <2>3. CASE StoreCap(p)
    <3>1. /\ feeCap'[p] = updater[p].got /\ tipCap'[p] = tipCap[p] /\ reader'[p] = reader[p]
          /\ updater[p].at = "cap" /\ updater'[p].at = "tip" /\ updater'[p].got = updater[p].got
      BY <2>3 DEF StoreCap
    <3>2. HasPrices(p)
      BY ONLY <2>6, <3>1 DEF Off
    <3>3. tipCap[p] # 0 /\ updater[p].got >= feeCap[p] /\ reader[p] <= feeCap[p]
          /\ tipCap[p] <= feeCap[p]
      BY <2>1, <3>1, <3>2
    <3>4. tipCap[p] # 0 /\ updater[p].got # 0 /\ reader[p] <= updater[p].got
          /\ tipCap[p] <= updater[p].got
      BY ONLY <1>0, <3>3
    <3> QED BY ONLY <2>1, <3>1, <3>4 DEF OracleInv, UpdaterAt, Up
  <2>4. CASE StoreTip(p)
    <3>1. /\ feeCap'[p] = feeCap[p] /\ tipCap'[p] = updater[p].got /\ reader'[p] = reader[p]
          /\ updater[p].at = "tip" /\ updater'[p].at = "select"
      BY <2>4 DEF StoreTip
    <3>2. tipCap'[p] = feeCap'[p] /\ feeCap'[p] \in Nat
      BY <1>0, <3>1
    <3>3. tipCap'[p] <= feeCap'[p]
      BY ONLY <3>2
    <3> QED BY <2>1, <3>1, <3>2, <3>3
  <2>5. CASE ReadCap(p) \/ Sign(p) \/ Resign(p)
    <3>1. /\ feeCap'[p] = feeCap[p] /\ tipCap'[p] = tipCap[p] /\ updater'[p] = updater[p]
          /\ reader'[p] \in {feeCap[p], 0}
      BY <2>5 DEF ReadCap, Sign, Resign
    <3>2. reader'[p] <= feeCap'[p]
      BY ONLY <1>0, <3>1
    <3> QED BY <2>1, <3>1, <3>2
  <2> QED BY <1>11, <2>2, <2>3, <2>4, <2>5 DEF UseOracle, updateGasPrice
<1> QED BY <1>2, <1>3, <1>4, <1>5, <1>7, <1>8, <1>9, <1>10, <1>11 DEF Process, Boot, Stop

(* The keys are touched by the bootstrap alone.                            *)
LEMMA KeyFrameLemma ==
    ASSUME NEW p \in Processes, Process(p)
    PROVE  \/ UNCHANGED masterKeys /\ (BootstrapMasterKey(p) \/ UNCHANGED raced)
              /\ (Kill(p) \/ UNCHANGED keyLost)
           \/ CommitBootstrap(p)
BY DEF Process, Boot, Stop, LoadGasOracle, LoadMasterSignerKey, BootstrapMasterKey, StartParts,
       FailStart, UseOracle, WorkJob, EndJob, Signal, CloseSub, EndSub, StopAPI, StopOracle,
       StopWorkers, Deadline, ExitStopped, ExitForced, Kill, Exit, keyVars

(* Where main gets to the commit, and past it.                             *)
LEMMA MainLemma ==
    ASSUME TypeOK, NEW p \in Processes, Process(p)
    PROVE  /\ main'[p] = "commit" => main[p] = "commit" \/ (BootstrapMasterKey(p) /\ masterKeys = 0)
           /\ main'[p] \in Up \cup {"start"} =>
                 main[p] \in Up \cup {"start"} \/ masterKeys > 0 \/ CommitBootstrap(p)
<1> USE TypeParts DEF LifeTypes, MainAt, GoMain, Exited, Up
<1>1. CASE LoadGasOracle(p) \/ LoadMasterSignerKey(p)
  BY <1>1 DEF LoadGasOracle, LoadMasterSignerKey
<1>2. CASE BootstrapMasterKey(p)
  <2>1. main'[p] = IF masterKeys > 0 THEN "start" ELSE "commit"
    BY <1>2 DEF BootstrapMasterKey
  <2>2. masterKeys \in Nat
    BY DEF TypeOK
  <2>3. CASE masterKeys > 0
    BY <2>1, <2>3
  <2>4. CASE ~(masterKeys > 0)
    <3>1. masterKeys = 0
      BY ONLY <2>2, <2>4
    <3> QED BY <1>2, <2>1, <2>4, <3>1
  <2> QED BY <2>3, <2>4
<1>3. CASE CommitBootstrap(p)
  BY <1>3 DEF CommitBootstrap
<1>4. CASE StartParts(p)
  BY <1>4 DEF StartParts
<1>5. CASE FailStart(p) \/ Kill(p) \/ ExitStopped(p) \/ ExitForced(p)
  BY <1>5 DEF FailStart, Kill, ExitStopped, ExitForced, Exit
<1>6. CASE WorkJob(p) \/ EndJob(p) \/ Signal(p)
  BY <1>6 DEF WorkJob, EndJob, Signal
<1>7. CASE CloseSub(p) \/ EndSub(p) \/ StopAPI(p) \/ StopOracle(p) \/ StopWorkers(p) \/ Deadline(p)
  BY <1>7 DEF CloseSub, EndSub, StopAPI, StopOracle, StopWorkers, Deadline
<1>8. CASE UseOracle(p)
  BY <1>8 DEF UseOracle, lifeVars
<1> QED BY <1>1, <1>2, <1>3, <1>4, <1>5, <1>6, <1>7, <1>8 DEF Process, Boot, Stop

(* One process after the other makes one key.                              *)
LEMMA KeyLemma ==
    ASSUME TypeOK, KeyInv, OneMasterKey, NEW p \in Processes, Process(p)
    PROVE  KeyInv' /\ OneMasterKey'
<1>1. \A q \in Processes : q # p => main'[q] = main[q]
  BY FrameLemma
<1>2. masterKeys \in Nat
  BY DEF TypeOK
<1>3. CASE CommitBootstrap(p)
  <2>1. /\ main[p] = "commit" /\ main'[p] = "start" /\ raced' = raced
        /\ \/ masterKeys' = masterKeys + 1 /\ keyLost' = keyLost
           \/ masterKeys' = masterKeys /\ keyLost' = TRUE
    BY <1>3 DEF CommitBootstrap, MainAt, GoMain, TypeOK
  <2>2. ~raced' => masterKeys' <= 1
    BY <1>2, <2>1 DEF KeyInv
  <2>3. ASSUME NEW q \in Processes, ~raced', main'[q] = "commit"
        PROVE  FALSE
    BY <1>1, <2>1, <2>3 DEF KeyInv
  <2>4. ASSUME ~keyLost', NEW q \in Processes
        PROVE  masterKeys' > 0
    BY <1>2, <2>1, <2>4
  <2>5. masterKeys' > 1 => raced'
    BY <1>2, <2>1, <2>2
  <2> QED BY <2>2, <2>3, <2>4, <2>5 DEF KeyInv, OneMasterKey
<1>4. CASE ~CommitBootstrap(p)
  <2>1. masterKeys' = masterKeys /\ (raced => raced') /\ (keyLost => keyLost')
    BY <1>4, KeyFrameLemma DEF BootstrapMasterKey, Kill
  <2>2. ASSUME NEW q \in Processes, ~raced', main'[q] = "commit"
        PROVE  masterKeys = 0 /\ \A r \in Processes : main'[r] = "commit" => q = r
    <3>1. CASE BootstrapMasterKey(p) /\ masterKeys = 0
      <4>1. \A r \in Processes : main[r] # "commit"
        BY <2>2, <3>1 DEF BootstrapMasterKey
      <4> QED BY <1>1, <2>2, <3>1, <4>1
    <3>2. CASE ~ (BootstrapMasterKey(p) /\ masterKeys = 0)
      <4>1. \A r \in Processes : main'[r] = "commit" => main[r] = "commit"
        BY <1>1, <3>2, MainLemma
      <4> QED BY <2>1, <2>2, <4>1 DEF KeyInv
    <3> QED BY <3>1, <3>2
  <2>3. ASSUME ~keyLost', NEW q \in Processes, main'[q] \in Up \cup {"start"}
        PROVE  masterKeys > 0
    <3>1. main[q] \in Up \cup {"start"} \/ masterKeys > 0
      BY <1>1, <1>4, <2>3, MainLemma
    <3> QED BY <2>1, <2>3, <3>1 DEF OneMasterKey
  <2> QED BY <1>2, <2>1, <2>2, <2>3 DEF KeyInv, OneMasterKey
<1> QED BY <1>3, <1>4

(* The parts stop one after the other.                                     *)
LEMMA CloserLemma ==
    ASSUME TypeOK, NEW p \in Processes, CloserInv(p), Process(p)
    PROVE  CloserInv(p)'
<1> USE TypeParts DEF LifeTypes, CloserInv, MainAt, GoMain, GoCloser, Exited, Up
<1>1. CASE LoadGasOracle(p)
  BY <1>1 DEF LoadGasOracle
<1>2. CASE LoadMasterSignerKey(p) \/ BootstrapMasterKey(p)
  BY <1>2 DEF LoadMasterSignerKey, BootstrapMasterKey
<1>3. CASE CommitBootstrap(p)
  BY <1>3 DEF CommitBootstrap
<1>4. CASE StartParts(p)
  BY <1>4 DEF StartParts, HasWorkers
<1>5. CASE FailStart(p) \/ Kill(p)
  BY <1>5 DEF FailStart, Kill, Exit
<1>6. CASE ExitStopped(p)
  BY <1>6 DEF ExitStopped, AllStopped, Exit
<1>7. CASE ExitForced(p)
  BY <1>7 DEF ExitForced, Exit
<1>8. CASE WorkJob(p) \/ EndJob(p)
  BY <1>8 DEF WorkJob, EndJob, TypeOK, gasVars, oracleVars
<1>9. CASE Signal(p)
  BY <1>9 DEF Signal
<1>10. CASE CloseSub(p) \/ EndSub(p) \/ StopOracle(p)
  <2>1. CASE CloseSub(p) \/ EndSub(p)
    BY <2>1 DEF CloseSub, EndSub, gasVars, oracleVars
  <2>2. CASE StopOracle(p)
    BY <2>2 DEF StopOracle, UpdaterType
  <2> QED BY <1>10, <2>1, <2>2
<1>11. CASE StopAPI(p) \/ StopWorkers(p)
  BY <1>11 DEF StopAPI, StopWorkers, gasVars, oracleVars, TypeOK
<1>12. CASE Deadline(p)
  BY <1>12 DEF Deadline, gasVars, oracleVars
<1>13. CASE UseOracle(p)
  <2>1. updater[p] = Off => updater'[p] = Off
    <3>1. updater[p] = Off =>
              ~UpdaterAt(p, "select") /\ ~UpdaterAt(p, "call")
              /\ ~UpdaterAt(p, "cap") /\ ~UpdaterAt(p, "tip")
      <4>1. Off.at \notin {"select", "call", "cap", "tip"}
        BY ONLY DEF Off
      <4> QED BY ONLY <4>1 DEF UpdaterAt
    <3>2. updater[p] # Off \/ ReadCap(p) \/ Sign(p) \/ Resign(p)
      BY <1>13, <3>1
         DEF UseOracle, updateGasPrice, Tick, Answer, NoAnswer, StoreCap, StoreTip
    <3> QED BY <3>2 DEF ReadCap, Sign, Resign, oracleVars
  <2> QED BY <1>13, <2>1 DEF UseOracle, lifeVars
<1> QED BY <1>1, <1>2, <1>3, <1>4, <1>5, <1>6, <1>7, <1>8, <1>9, <1>10, <1>11, <1>12, <1>13
        DEF Process, Boot, Stop

(* Every step keeps the invariant.                                         *)
LEMMA StepLemma == ServiceInv /\ [Next]_serviceVars => ServiceInv'
<1> SUFFICES ASSUME ServiceInv, [Next]_serviceVars PROVE ServiceInv'
  OBVIOUS
<1>1. CASE UNCHANGED serviceVars
  BY <1>1 DEF ServiceInv, TypeOK, GasTypeOK, OracleInv, KeyInv, OneMasterKey, CloserInv,
              UpdaterAt, MainAt, serviceVars, gasVars, oracleVars, lifeVars, keyVars
<1>2. CASE PricesMove /\ UNCHANGED <<lifeVars, keyVars>>
  <2>1. now' \in Epochs /\ now' = now + 1 /\ now \in Nat
    BY <1>2, EpochsLemma DEF PricesMove, ServiceInv, TypeOK, GasTypeOK
  <2>2. UNCHANGED <<feeCap, tipCap, updater, reader, tx, faults, lifeVars, keyVars>>
    BY <1>2 DEF PricesMove, oracleVars
  <2>3. CapTypes'
    BY <2>1, <2>2 DEF CapTypes, ServiceInv, TypeOK, GasTypeOK
  <2>4. UpdaterType'
    BY <2>1, <2>2 DEF UpdaterType, ServiceInv, TypeOK, GasTypeOK
  <2>5. TxTypes' /\ LifeTypes'
    BY <2>2 DEF TxTypes, LifeTypes, ServiceInv, TypeOK, GasTypeOK, lifeVars
  <2>6. TypeOK'
    BY <2>2, <2>3, <2>4, <2>5 DEF ServiceInv, TypeOK, GasTypeOK, CapTypes, UpdaterType, TxTypes,
                                  LifeTypes, lifeVars, keyVars
  <2> QED BY <2>2, <2>6 DEF ServiceInv, OracleInv, KeyInv, OneMasterKey, CloserInv,
                            UpdaterAt, MainAt, lifeVars, keyVars
<1>3. ASSUME NEW p \in Processes, Process(p)
      PROVE  ServiceInv'
  <2> USE <1>3 DEF ServiceInv
  <2>1. TypeOK'
    BY TypeLemma
  <2>2. ASSUME NEW q \in Processes PROVE OracleInv(q)' /\ CloserInv(q)'
    <3>1. CASE p = q
      BY <3>1, OracleLemma, CloserLemma
    <3>2. CASE p # q
      BY <3>2, FrameLemma DEF OracleInv, CloserInv, UpdaterAt, MainAt
    <3> QED BY <3>1, <3>2
  <2>3. KeyInv' /\ OneMasterKey'
    BY KeyLemma
  <2> QED BY <2>1, <2>2, <2>3
<1> QED BY <1>1, <1>2, <1>3 DEF Next

(* ServiceInv holds in every state.                                        *)
THEOREM ServiceInvariant == Spec => []ServiceInv
BY InitLemma, StepLemma, PTL DEF Spec

(* The types: no process refreshes prices or works jobs its mode does not  *)
(* ask for.                                                                *)
THEOREM ServiceTypes == Spec => []TypeOK
<1>1. ServiceInv => TypeOK
  BY DEF ServiceInv
<1> QED BY <1>1, ServiceInvariant, PTL

(* A second master key needs two processes whose inserts were open at      *)
(* once, and a process without a key a failed commit.                      *)
THEOREM KeysAreRaced == Spec => []OneMasterKey
<1>1. ServiceInv => OneMasterKey
  BY DEF ServiceInv
<1> QED BY <1>1, ServiceInvariant, PTL

(* A process that was told to stop cuts nothing off before its deadline,   *)
(* and exit code 0 says that subscriber and updater have ended.            *)
THEOREM ExitsAreClean == Spec => CleanExit
<1> DEFINE Ended(p) ==
             /\ main'[p] = "exit 0" \/ ~expired[p] => ~subUp[p] /\ updater[p] = Off
             /\ ~expired[p] => ~fetching[p] /\ ~working[p]
           A == \A p \in Processes :
                   MainAt(p, "stopping") /\ main'[p] \in Exited /\ faults' = faults => Ended(p)
<1>1. ServiceInv /\ [Next]_serviceVars => [A]_serviceVars
  <2> SUFFICES ASSUME ServiceInv, Next, NEW p \in Processes,
                      MainAt(p, "stopping"), main'[p] \in Exited, faults' = faults
               PROVE  Ended(p)
    OBVIOUS
  <2>1. main[p] = "stopping" /\ main'[p] # main[p]
    BY DEF MainAt, Exited
  <2>2. PICK q \in Processes : Process(q)
    BY <2>1 DEF Next, lifeVars
  <2>3. q = p
    BY <2>1, <2>2, FrameLemma DEF ServiceInv
  <2>4. CloserInv(p) /\ TypeOK
    BY DEF ServiceInv
  <2>5. CASE ExitStopped(p)
    BY <2>4, <2>5 DEF ExitStopped, AllStopped, CloserInv, MainAt
  <2>6. CASE ExitForced(p)
    <3>1. main'[p] = "exit 1" /\ expired[p]
      BY <2>4, <2>6 DEF ExitForced, Exit, TypeOK
    <3> QED BY <3>1
  <2>7. CASE FailStart(p) \/ Kill(p)
    <3>1. faults' = faults + 1
      BY <2>7 DEF FailStart, Kill, Fault
    <3>2. faults \in 0 .. MaxFaults /\ faults' = faults
      BY <2>4 DEF TypeOK, GasTypeOK
    <3>3. FALSE
      BY ONLY <3>1, <3>2, GasAssumption DEF GasAssumption
    <3> QED BY <3>3
  <2>8. ExitStopped(p) \/ ExitForced(p) \/ FailStart(p) \/ Kill(p)
    BY <2>1, <2>2, <2>3, <2>4
       DEF Process, Boot, Stop, LoadGasOracle, LoadMasterSignerKey, BootstrapMasterKey,
           CommitBootstrap, StartParts, UseOracle, WorkJob, EndJob, Signal, CloseSub, EndSub,
           StopAPI, StopOracle, StopWorkers, Deadline, MainAt, GoMain, lifeVars, Exited, TypeOK
  <2> QED BY <2>5, <2>6, <2>7, <2>8
<1> QED BY <1>1, ServiceInvariant, PTL DEF Spec, CleanExit

(* The unlocked reads of the oracle mix refreshes only in the moment       *)
(* between its two stores.                                                 *)
THEOREM TipsAreOfTheRefresh == Spec => []OldTipOnlyInRefresh
<1>1. ASSUME ServiceInv PROVE OldTipOnlyInRefresh
  <2>1. ASSUME NEW p \in Processes, reader[p] > tipCap[p], ~UpdaterAt(p, "tip") PROVE FALSE
    <3>1. reader[p] <= feeCap[p] /\ tipCap[p] = feeCap[p]
      BY <1>1, <2>1 DEF ServiceInv, OracleInv
    <3>2. reader[p] \in 0 .. now /\ tipCap[p] \in 0 .. now /\ feeCap[p] \in 0 .. now
      BY <1>1 DEF ServiceInv, TypeOK, GasTypeOK
    <3> QED BY ONLY <2>1, <3>1, <3>2
  <2> QED BY <2>1 DEF OldTipOnlyInRefresh
<1> QED BY <1>1, ServiceInvariant, PTL

(* Whatever the prices are and however often a transaction is signed       *)
(* again, it offers more each time, but for prices below 7 wei.            *)
THEOREM ResigningPays == Spec => ResignedPaysMore
<1> DEFINE Pays == tx # Unsigned /\ tx' # tx /\ tx' # Unsigned =>
                      /\ tx'.cap >= tx.cap /\ tx'.tip >= tx.tip
                      /\ tx.cap >= 7 => tx'.cap > tx.cap
                      /\ tx.tip >= 7 => tx'.tip > tx.tip
<1>1. ASSUME ServiceInv, [Next]_serviceVars PROVE [Pays]_gasVars
  <2> SUFFICES ASSUME tx # Unsigned, tx' # tx PROVE Pays
    BY DEF gasVars
  <2>1. PICK p \in Processes : Resign(p)
    BY <1>1 DEF Next, PricesMove, Process, Boot, Stop, LoadGasOracle, LoadMasterSignerKey,
                BootstrapMasterKey, CommitBootstrap, StartParts, FailStart, UseOracle,
                updateGasPrice, Tick, Answer, NoAnswer, StoreCap, StoreTip, ReadCap, Sign, WorkJob,
                EndJob, Signal, CloseSub, EndSub, StopAPI, StopOracle, StopWorkers, Deadline,
                ExitStopped, ExitForced, Kill, Exit, serviceVars, gasVars
  <2>2. FeeCap(reader[p]) \in Nat /\ TipCap(tipCap[p]) \in Nat
    BY <1>1, <2>1, ReaderLemma, PriceLemma DEF ServiceInv, Resign
  <2>3. tx.cap \in Nat /\ tx.tip \in Nat
    BY <1>1 DEF ServiceInv, TypeOK, GasTypeOK
  <2>4. tx'.cap = Raised(tx.cap, FeeCap(reader[p])) /\ tx'.tip = Raised(tx.tip, TipCap(tipCap[p]))
    BY <2>1 DEF Resign
  <2> QED BY <2>2, <2>3, <2>4, RaisedLemma
<1> HIDE DEF Pays
<1>2. Spec => [][Pays]_gasVars
  BY <1>1, ServiceInvariant, PTL DEF Spec
<1> QED BY <1>2 DEF Pays, ResignedPaysMore
=============================================================================
