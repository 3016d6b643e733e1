------------------------------ MODULE GasOracle ------------------------------
(***************************************************************************)
(* RPCGasOracle: every process keeps the node's prices in two fields that  *)
(* its updater overwrites one after the other and its signers read one     *)
(* after the other, without a lock.  Signers price new transactions with   *)
(* them, and the unlocker those it signs again.                            *)
(*                                                                         *)
(* One transaction is followed, tx: the last one signed with some nonce.   *)
(***************************************************************************)
EXTENDS Integers, Sequences

CONSTANTS Processes,   \* service processes
          Prices,      \* the node's prices, one set after the other
          MaxResigns,  \* bound: how often tx is signed again
          MaxFaults    \* bound: failing calls, commits and servers

ASSUME GasAssumption ==
    /\ Prices \in Seq([cap : Nat, tip : Nat]) /\ Prices # <<>>
    /\ MaxResigns \in Nat /\ MaxFaults \in Nat

VARIABLES now,       \* which of Prices is the present one
          feeCap,    \* GasFeeCap of each process: the prices it is from, or 0
          tipCap,    \* GasTipCap of each process, likewise
          updater,   \* where each updater is, and the prices it was told
          reader,    \* the fee cap a signer has read before the tip, or 0
          tx,        \* the transaction last signed, or Unsigned
          faults     \* faults so far

oracleVars == <<feeCap, tipCap, updater>>
gasVars == <<now, oracleVars, reader, tx, faults>>

Epochs == 1 .. Len(Prices)

Unsigned == [cap |-> 0, tip |-> 0, resigns |-> 0]

Off == [at |-> "off", got |-> 0]
Waiting == [at |-> "select", got |-> 0]

Fault == faults < MaxFaults /\ faults' = faults + 1

(* "We pay 20% more than the current gas price".                           *)
FeeCap(e) == (Prices[e].cap * 120) \div 100
TipCap(e) == Prices[e].tip

(* Mutant: the present price is taken if it is not lower.                  *)
RaisedIfLower(old, current) == IF current >= old THEN current ELSE (old * 115) \div 100

(* What a price is raised to when a transaction is signed again: the       *)
(* present price if that is higher, 15% more if not.                       *)
Raised(old, current) == IF current > old THEN current ELSE (old * 115) \div 100

GasInit ==
    /\ now = 1
    /\ feeCap = [p \in Processes |-> 0]
    /\ tipCap = [p \in Processes |-> 0]
    /\ updater = [p \in Processes |-> Off]
    /\ reader = [p \in Processes |-> 0]
    /\ tx = Unsigned
    /\ faults = 0

PricesMove ==
    /\ now < Len(Prices)
    /\ now' = now + 1
    /\ UNCHANGED <<oracleVars, reader, tx, faults>>
----------------------------------------------------------------------------
(* The updater.                                                            *)

UpdaterAt(p, place) == updater[p].at = place

(* The ticker fires: the node is asked.                                    *)
Tick(p) ==
    /\ UpdaterAt(p, "select")
    /\ updater' = [updater EXCEPT ![p].at = "call"]
    /\ UNCHANGED <<now, feeCap, tipCap, reader, tx, faults>>

Answer(p) ==
    /\ UpdaterAt(p, "call")
    /\ updater' = [updater EXCEPT ![p] = [at |-> "cap", got |-> now]]
    /\ UNCHANGED <<now, feeCap, tipCap, reader, tx, faults>>

(* Mutant: an error ends the updater.                                      *)
NoAnswerEnds(p) ==
    /\ Fault
    /\ UpdaterAt(p, "call")
    /\ updater' = [updater EXCEPT ![p] = Off]
    /\ UNCHANGED <<now, feeCap, tipCap, reader, tx>>

(* The call fails: the old prices stay.                                    *)
NoAnswer(p) ==
    /\ Fault
    /\ UpdaterAt(p, "call")
    /\ updater' = [updater EXCEPT ![p] = Waiting]
    /\ UNCHANGED <<now, feeCap, tipCap, reader, tx>>

(* Mutant: the tip is only stored if the gas price has changed.            *)
StoreCapOnly(p) ==
    /\ UpdaterAt(p, "cap")
    /\ feeCap' = [feeCap EXCEPT ![p] = updater[p].got]
    /\ updater' = [updater EXCEPT ![p] =
                      IF Prices[@.got].cap = Prices[feeCap[p]].cap
                      THEN Waiting ELSE [@ EXCEPT !.at = "tip"]]
    /\ UNCHANGED <<now, tipCap, reader, tx, faults>>

StoreCap(p) ==
    /\ UpdaterAt(p, "cap")
    /\ feeCap' = [feeCap EXCEPT ![p] = updater[p].got]
    /\ updater' = [updater EXCEPT ![p].at = "tip"]
    /\ UNCHANGED <<now, tipCap, reader, tx, faults>>

StoreTip(p) ==
    /\ UpdaterAt(p, "tip")
    /\ tipCap' = [tipCap EXCEPT ![p] = updater[p].got]
    /\ updater' = [updater EXCEPT ![p] = Waiting]
    /\ UNCHANGED <<now, feeCap, reader, tx, faults>>

updateGasPrice(p) == Tick(p) \/ Answer(p) \/ StoreCap(p) \/ StoreTip(p)
----------------------------------------------------------------------------
(* The signers.                                                            *)

(* GetSettings returns the shared record, whose first field is read.       *)
ReadCap(p) ==
    /\ reader[p] = 0
    /\ feeCap[p] # 0
    /\ reader' = [reader EXCEPT ![p] = feeCap[p]]
    /\ UNCHANGED <<now, oracleVars, tx, faults>>

(* A sign job or eth_sendTransaction signs.                                *)
Sign(p) ==
    /\ reader[p] # 0
    /\ tx = Unsigned
    /\ tx' = [cap |-> FeeCap(reader[p]), tip |-> TipCap(tipCap[p]), resigns |-> 0]
    /\ reader' = [reader EXCEPT ![p] = 0]
    /\ UNCHANGED <<now, oracleVars, faults>>

(* The unlocker signs the transaction again.                               *)
Resign(p) ==
    /\ reader[p] # 0
    /\ tx # Unsigned /\ tx.resigns < MaxResigns
    /\ tx' = [cap |-> Raised(tx.cap, FeeCap(reader[p])),
              tip |-> Raised(tx.tip, TipCap(tipCap[p])),
              resigns |-> tx.resigns + 1]
    /\ reader' = [reader EXCEPT ![p] = 0]
    /\ UNCHANGED <<now, oracleVars, faults>>
----------------------------------------------------------------------------
(* Properties.                                                             *)

GasTypeOK ==
    /\ now \in Epochs
    /\ feeCap \in [Processes -> 0 .. now] /\ tipCap \in [Processes -> 0 .. now]
    /\ updater \in [Processes ->
           [at : {"off", "select", "call", "cap", "tip"}, got : 0 .. now]]
    /\ reader \in [Processes -> 0 .. now]
    /\ tx \in [cap : Nat, tip : Nat, resigns : 0 .. MaxResigns]
    /\ faults \in 0 .. MaxFaults

(* The pair a signer goes on with, a fee cap it has read and the tip it is *)
(* about to read without a lock, mixes a newer fee cap with an older tip   *)
(* only while the process's updater stands between its two stores.         *)
OldTipOnlyInRefresh ==
    \A p \in Processes : reader[p] > tipCap[p] => UpdaterAt(p, "tip")

(* A transaction that is signed again offers more than before, whatever    *)
(* the refresh in progress: a higher fee cap and a higher tip, as the      *)
(* node's replacement rule wants.  Below 7 wei the 15% are rounded away,   *)
(* and the price may stay as it was.                                       *)
ResignedPaysMore ==
    [][tx # Unsigned /\ tx' # tx /\ tx' # Unsigned =>
          /\ tx'.cap >= tx.cap /\ tx'.tip >= tx.tip
          /\ tx.cap >= 7 => tx'.cap > tx.cap
          /\ tx.tip >= 7 => tx'.tip > tx.tip]_gasVars
============================================================================
