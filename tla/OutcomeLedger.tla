---------------------------- MODULE OutcomeLedger ----------------------------
(***************************************************************************)
(* What the dispatch rows promise to a client that polls them, and to the  *)
(* accounts that wait for their registration.  The transactions of a       *)
(* signer succeed or revert one after the other, for good.  A row may show *)
(* the outcome only afterwards, and only the one there was; it may be open *)
(* again, but never says the opposite.  An account becomes active in the   *)
(* very step that shows the success of its registration, and stays so.     *)
(*                                                                         *)
(* Dispatch, Unlocker and UnlockCommand implement this module, with their  *)
(* two to five writers of one row (see Dispatch!Board).                    *)
(***************************************************************************)
EXTENDS Integers

CONSTANTS N,              \* number of transactions, 0 .. N-1 in their order
          Registrations   \* those that register an account

VARIABLES outcome,        \* what became of each transaction on chain
          shown,          \* the outcome its row shows, or "open"
          active          \* registrations whose account is active

outcomeVars == <<outcome, shown, active>>

Transactions == 0 .. N - 1

Init ==
    /\ outcome = [n \in Transactions |-> "open"]
    /\ shown = [n \in Transactions |-> "open"]
    /\ active = {}

(* The next transaction takes effect.                                      *)
Happen(n, o) ==
    /\ outcome[n] = "open"
    /\ \A m \in Transactions : m < n => outcome[m] # "open"
    /\ outcome' = [outcome EXCEPT ![n] = o]
    /\ UNCHANGED <<shown, active>>

(* The outcomes of some transactions are shown and, at the same time, some *)
(* of the accounts they registered become active.                          *)
Show(some, registered) ==
    /\ \A n \in some : outcome[n] # "open"
    /\ \A n \in registered : n \in some /\ outcome[n] = "SUCCESS"
    /\ shown' = [n \in Transactions |-> IF n \in some THEN outcome[n] ELSE shown[n]]
    /\ active' = active \cup registered
    /\ UNCHANGED outcome

(* A writer that knows nothing of the outcome writes over it: it asked     *)
(* before there was one, or what it asked does not say which it was.       *)
Reopen(n) ==
    /\ shown' = [shown EXCEPT ![n] = "open"]
    /\ UNCHANGED <<outcome, active>>

Next ==
    \/ \E n \in Transactions, o \in {"SUCCESS", "REVERTED"} : Happen(n, o)
    \/ \E some \in SUBSET Transactions, registered \in SUBSET Registrations :
           Show(some, registered)
    \/ \E n \in Transactions : Reopen(n)

Spec == Init /\ [][Next]_outcomeVars
==============================================================================
