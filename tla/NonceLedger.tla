---------------------------- MODULE NonceLedger ----------------------------
(***************************************************************************)
(* What the signing side of the custodial promises of its nonces: a signer *)
(* hands out consecutive nonces, a whole block at a time, each of them     *)
(* bound to exactly one signed transaction, and never takes one back.      *)
(* A gap would leave every later transaction of the account unexecutable   *)
(* on chain; a nonce given out twice would make two transactions compete.  *)
(*                                                                         *)
(* Signing implements this module (see Signing!Ledger).                    *)
(***************************************************************************)
EXTENDS Integers

CONSTANTS Signers,      \* accounts that sign: custodial accounts, the master
          FirstNonce,   \* [Signers -> Nat]: where each signer starts
          MaxBlock      \* the longest plan of any sign job

VARIABLES next,         \* [Signers -> Nat]: the next nonce to hand out
          signed        \* the (signer, nonce) pairs bound to a transaction

ledgerVars == <<next, signed>>

Init ==
    /\ next = FirstNonce
    /\ signed = {}

(* The block of k nonces that follows what s has handed out so far.        *)
Block(s, k) == {[signer |-> s, nonce |-> n] : n \in next[s] .. next[s] + k - 1}

Sign(s, k) ==
    /\ next' = [next EXCEPT ![s] = @ + k]
    /\ signed' = signed \cup Block(s, k)

Next == \E s \in Signers, k \in 1 .. MaxBlock : Sign(s, k)

Spec == Init /\ [][Next]_ledgerVars
============================================================================
