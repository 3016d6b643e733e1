----------------------------- MODULE MCSigning -----------------------------
(* Small instances of Signing and Listing for TLC.                         *)
EXTENDS Listing, TLC

CONSTANTS Alice, Bob, master, r1, r2

(* Every active account was registered by one ACCOUNT_REGISTER transaction *)
(* of the master, so the master starts one nonce per active account in.    *)
OneRegistered  == [s \in Signers |-> IF s = Master THEN 1 ELSE 0]
NoneRegistered == [s \in Signers |-> 0]

(* Requests are interchangeable.                                           *)
RequestSymmetry == Permutations(Requests)
============================================================================
