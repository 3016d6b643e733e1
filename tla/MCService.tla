------------------------------ MODULE MCService ------------------------------
(* Small instances of Service for TLC.                                     *)
EXTENDS Service, TLC

CONSTANTS p1, p2

(* The gas price stays and the tip rises, by more than a bump.             *)
TwoPrices == <<[cap |-> 10, tip |-> 8], [cap |-> 10, tip |-> 10]>>

StandaloneAndSub == p1 :> "standalone" @@ p2 :> "sub"

JustAPI == p1 :> "api"
============================================================================
