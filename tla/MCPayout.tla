------------------------------ MODULE MCPayout ------------------------------
(* Instances of Payout for TLC. *)
EXTENDS Payout, TLC

CONSTANTS w1, w2

\* Two miners, each paid at an address of his own.
OwnAddresses == (w1 :> "a1") @@ (w2 :> "a2")
=============================================================================
