--------------------------- MODULE MCPayoutQueue ---------------------------
(* The instance of PayoutQueue in which a small claim waits for its turn.    *)
(* Bytes are the real ones, as in MCServices.                                *)
EXTENDS PayoutQueue

\* One worker is paid to a taproot address.
MCOutputBytes == [w \in Workers |-> IF w = 3 THEN 43 ELSE 31]

\* One listener with room for three payouts, and a small miner.
MCSetups ==
    {[ceilings |-> {300}, fromTemplate |-> FALSE, envelope |-> 134, guess |-> 160]}
MCWindows == {<<6, 5, 4, 3, 1>>}
=============================================================================
