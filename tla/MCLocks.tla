------------------------------ MODULE MCLocks ------------------------------
(* Two components whose threads only a mutex keeps apart, for TLC: a         *)
(* behaviour is one of the store's write path under mu and txn_mu, or one of *)
(* the budget of failed authorizations under auth_fail_lock.                 *)
EXTENDS StoreQueue, AuthBudget, TLC

VARIABLE part

\* Two connections share an address, and are alike.
Alone == CHOOSE c \in Clients : TRUE
MCPeerOf == [c \in Clients |-> IF c = Alone THEN "q" ELSE "p"]
ClientSymmetry == Permutations(Clients \ {Alone})

LocksInit ==
    /\ part \in {"store", "auth"}
    /\ Init
    /\ InitAuth

OnlyStore == part = "store" /\ Next /\ UNCHANGED authVars
OnlyAuth  == part = "auth" /\ NextAuth /\ UNCHANGED vars

LocksNext == (OnlyStore \/ OnlyAuth) /\ UNCHANGED part

LocksSpec == LocksInit /\ [][LocksNext]_<<part, vars, authVars>>
=============================================================================
