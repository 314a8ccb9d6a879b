----------------------------- MODULE MCThreads -----------------------------
(* The threads of the pool whose progress matters on its own, for TLC: a     *)
(* behaviour is one of the store's writer and its queue, of the ids it hands *)
(* out, of the publisher, of the tip watcher or of the process as a whole,   *)
(* chosen at the start.                                                      *)
EXTENDS StoreQueue, WorkerIds, Publisher, TipWatcher, PoolLife

VARIABLE part

\* A chain of three with two blocks at one height.
MCNodeTips ==
    {[height |-> 1, hash |-> 1], [height |-> 2, hash |-> 2],
     [height |-> 2, hash |-> 3], [height |-> 3, hash |-> 4]}

\* The port of the configuration and one more.
MCPorts == <<"a", "b">>

\* Two names collide, and three do not fit the cache.
MCNameHash == [n \in Names |-> 0]
MCBatches == {<<n>> : n \in Names} \cup {<<"m1", "m2">>, <<"m3", "m1">>}

ThreadsInit ==
    /\ part \in {"store", "ids", "publisher", "tip", "pool"}
    /\ Init
    /\ InitIds
    /\ InitPublisher
    /\ InitTip
    /\ InitPool
    /\ part = "tip" \/ (nodeTip = (CHOOSE x \in NodeTips : TRUE) /\ longPoll)

OnlyStore ==
    /\ part = "store" /\ Next
    /\ UNCHANGED <<idVars, publisherVars, tipVars, poolVars>>
OnlyIds ==
    /\ part = "ids" /\ NextIds
    /\ UNCHANGED <<vars, publisherVars, tipVars, poolVars>>
OnlyPublisher ==
    /\ part = "publisher" /\ NextPublisher
    /\ UNCHANGED <<vars, idVars, tipVars, poolVars>>
OnlyTip ==
    /\ part = "tip" /\ NextTip
    /\ UNCHANGED <<vars, idVars, publisherVars, poolVars>>
OnlyPool ==
    /\ part = "pool" /\ NextPool
    /\ UNCHANGED <<vars, idVars, publisherVars, tipVars>>

ThreadsNext ==
    (OnlyStore \/ OnlyIds \/ OnlyPublisher \/ OnlyTip \/ OnlyPool) /\ UNCHANGED part

threadsVars == <<part, vars, idVars, publisherVars, tipVars, poolVars>>

\* Each thread goes on while it can: none waits for a lock that anyone keeps.
\* The store's fairness is its own, and asks for nothing while the store is at
\* rest.  An answer of Redis, a request the node leaves parked, the failures
\* and the back-off are left to chance.
ThreadsSpec ==
    /\ ThreadsInit /\ [][ThreadsNext]_threadsVars
    /\ Fairness
    /\ WF_threadsVars(part = "publisher" /\ WorkerSteps /\ ThreadsNext)
    /\ WF_threadsVars(part = "tip" /\ WatcherSteps /\ ThreadsNext)
=============================================================================
