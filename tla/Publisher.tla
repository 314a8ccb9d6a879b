----------------------------- MODULE Publisher -----------------------------
(***************************************************************************)
(* The Redis publisher (broadcast.c): threads of the pool push events into *)
(* a bounded ring and never wait, one worker pops and publishes them, and  *)
(* drops what it has while Redis is down.  Closing asks the worker to      *)
(* drain the ring and waits for it.                                        *)
(*                                                                         *)
(* An event is its producer and a number; its JSON is left out.            *)
(***************************************************************************)
EXTENDS Integers, Sequences, FiniteSets

CONSTANTS
    Producers,   \* threads that report shares, rejects, blocks, tips, credits
    RingSize,    \* queue_capacity
    MaxEvents    \* bound: events of one producer

ASSUME PublisherAssumption == RingSize \in Nat \ {0, 1} /\ MaxEvents \in Nat

VARIABLES
    bring, bhead, btail,  \* ring, head, tail
    shutdown,
    sent,      \* per producer: events it has offered
    offering,  \* per producer: is it past the test of `shutdown`, without the lock
    counting,  \* per producer: has it pushed and not yet counted
    worker,    \* "pop", "publish" or "gone"
    inHand,    \* the event the worker popped; 0 if none
    redis,     \* "none", "backoff" or "open": the worker's connection
    stats,     \* enqueued, published, dropped_queue_full, dropped_redis_down
    pushed,    \* every event the ring took, in order
    taken,     \* how many of them the worker has popped
    wire       \* what Redis was given, as positions in `pushed`

publisherVars == <<bring, bhead, btail, shutdown, sent, offering, counting, worker,
                   inHand, redis, stats, pushed, taken, wire>>

InitPublisher ==
    /\ bring = [i \in 0..RingSize - 1 |-> 0] /\ bhead = 0 /\ btail = 0
    /\ shutdown = FALSE
    /\ sent = [p \in Producers |-> 0]
    /\ offering = [p \in Producers |-> FALSE]
    /\ counting = [p \in Producers |-> FALSE]
    /\ worker = "pop" /\ inHand = 0 /\ redis = "none"
    /\ stats = [enqueued |-> 0, published |-> 0, full |-> 0, down |-> 0]
    /\ pushed = <<>> /\ taken = 0 /\ wire = <<>>

\* q_push, before the lock.
Offer(p) ==
    /\ ~offering[p] /\ ~counting[p] /\ sent[p] < MaxEvents
    /\ ~shutdown
    /\ sent' = [sent EXCEPT ![p] = @ + 1]
    /\ offering' = [offering EXCEPT ![p] = TRUE]
    /\ UNCHANGED <<bring, bhead, btail, shutdown, counting, worker, inHand, redis,
                   stats, pushed, taken, wire>>

NoRoom == (btail + 1) % RingSize = bhead

\* q_push, under the lock.
Push(p) ==
    /\ offering[p]
    /\ offering' = [offering EXCEPT ![p] = FALSE]
    /\ IF NoRoom
       THEN /\ stats' = [stats EXCEPT !.full = @ + 1]
            /\ UNCHANGED <<bring, btail, pushed, counting>>
       ELSE /\ pushed' = Append(pushed, <<p, sent[p]>>)
            /\ bring' = [bring EXCEPT ![btail] = Len(pushed) + 1]
            /\ btail' = (btail + 1) % RingSize
            /\ counting' = [counting EXCEPT ![p] = TRUE]
            /\ UNCHANGED stats
    /\ UNCHANGED <<bhead, shutdown, sent, worker, inHand, redis, taken, wire>>

\* The count comes after the unlock.
CountPushed(p) ==
    /\ counting[p]
    /\ counting' = [counting EXCEPT ![p] = FALSE]
    /\ stats' = [stats EXCEPT !.enqueued = @ + 1]
    /\ UNCHANGED <<bring, bhead, btail, shutdown, sent, offering, worker, inHand,
                   redis, pushed, taken, wire>>

\* Mutant: the order to stop is obeyed before the ring is empty.
LeavesAtOnce == shutdown

\* q_pop's answer -1.
Leaves == bhead = btail /\ shutdown

\* q_pop; a time-out only calls it again.
Pop ==
    /\ worker = "pop"
    /\ IF Leaves THEN worker' = "gone" /\ UNCHANGED <<bhead, inHand, taken>> ELSE
       /\ bhead # btail
       /\ inHand' = bring[bhead]
       /\ bhead' = (bhead + 1) % RingSize
       /\ taken' = taken + 1
       /\ worker' = "publish"
    /\ UNCHANGED <<bring, btail, shutdown, sent, offering, counting, redis, stats,
                   pushed, wire>>

\* Mutant: the event is kept for the next connection.
DropKeeps == UNCHANGED <<stats, inHand, worker>>

\* The event is lost, and counted so.
DropIt ==
    /\ stats' = [stats EXCEPT !.down = @ + 1]
    /\ inHand' = 0 /\ worker' = "pop"

\* No connection, and the back-off has not passed, or the connection fails.
RedisDown ==
    /\ worker = "publish" /\ redis # "open"
    /\ DropIt
    /\ redis' = "backoff"
    /\ UNCHANGED <<bring, bhead, btail, shutdown, sent, offering, counting, pushed,
                   taken, wire>>

\* PUBLISH on the connection there was, or on a new one.  An error that Redis
\* answers is a reply, and counts as published.
PublishAnswered ==
    /\ worker = "publish" /\ redis # "backoff"
    /\ redis' = "open"
    /\ stats' = [stats EXCEPT !.published = @ + 1]
    /\ wire' \in {wire, Append(wire, inHand)}
    /\ inHand' = 0 /\ worker' = "pop"
    /\ UNCHANGED <<bring, bhead, btail, shutdown, sent, offering, counting, pushed, taken>>

\* PUBLISH fails or times out, and the connection is given up.  Redis may
\* have had the event.
PublishFails ==
    /\ worker = "publish" /\ redis # "backoff"
    /\ DropIt
    /\ redis' = "backoff"
    /\ wire' \in {wire, Append(wire, inHand)}
    /\ UNCHANGED <<bring, bhead, btail, shutdown, sent, offering, counting, pushed, taken>>

\* The back-off passes.
BackoffPasses ==
    /\ redis = "backoff"
    /\ redis' = "none"
    /\ UNCHANGED <<bring, bhead, btail, shutdown, sent, offering, counting, worker,
                   inHand, stats, pushed, taken, wire>>

\* broadcast_close, up to the join.
ClosePublisher ==
    /\ ~shutdown
    /\ shutdown' = TRUE
    /\ UNCHANGED <<bring, bhead, btail, sent, offering, counting, worker, inHand, redis,
                   stats, pushed, taken, wire>>

NextPublisher ==
    \/ \E p \in Producers : Offer(p) \/ Push(p) \/ CountPushed(p)
    \/ Pop \/ RedisDown \/ PublishAnswered \/ PublishFails
    \/ BackoffPasses \/ ClosePublisher

PublisherSpec == InitPublisher /\ [][NextPublisher]_publisherVars

WorkerSteps == Pop \/ RedisDown \/ PublishAnswered \/ PublishFails
-----------------------------------------------------------------------------
Waiting == (btail - bhead + RingSize) % RingSize

\* No event is overwritten, repeated or taken out of turn: what the ring took
\* and the worker has not popped is in it, in order, and Redis is given events
\* once and in the order they were pushed.  A closing pool leaves none behind
\* but, of each producer, the last, if that was past the test of `shutdown`
\* when the worker left.  And once the producers have counted, the statistics
\* account for every one.
EventsAreKept ==
    /\ taken + Waiting = Len(pushed)
    /\ \A k \in 1..Waiting : bring[(bhead + k - 1) % RingSize] = taken + k
    /\ \A i, j \in DOMAIN wire : i < j => wire[i] < wire[j]
    /\ worker = "gone" =>
          \A i \in taken + 1..Len(pushed) : pushed[i][2] = sent[pushed[i][1]]
    /\ (\A p \in Producers : ~counting[p]) =>
          stats.enqueued = stats.published + stats.down + Waiting
                             + (IF inHand = 0 THEN 0 ELSE 1)

\* The pool can stop: with Redis up, down or flapping, the worker leaves once
\* it is told to, so broadcast_close's join returns.
WorkerLeaves == shutdown ~> worker = "gone"
=============================================================================
