---------------------------- MODULE ThreadsProofs --------------------------
(***************************************************************************)
(* Theorems about the threads beside the server: the tip watcher, the      *)
(* Redis publisher, the process as a whole, and the store's writer with    *)
(* its cache of worker ids.                                                *)
(*                                                                         *)
(* The tip watcher, for any tips, moves and failures: its invariant ties   *)
(* three records of a tip together.  The watcher's last_prev_hash is the   *)
(* published job's, a template under construction moved exactly if it      *)
(* differs from that, and the ledger's last pass was at the tip in hand or *)
(* at the one being mined.                                                 *)
(*                                                                         *)
(* The publisher, for any producers, any ring and any Redis: the slots     *)
(* between head and tail hold what was pushed and not popped, in order,    *)
(* and the statistics lag by the producers that have pushed and not yet    *)
(* counted.                                                                *)
(*                                                                         *)
(* The process, for any ports, descriptors, failures and signals: the      *)
(* listeners' slots and the table of descriptors agree, and at each stage  *)
(* of main the slots before the one at hand are open, or are closed with   *)
(* their thread over, as far as the loop has come.                         *)
(*                                                                         *)
(* A share stays with its worker, for every set of names, hash, cache size *)
(* and failures.  As long as no upsert has failed, the id used is the one  *)
(* the upsert returned, whatever the cache holds.  As long as nothing was  *)
(* rolled back, every id in the cache is the one the database has.  Either *)
(* suffices, and IdInv says what each rests on.                            *)
(***************************************************************************)
EXTENDS TipWatcher, Publisher, PoolLife, WorkerIds, TLAPS, FiniteSetTheorems,
        WellFoundedInduction

-----------------------------------------------------------------------------
(* The tip watcher. *)

Passed == jobTip = passAt \/ unbuilt

TipInv ==
    /\ tpc \in {"sleep", "ask", "build"}
    /\ lastTip = jobTip
    /\ tpc # "build" => Passed
    /\ tpc = "build" =>
          /\ moved <=> tmpl # lastTip
          /\ moved => passAt = tmpl
          /\ ~moved => Passed

\* The first job is built on the tip the startup pass ran at.
LEMMA TipInvInit == InitTip => TipInv
BY DEF InitTip, TipInv, Passed

\* An answer is taken outside a construction, where the pass is not behind.
LEMMA AnsweredKeeps ==
    ASSUME TipInv, Asking, Answered
    PROVE  TipInv'
<1>1. tpc # "build" /\ Passed
  BY DEF Asking, TipInv
<1>2. lastTip' = jobTip'
  BY DEF Answered, TipInv
<1>3. CASE moved'
  BY <1>2, <1>3 DEF Answered, TipMoved, TipInv, Passed
<1>4. CASE ~moved'
  <2>1. Passed' /\ tmpl' = lastTip'
    BY <1>1, <1>4 DEF Answered, TipMoved, Passed
  <2>2. tpc' \in {"sleep", "build"}
    BY DEF Answered
  <2>. QED  BY <1>2, <1>4, <2>1, <2>2 DEF TipInv
<1>. QED  BY <1>3, <1>4

\* A published job takes over the template's tip, and with it the pass.
LEMMA PublishKeeps ==
    ASSUME TipInv, PublishJob
    PROVE  TipInv'
<1>1. lastTip' = jobTip' /\ tpc' = "sleep"
  BY DEF PublishJob
<1>2. Passed'
  <2>1. CASE moved
    BY <2>1 DEF PublishJob, TipInv, Passed
  <2>2. CASE ~moved
    BY <2>2 DEF PublishJob, TipInv, Passed
  <2>. QED  BY <2>1, <2>2
<1>. QED  BY <1>1, <1>2 DEF TipInv

LEMMA TipInvStep == TipInv /\ [NextTip]_tipVars => TipInv'
<1> SUFFICES ASSUME TipInv, [NextTip]_tipVars PROVE TipInv'
  OBVIOUS
<1>1. CASE WatcherSleeps
  BY <1>1 DEF WatcherSleeps, TipInv, Passed
<1>2. CASE Ask
  BY <1>2, AnsweredKeeps DEF Ask
<1>3. CASE AskAnsweredEarly
  BY <1>3, AnsweredKeeps DEF AskAnsweredEarly
<1>4. CASE PublishJob
  BY <1>4, PublishKeeps
<1>5. CASE AskFails
  BY <1>5 DEF AskFails, Asking, TipInv, Passed
<1>6. CASE BuildFails
  BY <1>6 DEF BuildFails, TipInv, Passed
<1>7. CASE NodeMoves
  BY <1>7 DEF NodeMoves, TipInv, Passed
<1>8. CASE JobAges
  BY <1>8 DEF JobAges, TipInv, Passed
<1>9. CASE UNCHANGED tipVars
  BY <1>9 DEF tipVars, TipInv, Passed
<1>. QED
  BY <1>1, <1>2, <1>3, <1>4, <1>5, <1>6, <1>7, <1>8, <1>9 DEF NextTip, WatcherSteps

\* The pool mines on the tip its ledger was last reconciled at, but for a
\* construction under way and a tip that no job could be built on (main.c,
\* tip_watcher: reconcile_blocks before build_job_from_template).
THEOREM MinesReconciledTip == TipSpec => []MinedTipIsReconciled
<1>1. TipInv => MinedTipIsReconciled
  BY DEF TipInv, Passed, MinedTipIsReconciled
<1>. QED
  BY <1>1, TipInvInit, TipInvStep, PTL DEF TipSpec

\* A job on another tip than the one before says clean_jobs, whatever failed
\* between the two (main.c, tip_watcher: new_tip is judged against the last
\* job that was published).
THEOREM NewTipIsClean == TipSpec => CleanWhenMoved
<1>1. TipInv /\ [NextTip]_tipVars => [jobTip' # jobTip => clean']_tipVars
  <2> SUFFICES ASSUME TipInv, NextTip, jobTip' # jobTip PROVE clean'
    OBVIOUS
  <2>1. CASE PublishJob
    BY <2>1 DEF PublishJob, TipInv
  <2>2. CASE ~PublishJob
    BY <2>2 DEF NextTip, WatcherSteps, WatcherSleeps, Ask, AskAnsweredEarly, Answered,
                AskFails, BuildFails, NodeMoves, JobAges
  <2>. QED  BY <2>1, <2>2
<1>. QED
  BY <1>1, TipInvInit, TipInvStep, PTL DEF TipSpec, CleanWhenMoved

-----------------------------------------------------------------------------
(* The publisher's ring. *)

Indices == 0..RingSize - 1

\* Its arithmetic, with the wrap written out: the next slot, how many are
\* between head and tail, and the k-th of them.
Succ(x)    == IF x + 1 = RingSize THEN 0 ELSE x + 1
Dist(h, t) == IF h <= t THEN t - h ELSE t - h + RingSize
At(h, k)   == IF h + k - 1 < RingSize THEN h + k - 1 ELSE h + k - 1 - RingSize

LEMMA Remainders ==
    ASSUME NEW n \in Nat \ {0}
    PROVE  /\ \A x \in 0..n - 1 : (x + 1) % n = IF x + 1 = n THEN 0 ELSE x + 1
           /\ \A h, t \in 0..n - 1 : (t - h + n) % n = IF h <= t THEN t - h ELSE t - h + n
           /\ \A h \in 0..n - 1, k \in 1..n :
                 (h + k - 1) % n = IF h + k - 1 < n THEN h + k - 1 ELSE h + k - 1 - n
<1>1. ASSUME NEW x \in Nat, x < 2 * n PROVE x % n = IF x < n THEN x ELSE x - n
  BY <1>1
<1>2. ASSUME NEW x \in 0..n - 1 PROVE (x + 1) % n = IF x + 1 = n THEN 0 ELSE x + 1
  BY <1>1
<1>3. ASSUME NEW h \in 0..n - 1, NEW t \in 0..n - 1
      PROVE  (t - h + n) % n = IF h <= t THEN t - h ELSE t - h + n
  BY <1>1
<1>4. ASSUME NEW h \in 0..n - 1, NEW k \in 1..n
      PROVE  (h + k - 1) % n = IF h + k - 1 < n THEN h + k - 1 ELSE h + k - 1 - n
  BY <1>1
<1>. QED  BY <1>2, <1>3, <1>4

LEMMA RingArithmetic ==
    /\ \A x \in Indices : (x + 1) % RingSize = Succ(x) /\ Succ(x) \in Indices
    /\ \A h, t \in Indices : (t - h + RingSize) % RingSize = Dist(h, t) /\ Dist(h, t) \in Indices
    /\ \A h \in Indices, k \in 1..RingSize :
          (h + k - 1) % RingSize = At(h, k) /\ At(h, k) \in Indices
<1>0. RingSize \in Nat \ {0}
  BY PublisherAssumption
<1>1. /\ \A x \in Indices : (x + 1) % RingSize = Succ(x)
      /\ \A h, t \in Indices : (t - h + RingSize) % RingSize = Dist(h, t)
      /\ \A h \in Indices, k \in 1..RingSize : (h + k - 1) % RingSize = At(h, k)
  BY <1>0, Remainders, Zenon DEF Indices, Succ, Dist, At
<1>2. \A x \in Indices : Succ(x) \in Indices
  BY <1>0 DEF Indices, Succ
<1>3. \A h, t \in Indices : Dist(h, t) \in Indices
  BY <1>0 DEF Indices, Dist
<1>4. \A h \in Indices, k \in 1..RingSize : At(h, k) \in Indices
  BY <1>0 DEF Indices, At
<1>. QED  BY <1>1, <1>2, <1>3, <1>4

\* A slot is filled behind the last one ...
LEMMA RingPush ==
    ASSUME NEW h \in Indices, NEW t \in Indices, Succ(t) # h
    PROVE  /\ Dist(h, Succ(t)) = Dist(h, t) + 1
           /\ At(h, Dist(h, t) + 1) = t
           /\ \A k \in 1..Dist(h, t) : At(h, k) # t
BY PublisherAssumption DEF Indices, Succ, Dist, At

\* ... and the first one is emptied.
LEMMA RingPop ==
    ASSUME NEW h \in Indices, NEW t \in Indices, h # t
    PROVE  /\ Dist(Succ(h), t) = Dist(h, t) - 1
           /\ Dist(h, t) >= 1 /\ At(h, 1) = h
           /\ \A k \in 1..Dist(h, t) - 1 : At(Succ(h), k) = At(h, k + 1)
BY PublisherAssumption DEF Indices, Succ, Dist, At

-----------------------------------------------------------------------------
(* What the publisher keeps. *)

Stats    == [enqueued : Nat, published : Nat, full : Nat, down : Nat]
Counting == {p \in Producers : counting[p]}

QueueTypes ==
    /\ bring \in [Indices -> Nat] /\ bhead \in Indices /\ btail \in Indices
    /\ sent \in [Producers -> Nat]
    /\ offering \in [Producers -> BOOLEAN] /\ counting \in [Producers -> BOOLEAN]
    /\ worker \in {"pop", "publish", "gone"}
    /\ stats \in Stats
    /\ pushed \in Seq(Producers \X Nat) /\ taken \in Nat /\ wire \in Seq(Nat)

\* What was pushed and not popped is in the ring, in order.
QueueInv ==
    /\ taken + Dist(bhead, btail) = Len(pushed)
    /\ \A k \in 1..Dist(bhead, btail) : bring[At(bhead, k)] = taken + k

\* The event in hand is the last one popped, and Redis has had none of those
\* after it.
HandInv ==
    /\ worker = "publish" => inHand = taken /\ taken # 0
    /\ worker # "publish" => inHand = 0
    /\ \A i \in DOMAIN wire : wire[i] <= taken /\ (worker = "publish" => wire[i] < taken)
    /\ \A i, j \in DOMAIN wire : i < j => wire[i] < wire[j]

\* Whoever pushes after the worker has left had offered before.
GoneInv ==
    worker = "gone" =>
        /\ shutdown
        /\ \A i \in taken + 1..Len(pushed) : pushed[i][2] = sent[pushed[i][1]]

\* The statistics lag by the producers that have not counted.
StatsInv ==
    /\ IsFiniteSet(Counting)
    /\ stats.enqueued + Cardinality(Counting) = Len(pushed)
    /\ stats.published + stats.down + (IF worker = "publish" THEN 1 ELSE 0) = taken

PublisherInv == QueueTypes /\ QueueInv /\ HandInv /\ GoneInv /\ StatsInv

LEMMA PublisherInit == InitPublisher => PublisherInv
<1>. SUFFICES ASSUME InitPublisher PROVE PublisherInv
  OBVIOUS
<1>1. RingSize \in Nat /\ RingSize > 1
  BY PublisherAssumption
<1>2. QueueTypes
  BY <1>1 DEF InitPublisher, QueueTypes, Indices, Stats
<1>3. QueueInv
  BY <1>1 DEF InitPublisher, QueueInv, Dist
<1>4. HandInv /\ GoneInv
  BY DEF InitPublisher, HandInv, GoneInv
<1>5. StatsInv
  <2>1. Counting = {}
    BY DEF InitPublisher, Counting
  <2>. QED  BY <2>1, FS_EmptySet DEF InitPublisher, StatsInv
<1>. QED  BY <1>2, <1>3, <1>4, <1>5 DEF PublisherInv

LEMMA OfferKeeps ==
    ASSUME PublisherInv, NEW p \in Producers, Offer(p) PROVE PublisherInv'
<1>1. /\ ~shutdown
      /\ UNCHANGED <<bring, bhead, btail, shutdown, counting, worker, inHand,
                     stats, pushed, taken, wire>>
  BY DEF Offer
<1>2. sent' \in [Producers -> Nat] /\ offering' \in [Producers -> BOOLEAN]
  BY DEF Offer, PublisherInv, QueueTypes
<1>3. worker # "gone"
  BY <1>1 DEF PublisherInv, GoneInv
<1>4. Counting' = Counting
  BY <1>1 DEF Counting
<1>5. QueueTypes'
  BY <1>1, <1>2 DEF PublisherInv, QueueTypes
<1>6. QueueInv' /\ HandInv' /\ GoneInv' /\ StatsInv'
  BY <1>1, <1>3, <1>4 DEF PublisherInv, QueueInv, HandInv, GoneInv, StatsInv
<1>. QED  BY <1>5, <1>6 DEF PublisherInv

LEMMA PushKeeps ==
    ASSUME PublisherInv, NEW p \in Producers, ~counting[p], Push(p) PROVE PublisherInv'
<1>0. QueueTypes /\ QueueInv /\ HandInv /\ GoneInv /\ StatsInv
  BY DEF PublisherInv
<1>1. /\ UNCHANGED <<bhead, shutdown, sent, worker, inHand, redis, taken, wire>>
      /\ offering' \in [Producers -> BOOLEAN]
  BY <1>0 DEF Push, QueueTypes
<1>2. HandInv'
  BY <1>0, <1>1 DEF HandInv
<1>3. bhead \in Indices /\ btail \in Indices /\ Succ(btail) \in Indices
      /\ (btail + 1) % RingSize = Succ(btail)
      /\ Dist(bhead, btail) \in Indices
  BY <1>0, RingArithmetic DEF QueueTypes
<1>4. CASE NoRoom
  <2>1. /\ stats' = [stats EXCEPT !.full = stats.full + 1]
        /\ UNCHANGED <<bring, btail, pushed, counting>>
    BY <1>4 DEF Push
  <2>2. /\ stats' \in Stats /\ stats'.enqueued = stats.enqueued
        /\ stats'.published = stats.published /\ stats'.down = stats.down
    <3>1. stats \in [enqueued : Nat, published : Nat, full : Nat, down : Nat]
      BY <1>0 DEF QueueTypes, Stats
    <3>2. PICK e \in Nat, u \in Nat, f \in Nat, d \in Nat :
             stats = [enqueued |-> e, published |-> u, full |-> f, down |-> d]
      BY <3>1
    <3>3. stats' = [enqueued |-> e, published |-> u, full |-> f + 1, down |-> d]
      BY <2>1, <3>2
    <3>. QED  BY <3>2, <3>3 DEF Stats
  <2>3. Counting' = Counting
    BY <2>1 DEF Counting
  <2>4. QueueTypes'
    BY <1>0, <1>1, <2>1, <2>2 DEF QueueTypes
  <2>5. QueueInv' /\ GoneInv' /\ StatsInv'
    BY <1>0, <1>1, <2>1, <2>2, <2>3 DEF QueueInv, GoneInv, StatsInv
  <2>. QED  BY <1>2, <2>4, <2>5 DEF PublisherInv
<1>5. CASE ~NoRoom
  <2>1. PICK e : e = <<p, sent[p]>>
    OBVIOUS
  <2>2. /\ pushed' = Append(pushed, e)
        /\ bring' = [bring EXCEPT ![btail] = Len(pushed) + 1]
        /\ btail' = Succ(btail)
        /\ counting' = [counting EXCEPT ![p] = TRUE]
        /\ stats' = stats
        /\ Succ(btail) # bhead
    BY <1>3, <1>5, <2>1 DEF Push, NoRoom
  <2>3. pushed \in Seq(Producers \X Nat) /\ Len(pushed) \in Nat /\ e \in Producers \X Nat
    BY <1>0, <2>1 DEF QueueTypes
  <2>4. /\ pushed' \in Seq(Producers \X Nat) /\ Len(pushed') = Len(pushed) + 1
        /\ pushed'[Len(pushed) + 1] = e
        /\ \A i \in 1..Len(pushed) : pushed'[i] = pushed[i]
    BY <2>2, <2>3
  <2>5. QueueTypes'
    <3>1. bring' \in [Indices -> Nat] /\ counting' \in [Producers -> BOOLEAN]
      BY <1>0, <2>2, <2>3 DEF QueueTypes
    <3>. QED  BY <1>0, <1>1, <1>3, <2>2, <2>4, <3>1 DEF QueueTypes
  <2>6. QueueInv'
    <3>0. PICK n \in Nat : n = Dist(bhead, btail)
      BY <1>3, PublisherAssumption DEF Indices
    <3>1. /\ Dist(bhead, Succ(btail)) = n + 1 /\ At(bhead, n + 1) = btail
          /\ \A k \in 1..n : At(bhead, k) # btail
      BY <1>3, <2>2, <3>0, RingPush
    <3>2. /\ \A k \in 1..n : bring[At(bhead, k)] = taken + k
          /\ taken + n = Len(pushed) /\ taken \in Nat
      BY <1>0, <3>0 DEF QueueInv, QueueTypes
    <3>3. n + 1 \in 1..RingSize /\ 1..n \subseteq 1..RingSize
      BY <1>3, <3>0, PublisherAssumption DEF Indices
    <3>4. \A k \in 1..n : At(bhead, k) \in Indices
      BY <1>3, <3>3, RingArithmetic
    <3>5. DOMAIN bring = Indices
      BY <1>0 DEF QueueTypes
    <3>6. ASSUME NEW k \in 1..n + 1 PROVE bring'[At(bhead, k)] = taken + k
      <4>1. CASE k = n + 1
        BY <1>3, <2>2, <3>1, <3>2, <3>5, <4>1
      <4>2. CASE k # n + 1
        <5>1. k \in 1..n
          BY <4>2
        <5>. QED  BY <2>2, <3>1, <3>2, <3>4, <3>5, <5>1
      <4>. QED  BY <4>1, <4>2
    <3>7. taken + (n + 1) = Len(pushed')
      BY <2>3, <2>4, <3>2
    <3>8. Dist(bhead, btail)' = n + 1 /\ bhead' = bhead /\ taken' = taken
      BY <1>1, <2>2, <3>1 DEF Dist
    <3>9. \A k : At(bhead, k)' = At(bhead, k)
      BY <1>1 DEF At
    <3>. QED  BY <3>6, <3>7, <3>8, <3>9 DEF QueueInv
  <2>7. GoneInv'
    <3>1. SUFFICES ASSUME worker = "gone", NEW i \in taken + 1..Len(pushed) + 1
                   PROVE  pushed'[i][2] = sent[pushed'[i][1]]
      BY <1>0, <1>1, <2>4 DEF GoneInv
    <3>2. CASE i = Len(pushed) + 1
      BY <2>1, <2>4, <3>2
    <3>3. CASE i # Len(pushed) + 1
      <4>1. i \in taken + 1..Len(pushed) /\ i \in 1..Len(pushed)
        BY <1>0, <2>3, <3>3 DEF QueueTypes
      <4>. QED  BY <1>0, <2>4, <3>1, <4>1 DEF GoneInv
    <3>. QED  BY <3>2, <3>3
  <2>8. StatsInv'
    <3>1. Counting' = Counting \cup {p} /\ p \notin Counting
      BY <1>0, <2>2 DEF Counting, QueueTypes
    <3>2. IsFiniteSet(Counting') /\ Cardinality(Counting') = Cardinality(Counting) + 1
      BY <1>0, <3>1, FS_AddElement DEF StatsInv
    <3>3. Cardinality(Counting) \in Nat /\ stats.enqueued \in Nat
      BY <1>0, FS_CardinalityType DEF StatsInv, QueueTypes, Stats
    <3>4. stats'.enqueued + Cardinality(Counting') = Len(pushed')
      BY <1>0, <2>2, <2>4, <3>2, <3>3 DEF StatsInv
    <3>. QED  BY <1>0, <1>1, <2>2, <3>2, <3>4 DEF StatsInv
  <2>. QED  BY <1>2, <2>5, <2>6, <2>7, <2>8 DEF PublisherInv
<1>. QED  BY <1>4, <1>5

LEMMA CountKeeps ==
    ASSUME PublisherInv, NEW p \in Producers, CountPushed(p) PROVE PublisherInv'
<1>0. QueueTypes /\ QueueInv /\ HandInv /\ GoneInv /\ StatsInv
  BY DEF PublisherInv
<1>1. /\ UNCHANGED <<bring, bhead, btail, shutdown, sent, offering, worker, inHand,
                     redis, pushed, taken, wire>>
      /\ counting' = [counting EXCEPT ![p] = FALSE] /\ counting[p]
      /\ stats' = [stats EXCEPT !.enqueued = stats.enqueued + 1]
  BY DEF CountPushed
<1>2. /\ stats' \in Stats /\ stats'.enqueued = stats.enqueued + 1
      /\ stats'.published = stats.published /\ stats'.down = stats.down
  <2>1. stats \in [enqueued : Nat, published : Nat, full : Nat, down : Nat]
    BY <1>0 DEF QueueTypes, Stats
  <2>2. PICK e \in Nat, u \in Nat, f \in Nat, d \in Nat :
           stats = [enqueued |-> e, published |-> u, full |-> f, down |-> d]
    BY <2>1
  <2>3. stats' = [enqueued |-> e + 1, published |-> u, full |-> f, down |-> d]
    BY <1>1, <2>2
  <2>. QED  BY <2>2, <2>3 DEF Stats
<1>3. QueueTypes'
  <2>1. counting' \in [Producers -> BOOLEAN]
    BY <1>0, <1>1 DEF QueueTypes
  <2>. QED  BY <1>0, <1>1, <1>2, <2>1 DEF QueueTypes
<1>4. QueueInv' /\ HandInv' /\ GoneInv'
  BY <1>0, <1>1 DEF QueueInv, HandInv, GoneInv
<1>5. StatsInv'
  <2>1. Counting' = Counting \ {p} /\ p \in Counting
    BY <1>0, <1>1 DEF Counting, QueueTypes
  <2>2. IsFiniteSet(Counting') /\ Cardinality(Counting') = Cardinality(Counting) - 1
    BY <1>0, <2>1, FS_RemoveElement DEF StatsInv
  <2>3. Cardinality(Counting) \in Nat /\ stats.enqueued \in Nat
    BY <1>0, FS_CardinalityType DEF StatsInv, QueueTypes, Stats
  <2>4. stats'.enqueued + Cardinality(Counting') = stats.enqueued + Cardinality(Counting)
    BY <1>2, <2>2, <2>3
  <2>. QED  BY <1>0, <1>1, <1>2, <2>2, <2>4 DEF StatsInv
<1>. QED  BY <1>3, <1>4, <1>5 DEF PublisherInv

LEMMA PopKeeps ==
    ASSUME PublisherInv, Pop PROVE PublisherInv'
<1>0. QueueTypes /\ QueueInv /\ HandInv /\ GoneInv /\ StatsInv
  BY DEF PublisherInv
<1>1. /\ UNCHANGED <<bring, btail, shutdown, sent, offering, counting, redis, stats,
                     pushed, wire>>
      /\ worker = "pop"
  BY DEF Pop
<1>2. bhead \in Indices /\ btail \in Indices /\ Succ(bhead) \in Indices
      /\ (bhead + 1) % RingSize = Succ(bhead)
      /\ Dist(bhead, btail) \in Indices
  BY <1>0, RingArithmetic DEF QueueTypes
<1>3. PICK n \in Nat : n = Dist(bhead, btail) /\ n < RingSize
  BY <1>2, PublisherAssumption DEF Indices
<1>4. Counting' = Counting
  BY <1>1 DEF Counting
<1>5. CASE Leaves
  <2>1. worker' = "gone" /\ UNCHANGED <<bhead, inHand, taken>> /\ bhead = btail /\ shutdown
    BY <1>5 DEF Pop, Leaves
  <2>2. QueueTypes' /\ QueueInv'
    BY <1>0, <1>1, <2>1 DEF QueueTypes, QueueInv
  <2>3. HandInv' /\ StatsInv'
    BY <1>0, <1>1, <1>4, <2>1 DEF HandInv, StatsInv
  <2>4. taken = Len(pushed)
    BY <1>0, <1>2, <2>1 DEF QueueInv, Dist, Indices, QueueTypes
  <2>5. GoneInv'
    BY <1>0, <1>1, <2>1, <2>4 DEF GoneInv, QueueTypes
  <2>. QED  BY <2>2, <2>3, <2>5 DEF PublisherInv
<1>6. CASE ~Leaves
  <2>1. /\ bhead # btail /\ inHand' = bring[bhead] /\ bhead' = Succ(bhead)
        /\ taken' = taken + 1 /\ worker' = "publish"
    BY <1>2, <1>6 DEF Pop
  <2>2. taken \in Nat /\ taken + n = Len(pushed)
        /\ \A k \in 1..n : bring[At(bhead, k)] = taken + k
    BY <1>0, <1>3 DEF QueueTypes, QueueInv
  <2>3. /\ Dist(Succ(bhead), btail) = n - 1 /\ n >= 1 /\ At(bhead, 1) = bhead
        /\ \A k \in 1..n - 1 : At(Succ(bhead), k) = At(bhead, k + 1)
    BY <1>2, <1>3, <2>1, RingPop
  <2>4. inHand' = taken'
    BY <2>1, <2>2, <2>3
  <2>5. QueueTypes'
    BY <1>0, <1>1, <1>2, <2>1 DEF QueueTypes
  <2>6. QueueInv'
    <3>1. ASSUME NEW k \in 1..n - 1 PROVE bring[At(Succ(bhead), k)] = taken + 1 + k
      <4>1. k + 1 \in 1..n /\ k \in Nat
        BY <1>3
      <4>2. bring[At(bhead, k + 1)] = taken + (k + 1)
        BY <2>2, <4>1
      <4>. QED  BY <2>2, <2>3, <4>1, <4>2
    <3>2. Dist(bhead, btail)' = n - 1 /\ \A k : At(bhead, k)' = At(Succ(bhead), k)
      BY <1>1, <2>1, <2>3 DEF Dist, At
    <3>3. taken + 1 + (n - 1) = Len(pushed)
      BY <1>3, <2>2
    <3>. QED  BY <1>1, <2>1, <3>1, <3>2, <3>3 DEF QueueInv
  <2>7. HandInv'
    <3>1. \A i \in DOMAIN wire : wire[i] \in Nat /\ wire[i] <= taken
      BY <1>0 DEF HandInv, QueueTypes
    <3>2. \A i \in DOMAIN wire : wire[i] <= taken + 1 /\ wire[i] < taken + 1
      BY <2>2, <3>1
    <3>. QED  BY <1>0, <1>1, <2>1, <2>2, <2>4, <3>2 DEF HandInv
  <2>8. GoneInv'
    BY <2>1 DEF GoneInv
  <2>9. StatsInv'
    <3>1. stats.published \in Nat /\ stats.down \in Nat
      BY <1>0 DEF QueueTypes, Stats
    <3>2. stats.published + stats.down + 1 = taken + 1
      BY <1>0, <1>1, <2>2, <3>1 DEF StatsInv
    <3>. QED  BY <1>0, <1>1, <1>4, <2>1, <3>2 DEF StatsInv
  <2>. QED  BY <2>5, <2>6, <2>7, <2>8, <2>9 DEF PublisherInv
<1>. QED  BY <1>5, <1>6

\* The event in hand is published, or dropped, and counted; Redis may have it.
LEMMA HandedOver ==
    ASSUME PublisherInv, worker = "publish", worker' = "pop", inHand' = 0,
           wire' = wire \/ wire' = Append(wire, inHand),
           \/ stats' = [stats EXCEPT !.published = stats.published + 1]
           \/ stats' = [stats EXCEPT !.down = stats.down + 1],
           UNCHANGED <<bring, bhead, btail, shutdown, sent, offering, counting, pushed, taken>>
    PROVE  PublisherInv'
<1>0. QueueTypes /\ QueueInv /\ HandInv /\ GoneInv /\ StatsInv
  BY DEF PublisherInv
<1>1. inHand = taken /\ taken \in Nat /\ wire \in Seq(Nat) /\ stats \in Stats
  BY <1>0 DEF HandInv, QueueTypes
<1>2. /\ stats' \in Stats /\ stats'.enqueued = stats.enqueued
      /\ stats'.published + stats'.down = stats.published + stats.down + 1
  <2>1. stats.published \in Nat /\ stats.down \in Nat
    BY <1>1 DEF Stats
  <2>2. CASE stats' = [stats EXCEPT !.published = stats.published + 1]
    <3>1. /\ stats' \in Stats /\ stats'.enqueued = stats.enqueued
          /\ stats'.published = stats.published + 1 /\ stats'.down = stats.down
      BY <1>1, <2>2 DEF Stats
    <3>. QED  BY <2>1, <3>1
  <2>3. CASE stats' = [stats EXCEPT !.down = stats.down + 1]
    <3>1. /\ stats' \in Stats /\ stats'.enqueued = stats.enqueued
          /\ stats'.published = stats.published /\ stats'.down = stats.down + 1
      BY <1>1, <2>3 DEF Stats
    <3>. QED  BY <2>1, <3>1
  <2>. QED  BY <2>2, <2>3
<1>3. /\ wire' \in Seq(Nat)
      /\ \A i \in DOMAIN wire' : wire'[i] <= taken
      /\ \A i, j \in DOMAIN wire' : i < j => wire'[i] < wire'[j]
  <2>1. \A i \in DOMAIN wire : wire[i] \in Nat /\ wire[i] < taken
    BY <1>0, <1>1 DEF HandInv
  <2>2. \A i, j \in DOMAIN wire : i < j => wire[i] < wire[j]
    BY <1>0 DEF HandInv
  <2>3. CASE wire' = wire
    BY <1>1, <2>1, <2>2, <2>3
  <2>4. CASE wire' = Append(wire, inHand)
    <3>1. /\ wire' \in Seq(Nat) /\ DOMAIN wire = 1..Len(wire) /\ Len(wire) \in Nat
          /\ DOMAIN wire' = 1..Len(wire) + 1
          /\ wire'[Len(wire) + 1] = taken
          /\ \A i \in 1..Len(wire) : wire'[i] = wire[i]
      BY <1>1, <2>4
    <3>2. \A i \in DOMAIN wire' : i \in DOMAIN wire \/ i = Len(wire) + 1
      BY <3>1
    <3>3. \A i \in DOMAIN wire' : wire'[i] <= taken
      BY <1>1, <2>1, <3>1, <3>2
    <3>4. ASSUME NEW i \in DOMAIN wire', NEW j \in DOMAIN wire', i < j
          PROVE  wire'[i] < wire'[j]
      <4>1. i \in DOMAIN wire
        BY <3>1, <3>2, <3>4
      <4>. QED  BY <2>1, <2>2, <3>1, <3>2, <3>4, <4>1
    <3>. QED  BY <3>1, <3>3, <3>4
  <2>. QED  BY <2>3, <2>4
<1>4. QueueTypes'
  BY <1>0, <1>2, <1>3 DEF QueueTypes
<1>5. QueueInv' /\ GoneInv'
  BY <1>0 DEF QueueInv, GoneInv
<1>6. HandInv'
  BY <1>3 DEF HandInv
<1>7. StatsInv'
  <2>1. Counting' = Counting
    BY DEF Counting
  <2>2. stats.published \in Nat /\ stats.down \in Nat /\ stats'.published \in Nat /\ stats'.down \in Nat
    BY <1>1, <1>2 DEF Stats
  <2>3. stats'.published + stats'.down + 0 = taken
    BY <1>0, <1>2, <2>2 DEF StatsInv
  <2>. QED  BY <1>0, <1>2, <2>1, <2>3 DEF StatsInv
<1>. QED  BY <1>4, <1>5, <1>6, <1>7 DEF PublisherInv

\* A producer that is offering has counted its last event.
OfferInv == \A p \in Producers : ~(offering[p] /\ counting[p])

LEMMA OfferStep ==
    ASSUME PublisherInv, OfferInv, [NextPublisher]_publisherVars PROVE OfferInv'
<1>1. offering \in [Producers -> BOOLEAN] /\ counting \in [Producers -> BOOLEAN]
  BY DEF PublisherInv, QueueTypes
<1>2. ASSUME NEW p \in Producers, Offer(p) PROVE OfferInv'
  BY <1>1, <1>2 DEF OfferInv, Offer
<1>3. ASSUME NEW p \in Producers, Push(p) PROVE OfferInv'
  BY <1>1, <1>3 DEF OfferInv, Push
<1>4. ASSUME NEW p \in Producers, CountPushed(p) PROVE OfferInv'
  BY <1>1, <1>4 DEF OfferInv, CountPushed
<1>5. CASE UNCHANGED <<offering, counting>>
  BY <1>5 DEF OfferInv
<1>. QED  BY <1>2, <1>3, <1>4, <1>5 DEF NextPublisher, Pop, RedisDown, PublishAnswered,
         PublishFails, BackoffPasses, ClosePublisher, publisherVars

LEMMA PublisherStep ==
    ASSUME PublisherInv, OfferInv, [NextPublisher]_publisherVars PROVE PublisherInv'
<1>1. ASSUME NEW p \in Producers, Offer(p) PROVE PublisherInv'
  BY <1>1, OfferKeeps
<1>2. ASSUME NEW p \in Producers, Push(p) PROVE PublisherInv'
  BY <1>2, PushKeeps DEF OfferInv, Push
<1>3. ASSUME NEW p \in Producers, CountPushed(p) PROVE PublisherInv'
  BY <1>3, CountKeeps
<1>4. CASE Pop
  BY <1>4, PopKeeps
<1>5. CASE RedisDown
  BY <1>5, HandedOver DEF RedisDown, DropIt
<1>6. CASE PublishAnswered
  BY <1>6, HandedOver DEF PublishAnswered
<1>7. CASE PublishFails
  BY <1>7, HandedOver DEF PublishFails, DropIt
<1>8. ASSUME UNCHANGED <<bring, bhead, btail, sent, offering, counting, worker, inHand,
                         stats, pushed, taken, wire>>,
             shutdown => shutdown'
      PROVE  PublisherInv'
  <2>1. Counting' = Counting
    BY <1>8 DEF Counting
  <2>2. QueueTypes' /\ QueueInv' /\ HandInv'
    BY <1>8 DEF PublisherInv, QueueTypes, QueueInv, HandInv
  <2>3. GoneInv' /\ StatsInv'
    BY <1>8, <2>1 DEF PublisherInv, GoneInv, StatsInv
  <2>. QED  BY <2>2, <2>3 DEF PublisherInv
<1>9. CASE BackoffPasses \/ ClosePublisher
  BY <1>8, <1>9 DEF BackoffPasses, ClosePublisher
<1>10. CASE UNCHANGED publisherVars
  BY <1>8, <1>10 DEF publisherVars
<1>. QED  BY <1>1, <1>2, <1>3, <1>4, <1>5, <1>6, <1>7, <1>9, <1>10 DEF NextPublisher

\* No event of broadcast.c is overwritten, repeated, taken out of turn or lost
\* uncounted, for any number of producers, any ring and any behaviour of Redis;
\* and a closing pool leaves behind only what was past the test of `shutdown`.
THEOREM NoEventIsLost == PublisherSpec => []EventsAreKept
<1>1. InitPublisher => PublisherInv /\ OfferInv
  BY PublisherInit DEF InitPublisher, OfferInv
<1>2. PublisherInv /\ OfferInv /\ [NextPublisher]_publisherVars => (PublisherInv /\ OfferInv)'
  BY PublisherStep, OfferStep
<1>3. PublisherInv => EventsAreKept
  <2>. SUFFICES ASSUME PublisherInv PROVE EventsAreKept
    OBVIOUS
  <2>0. QueueTypes /\ QueueInv /\ HandInv /\ GoneInv /\ StatsInv
    BY DEF PublisherInv
  <2>1. bhead \in Indices /\ btail \in Indices /\ Waiting = Dist(bhead, btail)
        /\ Dist(bhead, btail) \in Indices
    BY <2>0, RingArithmetic DEF QueueTypes, Waiting
  <2>2. PICK n \in Nat : n = Dist(bhead, btail) /\ Waiting = n /\ n < RingSize
    BY <2>1, PublisherAssumption DEF Indices
  <2>3. ASSUME NEW k \in 1..n PROVE bring[(bhead + k - 1) % RingSize] = taken + k
    <3>1. k \in 1..RingSize
      BY <2>2, PublisherAssumption
    <3>2. (bhead + k - 1) % RingSize = At(bhead, k)
      BY <2>1, <3>1, RingArithmetic
    <3>. QED  BY <2>0, <2>2, <3>2 DEF QueueInv
  <2>4. taken + n = Len(pushed) /\ taken \in Nat
    BY <2>0, <2>2 DEF QueueInv, QueueTypes
  <2>5. ASSUME \A p \in Producers : ~counting[p]
        PROVE  stats.enqueued = stats.published + stats.down + n
                                  + (IF inHand = 0 THEN 0 ELSE 1)
    <3>1. Counting = {} /\ Cardinality({}) = 0
      BY <2>5, FS_EmptySet DEF Counting
    <3>2. stats.enqueued \in Nat /\ stats.published \in Nat /\ stats.down \in Nat
      BY <2>0 DEF QueueTypes, Stats
    <3>3. stats.enqueued = taken + n
      BY <2>0, <2>4, <3>1, <3>2 DEF StatsInv
    <3>4. stats.published + stats.down + (IF inHand = 0 THEN 0 ELSE 1) = taken
      BY <2>0 DEF StatsInv, HandInv
    <3>. QED  BY <2>4, <3>2, <3>3, <3>4
  <2>. QED  BY <2>0, <2>2, <2>3, <2>4, <2>5 DEF EventsAreKept, HandInv, GoneInv
<1>. QED  BY <1>1, <1>2, <1>3, PTL DEF PublisherSpec

-----------------------------------------------------------------------------
(* The process. *)

Fds == 0..MaxFd

\* The slots and the table of descriptors agree: a slot's number is the
\* table's, and the table has no port that its slot does not know.
Matched(table, at) ==
    /\ table \in [Fds -> Owners \cup PortNames] /\ at \in [PortNames -> Fds \cup {NoFd}]
    /\ table[0] = "stdin"
    /\ \A p \in PortNames : at[p] # NoFd => table[at[p]] = p
    /\ \A f \in Fds : table[f] \in PortNames => at[table[f]] = f

Early   == {"config", "clients", "ping", "store", "identity", "broadcast", "template",
            "job", "address"}
Running == {"first", "signals", "up"}
Ending  == {"free", "flush", "close", "exited"}

Gone(p) == fdOf[p] = NoFd /\ Ended(p)

\* Which slots are open at which stage, and which listeners are over.
SlotsInv ==
    /\ stage \in Early => slot = 1
    /\ stage \in Early \cup Ending => \A p \in PortNames : Gone(p)
    /\ stage = "serve" =>
          \A i \in DOMAIN Ports : IF i < slot THEN fdOf[Ports[i]] # NoFd ELSE Gone(Ports[i])
    /\ stage \in Running => \A p \in PortNames : fdOf[p] # NoFd
    /\ stage = "teardown" =>
          /\ phase \in {"close", "join"}
          /\ \A i \in DOMAIN Ports : i < slot => Gone(Ports[i])
          /\ phase = "join" => fdOf[Port] = NoFd
    /\ stage = "stop" =>
          /\ phase \in {"shut", "join", "close"}
          /\ \A i \in DOMAIN Ports :
                IF i < slot \/ (i = slot /\ phase = "close") THEN Gone(Ports[i])
                ELSE fdOf[Ports[i]] # NoFd

\* The store is closed at the start, at the end, and by every exit but one.
StoreInv ==
    /\ stage \in {"config", "clients", "ping", "store", "close"} => "store" \notin held
    /\ stage = "exited" /\ "store" \in held => code = 2

StageInv ==
    /\ stage \in Early \cup {"serve", "teardown", "stop", "killed"} \cup Running \cup Ending
    /\ slot \in DOMAIN Ports
    /\ SlotsInv /\ StoreInv

LatInv == lat \in [PortNames -> {"none", "test", "poll", "accept", "done"}]

PoolInv == Matched(files, fdOf) /\ StageInv /\ LatInv

-----------------------------------------------------------------------------
LEMMA LeastFd ==
    ASSUME NEW N \in SUBSET Nat, N # {}
    PROVE  \E n \in N : \A m \in N : n <= m
<1>1. PICK n \in N : \A m \in N : ~(<<m, n>> \in OpToRel(<, Nat))
  BY NatLessThanWellFounded, WFMin
<1>2. ASSUME NEW m \in N PROVE n <= m
  <2>1. m < n => <<m, n>> \in OpToRel(<, Nat)
    BY DEF OpToRel
  <2>2. ~(m < n)
    BY ONLY <1>1, <2>1, m \in N
  <2>. QED  BY <2>2
<1>. QED  BY <1>2

\* No port has two slots.
LEMMA PortsDiffer ==
    /\ DOMAIN Ports = 1..Len(Ports) /\ Len(Ports) \in Nat \ {0}
    /\ \A i \in DOMAIN Ports : Ports[i] \in PortNames
    /\ \A p \in PortNames : \E i \in DOMAIN Ports : p = Ports[i]
    /\ \A i, j \in DOMAIN Ports : Ports[i] = Ports[j] => i = j
<1>1. DOMAIN Ports = 1..Len(Ports) /\ Len(Ports) \in Nat \ {0}
  BY PoolAssumption
<1>2. Ports \in [1..Len(Ports) -> PortNames] /\ \A p \in PortNames : \E i \in 1..Len(Ports) : p = Ports[i]
  BY <1>1, PoolAssumption DEF PortNames
<1>3. Ports \in Surjection(1..Len(Ports), PortNames)
  BY <1>2 DEF Surjection
<1>4. IsFiniteSet(1..Len(Ports)) /\ Cardinality(1..Len(Ports)) = Len(Ports)
  BY <1>1, FS_Interval
<1>5. Cardinality(1..Len(Ports)) = Cardinality(PortNames)
  BY <1>4, PoolAssumption
<1>6. Ports \in Injection(1..Len(Ports), PortNames)
  BY <1>3, <1>4, <1>5, FS_SurjSameCardinalityImpliesInj
<1>7. \A i, j \in 1..Len(Ports) : Ports[i] = Ports[j] => i = j
  BY <1>6 DEF Injection, IsInjective
<1>. QED  BY <1>1, <1>2, <1>7

LEMMA LowestIsFree ==
    ASSUME Matched(files, fdOf), FreeFds # {}
    PROVE  LowestFree \in Fds /\ files[LowestFree] = "nobody"
<1>1. FreeFds \in SUBSET Nat /\ FreeFds \subseteq Fds
  BY PoolAssumption DEF Matched, FreeFds, Fds
<1>2. \E f \in FreeFds : \A g \in FreeFds : f <= g
  BY <1>1, LeastFd
<1>3. LowestFree \in FreeFds
  BY <1>2 DEF LowestFree
<1>. QED  BY <1>1, <1>3 DEF FreeFds

\* Somebody else is given a number that is free ...
LEMMA OthersOpen ==
    ASSUME Matched(files, fdOf), FreeFds # {}, NEW who \in {"others", "miner"}
    PROVE  Matched(Opened(who), fdOf)
<1>1. PICK f : f = LowestFree /\ f \in Fds /\ files[f] = "nobody"
  BY LowestIsFree
<1>2. who \notin PortNames /\ "nobody" \notin PortNames /\ who \in Owners
  BY PoolAssumption DEF Owners
<1>3. Opened(who) = [files EXCEPT ![f] = who] /\ files \in [Fds -> Owners \cup PortNames]
  BY <1>1 DEF Opened, Matched
<1>4. Matched([files EXCEPT ![f] = who], fdOf)
  BY <1>1, <1>2, <1>3 DEF Matched
<1>. QED  BY <1>3, <1>4

\* ... and gives back its own.
LEMMA OthersClose ==
    ASSUME Matched(files, fdOf), NEW f \in DOMAIN files, files[f] \in {"others", "miner"}
    PROVE  Matched(Closed(f), fdOf)
<1>1. f \in Fds /\ f # NoFd /\ files \in [Fds -> Owners \cup PortNames]
  BY PoolAssumption DEF Matched, Fds, NoFd
<1>2. files[f] \notin PortNames /\ "nobody" \notin PortNames /\ "nobody" \in Owners
  BY PoolAssumption DEF Owners
<1>3. Closed(f) = [files EXCEPT ![f] = "nobody"]
  BY <1>1 DEF Closed
<1>4. Matched([files EXCEPT ![f] = "nobody"], fdOf)
  BY <1>1, <1>2 DEF Matched
<1>. QED  BY <1>3, <1>4

\* A slot is given a number that is free ...
LEMMA SlotOpens ==
    ASSUME Matched(files, fdOf), FreeFds # {}, NEW p \in PortNames, fdOf[p] = NoFd
    PROVE  /\ Matched(Opened(p), [fdOf EXCEPT ![p] = LowestFree])
           /\ LowestFree # NoFd
<1>1. PICK f : f = LowestFree /\ f \in Fds /\ files[f] = "nobody"
  BY LowestIsFree
<1>2. "nobody" \notin PortNames /\ p \notin Owners /\ f # NoFd
  BY <1>1, PoolAssumption DEF Owners, Fds, NoFd
<1>3. Opened(p) = [files EXCEPT ![f] = p] /\ files \in [Fds -> Owners \cup PortNames]
      /\ fdOf \in [PortNames -> Fds \cup {NoFd}]
  BY <1>1 DEF Opened, Matched
<1>4. Matched([files EXCEPT ![f] = p], [fdOf EXCEPT ![p] = f])
  <2>1. [files EXCEPT ![f] = p] \in [Fds -> Owners \cup PortNames]
        /\ [fdOf EXCEPT ![p] = f] \in [PortNames -> Fds \cup {NoFd}]
    BY <1>1, <1>3
  <2>2. [files EXCEPT ![f] = p][0] = "stdin"
    BY <1>1, <1>3 DEF Matched
  <2>3. \A q \in PortNames : [fdOf EXCEPT ![p] = f][q] # NoFd =>
           [files EXCEPT ![f] = p][[fdOf EXCEPT ![p] = f][q]] = q
    BY <1>1, <1>2, <1>3 DEF Matched
  <2>4. \A g \in Fds : [files EXCEPT ![f] = p][g] \in PortNames =>
           [fdOf EXCEPT ![p] = f][[files EXCEPT ![f] = p][g]] = g
    <3>1. ASSUME NEW g \in Fds, g # f, files[g] \in PortNames
          PROVE  [fdOf EXCEPT ![p] = f][files[g]] = g
      <4>1. fdOf[files[g]] = g /\ g # NoFd
        BY <3>1, PoolAssumption DEF Matched, Fds, NoFd
      <4>2. files[g] # p
        BY <4>1
      <4>. QED  BY <1>3, <3>1, <4>1, <4>2
    <3>. QED  BY <1>1, <1>3, <3>1
  <2>. QED  BY <2>1, <2>2, <2>3, <2>4 DEF Matched
<1>. QED  BY <1>1, <1>2, <1>3, <1>4

\* ... and closed: the number is its own, or it has none.
LEMMA SlotCloses ==
    ASSUME Matched(files, fdOf), NEW p \in PortNames
    PROVE  Matched(Closed(fdOf[p]), [fdOf EXCEPT ![p] = NoFd])
<1>1. files \in [Fds -> Owners \cup PortNames] /\ fdOf \in [PortNames -> Fds \cup {NoFd}]
      /\ "nobody" \notin PortNames /\ "nobody" \in Owners /\ "stdin" \notin PortNames
  BY PoolAssumption DEF Matched, Owners
<1>2. CASE fdOf[p] = NoFd
  <2>1. Closed(fdOf[p]) = files /\ [fdOf EXCEPT ![p] = NoFd] = fdOf
    BY <1>1, <1>2 DEF Closed
  <2>. QED  BY <2>1
<1>3. CASE fdOf[p] # NoFd
  <2>1. PICK f \in Fds : f = fdOf[p] /\ files[f] = p /\ Closed(fdOf[p]) = [files EXCEPT ![f] = "nobody"]
    BY <1>1, <1>3 DEF Closed, Matched
  <2>2. [files EXCEPT ![f] = "nobody"] \in [Fds -> Owners \cup PortNames]
        /\ [fdOf EXCEPT ![p] = NoFd] \in [PortNames -> Fds \cup {NoFd}]
    BY <1>1, <2>1
  <2>3. [files EXCEPT ![f] = "nobody"][0] = "stdin"
    BY <1>1, <2>1 DEF Matched
  <2>4. \A q \in PortNames : [fdOf EXCEPT ![p] = NoFd][q] # NoFd =>
           [files EXCEPT ![f] = "nobody"][[fdOf EXCEPT ![p] = NoFd][q]] = q
    BY <1>1, <2>1 DEF Matched
  <2>5. \A g \in Fds : [files EXCEPT ![f] = "nobody"][g] \in PortNames =>
           [fdOf EXCEPT ![p] = NoFd][[files EXCEPT ![f] = "nobody"][g]] = g
    BY <1>1, <2>1 DEF Matched
  <2>. QED  BY <2>1, <2>2, <2>3, <2>4, <2>5 DEF Matched
<1>. QED  BY <1>2, <1>3

-----------------------------------------------------------------------------
LEMMA PoolInvInit == InitPool => PoolInv
<1>. SUFFICES ASSUME InitPool PROVE PoolInv
  OBVIOUS
<1>1. Matched(files, fdOf)
  BY PoolAssumption DEF InitPool, Matched, Fds, Owners, FreshSlots
<1>2. StageInv
  BY PortsDiffer DEF InitPool, StageInv, SlotsInv, StoreInv, Early, Running, Ending, Gone, Ended,
     FreshSlots, NoFd
<1>3. LatInv
  BY DEF InitPool, LatInv
<1>. QED  BY <1>1, <1>2, <1>3 DEF PoolInv

\* Stages before the server: nothing of its is touched.
LEMMA EarlyKeeps ==
    ASSUME PoolInv,
           \/ LoadConfig \/ MakeClients \/ Ping \/ OpenStore \/ RecordIdentity
           \/ OpenBroadcast \/ GetTemplate \/ BuildJob \/ CheckPoolAddress
    PROVE  PoolInv'
<1>1. /\ UNCHANGED <<slot, phase, fdOf, lat, files>>
      /\ stage \in Early /\ stage' \in Early \cup {"serve", "exited"}
  BY DEF LoadConfig, MakeClients, Ping, OpenStore, RecordIdentity, OpenBroadcast, GetTemplate,
     BuildJob, CheckPoolAddress, Proceed, Quit, serverVars, Early
<1>2. StoreInv'
  BY DEF LoadConfig, MakeClients, Ping, OpenStore, RecordIdentity, OpenBroadcast, GetTemplate,
     BuildJob, CheckPoolAddress, Proceed, Quit, PoolInv, StageInv, StoreInv
<1>3. slot = 1 /\ \A p \in PortNames : Gone(p)
  BY <1>1 DEF PoolInv, StageInv, SlotsInv
<1>4. \A p : Gone(p)' = Gone(p)
  BY <1>1 DEF Gone, Ended
<1>5. SlotsInv'
  BY <1>1, <1>3, <1>4, PortsDiffer DEF SlotsInv, Early, Running, Ending
<1>. QED  BY <1>1, <1>2, <1>5 DEF PoolInv, StageInv, LatInv, Early, Ending

\* A listener's step leaves the stage alone and no finished listener starts.
LEMMA ListenerKeeps ==
    ASSUME PoolInv, LatInv', \A p \in PortNames : Ended(p) => Ended(p)', Matched(files, fdOf)',
           UNCHANGED <<stage, held, code, slot, phase, fdOf>>
    PROVE  PoolInv'
<1>1. \A p \in PortNames : Gone(p) => Gone(p)'
  BY DEF Gone
<1>2. SlotsInv'
  BY <1>1, PortsDiffer DEF PoolInv, StageInv, SlotsInv, Port
<1>3. StoreInv'
  BY DEF PoolInv, StageInv, StoreInv
<1>. QED  BY <1>2, <1>3 DEF PoolInv, StageInv

LEMMA BindPortKeeps ==
    ASSUME PoolInv, BindPort PROVE PoolInv'
<1>1. /\ stage = "serve" /\ FreeFds # {} /\ slot \in DOMAIN Ports
      /\ Matched(files, fdOf) /\ Port \in PortNames /\ fdOf[Port] = NoFd
  BY PortsDiffer DEF BindPort, PoolInv, StageInv, SlotsInv, Port, Gone
<1>2. /\ Matched(files, fdOf)' /\ LowestFree # NoFd
      /\ fdOf' = [fdOf EXCEPT ![Port] = LowestFree]
      /\ fdOf \in [PortNames -> Fds \cup {NoFd}]
  BY <1>1, SlotOpens DEF BindPort, Matched
<1>3. LatInv' /\ \A p \in PortNames \ {Port} : lat'[p] = lat[p]
  BY <1>1 DEF BindPort, PoolInv, LatInv
<1>4. fdOf'[Port] # NoFd /\ \A p \in PortNames \ {Port} : fdOf'[p] = fdOf[p] /\ (Gone(p) => Gone(p)')
  BY <1>1, <1>2, <1>3 DEF Gone, Ended
<1>5. \A i \in DOMAIN Ports : i <= slot => fdOf'[Ports[i]] # NoFd
  BY <1>1, <1>4, PortsDiffer DEF PoolInv, StageInv, SlotsInv, Port
<1>6. \A i \in DOMAIN Ports : i > slot => Gone(Ports[i])'
  BY <1>1, <1>4, PortsDiffer DEF PoolInv, StageInv, SlotsInv, Port
<1>7. held' = held /\ code' = code
  BY DEF BindPort
<1>8. CASE slot = Len(Ports)
  <2>1. stage' = "first" /\ slot' = slot
    BY <1>8 DEF BindPort
  <2>2. \A p \in PortNames : fdOf'[p] # NoFd
    BY <1>5, <1>8, PortsDiffer
  <2>3. StageInv'
    BY <1>1, <2>1, <2>2 DEF StageInv, SlotsInv, StoreInv, Early, Running, Ending
  <2>. QED  BY <1>2, <1>3, <2>3 DEF PoolInv
<1>9. CASE slot # Len(Ports)
  <2>1. stage' = "serve" /\ slot' = slot + 1 /\ slot' \in DOMAIN Ports
    BY <1>1, <1>9, PortsDiffer DEF BindPort
  <2>2. \A i \in DOMAIN Ports : IF i < slot' THEN fdOf'[Ports[i]] # NoFd ELSE Gone(Ports[i])'
    BY <1>1, <1>5, <1>6, <2>1, PortsDiffer
  <2>3. StageInv'
    BY <2>1, <2>2 DEF StageInv, SlotsInv, StoreInv, Early, Running, Ending
  <2>. QED  BY <1>2, <1>3, <2>3 DEF PoolInv
<1>. QED  BY <1>8, <1>9

LEMMA BindFailsKeeps ==
    ASSUME PoolInv, BindFails PROVE PoolInv'
<1>1. /\ stage = "serve" /\ slot \in DOMAIN Ports /\ Matched(files, fdOf)
      /\ Port \in PortNames /\ fdOf[Port] = NoFd
  BY PortsDiffer DEF BindFails, PoolInv, StageInv, SlotsInv, Port, Gone
<1>2. stage' = "teardown" /\ slot' = 1 /\ phase' = "close" /\ UNCHANGED <<held, code, lat>>
  BY DEF BindFails
<1>3. Matched(files, fdOf)'
  BY <1>1, SlotOpens DEF BindFails
<1>4. StageInv'
  BY <1>2, PortsDiffer DEF StageInv, SlotsInv, StoreInv, Early, Running, Ending
<1>. QED  BY <1>2, <1>3, <1>4 DEF PoolInv, LatInv

\* The slots after a close of the one at hand.
LEMMA CloseSlot ==
    ASSUME PoolInv, slot \in DOMAIN Ports, files' = Closed(fdOf[Port]),
           fdOf' = [fdOf EXCEPT ![Port] = NoFd], lat' = lat
    PROVE  /\ Matched(files, fdOf)' /\ LatInv' /\ fdOf'[Port] = NoFd
           /\ \A i \in DOMAIN Ports : Gone(Ports[i]) => Gone(Ports[i])'
           /\ \A i \in DOMAIN Ports : i # slot => fdOf'[Ports[i]] = fdOf[Ports[i]]
<1>1. Port \in PortNames /\ Matched(files, fdOf)
  BY PortsDiffer DEF Port, PoolInv
<1>2. Matched(files, fdOf)'
  BY <1>1, SlotCloses
<1>3. fdOf \in [PortNames -> Fds \cup {NoFd}]
  BY <1>1 DEF Matched
<1>4. \A p \in PortNames : fdOf'[p] = IF p = Port THEN NoFd ELSE fdOf[p]
  BY <1>1, <1>3
<1>5. \A i \in DOMAIN Ports : Gone(Ports[i]) => Gone(Ports[i])'
  BY <1>4, PortsDiffer DEF Gone, Ended
<1>6. \A i \in DOMAIN Ports : i # slot => fdOf'[Ports[i]] = fdOf[Ports[i]]
  BY <1>4, PortsDiffer DEF Port
<1>. QED  BY <1>1, <1>2, <1>4, <1>5, <1>6 DEF PoolInv, LatInv

LEMMA TeardownKeeps ==
    ASSUME PoolInv, CloseThenJoin PROVE PoolInv'
<1>1. /\ stage = "teardown" /\ slot \in DOMAIN Ports /\ lat' = lat
      /\ \A i \in DOMAIN Ports : i < slot => Gone(Ports[i])
  BY DEF CloseThenJoin, PoolInv, StageInv, SlotsInv
<1>2. CASE phase = "close"
  <2>1. /\ phase' = "join" /\ files' = Closed(fdOf[Port]) /\ fdOf' = [fdOf EXCEPT ![Port] = NoFd]
        /\ UNCHANGED <<stage, held, code, slot>>
    BY <1>2 DEF CloseThenJoin
  <2>2. /\ Matched(files, fdOf)' /\ LatInv' /\ fdOf'[Port] = NoFd
        /\ \A i \in DOMAIN Ports : Gone(Ports[i]) => Gone(Ports[i])'
    BY <1>1, <2>1, CloseSlot
  <2>3. Port' = Port
    BY <2>1 DEF Port
  <2>4. StageInv'
    BY <1>1, <2>1, <2>2, <2>3 DEF StageInv, SlotsInv, StoreInv, Early, Running, Ending
  <2>. QED  BY <2>2, <2>4 DEF PoolInv
<1>3. CASE phase = "join"
  <2>1. /\ Ended(Port) /\ phase' = "close" /\ UNCHANGED <<files, fdOf>>
        /\ IF slot < Len(Ports) THEN slot' = slot + 1 /\ UNCHANGED <<stage, held, code>>
           ELSE /\ stage' = "exited" /\ code' = 7
                /\ held' = held \ {"job", "template", "store", "clients"}
                /\ UNCHANGED slot
    BY <1>3 DEF CloseThenJoin
  <2>2. Gone(Port) /\ \A p : Gone(p)' = Gone(p)
    BY <1>1, <1>3, <2>1 DEF Gone, Ended, PoolInv, StageInv, SlotsInv
  <2>3. \A i \in DOMAIN Ports : i <= slot => Gone(Ports[i])
    BY <1>1, <2>2, PortsDiffer DEF Port
  <2>4. CASE slot < Len(Ports)
    <3>1. slot' = slot + 1 /\ slot' \in DOMAIN Ports /\ UNCHANGED <<stage, held, code>>
      BY <1>1, <2>1, <2>4, PortsDiffer
    <3>2. \A i \in DOMAIN Ports : i < slot' => Gone(Ports[i])'
      BY <1>1, <2>2, <2>3, <3>1, PortsDiffer
    <3>3. StageInv'
      BY <1>1, <2>1, <3>1, <3>2 DEF StageInv, SlotsInv, StoreInv, Early, Running, Ending
    <3>. QED  BY <1>1, <2>1, <3>3 DEF PoolInv, LatInv
  <2>5. CASE ~(slot < Len(Ports))
    <3>1. stage' = "exited" /\ "store" \notin held' /\ slot' = slot
      BY <2>1, <2>5
    <3>2. \A p \in PortNames : Gone(p)'
      BY <1>1, <2>2, <2>3, <2>5, PortsDiffer
    <3>3. StageInv'
      BY <1>1, <3>1, <3>2 DEF StageInv, SlotsInv, StoreInv, Early, Running, Ending
    <3>. QED  BY <1>1, <2>1, <3>3 DEF PoolInv, LatInv
  <2>. QED  BY <2>4, <2>5
<1>. QED  BY <1>1, <1>2, <1>3 DEF PoolInv, StageInv, SlotsInv

LEMMA StopKeeps ==
    ASSUME PoolInv, StopSlot PROVE PoolInv'
<1>1. /\ stage = "stop" /\ slot \in DOMAIN Ports /\ UNCHANGED <<lat, held, code>>
      /\ phase \in {"shut", "join", "close"}
      /\ \A i \in DOMAIN Ports :
            IF i < slot \/ (i = slot /\ phase = "close") THEN Gone(Ports[i])
            ELSE fdOf[Ports[i]] # NoFd
  BY DEF StopSlot, PoolInv, StageInv, SlotsInv
<1>2. CASE phase = "shut"
  <2>1. phase' = "join" /\ UNCHANGED <<files, fdOf, stage, slot>>
    BY <1>2 DEF StopSlot, StopsWith
  <2>2. \A p : Gone(p)' = Gone(p)
    BY <1>1, <2>1 DEF Gone, Ended
  <2>3. StageInv'
    BY <1>1, <1>2, <2>1, <2>2 DEF StageInv, SlotsInv, StoreInv, Early, Running, Ending
  <2>. QED  BY <1>1, <2>1, <2>3 DEF PoolInv, LatInv
<1>3. CASE phase = "join"
  <2>1. /\ phase' = "close" /\ files' = Closed(fdOf[Port]) /\ fdOf' = [fdOf EXCEPT ![Port] = NoFd]
        /\ UNCHANGED <<stage, slot>> /\ Ended(Port)
    BY <1>3 DEF StopSlot, StopsWith
  <2>2. /\ Matched(files, fdOf)' /\ LatInv' /\ fdOf'[Port] = NoFd
        /\ \A i \in DOMAIN Ports : Gone(Ports[i]) => Gone(Ports[i])'
        /\ \A i \in DOMAIN Ports : i # slot => fdOf'[Ports[i]] = fdOf[Ports[i]]
    BY <1>1, <2>1, CloseSlot
  <2>3. \A i \in DOMAIN Ports : i = slot => Gone(Ports[i])'
    BY <1>1, <2>1, <2>2 DEF Gone, Ended, Port
  <2>4. \A i \in DOMAIN Ports : IF i <= slot THEN Gone(Ports[i])' ELSE fdOf'[Ports[i]] # NoFd
    <3>1. ASSUME NEW i \in DOMAIN Ports
          PROVE  IF i <= slot THEN Gone(Ports[i])' ELSE fdOf'[Ports[i]] # NoFd
      <4>1. i < slot \/ i = slot \/ ~(i <= slot)
        BY <1>1, PortsDiffer
      <4>2. CASE i < slot
        BY <1>1, <2>2, <4>2, PortsDiffer
      <4>3. CASE i = slot
        BY <1>1, <2>3, <4>3, PortsDiffer
      <4>4. CASE ~(i <= slot)
        BY <1>1, <1>3, <2>2, <4>4, PortsDiffer
      <4>. QED  BY <4>1, <4>2, <4>3, <4>4
    <3>. QED  BY <3>1
  <2>5. \A i \in DOMAIN Ports : IF i < slot' \/ (i = slot' /\ phase' = "close") THEN Gone(Ports[i])'
                                ELSE fdOf'[Ports[i]] # NoFd
    BY <1>1, <2>1, <2>4, PortsDiffer
  <2>6. StageInv'
    BY <1>1, <2>1, <2>5 DEF StageInv, SlotsInv, StoreInv, Early, Running, Ending
  <2>. QED  BY <2>2, <2>6 DEF PoolInv
<1>4. CASE phase = "close"
  <2>1. NextSlot /\ UNCHANGED <<fdOf, files>>
    BY <1>4 DEF StopSlot
  <2>2. \A p : Gone(p)' = Gone(p)
    BY <1>1, <2>1 DEF Gone, Ended
  <2>3. \A i \in DOMAIN Ports : IF i <= slot THEN Gone(Ports[i]) ELSE fdOf[Ports[i]] # NoFd
    BY <1>1, <1>4, PortsDiffer
  <2>4. CASE slot < Len(Ports)
    <3>1. slot' = slot + 1 /\ slot' \in DOMAIN Ports /\ phase' = "shut" /\ stage' = stage
      BY <1>1, <2>1, <2>4, PortsDiffer DEF NextSlot
    <3>2. \A i \in DOMAIN Ports : IF i < slot' \/ (i = slot' /\ phase' = "close") THEN Gone(Ports[i])'
                                  ELSE fdOf'[Ports[i]] # NoFd
      BY <1>1, <2>1, <2>2, <2>3, <3>1, PortsDiffer
    <3>3. StageInv'
      BY <1>1, <3>1, <3>2 DEF StageInv, SlotsInv, StoreInv, Early, Running, Ending
    <3>. QED  BY <1>1, <2>1, <3>3 DEF PoolInv, LatInv
  <2>5. CASE ~(slot < Len(Ports))
    <3>1. stage' = "free" /\ slot' = slot
      BY <2>1, <2>5 DEF NextSlot
    <3>2. \A p \in PortNames : Gone(p)'
      BY <1>1, <2>2, <2>3, <2>5, PortsDiffer
    <3>3. StageInv'
      BY <1>1, <3>1, <3>2 DEF StageInv, SlotsInv, StoreInv, Early, Running, Ending
    <3>. QED  BY <1>1, <2>1, <3>3 DEF PoolInv, LatInv
  <2>. QED  BY <2>4, <2>5
<1>. QED  BY <1>1, <1>2, <1>3, <1>4

\* main from the first job on, without the server's stop.
LEMMA MainKeeps ==
    ASSUME PoolInv,
           \/ FirstJob \/ StartWatcher \/ Signal \/ WatcherEnds \/ Shutdown
           \/ FreeServer \/ CloseStore \/ CloseRest
    PROVE  PoolInv'
<1>1. UNCHANGED <<fdOf, lat, files>>
  BY DEF FirstJob, StartWatcher, Signal, WatcherEnds, Shutdown, FreeServer, CloseStore, CloseRest,
     Release, serverVars
<1>2. \A p : Gone(p)' = Gone(p)
  BY <1>1 DEF Gone, Ended
<1>3. StageInv /\ SlotsInv /\ StoreInv
  BY DEF PoolInv, StageInv
<1>4. CASE FirstJob \/ StartWatcher \/ FreeServer \/ CloseStore \/ CloseRest
  <2>1. /\ UNCHANGED <<slot, phase>>
        /\ \/ stage \in Running /\ stage' \in {"signals", "up"}
           \/ stage \in Ending /\ stage' \in {"flush", "close", "exited"}
    BY <1>4 DEF FirstJob, StartWatcher, FreeServer, CloseStore, CloseRest, Release, serverVars,
       Running, Ending
  <2>2. StoreInv'
    BY <1>3, <1>4 DEF FirstJob, StartWatcher, FreeServer, CloseStore, CloseRest, Release, StoreInv
  <2>3. SlotsInv'
    BY <1>1, <1>2, <1>3, <2>1 DEF SlotsInv, Early, Running, Ending
  <2>4. StageInv'
    BY <1>3, <2>1, <2>2, <2>3 DEF StageInv, Running, Ending
  <2>. QED  BY <1>1, <2>4 DEF PoolInv, LatInv
<1>5. CASE Signal
  <2>1. UNCHANGED <<slot, phase, held, code>> /\ (stage' = "killed" \/ stage' = stage)
    BY <1>5 DEF Signal, serverVars
  <2>2. StoreInv' /\ SlotsInv'
    <3>1. CASE stage' = "killed"
      BY <3>1 DEF StoreInv, SlotsInv, Early, Running, Ending
    <3>2. CASE stage' = stage
      <4>1. Port' = Port
        BY <2>1 DEF Port
      <4>. QED  BY <1>1, <1>2, <1>3, <2>1, <3>2, <4>1 DEF StoreInv, SlotsInv
    <3>. QED  BY <2>1, <3>1, <3>2
  <2>3. StageInv'
    BY <1>3, <2>1, <2>2 DEF StageInv
  <2>. QED  BY <1>1, <2>3 DEF PoolInv, LatInv
<1>6. CASE WatcherEnds
  <2>1. UNCHANGED <<slot, phase, held, code, stage>> /\ stage = "up"
    BY <1>6 DEF WatcherEnds, serverVars
  <2>2. StoreInv' /\ SlotsInv'
    BY <1>1, <1>3, <2>1 DEF StoreInv, SlotsInv, Early, Running, Ending
  <2>3. StageInv'
    BY <1>3, <2>1, <2>2 DEF StageInv
  <2>. QED  BY <1>1, <2>3 DEF PoolInv, LatInv
<1>7. CASE Shutdown
  <2>1. stage = "up" /\ stage' = "stop" /\ slot' = 1 /\ phase' = "shut" /\ UNCHANGED <<held, code>>
    BY <1>7 DEF Shutdown
  <2>2. \A i \in DOMAIN Ports : i >= 1 /\ fdOf'[Ports[i]] # NoFd
    BY <1>1, <1>3, <2>1, PortsDiffer DEF SlotsInv, Running
  <2>3. StageInv'
    BY <2>1, <2>2, PortsDiffer DEF StageInv, StoreInv, SlotsInv, Early, Running, Ending
  <2>. QED  BY <1>1, <2>3 DEF PoolInv, LatInv
<1>. QED  BY <1>4, <1>5, <1>6, <1>7

LEMMA PoolInvStep == PoolInv /\ [NextPool]_poolVars => PoolInv'
<1>. SUFFICES ASSUME PoolInv, [NextPool]_poolVars PROVE PoolInv'
  OBVIOUS
<1>0. Matched(files, fdOf) /\ LatInv
  BY DEF PoolInv
<1>1. CASE \/ LoadConfig \/ MakeClients \/ Ping \/ OpenStore \/ RecordIdentity
           \/ OpenBroadcast \/ GetTemplate \/ BuildJob \/ CheckPoolAddress
  BY <1>1, EarlyKeeps
<1>2. CASE BindPort \/ BindFails \/ CloseThenJoin
  BY <1>2, BindPortKeeps, BindFailsKeeps, TeardownKeeps
<1>3. ASSUME NEW p \in PortNames,
             ListenerTests(p) \/ ListenerPolls(p) \/ ListenerAccepts(p) \/ AcceptFails(p)
      PROVE  PoolInv'
  <2>1. /\ lat[p] \in {"test", "poll", "accept"}
        /\ \E l \in {"test", "poll", "accept", "done"} : lat' = [lat EXCEPT ![p] = l]
        /\ UNCHANGED <<stage, held, code, slot, phase, fdOf>>
    BY <1>3 DEF ListenerTests, ListenerPolls, ListenerAccepts, AcceptFails
  <2>2. files' = files \/ (FreeFds # {} /\ files' = Opened("miner"))
    BY <1>3 DEF ListenerTests, ListenerPolls, ListenerAccepts, AcceptFails
  <2>3. Matched(files, fdOf)'
    BY <1>0, <2>1, <2>2, OthersOpen
  <2>4. LatInv' /\ \A q \in PortNames : Ended(q) => Ended(q)'
    BY <1>0, <2>1 DEF LatInv, Ended
  <2>. QED  BY <2>1, <2>3, <2>4, ListenerKeeps
<1>4. CASE MinerLeaves \/ OthersOpenOrClose
  <2>1. UNCHANGED <<stage, held, code, slot, phase, fdOf, lat>>
    BY <1>4 DEF MinerLeaves, OthersOpenOrClose
  <2>2. \/ FreeFds # {} /\ files' = Opened("others")
        \/ \E f \in DOMAIN files : files[f] \in {"others", "miner"} /\ files' = Closed(f)
    BY <1>4 DEF MinerLeaves, OthersOpenOrClose
  <2>3. Matched(files, fdOf)'
    BY <1>0, <2>1, <2>2, OthersOpen, OthersClose
  <2>4. LatInv' /\ \A q \in PortNames : Ended(q) => Ended(q)'
    BY <1>0, <2>1 DEF LatInv, Ended
  <2>. QED  BY <2>1, <2>3, <2>4, ListenerKeeps
<1>5. CASE \/ FirstJob \/ StartWatcher \/ Signal \/ WatcherEnds \/ Shutdown
           \/ FreeServer \/ CloseStore \/ CloseRest
  BY <1>5, MainKeeps
<1>6. CASE StopSlot
  BY <1>6, StopKeeps
<1>7. CASE UNCHANGED poolVars
  <2>1. UNCHANGED <<stage, held, code, slot, phase, fdOf, lat, files>>
    BY <1>7 DEF poolVars
  <2>2. LatInv' /\ Matched(files, fdOf)' /\ \A q \in PortNames : Ended(q) => Ended(q)'
    BY <1>0, <2>1 DEF LatInv, Ended
  <2>. QED  BY <2>1, <2>2, ListenerKeeps
<1>. QED  BY <1>1, <1>2, <1>3, <1>4, <1>5, <1>6, <1>7 DEF NextPool

\* Stop, failed start and every error exit of main close what the server
\* opened, nothing of anybody else's and nothing a listener still uses, for
\* any number of ports, any table of descriptors and any failure and signal
\* (main.c; stratum_server_start and _stop).
THEOREM EndsInOrder == PoolSpec => []OrderlyEnd
<1>1. PoolInv => OwnDescriptors
  <2>. SUFFICES ASSUME PoolInv PROVE OwnDescriptors
    OBVIOUS
  <2>1. files[0] = "stdin"
    BY DEF PoolInv, Matched
  <2>2. ASSUME NEW p \in PortNames, Alive, ~Ended(p), stage # "teardown"
        PROVE  fdOf[p] # NoFd /\ files[fdOf[p]] = p
    <3>1. PICK i \in DOMAIN Ports : p = Ports[i]
      BY PortsDiffer
    <3>2. fdOf[p] # NoFd
      BY <2>2, <3>1 DEF PoolInv, StageInv, SlotsInv, Gone, Alive, Early, Running, Ending
    <3>. QED  BY <3>2 DEF PoolInv, Matched
  <2>. QED  BY <2>1, <2>2 DEF OwnDescriptors
<1>2. PoolInv => NothingLeft
  <2>. SUFFICES ASSUME PoolInv, stage = "exited" PROVE NothingLeft
    BY DEF NothingLeft
  <2>1. \A p \in PortNames : Gone(p)
    BY DEF PoolInv, StageInv, SlotsInv, Ending
  <2>2. ASSUME NEW p \in PortNames, NEW f \in DOMAIN files PROVE files[f] # p
    <3>1. f \in Fds /\ f # NoFd
      BY PoolAssumption DEF PoolInv, Matched, Fds, NoFd
    <3>. QED  BY <2>1, <3>1 DEF PoolInv, Matched, Gone
  <2>. QED  BY <2>1, <2>2 DEF NothingLeft, Gone, PoolInv, StageInv, StoreInv
<1>. QED  BY <1>1, <1>2, PoolInvInit, PoolInvStep, PTL DEF PoolSpec, OrderlyEnd

-----------------------------------------------------------------------------
(* The worker ids. *)

Database == [ids : [Names -> Nat], last : Nat,
             shares : SUBSET [of : Names, id : Nat]]

IdType ==
    /\ disk \in Database /\ view \in Database
    /\ inTx \in BOOLEAN /\ undone \in BOOLEAN /\ refused \in BOOLEAN
    /\ cache \in [0..CacheSlots - 1 -> [name : Names \cup {NoName}, id : Nat]]
    /\ ipc \in {"idle", "begin", "upsert", "insert", "commit"}
    /\ events \in Seq(Names) /\ nth \in Nat /\ wid \in Nat
    /\ ipc # "idle" => events # <<>>
    /\ ipc \in {"upsert", "insert"} => nth \in 1..Len(events)

\* Every share stands under its worker, who is on record.
Sound(d) == \A s \in d.shares : s.id # NoId /\ d.ids[s.of] = s.id

\* Outside a transaction the writer sees what is committed.
TxInv ==
    /\ ~inTx => view = disk
    /\ ipc \in {"idle", "begin"} => ~inTx

\* What the cache holds is what the database has.
CacheInv ==
    \A i \in 0..CacheSlots - 1 :
        IF cache[i].name = NoName THEN cache[i].id = NoId
        ELSE cache[i].id # NoId /\ cache[i].id = view.ids[cache[i].name]

\* The id in hand is the worker's own.
IdInHand ==
    ipc = "insert" => wid # NoId /\ wid = view.ids[events[nth]]

IdInv ==
    /\ IdType
    /\ TxInv
    /\ ~undone => CacheInv
    /\ ~(undone /\ refused) => Sound(disk) /\ Sound(view) /\ IdInHand

-----------------------------------------------------------------------------
\* A lookup finds nothing, or the id in some slot that is unused or has the
\* name.
LEMMA LookupFinds ==
    ASSUME NEW n \in Names, IdType
    PROVE  \/ CacheLookup(n) = NoId
           \/ \E i \in 0..CacheSlots - 1 :
                 cache[i].name \in {NoName, n} /\ CacheLookup(n) = cache[i].id
<1>1. CASE SlotOfName(n) = {}
  BY <1>1 DEF CacheLookup
<1>2. CASE SlotOfName(n) # {}
  <2> DEFINE i == CHOOSE j \in SlotOfName(n) : TRUE
  <2>1. i \in SlotOfName(n)
    BY <1>2
  <2>2. PICK j \in 0..CacheSlots - 1 : i = Slot(n, j) /\ ProbeEnds(n, j)
    BY <2>1 DEF SlotOfName
  <2>3. Slot(n, j) \in 0..CacheSlots - 1
    <3>1. NameHash[n] + j \in Nat
      BY WorkerIdsAssumption
    <3>2. CacheSlots \in Nat \ {0}
      BY WorkerIdsAssumption
    <3> QED
      BY <3>1, <3>2 DEF Slot
  <2>4. cache[Slot(n, j)].name \in {NoName, n}
    BY <2>2 DEF ProbeEnds
  <2>5. CacheLookup(n) = cache[i].id
    BY <1>2 DEF CacheLookup
  <2> QED
    BY <2>2, <2>3, <2>4, <2>5
<1> QED
  BY <1>1, <1>2

\* A lookup in a right cache finds nothing or the right id.
LEMMA LookupIsRight ==
    ASSUME NEW n \in Names, IdType, CacheInv
    PROVE  CacheLookup(n) = NoId \/ CacheLookup(n) = view.ids[n]
BY LookupFinds DEF CacheInv

\* A lookup (cache_lookup) yields an id, 0 if there is none.
LEMMA LookupType ==
    ASSUME NEW n \in Names, IdType
    PROVE  CacheLookup(n) \in Nat
BY LookupFinds DEF IdType, NoId

\* An upsert keeps what there is and gives a new worker an id.
LEMMA UpsertedType ==
    ASSUME NEW n \in Names, IdType
    PROVE  /\ Upserted(n) \in Database
           /\ Upserted(n).ids[n] # NoId
           /\ Upserted(n).shares = view.shares
           /\ \A m \in Names : view.ids[m] # NoId => Upserted(n).ids[m] = view.ids[m]
<1>1. CASE view.ids[n] # NoId
  BY <1>1 DEF Upserted, IdType
<1>2. CASE view.ids[n] = NoId
  <2> DEFINE id == view.last + 1
             ids == [view.ids EXCEPT ![n] = id]
  <2>1. Upserted(n) = [ids |-> ids, last |-> id, shares |-> view.shares]
    BY <1>2 DEF Upserted
  <2>2. id \in Nat /\ id # NoId
    BY DEF IdType, Database, NoId
  <2>3. view.ids \in [Names -> Nat] /\ view.shares \in SUBSET [of : Names, id : Nat]
    BY DEF IdType, Database
  <2>4. /\ ids \in [Names -> Nat] /\ ids[n] = id
        /\ \A m \in Names : m # n => ids[m] = view.ids[m]
    BY <2>2, <2>3
  <2> HIDE DEF id, ids
  <2> QED
    BY <1>2, <2>1, <2>2, <2>3, <2>4 DEF Database
<1> QED
  BY <1>1, <1>2

\* An upsert takes no share from its worker.
LEMMA UpsertedSound ==
    ASSUME NEW n \in Names, IdType, Sound(view)
    PROVE  Sound(Upserted(n))
<1>1. \A s \in view.shares : s.of \in Names
  BY DEF IdType, Database
<1>2. \A s \in view.shares : view.ids[s.of] = s.id /\ s.id # NoId
  BY DEF Sound
<1> QED
  BY <1>1, <1>2, UpsertedType DEF Sound

-----------------------------------------------------------------------------
\* The invariant holds of a new store: nothing written, nothing cached.
LEMMA InitIdInv == InitIds => IdInv
<1> SUFFICES ASSUME InitIds
             PROVE  IdInv
  OBVIOUS
<1> USE DEF InitIds
<1>1. disk \in Database
  BY DEF Database, NoId
<1>2. cache \in [0..CacheSlots - 1 -> [name : Names \cup {NoName}, id : Nat]]
  BY DEF EmptySlot, NoId
<1>3. IdType
  <2>1. events \in Seq(Names) /\ nth \in Nat /\ wid \in Nat
    BY DEF NoId
  <2>2. inTx \in BOOLEAN /\ undone \in BOOLEAN /\ refused \in BOOLEAN
    OBVIOUS
  <2>3. ipc = "idle" /\ view = disk
    OBVIOUS
  <2> QED
    BY ONLY <1>1, <1>2, <2>1, <2>2, <2>3 DEF IdType
<1>4. TxInv
  BY DEF TxInv
<1>5. CacheInv
  BY DEF CacheInv, EmptySlot
<1>6. Sound(disk) /\ Sound(view) /\ IdInHand
  BY DEF Sound, IdInHand
<1> QED
  BY <1>3, <1>4, <1>5, <1>6 DEF IdInv

\* Steps that leave database, cache and id alone.
LEMMA QuietStep ==
    ASSUME IdInv, IdType', TxInv', ipc' # "insert",
           UNCHANGED <<disk, view, cache, undone, refused>>
    PROVE  IdInv'
<1>1. ~undone' => CacheInv'
  BY DEF IdInv, CacheInv
<1>2. ~(undone' /\ refused') => Sound(disk)' /\ Sound(view)' /\ IdInHand'
  BY DEF IdInv, Sound, IdInHand
<1> QED
  BY <1>1, <1>2 DEF IdInv

\* A failed statement leaves the database alone, or takes the writer's view
\* back to what is committed.
LEMMA NothingWritten ==
    ASSUME IdInv, WritesNothing, refused \in BOOLEAN
    PROVE  /\ disk' \in Database /\ view' \in Database
           /\ inTx' \in BOOLEAN /\ undone' \in BOOLEAN
           /\ ~inTx' => view' = disk'
           /\ ~undone' => ~undone /\ UNCHANGED view
           /\ disk' = disk /\ view' \in {view, disk}
<1>1. CASE UNCHANGED <<disk, view, inTx, undone>>
  BY <1>1 DEF IdInv, IdType, TxInv
<1>2. CASE inTx /\ inTx' = FALSE /\ undone' = TRUE /\ view' = disk /\ UNCHANGED disk
  BY <1>2 DEF IdInv, IdType
<1> QED
  BY <1>1, <1>2 DEF WritesNothing

\* The next event is one of the batch.
LEMMA NextEventType ==
    ASSUME IdType, ipc \in {"upsert", "insert"}, NextEvent
    PROVE  /\ nth' \in Nat
           /\ ipc' \in {"upsert", "commit"}
           /\ ipc' = "upsert" => nth' \in 1..Len(events)
<1>1. Len(events) \in Nat /\ nth \in 1..Len(events)
  BY DEF IdType
<1> QED
  BY <1>1 DEF NextEvent

\* Taking a batch (writer_main) keeps the invariant: batches are not empty.
LEMMA TakeEventsKeeps == IdInv /\ TakeEvents => IdInv'
<1> SUFFICES ASSUME IdInv, TakeEvents
             PROVE  IdInv'
  OBVIOUS
<1>1. events' \in Seq(Names) /\ events' # <<>>
  BY WorkerIdsAssumption DEF TakeEvents
<1>2. IdType'
  BY <1>1 DEF IdInv, IdType, TakeEvents
<1>3. TxInv'
  BY DEF IdInv, TxInv, TakeEvents
<1> QED
  BY <1>2, <1>3, QuietStep DEF TakeEvents

\* BEGIN, or its failure, keeps the invariant.
LEMMA BeginKeeps == IdInv /\ (BeginBatch \/ BeginBatchFails) => IdInv'
<1>1. ASSUME IdInv, BeginBatch
      PROVE  IdInv'
  <2>1. Len(events) \in Nat /\ Len(events) # 0
    BY <1>1 DEF IdInv, IdType, BeginBatch
  <2>2. IdType'
    BY <1>1, <2>1 DEF IdInv, IdType, BeginBatch
  <2>3. TxInv'
    BY <1>1 DEF TxInv, BeginBatch
  <2> QED
    BY <1>1, <2>2, <2>3, QuietStep DEF BeginBatch
<1>2. ASSUME IdInv, BeginBatchFails
      PROVE  IdInv'
  <2>1. ipc' \in {"begin", "idle"}
    BY <1>2 DEF BeginBatchFails, TryAgain
  <2>2. IdType'
    BY <1>2, <2>1 DEF IdInv, IdType, BeginBatchFails
  <2>3. TxInv'
    BY <1>2, <2>1 DEF IdInv, TxInv, BeginBatchFails
  <2> QED
    BY <1>2, <2>1, <2>2, <2>3, QuietStep DEF BeginBatchFails
<1> QED
  BY <1>1, <1>2

\* An upsert keeps the invariant: the id in hand is the one it returned, and
\* what it adds to the cache is what it wrote.
LEMMA UpsertKeeps == IdInv /\ Upsert => IdInv'
<1> SUFFICES ASSUME IdInv, Upsert
             PROVE  IdInv'
  OBVIOUS
<1> DEFINE n == events[nth]
           up == Upserted(n)
<1>1. IdType /\ TxInv
  BY DEF IdInv
<1>2. n \in Names
  BY <1>1 DEF IdType, Upsert
<1>3. /\ up \in Database /\ up.ids[n] # NoId /\ up.shares = view.shares
      /\ \A m \in Names : view.ids[m] # NoId => up.ids[m] = view.ids[m]
  BY <1>1, <1>2, UpsertedType
<1>4. /\ view' = up /\ disk' = (IF inTx THEN disk ELSE up)
      /\ wid' = up.ids[n] /\ ipc' = "insert"
      /\ UNCHANGED <<inTx, undone, refused, events, nth>>
      /\ cache' = (IF CacheLookup(n) = NoId THEN CacheInsert(n, wid') ELSE cache)
  BY DEF Upsert, Writes, Resolved
<1>5. wid' \in Nat
  BY <1>2, <1>3, <1>4 DEF Database
<1>6. \A i \in 0..CacheSlots - 1 :
         cache'[i] = cache[i] \/ cache'[i] = [name |-> n, id |-> wid']
  BY <1>1, <1>4 DEF CacheInsert, IdType
<1>7. cache' \in [0..CacheSlots - 1 -> [name : Names \cup {NoName}, id : Nat]]
  <2>1. [name |-> n, id |-> wid'] \in [name : Names \cup {NoName}, id : Nat]
    BY <1>2, <1>5
  <2>2. CASE CacheLookup(n) = NoId
    BY <1>1, <1>4, <2>1, <2>2 DEF CacheInsert, IdType
  <2>3. CASE CacheLookup(n) # NoId
    BY <1>1, <1>4, <2>3 DEF IdType
  <2> QED
    BY <2>2, <2>3
<1>8. disk' \in Database /\ view' \in Database
  BY <1>1, <1>3, <1>4 DEF IdType
<1>9. ipc = "upsert"
  BY DEF Upsert
<1>10. IdType'
  BY <1>1, <1>4, <1>5, <1>7, <1>8, <1>9 DEF IdType
<1>11. TxInv'
  BY <1>1, <1>4, <1>9 DEF TxInv
<1>12. ASSUME ~undone'
       PROVE  CacheInv'
  <2>1. CacheInv
    BY <1>4, <1>12 DEF IdInv
  <2> SUFFICES ASSUME NEW i \in 0..CacheSlots - 1
               PROVE  (IF cache[i].name = NoName THEN cache[i].id = NoId
                       ELSE cache[i].id # NoId /\ cache[i].id = view.ids[cache[i].name])'
    BY DEF CacheInv
  <2>2. CASE cache'[i] = cache[i]
    <3>1. cache[i].name \in Names \cup {NoName}
      BY <1>1 DEF IdType
    <3>2. IF cache[i].name = NoName THEN cache[i].id = NoId
          ELSE cache[i].id # NoId /\ cache[i].id = view.ids[cache[i].name]
      BY <2>1 DEF CacheInv
    <3> QED
      BY <1>3, <1>4, <2>2, <3>1, <3>2
  <2>3. CASE cache'[i] = [name |-> n, id |-> wid']
    <3>1. n # NoName
      BY <1>2, WorkerIdsAssumption
    <3> QED
      BY <1>3, <1>4, <2>3, <3>1
  <2> QED
    BY <1>6, <2>2, <2>3
<1>13. ASSUME ~(undone' /\ refused')
       PROVE  Sound(disk)' /\ Sound(view)' /\ IdInHand'
  <2>1. Sound(disk) /\ Sound(view)
    BY <1>4, <1>13 DEF IdInv
  <2>2. Sound(up)
    BY <1>1, <1>2, <2>1, UpsertedSound
  <2>3. Sound(disk)' /\ Sound(view)'
    BY <1>4, <2>1, <2>2 DEF Sound
  <2>4. IdInHand'
    BY <1>3, <1>4 DEF IdInHand
  <2> QED
    BY <2>3, <2>4
<1> QED
  BY <1>10, <1>11, <1>12, <1>13 DEF IdInv

\* A failed upsert keeps it: the cached id is right unless something was
\* rolled back.
LEMMA UpsertFailsKeeps == IdInv /\ UpsertFails => IdInv'
<1> SUFFICES ASSUME IdInv, UpsertFails
             PROVE  IdInv'
  OBVIOUS
<1> DEFINE n == events[nth]
<1>1. IdType /\ TxInv
  BY DEF IdInv
<1>2. n \in Names /\ ipc = "upsert" /\ nth \in 1..Len(events)
  BY <1>1 DEF IdType, UpsertFails
<1>3. /\ disk' \in Database /\ view' \in Database
      /\ inTx' \in BOOLEAN /\ undone' \in BOOLEAN
      /\ ~inTx' => view' = disk'
      /\ ~undone' => ~undone /\ UNCHANGED view
      /\ disk' = disk /\ view' \in {view, disk}
  BY <1>1, NothingWritten DEF UpsertFails, IdType
<1>4. /\ refused' = TRUE /\ wid' = CacheLookup(n)
      /\ UNCHANGED <<cache, events>>
  BY DEF UpsertFails
<1>5. wid' \in Nat
  BY <1>1, <1>2, <1>4, LookupType
<1>6. \/ wid' # NoId /\ ipc' = "insert" /\ nth' = nth
      \/ wid' = NoId /\ NextEvent
  BY DEF UpsertFails
<1>7. /\ nth' \in Nat /\ ipc' \in {"upsert", "insert", "commit"}
      /\ ipc' \in {"upsert", "insert"} => nth' \in 1..Len(events)
  BY <1>1, <1>2, <1>6, NextEventType DEF IdType
<1>8. IdType'
  BY <1>1, <1>2, <1>3, <1>4, <1>5, <1>7 DEF IdType
<1>9. TxInv'
  BY <1>3, <1>7 DEF TxInv
<1>10. ~undone' => CacheInv'
  BY <1>3, <1>4 DEF IdInv, CacheInv
<1>11. ASSUME ~(undone' /\ refused')
       PROVE  Sound(disk)' /\ Sound(view)' /\ IdInHand'
  <2>1. ~undone' /\ ~undone /\ view' = view
    BY <1>3, <1>4, <1>11
  <2>2. Sound(disk) /\ Sound(view) /\ CacheInv
    BY <2>1 DEF IdInv
  <2>3. Sound(disk)' /\ Sound(view)'
    BY <1>3, <2>1, <2>2 DEF Sound
  <2>4. IdInHand'
    <3>1. ASSUME ipc' = "insert"
          PROVE  wid' # NoId /\ nth' = nth
      BY <1>6, <3>1 DEF NextEvent
    <3>2. wid' = NoId \/ wid' = view.ids[n]
      BY <1>1, <1>2, <1>4, <2>2, LookupIsRight
    <3> QED
      BY <1>4, <2>1, <3>1, <3>2 DEF IdInHand
  <2> QED
    BY <2>3, <2>4
<1> QED
  BY <1>8, <1>9, <1>10, <1>11 DEF IdInv

\* A share of the worker whose id it has is right with the rest.
LEMMA ShareAdded ==
    ASSUME NEW v \in Database, NEW n \in Names, NEW id \in Nat,
           NEW w, w = [v EXCEPT !.shares = @ \cup {[of |-> n, id |-> id]}]
    PROVE  /\ w \in Database /\ w.ids = v.ids
           /\ Sound(v) /\ id # NoId /\ v.ids[n] = id => Sound(w)
<1> DEFINE sh == [of |-> n, id |-> id]
<1>1. sh \in [of : Names, id : Nat] /\ sh.of = n /\ sh.id = id
  OBVIOUS
<1> HIDE DEF sh
<1>2. w = [v EXCEPT !.shares = @ \cup {sh}]
  BY DEF sh
<1>3. w \in Database /\ w.ids = v.ids /\ w.shares = v.shares \cup {sh}
  BY <1>1, <1>2 DEF Database
<1> QED
  BY <1>1, <1>3 DEF Sound

\* The row of a share (process_event) keeps it: the id in hand is its worker's.
LEMMA InsertKeeps == IdInv /\ InsertShare => IdInv'
<1> SUFFICES ASSUME IdInv, InsertShare
             PROVE  IdInv'
  OBVIOUS
<1> DEFINE n == events[nth]
           new == [view EXCEPT !.shares = @ \cup {[of |-> events[nth], id |-> wid]}]
<1>1. IdType /\ TxInv
  BY DEF IdInv
<1>2. n \in Names /\ ipc = "insert" /\ wid \in Nat /\ view \in Database
  BY <1>1 DEF IdType, InsertShare
<1>3. UNCHANGED <<cache, events, wid, refused>>
  BY DEF InsertShare
<1>4. /\ nth' \in Nat /\ ipc' \in {"upsert", "commit"}
      /\ ipc' = "upsert" => nth' \in 1..Len(events)
  BY <1>1, <1>2, NextEventType DEF InsertShare
<1>5. IdInHand'
  BY <1>4 DEF IdInHand
<1>6. CASE Writes(new)
  <2>1. /\ new \in Database /\ new.ids = view.ids
        /\ Sound(view) /\ wid # NoId /\ view.ids[n] = wid => Sound(new)
    BY <1>2, ShareAdded
  <2> HIDE DEF new
  <2>2. /\ view' = new /\ disk' = (IF inTx THEN disk ELSE new)
        /\ UNCHANGED <<inTx, undone>>
    BY <1>6 DEF Writes
  <2>3. disk' \in Database /\ view' \in Database
    BY <1>1, <2>1, <2>2 DEF IdType
  <2>4. IdType'
    BY <1>1, <1>2, <1>3, <1>4, <2>2, <2>3 DEF IdType
  <2>5. TxInv'
    BY <1>1, <1>4, <2>2 DEF TxInv
  <2>6. ~undone' => CacheInv'
    BY <1>3, <2>1, <2>2 DEF IdInv, CacheInv
  <2>7. ASSUME ~(undone' /\ refused')
        PROVE  Sound(disk)' /\ Sound(view)'
    <3>1. Sound(disk) /\ Sound(view) /\ IdInHand
      BY <1>3, <2>2, <2>7 DEF IdInv
    <3>2. Sound(new)
      BY <1>2, <2>1, <3>1 DEF IdInHand
    <3> QED
      BY <2>2, <3>1, <3>2 DEF Sound
  <2> QED
    BY <1>5, <2>4, <2>5, <2>6, <2>7 DEF IdInv
<1>7. CASE WritesNothing
  <2>1. /\ disk' \in Database /\ view' \in Database
        /\ inTx' \in BOOLEAN /\ undone' \in BOOLEAN
        /\ ~inTx' => view' = disk'
        /\ ~undone' => ~undone /\ UNCHANGED view
        /\ disk' = disk /\ view' \in {view, disk}
    BY <1>1, <1>7, NothingWritten DEF IdType
  <2>2. IdType'
    BY <1>1, <1>2, <1>3, <1>4, <2>1 DEF IdType
  <2>3. TxInv'
    BY <1>4, <2>1 DEF TxInv
  <2>4. ~undone' => CacheInv'
    BY <1>3, <2>1 DEF IdInv, CacheInv
  <2>5. ASSUME ~(undone' /\ refused')
        PROVE  Sound(disk)' /\ Sound(view)'
    <3>1. ~(undone /\ refused)
      BY <1>3, <1>7, <2>5 DEF WritesNothing
    <3>2. Sound(disk) /\ Sound(view)
      BY <3>1 DEF IdInv
    <3> QED
      BY <2>1, <3>2 DEF Sound
  <2> QED
    BY <1>5, <2>2, <2>3, <2>4, <2>5 DEF IdInv
<1> QED
  BY <1>6, <1>7 DEF InsertShare

\* COMMIT makes what the writer saw durable; its failure takes it back, and
\* with it what the cache was right about.
LEMMA CommitKeeps == IdInv /\ (CommitBatch \/ CommitBatchFails) => IdInv'
<1>1. ASSUME IdInv, CommitBatch
      PROVE  IdInv'
  <2>1. IdType'
    BY <1>1 DEF IdInv, IdType, CommitBatch
  <2>2. TxInv'
    BY <1>1 DEF TxInv, CommitBatch
  <2>3. ~undone' => CacheInv'
    BY <1>1 DEF IdInv, CacheInv, CommitBatch
  <2>4. ~(undone' /\ refused') => Sound(disk)' /\ Sound(view)' /\ IdInHand'
    BY <1>1 DEF IdInv, Sound, IdInHand, CommitBatch
  <2> QED
    BY <2>1, <2>2, <2>3, <2>4 DEF IdInv
<1>2. ASSUME IdInv, CommitBatchFails
      PROVE  IdInv'
  <2>1. ipc' \in {"begin", "idle"} /\ undone' = TRUE
    BY <1>2 DEF CommitBatchFails, TryAgain
  <2>2. IdType'
    BY <1>2, <2>1 DEF IdInv, IdType, CommitBatchFails
  <2>3. TxInv'
    BY <1>2 DEF TxInv, CommitBatchFails
  <2>4. ASSUME ~(undone' /\ refused')
        PROVE  Sound(disk)' /\ Sound(view)' /\ IdInHand'
    <3>1. ~refused
      BY <1>2, <2>1, <2>4 DEF CommitBatchFails
    <3>2. Sound(disk)
      BY <1>2, <3>1 DEF IdInv
    <3> QED
      BY <1>2, <2>1, <3>2 DEF Sound, IdInHand, CommitBatchFails
  <2> QED
    BY <2>1, <2>2, <2>3, <2>4 DEF IdInv
<1> QED
  BY <1>1, <1>2

-----------------------------------------------------------------------------
\* Whatever statements and commits fail, and whatever ids the cache keeps from
\* transactions that were taken back, a committed share stands under its own
\* worker unless both an upsert failed and a transaction was rolled back
\* (resolve_worker_id, commit_batch).
THEOREM ShareKept == IdsSpec => []ShareToItsWorker
<1>1. InitIds => IdInv
  BY InitIdInv
<1>2. IdInv /\ [NextIds]_idVars => IdInv'
  <2> SUFFICES ASSUME IdInv, [NextIds]_idVars
               PROVE  IdInv'
    OBVIOUS
  <2>1. CASE UNCHANGED idVars
    BY <2>1 DEF idVars, IdInv, IdType, TxInv, CacheInv, Sound, IdInHand
  <2>2. CASE NextIds
    BY <2>2, TakeEventsKeeps, BeginKeeps, UpsertKeeps, UpsertFailsKeeps,
       InsertKeeps, CommitKeeps DEF NextIds
  <2> QED
    BY <2>1, <2>2
<1>3. IdInv => ShareToItsWorker
  BY DEF IdInv, ShareToItsWorker, Sound
<1> QED
  BY <1>1, <1>2, <1>3, PTL DEF IdsSpec
=============================================================================
