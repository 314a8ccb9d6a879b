-------------------------- MODULE StoreQueueProofs --------------------------
(***************************************************************************)
(* Proofs about StoreQueue for every ring capacity, batch size, number of  *)
(* connections and kind of database failure.                               *)
(***************************************************************************)
EXTENDS StoreQueue, SequenceTheorems, FiniteSetTheorems, TLAPS

\* The writer is between taking a batch and publishing it.
Busy == wpc \in {"begin", "apply", "publish"}

\* What has come out of the ring is what committed_seq counts, plus the batch
\* in hand: the sequence numbers and the ring never drift apart.
SeqInv ==
    /\ Busy => /\ seqAfter = enqSeq - Len(ring)
               /\ doneSeq + Len(batch) = seqAfter
               /\ Len(batch) > 0
    /\ ~Busy => doneSeq = enqSeq - Len(ring)

\* After the producers have stopped the target of the flush is everything.
FlushInv ==
    /\ main = "run" => flushed = "no"
    /\ main # "run" => /\ target = enqSeq
                       /\ \A w \in Workers : conn[w].pc = "idle"
    /\ flushed = "ok" => doneSeq >= target

-----------------------------------------------------------------------------

\* An event that finds room is appended; otherwise nothing changes.
LEMMA EnqueueType ==
  ASSUME TypeOK, NEW e \in Event, Enqueue(e)
  PROVE  /\ ring' \in Seq(Event) /\ Len(ring') <= RingCap
         /\ enqSeq' \in Nat
         /\ enqSeq' - Len(ring') = enqSeq - Len(ring)
<1>1. CASE Len(ring) < RingCap
  <2>1. ring' = Append(ring, e) /\ enqSeq' = enqSeq + 1
    BY <1>1 DEF Enqueue
  <2>2. ring \in Seq(Event) /\ Len(ring) \in Nat /\ enqSeq \in Nat
        /\ RingCap \in Nat
    BY StoreAssumption DEF TypeOK
  <2>3. ring' \in Seq(Event) /\ Len(ring') = Len(ring) + 1
    BY <2>1, <2>2
  <2> QED  BY <1>1, <2>1, <2>2, <2>3
<1>2. CASE ~(Len(ring) < RingCap)
  BY <1>2 DEF Enqueue, ringVars, TypeOK
<1> QED  BY <1>1, <1>2

\* The events a batch takes and the ones it leaves are the ring.
LEMMA SplitRing ==
  ASSUME NEW s \in Seq(Event), NEW n \in Nat, n <= Len(s)
  PROVE  /\ SubSeq(s, 1, n) \in Seq(Event) /\ Len(SubSeq(s, 1, n)) = n
         /\ SubSeq(s, n + 1, Len(s)) \in Seq(Event)
         /\ Len(SubSeq(s, n + 1, Len(s))) = Len(s) - n
<1>1. \A i \in 1..Len(s) : s[i] \in Event
  OBVIOUS
<1>2. Len(s) \in Nat
  OBVIOUS
<1>3. SubSeq(s, 1, n) \in Seq(Event) /\ Len(SubSeq(s, 1, n)) = n
  BY <1>1, <1>2, SubSeqProperties
<1>4. SubSeq(s, n + 1, Len(s)) \in Seq(Event)
      /\ Len(SubSeq(s, n + 1, Len(s))) = Len(s) - n
  BY <1>1, <1>2, SubSeqProperties
<1> QED  BY <1>3, <1>4

\* A failed attempt is retried or, out of attempts, published as lost.
LEMMA FailedType ==
  ASSUME TypeOK, Failed
  PROVE  attempt' \in 1..Attempts /\ wpc' \in {"begin", "publish"} /\ lost' \in Nat
<1>1. Attempts \in Nat /\ attempt \in 1..Attempts /\ lost \in Nat /\ Len(batch) \in Nat
  BY StoreAssumption DEF TypeOK
<1> QED  BY <1>1 DEF Failed

\* Initially every variable has its type.
LEMMA TypeInit == Init => TypeOK
<1> SUFFICES ASSUME Init PROVE TypeOK
  OBVIOUS
<1>1. conn \in [Workers -> [pc : {"idle", "credit"}, shares : 0..MaxShares]]
  BY StoreAssumption DEF Init
<1>2. attempt \in 1..Attempts /\ at \in 1..(CommitMax + 1)
  BY StoreAssumption DEF Init
<1>3. ring \in Seq(Event) /\ Len(ring) <= RingCap /\ batch \in Seq(Event) /\ Len(batch) <= CommitMax
  BY StoreAssumption DEF Init
<1>4. {enqSeq, doneSeq, seqAfter, target, lost} \subseteq Nat
  BY DEF Init
<1>5. /\ db \in [Event -> Nat] /\ work \in [Event -> Nat]
  <2>1. [e \in Event |-> 0] \in [Event -> Nat]
    OBVIOUS
  <2> QED  BY <2>1 DEF Init
<1>6. /\ wpc = "wait" /\ open = FALSE /\ lock = "none" /\ main = "run" /\ flushed = "no"
  BY DEF Init
<1> QED  BY <1>1, <1>2, <1>3, <1>4, <1>5, <1>6 DEF TypeOK

\* Every step keeps every variable's type; seq_after stays a natural number
\* because committed_seq accounts for what left the ring.
LEMMA TypeStep == TypeOK /\ SeqInv /\ [Next]_vars => TypeOK'
<1> SUFFICES ASSUME TypeOK, SeqInv, [Next]_vars PROVE TypeOK'
  OBVIOUS
<1>a. /\ RingCap \in Nat /\ CommitMax \in Nat /\ Attempts \in Nat /\ MaxShares \in Nat
      /\ RingCap > 0 /\ CommitMax > 0 /\ Attempts > 0 /\ MaxShares > 0
  BY StoreAssumption
<1>1. ASSUME NEW w \in Workers, RecordShare(w) PROVE TypeOK'
  <2>1. <<"share", w>> \in Event
    BY DEF Event
  <2>2. /\ ring' \in Seq(Event) /\ Len(ring') <= RingCap
        /\ enqSeq' \in Nat
    BY <1>1, <2>1, EnqueueType DEF RecordShare
  <2>3. conn[w].shares \in 0..MaxShares /\ conn[w].shares < MaxShares
    BY <1>1 DEF RecordShare, TypeOK
  <2>4. [pc |-> "credit", shares |-> conn[w].shares + 1]
          \in [pc : {"idle", "credit"}, shares : 0..MaxShares]
    BY <2>3, <1>a
  <2>5. conn' \in [Workers -> [pc : {"idle", "credit"}, shares : 0..MaxShares]]
    BY <1>1, <2>4 DEF RecordShare, TypeOK
  <2> QED  BY <1>1, <2>2, <2>5 DEF RecordShare, TypeOK, batchVars, dbVars, mainVars
<1>2. ASSUME NEW w \in Workers, RecordCredit(w) PROVE TypeOK'
  <2>1. <<"credit", w>> \in Event
    BY DEF Event
  <2>2. /\ ring' \in Seq(Event) /\ Len(ring') <= RingCap
        /\ enqSeq' \in Nat
    BY <1>2, <2>1, EnqueueType DEF RecordCredit
  <2>3. conn[w] \in [pc : {"idle", "credit"}, shares : 0..MaxShares]
    BY DEF TypeOK
  <2>4. [conn[w] EXCEPT !.pc = "idle"] \in [pc : {"idle", "credit"}, shares : 0..MaxShares]
    BY <2>3
  <2>5. conn' = [conn EXCEPT ![w] = [conn[w] EXCEPT !.pc = "idle"]]
    BY <1>2 DEF RecordCredit
  <2>6. conn' \in [Workers -> [pc : {"idle", "credit"}, shares : 0..MaxShares]]
    BY <2>4, <2>5 DEF TypeOK
  <2> QED  BY <1>2, <2>2, <2>6 DEF RecordCredit, TypeOK, batchVars, dbVars, mainVars
<1>3. CASE Take
  <2> DEFINE n == IF Len(ring) > CommitMax THEN CommitMax ELSE Len(ring)
  <2>1. n \in Nat /\ n <= Len(ring) /\ n <= CommitMax /\ ring \in Seq(Event) /\ Len(ring) <= RingCap
        /\ Len(ring) \in Nat
    <3>1. ring \in Seq(Event) /\ Len(ring) <= RingCap
      BY DEF TypeOK
    <3>2. Len(ring) \in Nat
      BY <3>1
    <3> QED  BY <1>a, <3>1, <3>2
  <2>2. /\ batch' = SubSeq(ring, 1, n) /\ ring' = SubSeq(ring, n + 1, Len(ring))
        /\ seqAfter' = enqSeq - (Len(ring) - n)
    BY <1>3 DEF Take, SeqAfter
  <2> HIDE DEF n
  <2>3. /\ batch' \in Seq(Event) /\ Len(batch') <= CommitMax
        /\ ring' \in Seq(Event) /\ Len(ring') <= RingCap
    BY <2>1, <2>2, SplitRing, <1>a
  <2>4. enqSeq \in Nat /\ seqAfter' \in Nat
    <3>1. doneSeq = enqSeq - Len(ring) /\ doneSeq \in Nat /\ enqSeq \in Nat
      BY <1>3 DEF Take, SeqInv, Busy, TypeOK
    <3> QED  BY <3>1, <2>1, <2>2
  <2>5. attempt' \in 1..Attempts /\ at' \in 1..(CommitMax + 1) /\ wpc' = "begin"
    BY <1>3, <1>a DEF Take
  <2>6. {enqSeq', doneSeq', seqAfter', target', lost'} \subseteq Nat
    BY <1>3, <2>4 DEF Take, TypeOK, mainVars
  <2> QED  BY <1>3, <2>3, <2>5, <2>6 DEF Take, TypeOK, dbVars, mainVars
<1>4. CASE Begin
  BY <1>4, <1>a DEF Begin, TypeOK, ringVars, mainVars
<1>5. CASE BeginFails
  BY <1>5, FailedType DEF BeginFails, TypeOK, ringVars, dbVars, mainVars
<1>6. CASE ApplyOne
  <2>a. at <= Len(batch) /\ at' = at + 1
    BY <1>6 DEF ApplyOne
  <2>b. at \in 1..(CommitMax + 1) /\ batch \in Seq(Event) /\ Len(batch) <= CommitMax
        /\ Len(batch) \in Nat
    BY DEF TypeOK
  <2>1. at \in Nat /\ at <= Len(batch) /\ Len(batch) <= CommitMax /\ Len(batch) \in Nat
        /\ at >= 1 /\ at' = at + 1
    BY <2>a, <2>b, <1>a
  <2>2. at' \in 1..(CommitMax + 1)
    BY <2>1, <1>a
  <2>3. batch[at] \in Event
    BY <2>1 DEF TypeOK
  <2>4. [work EXCEPT ![batch[at]] = @ + 1] \in [Event -> Nat]
    <3>1. ASSUME NEW f \in [Event -> Nat], NEW e \in Event
          PROVE  [f EXCEPT ![e] = @ + 1] \in [Event -> Nat]
      OBVIOUS
    <3>2. work \in [Event -> Nat]
      BY DEF TypeOK
    <3> HIDE DEF Event
    <3> QED  BY <3>1, <3>2, <2>3
  <2>5. work' \in [Event -> Nat] /\ db' \in [Event -> Nat] /\ open' \in BOOLEAN
    <3>1. CASE /\ work' = [work EXCEPT ![batch[at]] = @ + 1]
               /\ db' = IF open THEN db ELSE work'
               /\ UNCHANGED open
      BY <3>1, <2>4 DEF TypeOK
    <3>2. CASE UNCHANGED <<work, db, open>>
      BY <3>2 DEF TypeOK
    <3>3. CASE work' = db /\ open' = FALSE /\ UNCHANGED db
      BY <3>3 DEF TypeOK
    <3> QED  BY <1>6, <3>1, <3>2, <3>3 DEF ApplyOne
  <2> QED  BY <1>6, <2>2, <2>5 DEF ApplyOne, TypeOK, ringVars, mainVars
<1>7. CASE Commit
  BY <1>7 DEF Commit, TypeOK, ringVars, batchVars, mainVars
<1>8. CASE CommitFails
  BY <1>8, FailedType DEF CommitFails, Rollback, TypeOK, ringVars, mainVars
<1>9. CASE Publish
  BY <1>9, <1>a DEF Publish, TypeOK, ringVars, dbVars, mainVars
<1>10. CASE Exit
  BY <1>10 DEF Exit, TypeOK, ringVars, batchVars, dbVars, mainVars
<1>11. CASE OtherBegin
  BY <1>11 DEF OtherBegin, TypeOK, ringVars, batchVars, mainVars
<1>12. CASE OtherEnd
  BY <1>12 DEF OtherEnd, TypeOK, ringVars, batchVars, mainVars
<1>13. CASE FlushStart
  BY <1>13 DEF FlushStart, TypeOK, ringVars, batchVars, dbVars
<1>14. CASE FlushEnd
  BY <1>14 DEF FlushEnd, TypeOK, ringVars, batchVars, dbVars
<1>15. CASE Close
  BY <1>15 DEF Close, TypeOK, ringVars, batchVars, dbVars
<1>16. CASE UNCHANGED vars
  BY <1>16 DEF vars, TypeOK
<1> QED  BY <1>1, <1>2, <1>3, <1>4, <1>5, <1>6, <1>7, <1>8, <1>9, <1>10, <1>11,
            <1>12, <1>13, <1>14, <1>15, <1>16 DEF Next, Writer, Done

\* The sequence numbers start in step with the ring and stay there.
LEMMA SeqStep == TypeOK /\ SeqInv /\ [Next]_vars => SeqInv'
<1> SUFFICES ASSUME TypeOK, SeqInv, [Next]_vars PROVE SeqInv'
  OBVIOUS
<1>a. /\ enqSeq \in Nat /\ doneSeq \in Nat /\ Len(ring) \in Nat /\ Len(batch) \in Nat
      /\ CommitMax \in Nat /\ CommitMax > 0
  BY StoreAssumption DEF TypeOK
<1>1. ASSUME NEW w \in Workers, RecordShare(w) \/ RecordCredit(w) PROVE SeqInv'
  <2>1. <<"share", w>> \in Event /\ <<"credit", w>> \in Event
    BY DEF Event
  <2>2. enqSeq' - Len(ring') = enqSeq - Len(ring)
    BY <1>1, <2>1, EnqueueType DEF RecordShare, RecordCredit
  <2>3. UNCHANGED <<wpc, doneSeq, batch, seqAfter>>
    BY <1>1 DEF RecordShare, RecordCredit, batchVars
  <2> QED  BY <2>2, <2>3 DEF SeqInv, Busy
<1>2. CASE Take
  <2> DEFINE n == IF Len(ring) > CommitMax THEN CommitMax ELSE Len(ring)
  <2>1. ring \in Seq(Event) /\ ring # <<>>
    BY <1>2 DEF Take, TypeOK
  <2>2. Len(ring) > 0
    BY <2>1, <1>a
  <2>3. n \in Nat /\ n > 0 /\ n <= Len(ring)
    BY <2>2, <1>a
  <2>4. /\ batch' = SubSeq(ring, 1, n) /\ ring' = SubSeq(ring, n + 1, Len(ring))
        /\ seqAfter' = enqSeq - (Len(ring) - n) /\ wpc' = "begin"
        /\ UNCHANGED <<enqSeq, doneSeq>>
    BY <1>2 DEF Take, SeqAfter
  <2>5. doneSeq = enqSeq - Len(ring)
    BY <1>2 DEF Take, SeqInv, Busy
  <2> HIDE DEF n
  <2>6. Len(batch') = n /\ Len(ring') = Len(ring) - n
    BY <2>1, <2>3, <2>4, SplitRing
  <2>7. Busy'
    BY <2>4 DEF Busy
  <2>8. enqSeq' = enqSeq /\ doneSeq' = doneSeq /\ seqAfter' = enqSeq - (Len(ring) - n)
    BY <2>4
  <2>9. seqAfter' = enqSeq' - Len(ring') /\ Len(batch') > 0
    BY <2>3, <2>6, <2>8
  <2>10. doneSeq' + Len(batch') = seqAfter'
    <3>1. ASSUME NEW a \in Nat, NEW b \in Nat, NEW c \in Nat
          PROVE  (a - b) + c = a - (b - c)
      OBVIOUS
    <3>2. (enqSeq - Len(ring)) + n = enqSeq - (Len(ring) - n)
      BY <1>a, <2>3, <3>1
    <3> QED  BY <2>5, <2>6, <2>8, <3>2
  <2> QED  BY <2>7, <2>9, <2>10 DEF SeqInv
<1>3. CASE Begin \/ BeginFails \/ ApplyOne \/ Commit \/ CommitFails
  <2>1. UNCHANGED <<ring, enqSeq, doneSeq, batch, seqAfter>>
    BY <1>3 DEF Begin, BeginFails, ApplyOne, Commit, CommitFails, ringVars, batchVars
  <2>2. Busy
    BY <1>3 DEF Begin, BeginFails, ApplyOne, Commit, CommitFails, Busy
  <2>3. Busy'
    BY <1>3 DEF Begin, BeginFails, ApplyOne, Commit, CommitFails, Failed, Busy
  <2> QED  BY <2>1, <2>2, <2>3 DEF SeqInv
<1>4. CASE Publish
  <2>1. /\ doneSeq' = seqAfter /\ wpc' = "wait" /\ UNCHANGED <<ring, enqSeq>>
        /\ seqAfter = enqSeq - Len(ring)
    BY <1>4 DEF Publish, ringVars, SeqInv, Busy
  <2>2. ~Busy'
    BY <2>1 DEF Busy
  <2>3. doneSeq' = enqSeq' - Len(ring')
    BY <2>1
  <2> QED  BY <2>2, <2>3 DEF SeqInv
<1>5. CASE Exit
  BY <1>5 DEF Exit, ringVars, batchVars, SeqInv, Busy
<1>6. CASE OtherBegin \/ OtherEnd \/ FlushStart \/ FlushEnd \/ Close \/ UNCHANGED vars
  <2>1. UNCHANGED <<wpc, ring, enqSeq, doneSeq, batch, seqAfter>>
    BY <1>6 DEF OtherBegin, OtherEnd, FlushStart, FlushEnd, Close, vars, ringVars, batchVars
  <2> QED  BY <2>1 DEF SeqInv, Busy
<1> QED  BY <1>1, <1>2, <1>3, <1>4, <1>5, <1>6 DEF Next, Writer, Done

\* The flush's target is fixed once the producers are gone.
LEMMA FlushStep == TypeOK /\ SeqInv /\ FlushInv /\ [Next]_vars => FlushInv'
<1> SUFFICES ASSUME TypeOK, SeqInv, FlushInv, [Next]_vars PROVE FlushInv'
  OBVIOUS
<1>a. enqSeq \in Nat /\ doneSeq \in Nat /\ target \in Nat /\ Len(batch) \in Nat
  BY DEF TypeOK
<1>1. ASSUME NEW w \in Workers, RecordShare(w) \/ RecordCredit(w) PROVE FlushInv'
  <2>1. main = "run"
    BY <1>1 DEF RecordShare, RecordCredit, FlushInv
  <2>2. flushed = "no"
    BY <2>1 DEF FlushInv
  <2>3. UNCHANGED mainVars
    BY <1>1 DEF RecordShare, RecordCredit
  <2> QED  BY <2>1, <2>2, <2>3 DEF FlushInv, mainVars
<1>2. CASE Take \/ Begin \/ BeginFails \/ ApplyOne \/ Commit \/ CommitFails
           \/ Exit \/ OtherBegin \/ OtherEnd
  <2>1. UNCHANGED <<main, target, flushed, conn, enqSeq, doneSeq>>
    BY <1>2 DEF Take, Begin, BeginFails, ApplyOne, Commit, CommitFails, Exit,
                OtherBegin, OtherEnd, ringVars, mainVars
  <2> QED  BY <2>1 DEF FlushInv
<1>3. CASE Publish
  <2>1. UNCHANGED <<main, target, flushed, conn, enqSeq>> /\ doneSeq' = seqAfter
    BY <1>3 DEF Publish, ringVars, mainVars
  <2>2. doneSeq' >= doneSeq /\ doneSeq' \in Int
    BY <1>3, <2>1, <1>a DEF Publish, SeqInv, Busy
  <2>3. flushed' = "ok" => doneSeq' >= target'
    BY <2>1, <2>2, <1>a DEF FlushInv
  <2> QED  BY <2>1, <2>3 DEF FlushInv
<1>4. CASE FlushStart
  <2>1. /\ main = "run" /\ main' = "flush" /\ target' = enqSeq
        /\ UNCHANGED <<flushed, conn, enqSeq>>
        /\ \A w \in Workers : conn[w].pc = "idle"
    BY <1>4 DEF FlushStart, ringVars
  <2> QED  BY <2>1 DEF FlushInv
<1>5. CASE FlushEnd
  <2>1. /\ main # "run" /\ main' # "run" /\ UNCHANGED <<target, conn, enqSeq, doneSeq>>
        /\ flushed' = "ok" => doneSeq >= target
    BY <1>5 DEF FlushEnd, ringVars
  <2> QED  BY <2>1 DEF FlushInv
<1>6. CASE Close
  BY <1>6 DEF Close, ringVars, FlushInv
<1>7. CASE UNCHANGED vars
  BY <1>7 DEF vars, FlushInv
<1> QED  BY <1>1, <1>2, <1>3, <1>4, <1>5, <1>6, <1>7 DEF Next, Writer, Done

\* The three invariants hold together in every reachable state.
LEMMA StoreInvariant == Spec => [](TypeOK /\ SeqInv /\ FlushInv)
<1>1. Init => SeqInv /\ FlushInv
  <2> SUFFICES ASSUME Init PROVE SeqInv /\ FlushInv
    OBVIOUS
  <2>1. ~Busy /\ doneSeq = 0 /\ enqSeq = 0 /\ Len(ring) = 0
    BY DEF Init, Busy
  <2>2. FlushInv
    BY DEF Init, FlushInv
  <2> QED  BY <2>1, <2>2 DEF SeqInv
<1> QED  BY <1>1, TypeInit, TypeStep, SeqStep, FlushStep, PTL DEF Spec

\* Every variable of the write path keeps its type; in particular the ring
\* never holds more than ring_cap events.
THEOREM StoreTypeCorrect == Spec => []TypeOK
<1> QED  BY StoreInvariant, PTL

\* A flush that reports success leaves nothing in the ring or in the writer's
\* hands, for every ring size, batch size and kind of failure.
THEOREM FlushIsComplete == Spec => []FlushDrains
<1>1. TypeOK /\ SeqInv /\ FlushInv => FlushDrains
  <2> SUFFICES ASSUME TypeOK, SeqInv, FlushInv, flushed = "ok"
               PROVE  ring = <<>> /\ Unlanded = <<>>
    BY DEF FlushDrains
  <2>1. main # "run" /\ doneSeq >= enqSeq
    BY DEF FlushInv
  <2>2. /\ enqSeq \in Nat /\ doneSeq \in Nat /\ Len(ring) \in Nat /\ Len(batch) \in Nat
        /\ ring \in Seq(Event)
    BY DEF TypeOK
  <2>3. ~Busy
    BY <2>1, <2>2 DEF SeqInv
  <2>4. Len(ring) = 0
    BY <2>1, <2>2, <2>3 DEF SeqInv
  <2>5. ring = <<>>
    BY <2>2, <2>4, EmptySeq
  <2> QED  BY <2>3, <2>5 DEF Busy, Unlanded
<1> QED  BY <1>1, StoreInvariant, PTL

-----------------------------------------------------------------------------
(* txn_mu: a transaction is open on the shared connection only while some   *)
(* thread holds it.                                                         *)

LockInv == open => lock # "none"

\* Who opens a transaction holds txn_mu; who lets go of it has ended his own.
LEMMA LockStep == LockInv /\ [Next]_vars => LockInv'
<1> SUFFICES ASSUME LockInv, [Next]_vars PROVE LockInv'
  OBVIOUS
<1>1. ASSUME NEW w \in Workers, RecordShare(w) \/ RecordCredit(w) PROVE LockInv'
  BY <1>1 DEF RecordShare, RecordCredit, dbVars, LockInv
<1>2. CASE Begin \/ OtherBegin
  BY <1>2 DEF Begin, OtherBegin, LockInv
<1>3. CASE Commit \/ CommitFails \/ OtherEnd
  BY <1>3 DEF Commit, CommitFails, OtherEnd, LockInv
<1>4. CASE ApplyOne
  BY <1>4 DEF ApplyOne, LockInv
<1>5. CASE Take \/ BeginFails \/ Publish \/ Exit \/ FlushStart \/ FlushEnd \/ Close
           \/ UNCHANGED vars
  <2>1. UNCHANGED <<open, lock>>
    BY <1>5 DEF Take, BeginFails, Publish, Exit, FlushStart, FlushEnd, Close, vars, dbVars
  <2> QED  BY <2>1 DEF LockInv
<1> QED  BY <1>1, <1>2, <1>3, <1>4, <1>5 DEF Next, Writer, Done

\* The writer's BEGIN never meets a transaction of another thread, nor one of
\* its own that a failed attempt left open (store.c, commit_batch).
THEOREM BeginIsNeverNested == Spec => []BeginNeverNested
<1>1. Init => LockInv
  BY DEF Init, LockInv
<1>2. LockInv => BeginNeverNested
  BY DEF LockInv, BeginNeverNested, LockFree
<1> QED  BY <1>1, <1>2, LockStep, PTL DEF Spec

-----------------------------------------------------------------------------
(* The refinement of EventLog, for a database whose statements do not fail. *)

\* While a batch is applied its transaction is open, and what it sees is the
\* database with the events up to `at` added.
WorkInv ==
    wpc = "apply" => /\ open /\ lock = "writer"
                     /\ at <= Len(batch) + 1
                     /\ work = Log!Applied(db, SubSeq(batch, 1, at - 1))

\* The count of the log's module is the count of this one.
LEMMA SameCardinality == \A S : Log!Cardinality(S) = Cardinality(S)
BY DEF Log!Cardinality, Cardinality

\* An event occurs finitely often.
LEMMA OccurrencesFinite ==
  ASSUME NEW s \in Seq(Event), NEW e
  PROVE  IsFiniteSet({i \in DOMAIN s : s[i] = e})
<1>1. DOMAIN s = 1..Len(s) /\ Len(s) \in Nat
  OBVIOUS
<1>2. IsFiniteSet(1..Len(s)) /\ {i \in DOMAIN s : s[i] = e} \in SUBSET (1..Len(s))
  BY <1>1, FS_Interval
<1> QED  BY <1>2, FS_Subset

\* How often is a number, and none in an empty sequence.
LEMMA OccurrencesType ==
  ASSUME NEW s \in Seq(Event), NEW e
  PROVE  /\ Log!Occurrences(s, e) \in Nat
         /\ s = <<>> => Log!Occurrences(s, e) = 0
<1> DEFINE D == {i \in DOMAIN s : s[i] = e}
<1>1. Cardinality(D) \in Nat
  BY OccurrencesFinite, FS_CardinalityType
<1>2. s = <<>> => D = {}
  OBVIOUS
<1>3. s = <<>> => Cardinality(D) = 0
  BY <1>2, FS_EmptySet
<1> QED  BY <1>1, <1>3, SameCardinality DEF Log!Occurrences

\* One more event occurs once more, and no other does.
LEMMA OccurrencesAppend ==
  ASSUME NEW s \in Seq(Event), NEW x \in Event, NEW e
  PROVE  Log!Occurrences(Append(s, x), e)
           = Log!Occurrences(s, e) + (IF x = e THEN 1 ELSE 0)
<1> DEFINE n == Len(s) + 1
           t == Append(s, x)
           D == {i \in DOMAIN s : s[i] = e}
           E == {i \in DOMAIN t : t[i] = e}
<1>1. /\ DOMAIN s = 1..Len(s) /\ Len(s) \in Nat
      /\ DOMAIN t = 1..n /\ t[n] = x
      /\ \A i \in 1..Len(s) : t[i] = s[i]
  BY AppendProperties
<1>2. IsFiniteSet(D) /\ Cardinality(D) \in Nat
  BY OccurrencesFinite, FS_CardinalityType
<1>3. n \notin D
  BY <1>1
<1>4. x = e => E = D \cup {n}
  BY <1>1
<1>5. x # e => E = D
  BY <1>1
<1>6. Log!Occurrences(s, e) = Cardinality(D) /\ Log!Occurrences(t, e) = Cardinality(E)
  BY SameCardinality DEF Log!Occurrences
<1>7. Cardinality(D \cup {n}) = Cardinality(D) + 1
  BY <1>2, <1>3, FS_AddElement
<1> HIDE DEF D, E
<1>8. CASE x = e
  BY <1>4, <1>6, <1>7, <1>8
<1>9. CASE x # e
  BY <1>2, <1>5, <1>6, <1>9
<1> QED  BY <1>8, <1>9

\* A table with the events of a sequence added is a table.
LEMMA AppliedType ==
  ASSUME NEW t \in [Event -> Nat], NEW s \in Seq(Event)
  PROVE  /\ Log!Applied(t, s) \in [Event -> Nat]
         /\ s = <<>> => Log!Applied(t, s) = t
<1> DEFINE Occ(e) == Log!Occurrences(s, e)
<1>1. ASSUME NEW e \in Event PROVE Occ(e) \in Nat /\ (s = <<>> => Occ(e) = 0)
  BY OccurrencesType
<1>2. Log!Applied(t, s) = [e \in Event |-> t[e] + Occ(e)]
  BY DEF Log!Applied
<1> HIDE DEF Occ
<1> QED  BY <1>1, <1>2

\* process_event of the next event of the batch.
LEMMA AppliedAppend ==
  ASSUME NEW t \in [Event -> Nat], NEW s \in Seq(Event), NEW x \in Event
  PROVE  Log!Applied(t, Append(s, x)) = [Log!Applied(t, s) EXCEPT ![x] = @ + 1]
<1> DEFINE Occ(e) == Log!Occurrences(s, e)
           Next1(e) == Log!Occurrences(Append(s, x), e)
<1>1. ASSUME NEW e \in Event
      PROVE  Occ(e) \in Nat /\ Next1(e) = Occ(e) + (IF x = e THEN 1 ELSE 0)
  BY OccurrencesType, OccurrencesAppend
<1>2. Log!Applied(t, s) = [e \in Event |-> t[e] + Occ(e)]
  BY DEF Log!Applied
<1>3. Log!Applied(t, Append(s, x)) = [e \in Event |-> t[e] + Next1(e)]
  BY DEF Log!Applied
<1> HIDE DEF Occ, Next1
<1>4. PICK g : g = [e \in Event |-> t[e] + Occ(e)]
  OBVIOUS
<1>5. \A e \in Event : g[e] = t[e] + Occ(e) /\ t[e] \in Nat
  BY <1>4
<1>6. ASSUME NEW e \in Event PROVE t[e] + Next1(e) = [g EXCEPT ![x] = @ + 1][e]
  <2>0. g \in [Event -> Nat]
    BY <1>1, <1>4
  <2>1. CASE e = x
    <3>1. Next1(e) = Occ(e) + 1 /\ Occ(e) \in Nat
      BY <1>1, <2>1
    <3>2. [g EXCEPT ![x] = @ + 1][e] = g[e] + 1
      BY <2>0, <2>1
    <3> QED  BY <1>5, <3>1, <3>2
  <2>2. CASE e # x
    <3>1. Next1(e) = Occ(e) /\ Occ(e) \in Nat
      BY <1>1, <2>2
    <3>2. [g EXCEPT ![x] = @ + 1][e] = g[e]
      BY <2>0, <2>2
    <3> QED  BY <1>5, <3>1, <3>2
  <2> QED  BY <2>1, <2>2
<1>7. DOMAIN g = Event
  BY <1>4
<1>8. [g EXCEPT ![x] = @ + 1] = [e \in Event |-> t[e] + Next1(e)]
  BY <1>6, <1>7
<1> QED  BY <1>2, <1>3, <1>4, <1>8

\* A batch's first n events, and the one after them.
LEMMA PrefixAppend ==
  ASSUME NEW s \in Seq(Event), NEW n \in 1..Len(s)
  PROVE  /\ SubSeq(s, 1, n - 1) \in Seq(Event) /\ s[n] \in Event
         /\ SubSeq(s, 1, n) = Append(SubSeq(s, 1, n - 1), s[n])
<1>1. /\ Len(s) \in Nat /\ n \in Nat /\ 1 <= n /\ n <= Len(s)
  OBVIOUS
<1>2. \A i \in 1..Len(s) : s[i] \in Event
  OBVIOUS
<1>3. SubSeq(s, 1, n - 1) \in Seq(Event) /\ s[n] \in Event
  BY <1>1, <1>2, SubSeqProperties
<1>4. SubSeq(s, 1, n) = SubSeq(s, 1, n - 1) \o <<s[n]>>
  BY <1>1, SubSeqRecursiveSecond
<1> QED  BY <1>3, <1>4, AppendIsConcat

\* A batch followed by the ring: the batch in front, the ring behind it.
LEMMA BatchThenRing ==
  ASSUME NEW b \in Seq(Event), NEW r \in Seq(Event), Len(b) > 0
  PROVE  /\ b \o r \in Seq(Event)
         /\ Len(b) \in DOMAIN (b \o r)
         /\ SubSeq(b \o r, 1, Len(b)) = b
         /\ SubSeq(b \o r, Len(b) + 1, Len(b \o r)) = r
<1>1. Len(b) \in Nat /\ Len(r) \in Nat
  OBVIOUS
<1>2. b \o r \in Seq(Event) /\ Len(b \o r) = Len(b) + Len(r)
  BY ConcatProperties
<1>3. Len(b) \in DOMAIN (b \o r)
  BY <1>1, <1>2
<1>4. SubSeq(b \o r, 1, Len(b)) = SubSeq(b, 1, Len(b))
  BY <1>1, SubSeqOfConcat1
<1>5. SubSeq(b, 1, Len(b)) = b
  BY SubSeqFull
<1>6. CASE Len(r) = 0
  <2>1. r = <<>>
    BY <1>6, EmptySeq
  <2>2. SubSeq(b \o r, Len(b) + 1, Len(b \o r)) = <<>>
    BY <1>1, <1>2, <1>6, SubSeqEmpty
  <2> QED  BY <1>2, <1>3, <1>4, <1>5, <2>1, <2>2
<1>7. CASE Len(r) > 0
  <2>1. /\ Len(b) + 1 \in Len(b)+1 .. Len(b)+Len(r)
        /\ Len(b) + Len(r) \in Len(b)+1 .. Len(b)+Len(r)
    BY <1>1, <1>7
  <2>2. SubSeq(b \o r, Len(b) + 1, Len(b) + Len(r))
          = SubSeq(r, (Len(b) + 1) - Len(b), (Len(b) + Len(r)) - Len(b))
    BY <2>1, SubSeqOfConcat2
  <2>3. (Len(b) + 1) - Len(b) = 1 /\ (Len(b) + Len(r)) - Len(b) = Len(r)
    BY <1>1
  <2>4. SubSeq(r, 1, Len(r)) = r
    BY SubSeqFull
  <2> QED  BY <1>2, <1>3, <1>4, <1>5, <2>2, <2>3, <2>4
<1> QED  BY <1>1, <1>6, <1>7

\* The transaction of a batch sees the database and what was applied so far,
\* until it ends.
LEMMA WorkStep ==
  ASSUME ~StatementMayFail, TypeOK, SeqInv, LockInv, WorkInv, [Next]_vars
  PROVE  WorkInv'
<1>0. /\ batch \in Seq(Event) /\ Len(batch) \in Nat /\ at \in Nat /\ at >= 1
      /\ db \in [Event -> Nat] /\ work \in [Event -> Nat] /\ CommitMax \in Nat
  BY StoreAssumption DEF TypeOK
<1>1. ASSUME NEW w \in Workers, RecordShare(w) \/ RecordCredit(w) PROVE WorkInv'
  BY <1>1 DEF RecordShare, RecordCredit, dbVars, batchVars, WorkInv
<1>2. CASE Begin
  <2>1. /\ open' /\ lock' = "writer" /\ work' = db /\ db' = db /\ batch' = batch /\ at' = 1
    BY <1>2 DEF Begin
  <2>2. SubSeq(batch', 1, at' - 1) = <<>>
    BY <2>1, SubSeqEmpty
  <2>3. <<>> \in Seq(Event)
    OBVIOUS
  <2>4. Log!Applied(db, <<>>) = db
    BY <1>0, <2>3, AppliedType
  <2>5. at' <= Len(batch') + 1
    BY <1>0, <2>1
  <2>6. work' = Log!Applied(db, SubSeq(batch', 1, at' - 1))
    BY <2>1, <2>2, <2>4
  <2> QED  BY <2>1, <2>5, <2>6 DEF WorkInv, Log!Applied
<1>3. CASE ApplyOne
  <2>0. wpc = "apply" /\ open /\ lock = "writer" /\ at <= Len(batch)
    BY <1>3 DEF ApplyOne, WorkInv
  <2>1. /\ work' = [work EXCEPT ![batch[at]] = @ + 1] /\ UNCHANGED <<db, open>>
        /\ at' = at + 1 /\ UNCHANGED <<batch, lock>>
    BY <1>3, <2>0 DEF ApplyOne
  <2> DEFINE s == SubSeq(batch, 1, at - 1)
  <2>2. /\ s \in Seq(Event) /\ batch[at] \in Event
        /\ SubSeq(batch, 1, at) = Append(s, batch[at])
    BY <1>0, <2>0, PrefixAppend
  <2>3. work = Log!Applied(db, s)
    BY <2>0 DEF WorkInv
  <2> HIDE DEF s
  <2>4. Log!Applied(db, Append(s, batch[at])) = [Log!Applied(db, s) EXCEPT ![batch[at]] = @ + 1]
    <3>1. db \in [Event -> Nat]
      BY <1>0
    <3> QED  BY ONLY <2>2, <3>1, AppliedAppend, SMTT(30)
  <2>5. (at + 1) - 1 = at /\ at + 1 <= Len(batch) + 1
    BY <1>0, <2>0
  <2>6. work' = Log!Applied(db, SubSeq(batch, 1, at' - 1))
    BY <2>1, <2>2, <2>3, <2>4, <2>5
  <2> QED  BY <2>0, <2>1, <2>5, <2>6 DEF WorkInv, Log!Applied
<1>4. CASE Commit \/ CommitFails \/ Take \/ BeginFails \/ Publish \/ Exit
  <2>1. wpc' # "apply"
    BY <1>4 DEF Commit, CommitFails, Take, BeginFails, Publish, Exit, Failed
  <2> QED  BY <2>1 DEF WorkInv
<1>5. CASE OtherBegin \/ OtherEnd
  <2>1. wpc' = wpc /\ wpc # "apply"
    BY <1>5 DEF OtherBegin, OtherEnd, WorkInv
  <2> QED  BY <2>1 DEF WorkInv
<1>6. CASE FlushStart \/ FlushEnd \/ Close \/ UNCHANGED vars
  <2>1. UNCHANGED <<wpc, open, lock, at, batch, work, db>>
    BY <1>6 DEF FlushStart, FlushEnd, Close, vars, dbVars, batchVars
  <2> QED  BY <2>1 DEF WorkInv, Log!Applied
<1> QED  BY <1>1, <1>2, <1>3, <1>4, <1>5, <1>6 DEF Next, Writer, Done

\* Giving up on a batch loses all of it, and only a database that may fail
\* makes the writer do so; a retry changes nothing a caller can see.
LEMMA FailedSimulates ==
  ASSUME TypeOK, wpc \in {"begin", "apply"}, Len(batch) > 0, Failed, DbMayFail,
         UNCHANGED <<batch, ring, db>>
  PROVE  [Log!Next]_(Log!logVars)
<1>0. batch \in Seq(Event) /\ ring \in Seq(Event) /\ Unlanded = batch
  BY DEF TypeOK, Unlanded
<1>1. CASE attempt < Attempts
  <2>1. Unlanded' = batch /\ lost' = lost
    BY <1>1 DEF Failed, Unlanded
  <2> QED  BY <1>0, <2>1 DEF Log!logVars
<1>2. CASE ~(attempt < Attempts)
  <2>1. Unlanded' = <<>> /\ lost' = lost + Len(batch)
    BY <1>2 DEF Failed, Unlanded
  <2>2. /\ Len(batch) \in DOMAIN (batch \o ring)
        /\ SubSeq(batch \o ring, Len(batch) + 1, Len(batch \o ring)) = ring
    BY <1>0, BatchThenRing
  <2>3. <<>> \o ring = ring
    BY <1>0, ConcatEmptySeq
  <2>4. Log!Lose(Len(batch))
    BY <1>0, <2>1, <2>2, <2>3 DEF Log!Lose
  <2> QED  BY <1>0, <2>2, <2>4 DEF Log!Next
<1> QED  BY <1>1, <1>2

\* A connection's enqueue is an acceptance, or is invisible when the ring is
\* full.
LEMMA EnqueueSimulates ==
  ASSUME TypeOK, NEW e \in Event, Enqueue(e), UNCHANGED <<wpc, batch, db, lost>>
  PROVE  [Log!Next]_(Log!logVars)
<1>0. /\ batch \in Seq(Event) /\ ring \in Seq(Event) /\ Unlanded \in Seq(Event)
      /\ Unlanded' = Unlanded
  BY DEF TypeOK, Unlanded
<1>1. CASE Len(ring) < RingCap
  <2>1. ring' = Append(ring, e)
    BY <1>1 DEF Enqueue
  <2>2. ring' = ring \o <<e>> /\ <<e>> \in Seq(Event)
    BY <1>0, <2>1, AppendIsConcat
  <2>3. Unlanded \o (ring \o <<e>>) = (Unlanded \o ring) \o <<e>>
    BY <1>0, <2>2, ConcatAssociative
  <2>4. Unlanded \o ring \in Seq(Event)
    BY <1>0, ConcatProperties
  <2>5. Append(Unlanded \o ring, e) = (Unlanded \o ring) \o <<e>>
    BY <2>4, AppendIsConcat
  <2>6. Log!Accept(e)
    BY <1>0, <2>2, <2>3, <2>5 DEF Log!Accept
  <2> QED  BY <2>6 DEF Log!Next
<1>2. CASE ~(Len(ring) < RingCap)
  BY <1>0, <1>2 DEF Enqueue, ringVars, Log!logVars
<1> QED  BY <1>1, <1>2

\* Every step of the store is a step of the log, or invisible to it.
LEMMA StepSimulates ==
  ASSUME ~StatementMayFail, TypeOK, SeqInv, LockInv, WorkInv, [Next]_vars
  PROVE  [Log!Next]_(Log!logVars)
<1>0. batch \in Seq(Event) /\ ring \in Seq(Event) /\ Len(ring) \in Nat /\ CommitMax \in Nat
      /\ Len(batch) \in Nat /\ CommitMax > 0 /\ at \in Nat
  BY StoreAssumption DEF TypeOK
<1>1. ASSUME NEW w \in Workers, RecordShare(w) \/ RecordCredit(w)
      PROVE  [Log!Next]_(Log!logVars)
  <2>1. <<"share", w>> \in Event /\ <<"credit", w>> \in Event
    BY DEF Event
  <2>2. UNCHANGED <<wpc, batch, db, lost>>
        /\ (Enqueue(<<"share", w>>) \/ Enqueue(<<"credit", w>>))
    BY <1>1 DEF RecordShare, RecordCredit, batchVars, dbVars
  <2> QED  BY <2>1, <2>2, EnqueueSimulates
<1>2. CASE Take
  <2> DEFINE take == IF Len(ring) > CommitMax THEN CommitMax ELSE Len(ring)
  <2>1. /\ batch' = SubSeq(ring, 1, take) /\ ring' = SubSeq(ring, take + 1, Len(ring))
        /\ wpc = "wait" /\ wpc' = "begin" /\ UNCHANGED <<db, lost>>
    BY <1>2 DEF Take, dbVars
  <2>2. take \in 0..Len(ring)
    BY <1>0
  <2> HIDE DEF take
  <2>3. SubSeq(ring, 1, take) \o SubSeq(ring, take + 1, Len(ring)) = SubSeq(ring, 1, Len(ring))
    <3>1. /\ 1 \in 1..Len(ring)+1 /\ take \in 1-1..Len(ring)
          /\ Len(ring) \in take..Len(ring)
      BY <1>0, <2>2
    <3>2. ring \in Seq(Event)
      BY <1>0
    <3> QED  BY ONLY <3>1, <3>2, ConcatAdjacentSubSeq
  <2>4. SubSeq(ring, 1, Len(ring)) = ring /\ <<>> \o ring = ring
    BY <1>0, SubSeqFull, ConcatEmptySeq
  <2>5. Unlanded = <<>> /\ Unlanded' = batch'
    BY <2>1 DEF Unlanded
  <2>6. (Unlanded \o ring)' = Unlanded \o ring
    BY <2>1, <2>3, <2>4, <2>5
  <2> QED  BY <2>1, <2>6 DEF Log!logVars
<1>3. CASE BeginFails
  <2>1. /\ wpc = "begin" /\ Len(batch) > 0 /\ Failed /\ UNCHANGED <<batch, ring, db>>
        /\ DbMayFail
    BY <1>3 DEF BeginFails, LockFree, LockInv, SeqInv, Busy, ringVars, dbVars
  <2> QED  BY <2>1, FailedSimulates
<1>4. CASE CommitFails
  <2>1. /\ wpc = "apply" /\ Len(batch) > 0 /\ Failed /\ UNCHANGED <<batch, ring, db>>
        /\ DbMayFail
    BY <1>4 DEF CommitFails, Rollback, WorkInv, SeqInv, Busy, ringVars
  <2> QED  BY <2>1, FailedSimulates
<1>5. CASE Commit
  <2>1. /\ wpc = "apply" /\ wpc' = "publish" /\ db' = work
        /\ UNCHANGED <<batch, ring, lost>> /\ at > Len(batch)
    BY <1>5 DEF Commit, ringVars, batchVars
  <2>2. Len(batch) > 0 /\ at <= Len(batch) + 1 /\ work = Log!Applied(db, SubSeq(batch, 1, at - 1))
    BY <2>1 DEF WorkInv, SeqInv, Busy
  <2>3. at - 1 = Len(batch)
    BY <1>0, <2>1, <2>2
  <2>4. /\ Len(batch) \in DOMAIN (batch \o ring)
        /\ SubSeq(batch \o ring, 1, Len(batch)) = batch
        /\ SubSeq(batch \o ring, Len(batch) + 1, Len(batch \o ring)) = ring
    BY <1>0, <2>2, BatchThenRing
  <2>5. SubSeq(batch, 1, Len(batch)) = batch /\ <<>> \o ring = ring
    BY <1>0, SubSeqFull, ConcatEmptySeq
  <2>6. Unlanded = batch /\ Unlanded' = <<>>
    BY <2>1 DEF Unlanded
  <2>7. Log!Land(Len(batch))
    BY <2>1, <2>2, <2>3, <2>4, <2>5, <2>6 DEF Log!Land
  <2> QED  BY <2>4, <2>6, <2>7 DEF Log!Next
<1>6. CASE Begin \/ ApplyOne \/ Publish \/ Exit
  <2>1. /\ UNCHANGED <<db, ring, lost>> /\ Unlanded' = Unlanded
    BY <1>6 DEF Begin, ApplyOne, Publish, Exit, WorkInv, ringVars, dbVars, batchVars, Unlanded
  <2> QED  BY <2>1 DEF Log!logVars
<1>7. CASE OtherBegin \/ OtherEnd \/ FlushStart \/ FlushEnd \/ Close \/ UNCHANGED vars
  <2>1. UNCHANGED <<db, ring, lost, wpc, batch>>
    BY <1>7 DEF OtherBegin, OtherEnd, FlushStart, FlushEnd, Close, vars, dbVars, batchVars, ringVars
  <2> QED  BY <2>1 DEF Log!logVars, Unlanded
<1> QED  BY <1>1, <1>2, <1>3, <1>4, <1>5, <1>6, <1>7 DEF Next, Writer, Done

\* Through ring, batches, retries and rollbacks the store implements the log
\* its callers rely on (EventLog): with a database whose statements do not
\* fail, every accepted event is applied once, in order and together with its
\* batch, or is counted in events_lost with all of it.
THEOREM StoreImplementsLog ==
  ASSUME ~StatementMayFail
  PROVE  Spec => ImplementsLog
<1>1. Init => Log!Init
  <2>1. <<>> \in Seq(Event)
    OBVIOUS
  <2>2. <<>> \o <<>> = <<>>
    BY <2>1, ConcatEmptySeq
  <2> QED  BY <2>2 DEF Init, Log!Init, Unlanded
<1>2. Init => LockInv /\ WorkInv
  BY DEF Init, LockInv, WorkInv
<1>3. TypeOK /\ SeqInv /\ LockInv /\ WorkInv /\ [Next]_vars
        => WorkInv' /\ [Log!Next]_(Log!logVars)
  BY WorkStep, StepSimulates
<1> QED  BY <1>1, <1>2, <1>3, StoreInvariant, LockStep, PTL
         DEF Spec, ImplementsLog, Log!Spec
=============================================================================
