----------------------------- MODULE StoreQueue -----------------------------
(***************************************************************************)
(* The store's write path (store.c): connection threads enqueue events     *)
(* into a bounded ring, the writer thread takes them out in batches and    *)
(* lands each batch in one transaction, with retries; other threads run    *)
(* transactions of their own on the same connection under txn_mu; main     *)
(* flushes and closes at shutdown.                                         *)
(*                                                                         *)
(* Two events per accepted share matter here: the row in shares, which     *)
(* says what the share was credited, and the credit itself (on_share_cb).  *)
(* Rejects and blocks take the same path.                                  *)
(***************************************************************************)
EXTENDS Integers, Sequences, FiniteSets

CONSTANTS
    Workers,      \* one connection thread each
    RingCap,      \* ring_cap
    CommitMax,    \* commit_max_shares
    Attempts,     \* STORE_COMMIT_ATTEMPTS
    DbMayFail,    \* BEGIN or COMMIT can fail
    StatementMayFail, \* a statement can fail inside a transaction
    MaxShares     \* bound: shares per connection

ASSUME StoreAssumption ==
    /\ IsFiniteSet(Workers)
    /\ {RingCap, CommitMax, Attempts, MaxShares} \subseteq Nat \ {0}
    /\ {DbMayFail, StatementMayFail} \subseteq BOOLEAN

Event == {"share", "credit"} \X Workers

VARIABLES
    conn,     \* per connection: shares handled, and whether a credit follows
    ring,     \* the ring buffer, oldest first
    enqSeq,   \* enqueue_seq
    doneSeq,  \* committed_seq
    wpc,      \* the writer thread
    batch,    \* the events it took out of the ring
    at,       \* the one it applies next
    seqAfter, \* seq_after
    attempt,  \* how often this batch failed
    db,       \* how often each event is in the database, durably
    work,     \* the same as seen inside the open transaction
    open,     \* a transaction is open on the connection
    lock,     \* who holds txn_mu
    lost,     \* events_lost
    main,     \* the main thread's way through shutdown
    target,   \* what store_flush waits for
    flushed   \* what store_flush returned

ringVars == <<ring, enqSeq>>
dbVars   == <<db, work, open, lock>>
batchVars == <<batch, at, seqAfter, attempt>>
mainVars == <<main, target, flushed>>
vars == <<conn, ring, enqSeq, doneSeq, wpc, batch, at, seqAfter, attempt, db,
          work, open, lock, lost, main, target, flushed>>

-----------------------------------------------------------------------------
(* Connection threads. *)

\* enqueue: the event goes to the head of the ring, or is dropped when full.
Enqueue(e) ==
    IF Len(ring) < RingCap
    THEN /\ ring' = Append(ring, e)
         /\ enqSeq' = enqSeq + 1
         ELSE UNCHANGED ringVars

\* on_share_cb in pps-classic mode: the share row first, with its amount.
RecordShare(w) ==
    /\ main = "run"
    /\ conn[w].pc = "idle"
    /\ conn[w].shares < MaxShares
    /\ Enqueue(<<"share", w>>)
    /\ conn' = [conn EXCEPT ![w] = [pc |-> "credit", shares |-> @.shares + 1]]
    /\ UNCHANGED <<doneSeq, wpc, batchVars, dbVars, lost, mainVars>>

\* Then the credit, whatever became of the row.
RecordCredit(w) ==
    /\ conn[w].pc = "credit"
    /\ Enqueue(<<"credit", w>>)
    /\ conn' = [conn EXCEPT ![w].pc = "idle"]
    /\ UNCHANGED <<doneSeq, wpc, batchVars, dbVars, lost, mainVars>>

-----------------------------------------------------------------------------
(* The writer thread. *)

\* Mutant: everything enqueued so far counts as taken.
SeqAfterAll(take) == enqSeq

\* seq_after: what is no longer in the ring.
SeqAfter(take) == enqSeq - (Len(ring) - take)

\* Drain up to commit_max_shares events, under mu.
Take ==
    /\ wpc = "wait"
    /\ ring # <<>>
    /\ LET take == IF Len(ring) > CommitMax THEN CommitMax ELSE Len(ring)
       IN  /\ batch' = SubSeq(ring, 1, take)
           /\ ring' = SubSeq(ring, take + 1, Len(ring))
           /\ seqAfter' = SeqAfter(take)
    /\ attempt' = 1
    /\ at' = 1
    /\ wpc' = "begin"
    /\ UNCHANGED <<conn, enqSeq, doneSeq, dbVars, lost, mainVars>>

\* Mutant: a transaction is opened without txn_mu.
LockFreeIgnored == TRUE

LockFree == lock = "none"

\* One more failed attempt; out of attempts the batch is lost.
Failed ==
    IF attempt < Attempts
    THEN attempt' = attempt + 1 /\ wpc' = "begin" /\ UNCHANGED lost
    ELSE attempt' = attempt /\ wpc' = "publish" /\ lost' = lost + Len(batch)

\* BEGIN IMMEDIATE under txn_mu.
Begin ==
    /\ wpc = "begin"
    /\ LockFree
    /\ ~open
    /\ lock' = "writer"
    /\ open' = TRUE
    /\ work' = db
    /\ at' = 1
    /\ wpc' = "apply"
    /\ UNCHANGED <<conn, ringVars, doneSeq, batch, seqAfter, attempt, db, lost, mainVars>>

\* It fails inside another transaction, and otherwise if the database does.
BeginFails ==
    /\ wpc = "begin"
    /\ LockFree
    /\ open \/ DbMayFail
    /\ Failed
    /\ UNCHANGED <<conn, ringVars, doneSeq, batch, at, seqAfter, dbVars, mainVars>>

\* process_event: the statement runs in the open transaction; if there is
\* none any more it commits by itself.  One that fails is counted and passed
\* over; SQLite may end the transaction with it (SQLITE_FULL, SQLITE_IOERR).
ApplyOne ==
    /\ wpc = "apply"
    /\ at <= Len(batch)
    /\ LET e == batch[at] IN
       \/ /\ work' = [work EXCEPT ![e] = @ + 1]
          /\ db' = IF open THEN db ELSE work'
          /\ UNCHANGED open
       \/ /\ StatementMayFail
          /\ UNCHANGED <<work, db, open>>
       \/ /\ StatementMayFail
          /\ open
          /\ work' = db
          /\ open' = FALSE
          /\ UNCHANGED db
    /\ at' = at + 1
    /\ UNCHANGED <<conn, ringVars, doneSeq, wpc, batch, seqAfter, attempt, lock,
                   lost, mainVars>>

Commit ==
    /\ wpc = "apply"
    /\ at > Len(batch)
    /\ open
    /\ db' = work
    /\ open' = FALSE
    /\ lock' = "none"
    /\ wpc' = "publish"
    /\ UNCHANGED <<conn, ringVars, doneSeq, batchVars, work, lost, mainVars>>

\* Mutant: the rollback after a failed COMMIT is missing, and what was
\* written comes to light with the next transaction.
RollbackMissing == db' = work

Rollback == UNCHANGED db

\* COMMIT fails, or there is nothing to commit: ROLLBACK and try again.
CommitFails ==
    /\ wpc = "apply"
    /\ at > Len(batch)
    /\ DbMayFail \/ ~open
    /\ Rollback
    /\ work' = db'
    /\ open' = FALSE
    /\ lock' = "none"
    /\ Failed
    /\ UNCHANGED <<conn, ringVars, doneSeq, batch, at, seqAfter, mainVars>>

\* Under mu again: committed_seq moves whether the batch landed or not.
Publish ==
    /\ wpc = "publish"
    /\ doneSeq' = seqAfter
    /\ batch' = <<>>
    /\ wpc' = "wait"
    /\ UNCHANGED <<conn, ringVars, at, seqAfter, attempt, dbVars, lost, mainVars>>

\* Mutant: the thread leaves as soon as it is told to stop.
WriterDoneAtOnce == main = "closing"

WriterDone == main = "closing" /\ ring = <<>>

Exit ==
    /\ wpc = "wait"
    /\ WriterDone
    /\ wpc' = "exit"
    /\ UNCHANGED <<conn, ringVars, doneSeq, batchVars, dbVars, lost, mainVars>>

Writer == Take \/ Begin \/ BeginFails \/ ApplyOne \/ Commit \/ CommitFails
          \/ Publish \/ Exit

-----------------------------------------------------------------------------
(* Another thread's transaction on the same connection: txn_begin, and      *)
(* txn_commit or txn_rollback (distribution, staging and settling).         *)

OtherBegin ==
    /\ lock = "none"
    /\ ~open
    /\ main = "run"
    /\ lock' = "other"
    /\ open' = TRUE
    /\ work' = db
    /\ UNCHANGED <<conn, ringVars, doneSeq, wpc, batchVars, db, lost, mainVars>>

\* Committed or rolled back, it writes none of the events.
OtherEnd ==
    /\ lock = "other"
    /\ lock' = "none"
    /\ open' = FALSE
    /\ UNCHANGED <<conn, ringVars, doneSeq, wpc, batchVars, db, work, lost, mainVars>>

-----------------------------------------------------------------------------
(* The main thread at shutdown.  The watcher and the listeners are joined     *)
(* first; connections are told to stop and end after the message at hand.    *)
(* Nobody joins them: that one outlasts the flush is left out.               *)

FlushStart ==
    /\ main = "run"
    /\ \A w \in Workers : conn[w].pc = "idle"
    /\ lock # "other"
    /\ main' = "flush"
    /\ target' = enqSeq
    /\ UNCHANGED <<conn, ringVars, doneSeq, wpc, batchVars, dbVars, lost, flushed>>

\* store_flush returns 0, or -1 after five seconds; main goes on either way.
FlushEnd ==
    /\ main = "flush"
    /\ \/ doneSeq >= target /\ flushed' = "ok"
       \/ doneSeq < target /\ flushed' = "timeout"
    /\ main' = "closing"
    /\ UNCHANGED <<conn, ringVars, doneSeq, wpc, batchVars, dbVars, lost, target>>

\* store_close joins the writer.
Close ==
    /\ main = "closing"
    /\ wpc = "exit"
    /\ main' = "closed"
    /\ UNCHANGED <<conn, ringVars, doneSeq, wpc, batchVars, dbVars, lost, target, flushed>>

-----------------------------------------------------------------------------
Init ==
    /\ conn = [w \in Workers |-> [pc |-> "idle", shares |-> 0]]
    /\ ring = <<>>
    /\ enqSeq = 0
    /\ doneSeq = 0
    /\ wpc = "wait"
    /\ batch = <<>>
    /\ at = 1
    /\ seqAfter = 0
    /\ attempt = 1
    /\ db = [e \in Event |-> 0]
    /\ work = db
    /\ open = FALSE
    /\ lock = "none"
    /\ lost = 0
    /\ main = "run"
    /\ target = 0
    /\ flushed = "no"

\* The process has exited.
Done == main = "closed" /\ UNCHANGED vars

Next == \/ \E w \in Workers : RecordShare(w) \/ RecordCredit(w)
        \/ Writer
        \/ OtherBegin \/ OtherEnd
        \/ FlushStart \/ FlushEnd \/ Close \/ Done

Spec == Init /\ [][Next]_vars

\* Every thread runs; nobody has to submit shares or to ask for a shutdown.
Fairness ==
    /\ \A w \in Workers : WF_vars(RecordCredit(w))
    /\ SF_vars(Begin)
    /\ WF_vars(Writer)
    /\ WF_vars(OtherEnd)
    /\ WF_vars(FlushEnd)
    /\ WF_vars(Close)

FairSpec == Spec /\ Fairness

-----------------------------------------------------------------------------
(* Properties. *)

\* Every variable keeps its type, and the ring never exceeds its capacity.
TypeOK ==
    /\ conn \in [Workers -> [pc : {"idle", "credit"}, shares : 0..MaxShares]]
    /\ ring \in Seq(Event) /\ Len(ring) <= RingCap
    /\ {enqSeq, doneSeq, seqAfter, target, lost} \subseteq Nat
    /\ wpc \in {"wait", "begin", "apply", "publish", "exit"}
    /\ batch \in Seq(Event) /\ Len(batch) <= CommitMax
    /\ at \in 1..(CommitMax + 1)
    /\ attempt \in 1..Attempts
    /\ db \in [Event -> Nat]
    /\ work \in [Event -> Nat]
    /\ open \in BOOLEAN
    /\ lock \in {"none", "writer", "other"}
    /\ main \in {"run", "flush", "closing", "closed"}
    /\ flushed \in {"no", "ok", "timeout"}

\* What the writer still has to land.
Unlanded == IF wpc \in {"begin", "apply"} THEN batch ELSE <<>>

Log == INSTANCE EventLog WITH
           Lossy <- DbMayFail, pending <- Unlanded \o ring, table <- db,
           dropped <- lost

\* Through ring, batches, retries and rollbacks, the store implements the
\* log its callers rely on.
ImplementsLog == Log!Spec

\* A flush that reports success leaves nothing behind in the ring or in the
\* writer's hands: committed_seq counts exactly what came out of the ring.
FlushDrains == (flushed = "ok") => (ring = <<>> /\ Unlanded = <<>>)

\* The writer's BEGIN never meets an open transaction on the shared
\* connection, its own or another thread's: txn_mu serialises them, so a batch
\* is lost to a failing database only.
BeginNeverNested == (wpc = "begin" /\ LockFree) => ~open

\* Shutdown terminates and leaves nothing in the ring: whatever a timed out
\* flush left goes through the writer before it is joined.
CloseDrains == (main = "flush") ~> (main = "closed" /\ ring = <<>> /\ Unlanded = <<>>)
=============================================================================
