----------------------------- MODULE WorkerIds -----------------------------
(***************************************************************************)
(* Whose row a share gets: the store's writer (store.c) turns the name of  *)
(* a worker into an id with an upsert, and keeps the ids it has seen in a  *)
(* cache that knows nothing of transactions.  Statements and commits fail; *)
(* a rollback takes back new workers and the counter their ids come from,  *)
(* so an id may be given out again, to another worker.                     *)
(*                                                                         *)
(* Events of every kind that name a worker are shares here; the queue they *)
(* come through is module StoreQueue.                                      *)
(***************************************************************************)
EXTENDS Integers, Sequences

CONSTANTS
    Names,        \* worker names
    CacheSlots,   \* WORKER_CACHE_SLOTS
    NameHash,     \* name_hash, reduced to a slot
    Batches,      \* the batches of events there may be: sequences of names
    MaxBatches,   \* bound: batches taken
    Tries         \* STORE_COMMIT_ATTEMPTS

NoId == 0
NoName == "no name"

ASSUME WorkerIdsAssumption ==
    /\ CacheSlots \in Nat \ {0} /\ Tries \in Nat \ {0} /\ MaxBatches \in Nat
    /\ NameHash \in [Names -> 0..CacheSlots - 1]
    /\ Batches \subseteq Seq(Names) \ {<<>>}
    /\ NoName \notin Names

VARIABLES
    disk,         \* what is committed: [ids, last, shares]
    view,         \* what the writer's statements see
    inTx,         \* its transaction is open
    cache,        \* the cache, by slot: [name, id]
    ipc,          \* the writer: "idle", "begin", "upsert", "insert", "commit"
    events,       \* the batch
    nth,          \* the event at hand
    wid,          \* its worker's id
    tries, begun,
    undone,       \* history: a transaction was rolled back
    refused       \* history: an upsert failed

idVars == <<disk, view, inTx, cache, ipc, events, nth, wid, tries, begun, undone,
            refused>>

EmptySlot == [name |-> NoName, id |-> NoId]

InitIds ==
    /\ disk = [ids |-> [n \in Names |-> NoId], last |-> 0, shares |-> {}]
    /\ view = disk /\ inTx = FALSE
    /\ cache = [i \in 0..CacheSlots - 1 |-> EmptySlot]
    /\ ipc = "idle" /\ events = <<>> /\ nth = 1 /\ wid = NoId
    /\ tries = 0 /\ begun = 0
    /\ undone = FALSE /\ refused = FALSE

-----------------------------------------------------------------------------
(* The cache: linear probing, never a deletion. *)

Slot(n, i) == (NameHash[n] + i) % CacheSlots

\* The probe ends at the first slot that is unused or has the name.
ProbeEnds(n, i) == cache[Slot(n, i)].name \in {NoName, n}

\* At most one slot; none if the cache is full of others.
SlotOfName(n) ==
    {Slot(n, i) : i \in {j \in 0..CacheSlots - 1 :
                            ProbeEnds(n, j) /\ \A k \in 0..j - 1 : ~ProbeEnds(n, k)}}

CacheLookup(n) ==
    IF SlotOfName(n) = {} THEN NoId ELSE cache[CHOOSE i \in SlotOfName(n) : TRUE].id

CacheInsert(n, id) ==
    [i \in DOMAIN cache |->
        IF i \in SlotOfName(n) THEN [name |-> n, id |-> id] ELSE cache[i]]

-----------------------------------------------------------------------------
(* A batch: commit_batch. *)

TakeEvents ==
    /\ ipc = "idle" /\ begun < MaxBatches
    /\ events' \in Batches
    /\ begun' = begun + 1 /\ tries' = 1
    /\ ipc' = "begin"
    /\ UNCHANGED <<disk, view, inTx, cache, nth, wid, undone, refused>>

\* The batch again from the start, while there are attempts left.
TryAgain ==
    IF tries < Tries THEN tries' = tries + 1 /\ ipc' = "begin"
    ELSE ipc' = "idle" /\ UNCHANGED tries

BeginBatchFails ==
    /\ ipc = "begin"
    /\ TryAgain
    /\ UNCHANGED <<disk, view, inTx, cache, events, nth, wid, begun, undone, refused>>

BeginBatch ==
    /\ ipc = "begin"
    /\ inTx' = TRUE /\ nth' = 1 /\ ipc' = "upsert"
    /\ UNCHANGED <<disk, view, cache, events, wid, tries, begun, undone, refused>>

\* A statement sees the database as s; outside a transaction that is final.
Writes(s) ==
    /\ view' = s
    /\ disk' = IF inTx THEN disk ELSE s
    /\ UNCHANGED <<inTx, undone>>

\* It fails; with some errors SQLite rolls the transaction back.
WritesNothing ==
    \/ UNCHANGED <<disk, view, inTx, undone>>
    \/ /\ inTx /\ inTx' = FALSE /\ undone' = TRUE
       /\ view' = disk /\ UNCHANGED disk

\* The next event; after the last, the commit.
NextEvent ==
    /\ nth' = nth + 1
    /\ ipc' = IF nth = Len(events) THEN "commit" ELSE "upsert"

\* INSERT ... ON CONFLICT(name) DO UPDATE: a new worker gets the next id.
Upserted(n) ==
    IF view.ids[n] # NoId THEN view
    ELSE [ids |-> [view.ids EXCEPT ![n] = view.last + 1], last |-> view.last + 1,
          shares |-> view.shares]

\* Mutant: an id in the cache spares the writer the one that was returned.
ResolvedFromCache(n) ==
    IF CacheLookup(n) # NoId THEN CacheLookup(n) ELSE Upserted(n).ids[n]

\* RETURNING id
Resolved(n) == Upserted(n).ids[n]

\* resolve_worker_id: the upsert runs whether or not the id is cached, and a
\* cached id is not replaced.
Upsert ==
    /\ ipc = "upsert"
    /\ LET n == events[nth] IN
       /\ Writes(Upserted(n))
       /\ wid' = Resolved(n)
       /\ cache' = IF CacheLookup(n) = NoId THEN CacheInsert(n, wid') ELSE cache
    /\ ipc' = "insert"
    /\ UNCHANGED <<events, nth, tries, begun, refused>>

\* The cached id does then; without one the event is dropped.
UpsertFails ==
    /\ ipc = "upsert"
    /\ WritesNothing
    /\ refused' = TRUE
    /\ wid' = CacheLookup(events[nth])
    /\ IF wid' # NoId THEN ipc' = "insert" /\ UNCHANGED nth ELSE NextEvent
    /\ UNCHANGED <<cache, events, tries, begun>>

\* The row is written under that id, if there is such a worker (REFERENCES).
InsertShare ==
    /\ ipc = "insert"
    /\ \/ /\ \E m \in Names : view.ids[m] = wid
          /\ Writes([view EXCEPT !.shares = @ \cup {[of |-> events[nth], id |-> wid]}])
       \/ WritesNothing
    /\ NextEvent
    /\ UNCHANGED <<cache, events, wid, tries, begun, refused>>

CommitBatch ==
    /\ ipc = "commit" /\ inTx
    /\ disk' = view /\ inTx' = FALSE
    /\ ipc' = "idle"
    /\ UNCHANGED <<view, cache, events, nth, wid, tries, begun, undone, refused>>

\* COMMIT fails, or there is nothing to commit: ROLLBACK.
CommitBatchFails ==
    /\ ipc = "commit"
    /\ view' = disk /\ inTx' = FALSE /\ undone' = TRUE
    /\ TryAgain
    /\ UNCHANGED <<disk, cache, events, nth, wid, begun, refused>>

NextIds ==
    \/ TakeEvents \/ BeginBatch \/ BeginBatchFails \/ Upsert \/ UpsertFails
    \/ InsertShare \/ CommitBatch \/ CommitBatchFails

IdsSpec == InitIds /\ [][NextIds]_idVars
-----------------------------------------------------------------------------
\* A share stands under its own worker, though the cache outlives rollbacks
\* and may hold an id that now is another's: it takes a rollback and a failed
\* upsert together to use one.
ShareToItsWorker ==
    (undone /\ refused) \/ \A s \in disk.shares : disk.ids[s.of] = s.id
=============================================================================
