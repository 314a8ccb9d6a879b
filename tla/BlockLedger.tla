---------------------------- MODULE BlockLedger ----------------------------
(***************************************************************************)
(* The life of a block the pool finds: solved by a miner, submitted to the *)
(* node, recorded in blocks_found, judged confirmed or orphaned by the tip *)
(* watcher, and finally paid exactly once - out of the PPLNS ledger        *)
(* (pps_credits) or, in pplns-coinbase mode, as a rotation of the payout   *)
(* queue (pplns_fractions).                                                *)
(*                                                                         *)
(* Three kinds of thread and the node act on this state:                   *)
(*   - a stratum connection thread per candidate (stratum.c, the tail of   *)
(*     submit_with_job);                                                   *)
(*   - the store's writer thread (store.c, writer_main), which moves       *)
(*     queued events into SQLite;                                          *)
(*   - the tip watcher (main.c, tip_watcher; reconcile.c);                 *)
(*   - the node (external): its active chain grows and reorganises between *)
(*     any two steps of the others.                                        *)
(*                                                                         *)
(* A block is a model value.  Only the pool's own blocks are told apart:   *)
(* every other block is Foreign, because the code compares hashes with its *)
(* own candidates only.                                                    *)
(***************************************************************************)
EXTENDS Integers, Sequences, FiniteSets

CONSTANTS
    Ours,        \* the candidates the pool's miners may solve
    Foreign,     \* any block somebody else mined
    None,        \* no observation
    Modes,       \* the pool modes a (re)start may choose from
    Maturity,    \* PPLNS_MATURITY_CONFS
    FinalDepth,  \* BLOCK_FINAL_DEPTH
    MaxPerTick,  \* RECONCILE_MAX_PER_TICK
    RingCap,     \* store_cfg_t.ring_size, in events
    Keep,        \* templates retention, in heights
    ServesGetBlockHash, \* whether the backend answers getblockhash
    RpcMayFail,  \* whether node RPCs can fail or lose their answer
    DbMayFail,   \* whether SQLite transactions can fail
    BuildMayFail,\* whether building the next job can fail
    MaxReorg,    \* deepest reorganisation of the node's chain
    MaxLag,      \* blocks that can arrive before a candidate is on record
    MaxHeight,   \* bound: the chain stops growing here
    MaxCrashes   \* bound: how often the pool process dies

ASSUME ConstantsAssumption ==
    /\ IsFiniteSet(Ours)
    /\ Foreign \notin Ours
    /\ None \notin Ours \cup {Foreign}
    /\ Modes \subseteq {"pplns", "coinbase"}
    /\ Maturity \in Nat \ {0}
    /\ FinalDepth \in Nat \ {0}
    /\ MaxPerTick \in Nat \ {0}
    /\ RingCap \in Nat \ {0}
    /\ Keep \in Nat \ {0}
    /\ {ServesGetBlockHash, RpcMayFail, DbMayFail, BuildMayFail} \subseteq BOOLEAN
    /\ MaxReorg \in Nat
    /\ MaxLag \in Nat \ {0}
    /\ MaxHeight \in Nat \ {0}
    /\ MaxCrashes \in Nat

Blocks == Ours \cup {Foreign}

VARIABLES
    chain,    \* the node's active chain; chain[h] is the block at height h
    fork,     \* the branch it abandoned last
    cand,     \* per candidate: its connection thread's progress and its facts
    job,      \* the template height of the job the miners work on
    queue,    \* the store's ring: <<kind, block>> events not yet committed
    rows,     \* blocks_found, by hash (the UNIQUE index)
    anchored, \* candidates whose own share is in the shares table
    staged,   \* block hashes in pplns_pending_fractions
    templates,\* per height, the prev_hash of the newest templates row
    paid,     \* per candidate, how many times pps_credits was credited for it
    rotated,  \* per candidate, how often its deltas reached pplns_fractions
    mode,     \* the pool mode of the running process
    pc,       \* where the tip watcher is; "down" while the process is dead
    tmpl,     \* the template it polled last: [height, prev]
    last,     \* the template the current job was built from (last_height ...)
    gbh,      \* gbh_state: -1 unsupported, 0 unknown, 1 served
    todo,     \* the candidates of this pass still to be checked
    crashes   \* how often the process has died

poolVars  == <<cand, job, queue, mode>>
dbVars    == <<rows, anchored, staged, templates, paid, rotated>>
tipVars   == <<pc, tmpl, last, gbh, todo>>
nodeVars  == <<chain, fork>>
vars      == <<chain, fork, cand, job, queue, rows, anchored, staged,
               templates, paid, rotated, mode, pc, tmpl, last, gbh, todo,
               crashes>>

-----------------------------------------------------------------------------
(* Types. *)

Heights == 0..(MaxHeight + 1)

Statuses == {"none", "pending", "confirmed", "orphaned", "rejected"}

\* A row of blocks_found.  "none": there is no row.  `window` says whether
\* pplns_window_diff is positive, `dist` is the pplns_distributed latch.
Row == [status : Statuses, height : Heights, confs : Nat,
        window : BOOLEAN, dist : BOOLEAN, id : Nat]

NoRow == [status |-> "none", height |-> 0, confs |-> 0,
          window |-> FALSE, dist |-> FALSE, id |-> 0]

\* What the connection thread that solved a candidate knows.
Cand == [pc : {"idle", "submitted", "shared", "staged", "done", "dead"},
         height : Heights, accepted : BOOLEAN, mode : Modes]

Template == [height : Heights, prev : Blocks \cup {None}]

NoTemplate == [height |-> 0, prev |-> None]

Event == {"share", "block"} \X Ours

-----------------------------------------------------------------------------
(* The node (external).  A reorganisation always ends on a longer chain. *)

Tip == IF chain = <<>> THEN None ELSE chain[Len(chain)]

\* Between submitblock and its row a candidate is in flight for milliseconds
\* (ring and commit window), and blocks take minutes: at most MaxLag of them
\* arrive meanwhile.
InFlight(b) ==
    \/ cand[b].pc \in {"submitted", "shared", "staged"}
    \/ \E i \in DOMAIN queue : queue[i] = <<"block", b>>

CanGrow ==
    /\ Len(chain) < MaxHeight
    /\ \A b \in Ours : InFlight(b) => Len(chain) < cand[b].height + MaxLag

Extend ==
    /\ CanGrow
    /\ chain' = Append(chain, Foreign)
    /\ UNCHANGED <<fork, poolVars, dbVars, tipVars, crashes>>

\* A foreign branch overtakes the last k blocks by one.
Reorg(k) ==
    /\ k <= Len(chain)
    /\ CanGrow
    /\ chain' = [h \in 1..(Len(chain) + 1) |->
                    IF h <= Len(chain) - k THEN chain[h] ELSE Foreign]
    /\ fork' = chain
    /\ UNCHANGED <<poolVars, dbVars, tipVars, crashes>>

\* The abandoned branch is extended by others and wins after all.
ReorgBack ==
    /\ fork # <<>>
    /\ CanGrow
    /\ chain' = [h \in 1..(Len(chain) + 1) |->
                    IF h <= Len(fork) THEN fork[h] ELSE Foreign]
    /\ \A h \in 1..(Len(chain) - MaxReorg) : chain'[h] = chain[h]
    /\ fork' = chain
    /\ UNCHANGED <<poolVars, dbVars, tipVars, crashes>>

-----------------------------------------------------------------------------
(* A connection thread: the tail of submit_with_job once is_block holds. *)

Up == pc # "down"

\* on_block_cb: submitblock.  A candidate that no longer builds on the tip
\* is refused.  With RpcMayFail the call can fail before the node saw the
\* block, or the answer can be lost after the node connected it; both are
\* an error to the caller.
SubmitBlock(b) ==
    /\ Up
    /\ cand[b].pc = "idle"
    /\ job > 0
    /\ \E connects, answered \in BOOLEAN :
         /\ connects => job = Len(chain) + 1 /\ CanGrow
         /\ (~connects /\ job = Len(chain) + 1) => RpcMayFail
         /\ (connects /\ ~answered) => RpcMayFail
         /\ chain' = IF connects THEN Append(chain, b) ELSE chain
         /\ cand' = [cand EXCEPT ![b] =
                       [pc |-> "submitted", height |-> job, mode |-> mode,
                        accepted |-> connects /\ answered]]
    /\ UNCHANGED <<fork, job, queue, mode, dbVars, tipVars, crashes>>

\* enqueue: a full ring drops the event.
Enqueue(ev) ==
    queue' = IF Len(queue) < RingCap THEN Append(queue, ev) ELSE queue

\* Mutant: the share of a candidate the node refused is not recorded.
RecordShareIfAccepted(b) ==
    /\ Up
    /\ cand[b].pc = "submitted"
    /\ IF cand[b].accepted THEN Enqueue(<<"share", b>>) ELSE UNCHANGED queue
    /\ cand' = [cand EXCEPT ![b].pc = "shared"]
    /\ UNCHANGED <<job, mode, nodeVars, dbVars, tipVars, crashes>>

\* on_share_cb: the candidate's own share goes into the ring first.
RecordShare(b) ==
    /\ Up
    /\ cand[b].pc = "submitted"
    /\ Enqueue(<<"share", b>>)
    /\ cand' = [cand EXCEPT ![b].pc = "shared"]
    /\ UNCHANGED <<job, mode, nodeVars, dbVars, tipVars, crashes>>

\* on_window_fractions_cb: only an accepted block of a coinbase-direct pool
\* that had to skip somebody stages deltas, in a transaction of its own.
StageFractions(b) ==
    /\ Up
    /\ cand[b].pc = "shared"
    /\ \/ /\ cand[b].accepted
          /\ cand[b].mode = "coinbase"
          /\ staged' = staged \cup {b}
       \/ UNCHANGED staged
    /\ cand' = [cand EXCEPT ![b].pc = "staged"]
    /\ UNCHANGED <<job, queue, mode, rows, anchored, templates, paid, rotated,
                   nodeVars, tipVars, crashes>>

\* on_block_found_cb / store_record_block: the row goes through the ring too.
RecordBlock(b) ==
    /\ Up
    /\ cand[b].pc = "staged"
    /\ Enqueue(<<"block", b>>)
    /\ cand' = [cand EXCEPT ![b].pc = "done"]
    /\ UNCHANGED <<job, mode, nodeVars, dbVars, tipVars, crashes>>

-----------------------------------------------------------------------------
(* The writer thread.  Batches end anywhere, so one event per step reaches  *)
(* every state a longer batch does; StoreQueue models batches themselves.   *)

\* process_event on EV_BLOCK: INSERT OR IGNORE.  Only a pool that keeps a
\* PPLNS ledger snapshots a window for the block.
NewRow(b) ==
    [status |-> IF cand[b].accepted THEN "pending" ELSE "rejected",
     height |-> cand[b].height, confs |-> 0,
     window |-> cand[b].mode = "pplns", dist |-> FALSE,
     id     |-> Cardinality({c \in Ours : rows[c].status # "none"}) + 1]

Commit ==
    /\ Up
    /\ queue # <<>>
    /\ LET kind == Head(queue)[1]
           b    == Head(queue)[2]
       IN  \/ /\ kind = "share"
              /\ anchored' = anchored \cup {b}
              /\ UNCHANGED rows
           \/ /\ kind = "block"
              /\ rows' = [rows EXCEPT ![b] =
                            IF @.status = "none" THEN NewRow(b) ELSE @]
              /\ UNCHANGED anchored
    /\ queue' = Tail(queue)
    /\ UNCHANGED <<cand, job, mode, staged, templates, paid, rotated,
                   nodeVars, tipVars, crashes>>

\* commit_batch out of attempts: the events are gone.
LoseBatch ==
    /\ Up
    /\ DbMayFail
    /\ queue # <<>>
    /\ queue' = Tail(queue)
    /\ UNCHANGED <<cand, job, mode, nodeVars, dbVars, tipVars, crashes>>

-----------------------------------------------------------------------------
(* The tip watcher. *)

TipHeight == tmpl.height - 1

Verdict(r, status, confs) == [r EXCEPT !.status = status, !.confs = confs]

\* getblocktemplate.  Only a new tip changes anything here: the periodic
\* refresh rebuilds the same job and folds into the same templates row.
\* The node_status row mirrors tmpl.
Poll ==
    /\ pc = "poll"
    /\ tmpl' = [height |-> Len(chain) + 1, prev |-> Tip]
    /\ tmpl' # last
    /\ pc' = IF Len(chain) = 0 THEN "build"
             ELSE IF gbh >= 0 THEN "list" ELSE "templates"
    /\ UNCHANGED <<last, gbh, todo, poolVars, nodeVars, dbVars, crashes>>

\* Mutant: only pending rows are listed, so a confirmed row never ages.
ShallowPendingOnly == {b \in Ours : /\ rows[b].status = "pending"
                                    /\ rows[b].confs < FinalDepth
                                    /\ rows[b].height <= TipHeight}

\* store_list_unresolved_blocks: ORDER BY height DESC, id DESC LIMIT cap.
Shallow == {b \in Ours : /\ rows[b].status \in {"pending", "confirmed"}
                         /\ rows[b].confs < FinalDepth
                         /\ rows[b].height <= TipHeight}

Newer(a, b) == \/ rows[a].height > rows[b].height
               \/ rows[a].height = rows[b].height /\ rows[a].id > rows[b].id

Listed == {b \in Shallow : Cardinality({a \in Shallow : Newer(a, b)}) < MaxPerTick}

List ==
    /\ pc = "list"
    /\ todo' = Listed
    /\ pc' = "check"
    /\ UNCHANGED <<tmpl, last, gbh, poolVars, nodeVars, dbVars, crashes>>

\* Mutant: one confirmation too many.
NodeVerdictOffByOne(b) ==
    LET h == rows[b].height IN
    IF chain[h] = b THEN Verdict(rows[b], "confirmed", TipHeight - h + 2)
    ELSE Verdict(rows[b], "orphaned", 0)

\* What the node's block at the candidate's height says about it.
NodeVerdict(b) ==
    LET h == rows[b].height IN
    IF chain[h] = b THEN Verdict(rows[b], "confirmed", TipHeight - h + 1)
    ELSE Verdict(rows[b], "orphaned", 0)

\* One getblockhash per candidate, newest first, and its verdict at once; a
\* failed UPDATE is not retried.
CheckOne ==
    /\ pc = "check"
    /\ ServesGetBlockHash
    /\ \E b \in todo :
         /\ \A a \in todo \ {b} : ~Newer(a, b)
         /\ \/ rows' = [rows EXCEPT ![b] = NodeVerdict(b)]
            \/ DbMayFail /\ UNCHANGED rows
         /\ todo' = todo \ {b}
    /\ gbh' = 1
    /\ UNCHANGED <<pc, tmpl, last, anchored, staged, templates, paid, rotated,
                   poolVars, nodeVars, crashes>>

\* "Method not found" latches; the templates pass takes over.
CheckUnsupported ==
    /\ pc = "check"
    /\ todo # {}
    /\ ~ServesGetBlockHash
    /\ gbh' = -1
    /\ todo' = {}
    /\ pc' = "templates"
    /\ UNCHANGED <<tmpl, last, poolVars, nodeVars, dbVars, crashes>>

\* A transient error ends the pass over candidates and settles it.
CheckFails ==
    /\ pc = "check"
    /\ todo # {}
    /\ RpcMayFail
    /\ todo' = {}
    /\ pc' = "settle"
    /\ UNCHANGED <<tmpl, last, gbh, poolVars, nodeVars, dbVars, crashes>>

\* Mutant: the early return that once kept a getblockhash-capable pool from
\* ever distributing (the warning in reconcile.c).
CheckDoneReturnsEarly ==
    /\ pc = "check"
    /\ todo = {}
    /\ pc' = IF gbh > 0 THEN "build" ELSE "templates"
    /\ UNCHANGED <<tmpl, last, gbh, todo, poolVars, nodeVars, dbVars, crashes>>

CheckDone ==
    /\ pc = "check"
    /\ todo = {}
    /\ pc' = IF gbh > 0 THEN "settle" ELSE "templates"
    /\ UNCHANGED <<tmpl, last, gbh, todo, poolVars, nodeVars, dbVars, crashes>>

\* store_reconcile_blocks_from_templates on one row: Q_RESOLVE against the
\* newest observation at height + 1, then Q_IMPOSSIBLE.
FromTemplates(b, tip) ==
    LET r == rows[b]
        observed == templates[r.height + 1]
        depth == IF tip - r.height + 1 > 0 THEN tip - r.height + 1 ELSE 0
    IN  IF r.status \in {"none", "rejected"} THEN r
        ELSE IF r.height > tip THEN Verdict(r, "orphaned", 0)
        ELSE IF observed = None THEN r
        ELSE IF observed = b THEN Verdict(r, "confirmed", depth)
        ELSE Verdict(r, "orphaned", 0)

TemplatesPass ==
    /\ pc = "templates"
    /\ \/ rows' = [b \in Ours |-> FromTemplates(b, TipHeight)]
       \/ DbMayFail /\ UNCHANGED rows
    /\ pc' = "settle"
    /\ UNCHANGED <<tmpl, last, gbh, todo, anchored, staged, templates, paid,
                   rotated, poolVars, nodeVars, crashes>>

\* Mutant: applied deltas stay staged.
SettledOrphansOnly == {b \in staged : rows[b].status = "orphaned"}

\* The hashes ONE_HASH selects and DROP_ONE deletes.
Settled == {b \in staged : rows[b].status \in {"confirmed", "orphaned"}}

\* store_settle_block_fractions: one transaction applies the deltas of every
\* confirmed block and drops those of every orphan.  Runs in every mode.
Settle ==
    /\ pc = "settle"
    /\ \/ /\ staged' = staged \ Settled
          /\ rotated' = [b \in Ours |->
                           IF b \in staged /\ rows[b].status = "confirmed"
                           THEN rotated[b] + 1 ELSE rotated[b]]
       \/ DbMayFail /\ UNCHANGED <<staged, rotated>>
    /\ pc' = IF mode = "pplns" THEN "distribute" ELSE "build"
    /\ UNCHANGED <<tmpl, last, gbh, todo, rows, anchored, templates, paid,
                   poolVars, nodeVars, crashes>>

\* Mutant: a block without a window is due as well.
DueWithoutWindow == {b \in Ours : /\ rows[b].status = "confirmed"
                                  /\ ~rows[b].dist
                                  /\ rows[b].confs >= Maturity}

\* store_pplns_distribute: Q_DUE.
Due == {b \in Ours : /\ rows[b].status = "confirmed"
                     /\ ~rows[b].dist
                     /\ rows[b].confs >= Maturity
                     /\ rows[b].window}

\* One transaction per block, lowest height first: the window is anchored at
\* the block's own share, so without that share nobody is in it and only the
\* latch is set.
DistributeOne ==
    /\ pc = "distribute"
    /\ \E b \in Due :
         /\ \A a \in Due : rows[b].height <= rows[a].height
         /\ paid' = [paid EXCEPT ![b] = IF b \in anchored THEN @ + 1 ELSE @]
         /\ rows' = [rows EXCEPT ![b].dist = TRUE]
    /\ UNCHANGED <<anchored, staged, templates, rotated, tipVars, poolVars,
                   nodeVars, crashes>>

\* No more due rows, or a failed transaction, which ends the pass.
DistributeDone ==
    /\ pc = "distribute"
    /\ Due = {} \/ DbMayFail
    /\ pc' = "build"
    /\ UNCHANGED <<tmpl, last, gbh, todo, poolVars, nodeVars, dbVars, crashes>>

\* store_record_template: a new row for new work, and history older than the
\* retention goes with it.
RecordTemplate(t) ==
    templates' = [h \in Heights |-> IF h = t.height THEN t.prev
                                    ELSE IF h + Keep < t.height THEN None
                                    ELSE templates[h]]

\* build_job_from_template, attach_pplns_window, set_job, refresh_pps_rate.
Build ==
    /\ pc = "build"
    /\ job' = tmpl.height
    /\ RecordTemplate(tmpl)
    /\ last' = tmpl
    /\ pc' = "poll"
    /\ UNCHANGED <<tmpl, gbh, todo, cand, queue, mode, rows, anchored, staged,
                   paid, rotated, nodeVars, crashes>>

\* No job, or no window to attach: nothing is published and last_height stays,
\* so the next poll sees a new tip again.
BuildFails ==
    /\ pc = "build"
    /\ BuildMayFail
    /\ pc' = "poll"
    /\ UNCHANGED <<tmpl, last, gbh, todo, poolVars, nodeVars, dbVars, crashes>>

-----------------------------------------------------------------------------
(* The process dies and is started again, possibly in another mode. *)

Crash ==
    /\ Up
    /\ crashes < MaxCrashes
    /\ crashes' = crashes + 1
    /\ queue' = <<>>
    /\ job' = 0
    /\ cand' = [b \in Ours |->
                  IF cand[b].pc \in {"idle", "done"} THEN cand[b]
                  ELSE [cand[b] EXCEPT !.pc = "dead"]]
    /\ pc' = "down"
    /\ last' = NoTemplate
    /\ gbh' = 0
    /\ todo' = {}
    /\ UNCHANGED <<tmpl, mode, nodeVars, dbVars>>

\* main: first template, node_status, one templates pass over everything on
\* record, the unique index, refresh_pps_rate, first job.
Start ==
    /\ pc = "down"
    /\ tmpl' = [height |-> Len(chain) + 1, prev |-> Tip]
    /\ rows' = [b \in Ours |-> FromTemplates(b, Len(chain))]
    /\ RecordTemplate(tmpl')
    /\ job' = Len(chain) + 1
    /\ last' = tmpl'
    /\ mode' \in Modes
    /\ pc' = "poll"
    /\ UNCHANGED <<gbh, todo, cand, queue, anchored, staged, paid, rotated,
                   nodeVars, crashes>>

-----------------------------------------------------------------------------
Init ==
    /\ chain = <<>>
    /\ fork = <<>>
    /\ mode \in Modes
    /\ cand = [b \in Ours |-> [pc |-> "idle", height |-> 0,
                               accepted |-> FALSE, mode |-> mode]]
    /\ job = 0
    /\ queue = <<>>
    /\ rows = [b \in Ours |-> NoRow]
    /\ anchored = {}
    /\ staged = {}
    /\ templates = [h \in Heights |-> None]
    /\ paid = [b \in Ours |-> 0]
    /\ rotated = [b \in Ours |-> 0]
    /\ pc = "down"
    /\ tmpl = NoTemplate
    /\ last = NoTemplate
    /\ gbh = 0
    /\ todo = {}
    /\ crashes = 0

\* The bound on heights is reached and everybody is idle.
Quiet ==
    /\ Len(chain) = MaxHeight
    /\ pc = "poll"
    /\ last = [height |-> Len(chain) + 1, prev |-> Tip]
    /\ queue = <<>>
    /\ UNCHANGED vars

Node == Extend \/ (\E k \in 1..MaxReorg : Reorg(k)) \/ ReorgBack

Submit(b) == SubmitBlock(b) \/ RecordShare(b) \/ StageFractions(b) \/ RecordBlock(b)

Writer == Commit \/ LoseBatch

Watcher == Poll \/ List \/ CheckOne \/ CheckUnsupported \/ CheckFails
           \/ CheckDone \/ TemplatesPass \/ Settle \/ DistributeOne
           \/ DistributeDone \/ Build \/ BuildFails

Next == Node \/ (\E b \in Ours : Submit(b)) \/ Writer \/ Watcher
        \/ Crash \/ Start \/ Quiet

Spec == Init /\ [][Next]_vars

\* The threads are scheduled, the network keeps finding blocks, and a process
\* that died is started again (deploy/ runs it under a supervisor).
Fairness ==
    /\ WF_vars(Extend)
    /\ WF_vars(Commit)
    /\ WF_vars(Watcher)
    /\ WF_vars(Start)
    /\ \A b \in Ours : WF_vars(RecordShare(b) \/ StageFractions(b) \/ RecordBlock(b))

FairSpec == Spec /\ Fairness

-----------------------------------------------------------------------------
(* Properties. *)

\* Every variable keeps its type.
TypeOK ==
    /\ chain \in Seq(Blocks) /\ Len(chain) <= MaxHeight
    /\ fork \in Seq(Blocks) /\ Len(fork) <= MaxHeight
    /\ cand \in [Ours -> Cand]
    /\ job \in Heights
    /\ queue \in Seq(Event) /\ Len(queue) <= RingCap
    /\ rows \in [Ours -> Row]
    /\ anchored \subseteq Ours
    /\ staged \subseteq Ours
    /\ templates \in [Heights -> Blocks \cup {None}]
    /\ paid \in [Ours -> Nat]
    /\ rotated \in [Ours -> Nat]
    /\ mode \in Modes
    /\ pc \in {"down", "poll", "list", "check", "templates", "settle",
               "distribute", "build"}
    /\ tmpl \in Template
    /\ last \in Template
    /\ gbh \in {-1, 0, 1}
    /\ todo \subseteq Ours
    /\ crashes \in 0..MaxCrashes

\* Crediting is additive (store.h, store_pplns_distribute), so whatever the
\* interleaving of watcher, writer and restarts: a block is credited at most
\* once, never without its latch, and never when its own coinbase already paid
\* the window, even if the pool has since been switched to a ledger mode.
PaidAtMostOnce ==
    \A b \in Ours : /\ paid[b] <= 1
                    /\ paid[b] = 1 => /\ rows[b].dist
                                      /\ cand[b].mode = "pplns"

\* A rotation is applied at most once, only for a block whose coinbase paid
\* the window, and never while it is still waiting to be applied again
\* (store_settle_block_fractions deletes what it applies).
RotatedAtMostOnce ==
    \A b \in Ours : /\ rotated[b] <= 1
                    /\ rotated[b] = 1 => /\ cand[b].mode = "coinbase"
                                         /\ b \notin staged

\* Whether candidate b is in the node's active chain.
InChain(b) == /\ cand[b].height \in 1..Len(chain)
              /\ chain[cand[b].height] = b

\* "There is nothing to undo" (store.h): a block somebody was credited for is
\* in the node's chain, now and forever, however the chain reorganised since.
PaidBlockInChain == \A b \in Ours : paid[b] > 0 => InChain(b)

\* When a pass over a new tip is over, the depth of every confirmed row is
\* the one of that tip, or already final: no row is left behind.
ConfirmedRowsFresh ==
    pc = "build" =>
        \A b \in Ours :
            rows[b].status = "confirmed" =>
                \/ rows[b].confs = TipHeight - rows[b].height + 1
                \/ rows[b].confs >= FinalDepth

\* The share is queued before the row (stratum.c), so a row is never stored
\* without the share its window is anchored at.
RowHasItsShare == \A b \in Ours : rows[b].status # "none" => b \in anchored

\* A recorded block that stays in the chain is paid once it is deep enough:
\* there is a later tip, and the pass over it settles every due row.
MatureBlockIsPaid ==
    \A b \in Ours :
        (/\ rows[b].status = "pending" /\ rows[b].window
         /\ Len(chain) < MaxHeight /\ rows[b].height + Maturity <= MaxHeight)
        ~> (paid[b] = 1 \/ rows[b].status = "orphaned")
=============================================================================
