# simplepool: a TLA+ verification project

simplepool is a small solo/pooled mining server. A C daemon (`src/`) speaks
Stratum to miners and JSON-RPC to a bitcoind-like node, keeps its books in one
SQLite file, and a Node.js worker (`payout/`) pays miners out of those books.
Money is at stake in five places: whether an honest share is judged at the
difficulty it was mined at and counted once, which blocks the pool believes it
has found, who is credited for them, whether accepted shares and credits reach
the database, and whether the worker pays each debt once. This project models
those places and the threads around them, model-checks them
with TLC on small instances and proves the safety properties with TLAPS
for every value of the constants.

Paths below are relative to the repository's root.

## 1. Inventory

| Part | State it keeps | Operations | Talks to |
|---|---|---|---|
| Stratum server (`src/stratum.c`) | connections, current job and retention ring, per-connection difficulty, duplicate ring and index, table of failed authorizes | subscribe, authorize, submit, job broadcast, vardiff | calls `on_share_cb`, `on_block_cb`, `on_window_fractions_cb`, `on_block_found_cb` in `main.c` from the connection's thread |
| Tip watcher (`src/main.c`, `tip_watcher`) | last template, long-poll token, current job | poll the node, reconcile, build and publish a job, refresh the PPS rate | node RPC, `reconcile.c`, store, Stratum |
| Reconciliation (`src/reconcile.c`) | `gbh_state` (does the node serve getblockhash) | node pass, templates pass, settle, distribute | store, node RPC |
| Store, write path (`src/store.c`) | event ring, sequence numbers, writer thread, `txn_mu` | enqueue, batch commit with retries, flush, close | everybody enqueues; one SQLite connection |
| Store, ledger (`src/store.c`) | `blocks_found`, `shares`, `pps_credits`, `pplns_pending_fractions`, `pplns_fractions`, `templates` | record block, list unresolved, set status, reconcile from templates, stage, settle, distribute | the passes above |
| PPLNS window (`src/pplns.c`, `main.c` `attach_pplns_window`) | none (a computation over `shares` and `pplns_fractions`) | split, order claims | coinbase builder |
| Coinbase builder (`src/coinbase.c`) | none | split the reward over outputs | Stratum jobs |
| PPS rate (`src/main.c`, `refresh_pps_rate`) | rate, difficulty accumulator, issuance ceiling | refresh at every tip, credit per share | store |
| bitcoind client (`src/bitcoind.c`) | long-poll id | getblocktemplate, submitblock, getblockhash | node |
| Publisher (`src/broadcast.c`) | bounded queue | push, publish to Redis | dashboard |
| Payout worker (`payout/`) | `payouts_in_flight`, `paid_sats`, what it learnt about the node | one tick: settle, select, begin, transfer, attach; admin endpoint | SQLite file of the pool, Thunder node or enforcer wallet |
| Slipstream, Broadcaster, Dashboard (`slipstream/`, `broadcaster/`, `dashboard/`) | small JSON or SQLite state | submit out-of-band transactions, announce blocks, show pages | pool database |
| Process life cycle (`src/main.c`, `main`; start and stop of the server in `src/stratum.c`) | what is open, the listeners' descriptors, `g_shutdown` | start stage by stage, serve, stop, release | everything above |
| Hashing, addresses, config, cJSON | none | bytes in, bytes out | |

What is hard here:

* **Concurrency.** One connection thread per miner, the writer thread, the tip
  watcher and `main` share one SQLite connection; the node's chain moves between
  any two steps of theirs. The watcher's walk over the connections writes to
  sockets that their own threads retarget, answer on and close, and jobs are
  reference-counted across both. PPS credit reads a gate, an accumulator and a
  rate that another thread replaces, without a lock. In the payout worker two activations of `runOnce`
  interleave at every `await`.
* **Order.** A block's own share must be stored before the block is
  distributed, because the PPLNS window is anchored at it. A batch row must exist
  before the transfer goes out and keep its txid afterwards. A share is mined at
  the difficulty its job went out under, not at the connection's present one.
* **Failure.** A batch is retried after a failed COMMIT; a ring overflows; an
  RPC fails after it took effect; the process dies between any two steps and may
  come back in another mode.
* **Verdicts that are undone.** A confirmed block can be orphaned and come back;
  money credited cannot be taken back.
* **Boundaries.** Ring capacity, the number of candidates checked per tip,
  maturity and final depth, the payout minimum, retention of templates, a probed
  hash table that wraps, a table of addresses that is full.

`PROJECT.json` lists each of these as a hazard at its line, with the property
that would catch it going wrong, or a note saying why there is none.

## 2. Modules

| Module | Models | Lines it stands for |
|---|---|---|
| `BlockLedger` | a found block from submitblock to confirmed, orphaned or rejected, and to its one payment | tail of `submit_with_job`, the callbacks in `main.c`, `reconcile.c`, the ledger half of `store.c`, `tip_watcher`, startup |
| `StoreQueue` | ring, writer, batches, retries, `txn_mu`, flush, close | the write path of `store.c`, `on_share_cb` |
| `WorkerIds` | whose row a share gets: worker ids, their cache, rollbacks | `cache_lookup`, `cache_insert`, `resolve_worker_id`, `process_event`, `commit_batch` in `store.c` |
| `EventLog` | what the write path promises: accepted events land in order, a batch at a time, once, or are lost whole | (abstract specification) |
| `Payout` | the payout worker on both rails, its node and its operator | `payout/lib/payout.js`, `db.js`, `thunder.js`, `enforcer-wallet.js`, `admin-http.js` |
| `ShareWindow` | the PPLNS window of a template, read while the writer works | `store_pplns_window`, `process_event`, `commit_batch` |
| `PayoutQueue` | from a window to coinbase outputs, and from a found block to the payout queue | `pplns.c`, the window builder of `coinbase.c`, `attach_pplns_window`, the deltas in `stratum.c`, staging and settlement in `store.c` |
| `Stratum` | jobs, the walk that notifies, connections, authorize, submit and its verdict | `stratum_server_set_job`, `find_job`, the handlers, `submit_with_job`, the accept loop and the end of a connection in `stratum.c` |
| `DedupeIndex` | the server-wide duplicate ring and its probed index | `share_dedupe_*` in `stratum.c` |
| `AuthBudget` | failed authorizes per address and per connection | `auth_fail_*` and the gate of `handle_authorize` |
| `Difficulty` | one connection's difficulty: policy, requests, vardiff | `vardiff_maybe_retarget`, `clamp_assigned_difficulty`, `apply_requested_diff` in `stratum.c`, `parse_listener` in `config.c` |
| `PpsRate` | what a share earns in pps-classic | `refresh_pps_rate`, `on_share_cb` and the gate in `main.c`, the rates in `share.c` |
| `Publisher` | the Redis publisher | `broadcast.c` |
| `TipWatcher` | the loop that follows the node's tip | `tip_watcher` in `main.c`, the template request in `bitcoind.c` |
| `PoolLife` | the process from start to exit, its listeners and its descriptors | `main` and `on_signal` in `main.c`; `stratum_server_start`, `listener_thread`, `stratum_server_stop`, `stratum_server_free` |
| `BlockLedgerProofs`, `StoreQueueProofs`, `PayoutProofs`, `StratumProofs`, `ThreadsProofs`, `ConnectionProofs`, `QueueProofs` | theorems and proofs | |
| `SumLemmas` | what the sums of the library obey, and the induction rules they are proved with | |
| `MCBlockLedger`, `MCPayout`, `MCPayoutQueue`, `MCStratum` | model values and symmetry for TLC | |
| `MCLocks`, `MCThreads`, `MCServices` | several components in one run, see below | |

`BlockLedger` composes the connection thread, the store, the tip watcher, the
reconciliation and the node as far as a found block is concerned; `Stratum`
composes the watcher, the listeners, the connections and the miners.
`MCLocks`, `MCThreads` and `MCServices` do not compose: their components share no state,
so a behaviour is one of a single component (`part`, chosen at the start) while
the others stay as they began. The state spaces add up instead of multiplying.

### BlockLedger

*State.* `chain` and `fork` are the node's (external). `cand[b]` is the
connection thread that solved candidate `b`: submit, record the share, stage
fractions, record the block, in that order and as four steps. `queue` is the
store's ring, `rows` is `blocks_found`, `anchored` the candidates whose own share
is stored, `staged` the hashes in `pplns_pending_fractions`, `templates` the
newest `prev_hash` per height. `pc`, `tmpl`, `last`, `gbh` and `todo` are the tip
watcher. `paid[b]` and `rotated[b]` count credits and queue rotations: history
variables that nothing reads.

*Actions.* The node extends its chain, reorganises it, or returns to the branch
it left (`Extend`, `Reorg`, `ReorgBack`; a reorganisation always ends on a longer
chain). `SubmitBlock` to `RecordBlock` are the connection thread. `Commit` and
`LoseBatch` are the writer. `Poll`, `List`, `CheckOne`, `CheckUnsupported`,
`CheckFails`, `CheckDone`, `TemplatesPass`, `Settle`, `DistributeOne`,
`DistributeDone`, `Build` and `BuildFails` are one pass of the watcher, split
wherever another thread or the node can get in. `Crash` and `Start` lose all
that is in memory and run the startup pass, possibly in the other PPLNS mode.

*Abstractions.* A block hash is a model value and all foreign blocks are one:
the code only ever compares a hash with its own candidates. The amounts of a
distribution are left out; whether it happened is what is counted. Batches of
the writer are one event long: batches end anywhere, so this reaches every
state, and `StoreQueue` models them in full. The limit of 64 rows of one
settlement or distribution is above anything the runs reach.

### StoreQueue and EventLog

*State.* `ring`, `enqSeq` (enqueue_seq), `doneSeq` (committed_seq); the writer's
`wpc`, `batch`, `at`, `seqAfter`, `attempt`; the database as two counters per
event, `db` (durable) and `work` (inside the open transaction), with `open` and
`lock` for the connection and `txn_mu`; `main`, `target`, `flushed` for
shutdown.

*Actions.* A share enqueues its row and then, whatever became of it, its credit
(`RecordShare`, `RecordCredit`). The writer takes a batch, begins, applies one
event after another, commits or fails, and publishes (`Take` to `Exit`). Another
thread opens and ends transactions of its own (`OtherBegin`, `OtherEnd`). `main`
flushes with a timeout and closes.

A failing statement is skipped by the code, and SQLite may end the transaction
with it; both outcomes are disjuncts of `ApplyOne`. `StoreQueue` implements
`EventLog` under the mapping `pending` = the batch not yet landed followed by
the ring, `table` = `db`, `dropped` = `lost`.

### WorkerIds

*State.* `disk` is what is committed and `view` what the writer's statements
see: the workers' ids, the counter ids come from, the shares. `cache` is the
cache of ids by slot, `ipc`, `events`, `nth`, `wid`, `tries` the writer in
`commit_batch`. `undone` and `refused` are history: something was rolled back,
an upsert failed.

*Actions.* The writer takes a batch, begins (or fails to), and for each event
upserts the worker, which may fail and fall back on the cache, and inserts the
row; then it commits, or rolls back and tries again. Any statement may fail, and
a failure may end the transaction, after which the rest of the batch is in
autocommit.

*Abstractions.* Every event that names a worker is a share; what an upsert
refreshes of a known worker is left out. Hashes are reduced to slots, and a full
cache inserts nothing, as in the code.

### Payout

*State.* `accrued`, `paid` and `inflight` are the database (a batch's rows appear,
are stamped and vanish in one SQLite transaction, so a batch is one record);
`run[r]` is one activation of `runOnce`, `learned[r]` its `ctx`. `txs`, `utxo`,
`parked`, `oldNode` and `received` are node and wallet (external), `rail` the
configuration.

*Actions.* Each is the code between two awaits: `Tick`, the settlement sources
(`SettleByBlock`, `NotInTip`, `SettleByOutput`, `Wait`, `WaitAndNudge`), the
selection (`Select`, `SelectNothing`, `CheckMempool`, `ReserveShort`,
`BeginBatch`), the transfer on either kind of Thunder node or over the enforcer
wallet, and its outcomes (`TransferFails`, `AnswerLost`, `AttachTxid`,
`AttachFails`). The operator's four actions are the ones of
`payout/README.md`, "Reconciling by hand", each taken only after looking at the
chain and while no tick runs.

*Abstractions.* Fees, dry runs, delays and the `tx_attempts` log never touch the
ledger and are left out. A short reserve is an RPC failure: both end the tick at
the same place. A transaction the mempool drops also leaves the body parked for
the next block (`MineParked` connects only what is still in the mempool), while
`payout/README.md:370-386` says a body already snapshotted can still land; that
late arrival is not modelled, and nothing here is claimed of it.

### ShareWindow

*State.* `shares` is the table as the shared connection sees it, with the rows of
the writer's open transaction, `durable` of which are committed. `pc`, `batch`,
`cutoff`, `top` and `out` are the call of `store_pplns_window`; `since`, `torn`
and `gone` are history: where the table ended when the call began, whether an
error ended the second query, whether rows the walk had read were rolled back.

*Actions.* The writer inserts, commits or rolls back (`Insert`, `Commit`,
`Rollback`). The tip watcher calls, walks back in batches that grow fourfold
(`Walk`, `WalkFails`), then runs the second query (`Select`, or
`SelectStepFails` when `sqlite3_step` breaks off in the middle).

*Reference definition.* `Anchored(t)` is the window `store_pplns_distribute`
takes for a block whose own share is `t`; the two must agree, or a block pays
something else than its template promised.

*Abstractions.* Difficulties are whole numbers, so sums of doubles are exact.
After a rollback any rows may be inserted, not only the batch again: the batch
may have been its last attempt.

### PayoutQueue

*State.* `setup` is the configuration: the listeners' ceilings and the kind of
coinbase. `job` is the published window in payment order with its amounts. Per
block found and not settled, `block` has the job and the ceiling it was built
from and its status, `staged` its rows of `pplns_pending_fractions`. `owed` is
`pplns_fractions`. `skipped` is history.

*Actions.* `NewTemplate` is `attach_pplns_window`: split, order, publish, or
nothing if nobody clears the floor. `FindWindowBlock` is a share that is a block
on a connection with a given ceiling: the coinbase must render there, the builder
is run again and the deltas are staged; `FindUnstagedBlock` is the same when
staging fails, `FindFinderBlock` a job without a window. `Confirm`, `Orphan` and
`Settle` are reconciliation, in any order and against a queue that moved since
the job was built. A block found on an earlier job needs no action of its own:
the job may stay current while everything else goes on.

*Abstractions.* An address is its worker and the bytes its output takes. Fractions
of a reward are whole numbers of `Unit`, which every sum of claims divides, so
the doubles of the code are exact and `QueueBalances` can say zero. The staging of a block's
deltas, its verdict and its settlement are one step each; their interleaving with
crashes is `BlockLedger`'s subject. Storage for 200 outputs is above the bounds.

### Stratum

*State.* `current`, `recent`, `head`, `refs` are `current_job`, the retention
ring and the jobs' reference counts; `aged` says which jobs are past their
time in the ring. `wpc`, `wold`, `wlist`, `wout` are the watcher inside
`stratum_server_set_job`: the job it took out and has not retired, the
connections it still has to visit, the notify it rendered. `lpc`, `connCount`,
`conns`, `life` are the listeners and the list of connections; the rest is per
connection, with `jobDiffs` for `job_diffs`, `cb` for the cached coinbase and
`out` for what a handler rendered and has not written. `told`, `last`, `agreed`
and `sent` are the miner's side, which the wire's writes change.

*Actions.* The watcher swaps the job, retires the old one into the ring, takes
`conns_lock`, and for each connection skips it, or renders a notify and writes
it (`SetJob` to `WriteNotify`). A listener accepts, counts and registers. A
connection reads one message at a time: `Subscribe`, `Authorize` and its two
later steps, `AuthorizeFails`, `SuggestDifficulty`, or a submit in four steps:
`FindCurrent`, `FindRecent`, `Dedupe`, `Judge`. `WriteOut` sends its answer.
`Unregister`, `CloseFd` and `FreeConn` end it. A miner that stops reading is
`Stall`.

*Abstractions.* A share is the difficulty its hash meets and the way it is
spelled, with the address its coinbase was built for; one rebuilt with another
coinbase than the miner was sent meets whatever chance gives it. The header is
computed once, when the share is looked up among the duplicates, and judged as
it was then. Which difficulty a retarget picks is `Difficulty`'s
subject, here it is any. A write reaches the miner whole or, if he has stopped
reading, not at all. The walk reads a connection's difficulty and address with
no lock, which the code does too; a read sees the value before or after.

### Difficulty

*State.* The server's settings, the connection's policy, the network's
difficulty, `assigned` (`difficulty`), `requested` (`requested_min_diff`), the
vardiff window, and the last two jobs with what each went out under. `raise`
is history: what the last retarget rested on.

*Actions.* The end of an authorize, a suggestion, a new job, a share with the
retarget it may bring, and the passing of a window's length. A share is accepted
(`Accepted`) at the difficulty its job went out under, as a block, or after a cut
at the lower difficulty of now; the window counts it under its job's difficulty
in each case (`Counted`). A job the connection has no record of is judged by the
difficulty of now (`JudgedAs`); its template is any of `NetDiffs`. Difficulties
are natural numbers rounded down, time is counted in windows.

### DedupeIndex, AuthBudget, PpsRate, Publisher, TipWatcher

`DedupeIndex` has one action, `share_dedupe_key_check_and_add` under its lock,
with the hash function a variable that never changes, so that every way to
collide is checked. `AuthBudget` has the gate, the charge and the success of
`handle_authorize` as separate critical sections and a clock, which `auth_gate`
reads before it takes its lock (`ReadClock`), so that an entry another connection
began meanwhile lies after it; the difference is unsigned and the entry counts as
expired (`Past`). Where an address hashes to is free, too. `PpsRate` splits `refresh_pps_rate` where it publishes
the gate and the rate, and a share into test, load, store and credit; shares
have difficulty 1, so the accumulator is the set of shares it counts.
`Publisher` has producers that test `shutdown` without the lock, push, and
count afterwards, and the worker with its connection to Redis. `TipWatcher` has
the node's tip moving anywhere at any time, long polling or not, and failures of
the request and of the job's construction.

### PoolLife

*State.* `stage` is where `main` is, `held` what it has opened, `code` what it
will return. `slot` and `phase` are the loops over the listeners, `fdOf` and
`lat` a listener's descriptor and its thread, `stopping`, `silenced` and
`signalled` the stop flag, the sockets that were shut down and `g_shutdown`.
`files` says whose each descriptor is; a new one is the lowest that is free.

*Actions.* One per stage of `main`, each with the exit the code takes when the
stage fails (`LoadConfig` to `CheckPoolAddress`, `BindPort`, `BindFails`,
`CloseThenJoin`, `FirstJob`, `StartWatcher`), a signal at any moment, and the way
out (`Shutdown`, `StopSlot`, `FreeServer`, `CloseStore`, `CloseRest`). A
listener's thread tests the flag, polls and accepts as separate steps, reading
its slot's number each time; miners come and go, and SQLite and hiredis open and
close descriptors of their own.

*Abstractions.* What a stage computes is its component's module; here it
succeeds or fails. `socket`, `bind` and `listen` of one port are one step.
Connection threads are only the descriptors they hold.

## 3. Runs

A property that holds is in a run with `expect: pass`; a run with
`expect: violation` states what a comment of the repository claims and shows a
behaviour of the code that contradicts it.

| Run | Shows |
|---|---|
| `ledger_node` | On a getblockhash-capable node, with reorganisations shallower than the maturity depth, failing RPCs and failing job builds: what was credited stays in the chain (`PaidBlockInChain`), and a stored block always has the share its window is anchored at (`RowHasItsShare`). |
| `ledger_restart` | Without getblockhash, with failing transactions, an overflowing ring and a restart into either mode: `PaidAtMostOnce`, `RotatedAtMostOnce`. |
| `ledger_live` | A recorded block that stays in the chain is paid (`MatureBlockIsPaid`), and no confirmed row is left with a stale depth (`ConfirmedRowsFresh`). |
| `locks` | The write path refines `EventLog` (`ImplementsLog`) with failing BEGINs and COMMITs; no BEGIN meets an open transaction (`BeginNeverNested`). `AuthBudget`: an address is locked out by its own recent failures only, whatever slot it is given and however stale the clock the gate judges by, and it overdraws its budget by at most one call of each other connection (`BudgetIsExact`). |
| `threads` | The writer with failing statements too: a successful flush leaves nothing behind (`FlushDrains`), shutdown ends with an empty ring (`CloseDrains`). A share stands under its own worker although ids are cached across rollbacks (`ShareToItsWorker`). The publisher: no event is overwritten, repeated, reordered or lost uncounted (`EventsAreKept`), and it stops when told (`WorkerLeaves`). The watcher: a job on another tip says clean_jobs (`CleanWhenMoved`), the mined tip is the reconciled one (`MinedTipIsReconciled`), and once the node rests the pool mines on its tip (`JobFollowsTip`). The process: the server closes only descriptors that are its own, and by every exit of `main` no listening socket or thread is left and, but for one exit listed below, the store was closed (`OrderlyEnd`). |
| `payout_safe` | Both rails, crashes, failing RPCs and database writes, evictions, BMM misses: `PaidIsReceived`, `NeverOverpaid`, `NoUntrackedTransfer`. |
| `payout_live` | Every fault, lost answers and a node upgrade included: whoever is owed the minimum is paid in the end (`DebtIsPaid`). |
| `services` | `PayoutQueue`: with several ceilings, both kinds of coinbase, stale jobs and verdicts in any order, a published job renders everywhere (`EveryJobRenders`), a largest claim is always paid (`LargestIsPaid`), the coinbase keeps to its ceiling (`CoinbaseFits`), the queue sums to zero (`QueueBalances`) and the deltas are what the coinbase pays (`QueueRecordsCoinbase`). `ShareWindow`: the window returned is the one the distributor would pay at some moment of the call (`WindowOfOneMoment`). `DedupeIndex`: a share is called a duplicate exactly when its key is remembered (`DuplicatesAreKnown`). `Difficulty`: the bounds hold through every move (`BoundsKept`), and a floor is raised only on the evidence of every share (`FloorIsMeasured`). `PpsRate`: no share is taken for nothing (`WorkIsPaid`) and the measurement is exact where no folds overlap (`MeasureIsExact`). |
| `stratum` | No job is freed in use or leaked (`RefsExact`); no notify reaches a stranger (`NotifyReachesItsConn`); an honest share counts, at the difficulty it was agreed at (`HonestWorkCounts`), once (`CreditedOnce`), and is stale only if its job is gone (`StaleMeansGone`); a walk ends whoever stopped reading (`WalkEnds`) and leaves every miner on the current job (`CurrentOnWire`). |
| `ledger_tips_reorg` | violation: without getblockhash a one-deep reorganisation leaves the lost block confirmed, and it is credited. |
| `payout_two_ticks` | violation: the admin endpoint's tick and the timer's pay the same debt twice on L1. |
| `queue_starves` | violation: the reserved slot goes to whoever is owed most, not to whoever waits longest; a small claim above the floor is passed over in every block. |

### Other disagreements met while modelling

These were met while modelling and have no run of their own. Those of the first
list were seen by TLC as counterexamples of stronger forms of the properties
above, which exclude them by a history variable or a bound named here:

* `src/store.c:1400`: if the batch with a block's own share was lost, the window
  is empty, nobody is credited and `pplns_distributed` is set all the same.
  `src/store.h:155`: "every credit for that block lands, or none does and the
  latch stays clear so the next pass retries."
* `src/store.c:740`: a statement error that makes SQLite end the transaction leaves the
  rest of the batch in autocommit; COMMIT then fails and the whole batch is
  replayed. `src/store.c:750`: "Nothing was durably written, so replaying the
  batch is safe." `locks` therefore has no statement errors,
  `threads` has.
* `payout/lib/payout.js:464`: a transfer that went out and whose answer was lost
  is dropped like a failure and paid again. `payout/lib/db.js:33`: "Either way,
  we don't double-pay". `payout_safe` has no lost answers, `payout_live` has.
* `src/store.c:1543`: `store_pplns_window` takes no `txn_mu` and reads the
  writer's open transaction. If it is rolled back between the two statements the
  window returned is one no moment had, an empty one included, which makes the
  template pay its finder alone. `src/store.c:1609`: "Pinning the top as well
  makes the two statements describe exactly the same rows". `WindowOfOneMoment`
  excludes such calls (`gone`).
* `src/store.c:1711`: an error of the second query's `sqlite3_step` ends its loop
  like the last row does, and a short window is returned as a complete one, "the
  one failure this function must never have" (`src/store.c:1631`, said of the
  first statement). `WindowOfOneMoment` excludes it (`torn`).
* No lock keeps the walk out between a handler's change of the difficulty and
  its write of set_difficulty, so a notify may overtake that message. The job
  is then on record at a difficulty the miner had not been told when it came,
  and a share honest by what he was told is judged at the other one.
  `src/stratum.c:1159`: "the miner has already applied every set_difficulty we
  sent before this notify". `HonestWorkCounts` and `CurrentOnWire` exclude such
  jobs (`crossed`).
* `src/stratum.c:745`: between the swap and the retirement a job is neither
  current nor in the ring; a submit for it is answered "stale".
  `StaleMeansGone` excludes that moment (`inHand`).
* A second authorize with another address keeps the coinbase cached for the
  current job, which is keyed on the job alone; shares already mined are
  rebuilt with the other address and refused (`renamed`).
* A miner that subscribes after it authorized is sent no job until the next
  one (`late`).
* A submit that spans more new jobs than `job_diffs` holds loses the record of
  its own and is judged at the connection's present difficulty.
* `src/main.c:817`: overlapping folds of `diff_accum` lose or repeat work, and
  one that straddles the end of a window undoes its reset. `MeasureIsExact`
  excludes them (`overlap`). A share that a refresh crosses between its test of
  the gate and its credit may be taken for nothing; `WorkIsPaid` excludes it
  (`crossed`).
* After a tip on which no job could be built the node may return to the tip the
  pool still mines on; no pass is then made there until the next change.
  `MinedTipIsReconciled` excludes it (`unbuilt`). And after such a failure the
  loop asks again at once with its old long-poll token, which the node answers at
  once: it spins until the build succeeds (the comment at `src/main.c:1012` is
  about avoiding just that).
* `src/store.c:592`: the cache is not told of rollbacks. After one, an id it holds
  may have been given to another worker; if then an upsert fails, the cached id
  is used and the share is recorded under that worker. `src/store.c:750`:
  "Nothing was durably written, so replaying the batch is safe."
  `ShareToItsWorker` excludes behaviours with both failures (`undone`,
  `refused`).
* An event pushed after the publisher's worker left is never published, at most
  one of each producer; `EventsAreKept` allows for it.

The others were read off the code:

* Connection threads are detached and joined by nobody. One that is still at
  work when `main` stops may call its callbacks while or after the store is
  closed and the server freed, against `src/main.c:1458`: "Server context (must
  outlive callbacks)". `StoreQueue` has them idle at the flush, `PoolLife` has
  only their descriptors.
* `src/stratum.c:3303`: when a port cannot be bound, the sockets of the ports
  before it are closed before their threads are joined, though
  `src/stratum.c:3350` says the close has to wait until the thread has exited.
  It is harmless there: a number that is somebody else's by then is no listening
  socket. The same order in `stratum_server_stop` is the mutant of `OrderlyEnd`.
* `src/main.c:1571` returns 2 for a bad pool address and leaves the store open;
  the error exits never close the publisher.
* A signal that comes before its handler is installed ends the process with no
  flush.
* `src/store.c:714` says that counters advance only on the attempt that commits;
  `process_event` counts on each attempt.

* A failed second authorize clears `payout_address` and leaves `authorized`
  set: the connection is sent no more jobs. The address is also written before it is
  validated, while the walk may read it.
* Each listener tests the connection limit before it counts, so the limit can be
  passed by one connection per further listener.
* A listener line with a ceiling but neither a start nor a floor inherits the
  server's starting difficulty, which may be above that ceiling until the first
  retarget; `BoundsKept` names the starting difficulty for this reason. The
  parser accepts a floor above the ceiling when a start is given.
* A second authorize clamps `requested_min_diff` again by the network's present
  difficulty, so a request lowered once stays lowered.
* A solution is credited again if it comes back after `SHARE_DEDUPE_RING` other
  shares while its job is still in the ring.
* A Redis error reply counts as published.
* `attach_pplns_window` uses the previous template's network difficulty, because
  `refresh_pps_rate` runs after the job is set.
* With the backend's coinbase (`src/coinbase.c:1242`) the operator's output is
  not charged to the budget, though `src/coinbase.c:823` counts it; the coinbase
  can pass its listener's ceiling. `CoinbaseFits` is about the pool's own.
* A listener with room for fewer than four payouts makes a quarter of its slots
  zero, and since one order serves every port nothing rotates anywhere;
  `src/main.c:237` expects that it "rotates more slowly and nothing else changes".
* `src/coinbase.c:1501` takes 160 bytes for the envelope, "deliberately on the pessimistic
  side"; with the default tag, a witness commitment and an operator it is 177.
* `src/config.c:415` accepts a coinbase of 200 bytes as room for one payout; with
  the same 177 bytes there is none. The model assumes there is.
* A table that was empty when walked leaves `top_id` unpinned
  (`src/store.c:1614`), so the second query pays whatever has arrived since, past
  the window if need be.
* `src/store.c:1087` lists the newest `RECONCILE_MAX_PER_TICK` rows; on a
  getblockhash node nothing looks at the others, though `src/store.h:72` says
  the templates pass does. `ledger_live` keeps the limit above the number of
  candidates.
* On a getblockhash node a block restored by a second reorganisation stays
  orphaned; `src/store.c:1079` leaves it to the templates pass, which
  `src/reconcile.c:72` skips.
* The startup pass (`src/main.c:1498`) judges by templates on every backend and
  can confirm again what the node path had orphaned, which
  `src/reconcile.c:70` is careful to avoid. `ledger_node` has no restart for
  this reason.
* A lost answer to submitblock files the row as rejected, called terminal at
  `src/store.c:1168`, although the block may be in the chain.
* `committed_seq` moves past a lost batch, so `store_flush` returns 0 without
  its events (`src/store.c:817`, `src/store.h:372`). `FlushDrains` is about what
  the code does guarantee.
* A full ring can take a share's row and drop its credit, or the reverse
  (`src/main.c:859`), so stored shares do not always reconstruct the ledger.
* A batch whose total went to the first recipient, after the node was upgraded
  under a running worker, is credited to everybody once mined
  (`payout/lib/payout.js:127`, against the log line at `:456`). `payout_safe`
  leaves the upgrade out for this reason.

### Bounds

Two candidates, two workers and two connections are enough for every pair of
actors to meet; `Ours` and the connections are interchangeable (symmetry is used
in safety runs only). `MaxHeight` leaves room for a candidate at height 1 or 2,
a reorganisation, maturity and a later tip. `MaxReorg` is below `Maturity`: a
deeper reorganisation than the pool waits for defeats any pool. `MaxLag = 1`: a
candidate is in the ring for milliseconds, blocks take minutes. `RingCap = 2`
(ledger) and 3 (store) make the ring overflow; `CommitMax = 2` makes batches end
in the middle of a share; `Attempts = 2` makes a batch retried and lost.
`Keep = 2` makes template history disappear under a pending row.
`MaxFaults = 2` covers a fault in the recovery from a fault; `MaxAccrued = 2`
with `MinSats = 1` lets a debt grow while a batch for it is in flight; `MaxTx`
is above what the faults allow.

`ShareWindow`: a first batch of one row, difficulties of 1, 2 and 3 and a window
of 5 over four shares make the walk end in its first, second and third batch,
covered or at the end of the table; one worker has no address, and room for one
entry truncates the array. `PayoutQueue`: byte sizes are the real ones (31 for
P2WPKH, 43 for taproot, 134 for the envelope with the default tag and a witness
commitment, 160 for the code's guess of it), ceilings leave room for one to four
payouts, rewards of 18 and 20 put the fee on either side of the dust limit, one of five
claims is below the floor, and three blocks, two of them open at once, make
deltas overlap.

`Stratum` is checked over six scenarios, each a budget of inputs chosen so that
one kind of trouble happens in full: renegotiation around a new job, a retarget
between two shares, late shares spelled twice for jobs that leave a ring of one
or expire, miners that come, go and stall under a walk, more connections
than the limit on two listeners. Three difficulties, with the network's in the middle,
put a share on either side of each comparison. `DedupeIndex`: four slots for a
ring of three, five keys (0 included, which is stored as 1) and every hash
function. `AuthBudget`: one slot for two addresses, so every claim collides, two
connections of one address, which are alike, a budget of two and a lockout of
two on a clock to two, so that entries expire while a gate holds an old time. `Difficulty`: a step of two instead of four and
powers of two let a cut, a rise, a floor above the ceiling and a network below
the floor happen in three shares a window; achieved difficulties of 5 and 34 lie on
either side of the trigger. `PpsRate`: two threads with two shares, a derived rate
that a low network difficulty gates and an overridden one. `Publisher`: a ring
with room for two and two producers of two events. `TipWatcher`: four tips, two
of one height, three moves and three failures. `WorkerIds`: three names that
collide in a cache of two slots, so that it overflows, three batches of one or
two events and two attempts each, enough for an id to be taken back and given to
somebody else. `PoolLife`: two ports, so that the second may fail while the
first serves, and five descriptors, so that numbers are used again.

### Fairness

* `BlockLedger`: threads are scheduled, blocks keep coming, and the process is
  restarted by its service unit. No fairness is assumed of crashes, failures or
  of the miners.
* `StoreQueue`: every thread runs. `SF(Begin)`: `txn_mu` is free again and again,
  because other transactions end, and the mutex is granted to a thread that keeps
  asking; and a database that may fail does not fail at every attempt.
* `Stratum`: the watcher's thread runs (`WF` of `Walk`). A write to a miner that
  has stopped reading gives up by its timeout, so it is a step like any other;
  nothing is assumed of connections and miners.
* `Publisher`: its worker runs. Whether Redis answers, fails or is in back-off is
  left to chance; each of them is a step.
* `TipWatcher`: its thread runs, and a request that finds another tip than its
  token's is answered. Failures are bounded, so they end.
* `Payout`: the timer always comes back (`startLoop` reschedules itself in
  every case); a batch that waits is nudged at some tick (`nudgeStallSec`); a
  request parked again and again is carried by a mainchain block; on L1 blocks
  come by themselves; and the operator, who can act only between two ticks, does
  in the end what the log asks of him (`SF`).

## 4. Proofs

Proved with TLAPS, for all values of the constants allowed by the `ASSUME`s of
the modules. Where a theorem has hypotheses of its own they are named below;
each is a fault the run of the same property leaves out too, because the
property is false with it (section 3 says so), or a bound on the environment.

**`BlockLedgerProofs`.**

* `TypeCorrect`, `PaidOnce`, `RotatedOnce`. Types need
  `TodoInv`: a candidate still to be checked is on record and not above the
  polled tip, otherwise its depth would not be a natural number. "Paid at most once" is not
  inductive: `PayInv` adds that a credited row carries the latch, that a row with
  a window comes from a ledger-mode candidate and that a thread that has not
  submitted has no row, event or credit. `RotInv` says the same of staging: what
  has been applied is no longer staged, and a thread past staging never stages
  again.
* `RowsAreAnchored` (`RowHasItsShare`), if the ring has room for two events of
  every candidate and the database does not fail. `RingInv`: a candidate queues
  its share once and its block once, so the ring never fills; `ShareInv`: from the
  moment the share is queued it is on record or ahead of its block in the ring.
* `ConfirmedRowsAreFresh` (`ConfirmedRowsFresh`), if the node serves
  getblockhash, no call and no statement fails and a tick can check every row.
  `FreshInv`: while the pass checks, a confirmed row that is not fresh is still
  to be checked. `HeightInv`: every pass is about a higher template than the last,
  and no row is above it.
* `PaidStaysInChain` (`PaidBlockInChain`), if the node serves getblockhash, the
  pool is not restarted, reorganisations stay below `Maturity`, and the poll's
  lag stays below `Maturity` and `FinalDepth`. What is credited or counts
  as mature is buried deeper than any reorganisation (`BuriedInv`). An accepted
  block is on record within `MaxLag` blocks (`FlightInv`); only before the node
  has first answered getblockhash does a pass end in the templates
  (`ServedInv`), and what they judge then is too young to become mature by it
  (`YoungInv`).

**`StoreQueueProofs`.**

* `StoreTypeCorrect`, `FlushIsComplete`, `BeginIsNeverNested`.
  `SeqInv` ties the sequence numbers to the ring and the
  batch: `doneSeq` is what left the ring and is done with, `seqAfter` what
  left it. `FlushInv` says that the target is fixed once no producer
  is at work. A `FlushDrains` that fails by one needs exactly these two. `LockInv`:
  a transaction is open only while somebody holds `txn_mu`.
* `StoreImplementsLog`: the write path implements `EventLog`, while no
  statement fails. Each step is shown to be a step of the log or to leave it
  alone; `WorkInv` says that the open transaction sees the database with
  exactly the part of the batch applied so far.

**`PayoutProofs`.** The proofs hold for any workers, amounts, rails and bounds.

* `BatchesAreOwned`: with any number of ticks at work and under every fault,
  ids are unique, a batch gets one transaction at most, the txid on its rows is
  that transaction's, and nobody else settles or pays a batch while it is being
  sent (`IdInv`). The other three rest on it.
* `TransfersAreTracked` (`NoUntrackedTransfer`), for any number of ticks, unless
  the answer to a broadcast is lost.
* `CreditMeansArrived` (`PaidIsReceived`), with one tick at a time and no node
  upgrade under a running worker. `LoneInv`: a single runner finds no rows when
  it has chosen whom to pay, so there is one batch at most, and its transaction
  pays what its rows say; the last needs that a node that broadcasts by itself
  is only ever asked to pay one address. `CoverInv`: what a mined batch adds to
  the credit has arrived already.
* `NobodyIsOverpaid` (`NeverOverpaid`), with one tick at a time, no lost answer
  and no such upgrade. `OwedInv`: credit and the batch in flight stay below what
  was earned, from the selection on. `ExactInv`: what arrived is the credit, and
  the batch in flight if it was mined.

  The property sums over the mempool. What the library's fold computes over a
  finite set is proved from its definition by taking a smallest set for which it
  would fail (`SumFacts`).

**`StratumProofs`**, all six for any number of jobs, connections, listeners and
difficulties, with no hypotheses. The invariants build on each other.

* `WalkIsSafe` (`NotifyReachesItsConn`). `ListInv`: whoever is on the list of
  connections, or still on the walk's, has his socket open.
* `JobsAreCounted` (`RefsExact`). `RefInv`: the ring and the swap hold only
  jobs that were published, and only a swap in progress holds one more. Each step
  changes the count of one job by the holder it adds or removes.
* `StaleIsGone` (`StaleMeansGone`). `StaleInv` carries what the lookup saw at
  each of its two critical sections across the watcher's steps in between.
* `NoDoubleCredit` (`CreditedOnce`). `CreditInv`: every solution credited has
  left its hash behind, and a share before the judge has one that nobody was
  credited for.
* `HonestShares` (`HonestWorkCounts`). `TalkInv` ties what the server holds of a
  connection (`jobDiffs`, the cached coinbase, what is rendered and not yet
  written) to what the miner was told and agreed to.
* `NobodyIsLeftBehind` (`CurrentOnWire`). `CurrentInv`: a connection not on the
  current job is still to be visited by the walk, or its own thread is about to
  serve it.

**`ThreadsProofs`**, with no hypotheses.

* `MinesReconciledTip`, `NewTipIsClean`. `TipInv` ties three records of a tip
  together: `lastTip` is the published job's, during a construction `moved` holds
  exactly if the template's differs from it, and the last pass was at the tip in
  hand or at the one being mined.
* `NoEventIsLost` (`EventsAreKept`), for any number of producers and any ring.
  `QueueInv`: between head and tail the ring holds exactly the events pushed and
  not taken, in order, across the wrap. `HandInv`: Redis has had nothing after the
  event in hand. `GoneInv`: what is left when the worker is gone was offered
  before the flag was set. `StatsInv`: the statistics lag by the producers that
  have not counted yet.
* `EndsInOrder` (`OrderlyEnd`), for any ports, descriptors, failures and signals.
  `Matched`: the server's slots and the table of descriptors name each other, so
  no number used again is closed for its old owner. `SlotsInv` says at each stage
  of `main` which slots are open and which listeners are over, `StoreInv` who
  holds the store.
* `ShareKept`: `ShareToItsWorker` for every set of names, hash, cache size and
  sequence of failures. Two things can keep a share with its worker: while no
  upsert has failed, the id in hand is the one returned; while nothing was rolled
  back, the cache agrees with what the writer sees (`CacheInv`). `IdInv` carries
  both, with what ties `view` to `disk`.

**`ConnectionProofs`**, with no hypotheses but the one of `NoFreeWork`.

* `DifficultyBounds`, an action property. `BoundInv` adds
  what the next step rests on: the difficulty of an authorized connection keeps
  floor and ceiling already, and a request on record is under the ceiling. The
  last is what makes the order of the two bounds in `Bounded` right.
* `FloorMeasured` (`FloorIsMeasured`). The code keeps only the least share and
  the greatest difficulty of a window; `Judged` says that this loses nothing:
  a window in which some share did not beat its own job's difficulty fourfold has
  a least share that does not beat the greatest of those difficulties fourfold.
  It holds for every accepted share, those taken at a difficulty below their
  job's included, because these too are counted under their job's.
* `LockoutIsEarned` (`BudgetIsExact`), for any addresses, connections, table,
  hash and probe depth. `Placed`: an address has one entry at most, on its own
  run of probes. `CountInv`: what an entry counts are the last failures of its own
  address, none before the entry began. `RoomInv`: count and calls past the gate
  together keep to the budget and one for each other connection.
* `DuplicatesFound` (`DuplicatesAreKnown`), for any keys, hash function, ring and
  any table with a slot more than the ring. `DedupeInv`: the table holds exactly
  the ring's keys and is `Sound`: each key stands once (`Single`), none behind a
  hole on the way from its home (`Reached`), and a hole is left to stop at. During
  a deletion the slot to be cleared still has a word: `Moved` says that without
  it the table holds the right keys, `Safe` that clearing it would strand nobody
  at a given slot, and `Walking` that every slot walked so far is safe. The walk
  stops at a hole, and there is one, so it never comes around; behind it nobody's
  way leads through the cluster. The interval test of `dd_home_between` is what
  makes each step keep this, across the wrap too.
* `MeasureExact` (`MeasureIsExact`). A fold between its load and its store holds
  exactly what the accumulator holds as long as nobody else moved it; `MeasureInv`
  says so of the one thread that is folding, and that two at once are an overlap.
* `NoFreeWork` (`WorkIsPaid`), where `RatesDoNotVanish`: rates are doubles in the
  code and rounded down in the model, so templates and settings must leave a
  positive rate at least 1, even if every share falls into one window of the
  issuance ceiling. The instance of `services` satisfies it. `PriceInv`: gate and
  rate agree but between the two stores of a refresh, and a share past the gate
  that no refresh crossed finds a rate.

**`SumLemmas`.** The properties of `PayoutQueue` sum over miners, payees and
blocks. `SumFunctionOnSet` folds in an order that is nowhere fixed, and the
induction theorems of the library take an operator, which the provers cannot
instantiate. The rules here are about sets instead (`NatRule`, `PartRule`,
`SetRule`: the set of numbers, or of parts of a finite set, for which a claim
holds, contains all of them), and each application defines its set. From them:
a sum is an integer, splits over parts, adds, scales, compares and swaps with
another sum term by term. Recursive functions (the walk down the payment order,
the walk of a deletion) are handled the same way.

**`QueueProofs`**, for any miners, windows, rewards, ceilings, output sizes, shares
and batches. The constants of the queue satisfy `QueueAssumption` (the fee is at most 1000 bps, `config.c`
refuses more; blocks are finitely many; a ceiling holds one payout, `config.c`
refuses less) and `UnitAssumption` (the fractions of every
split are whole numbers of `Unit`, the model's stand-in for doubles; every finite
set of rewards has such a unit, and only `QueueRecords` uses it).

* The invariant is `QueueInv`. `GoodJob`: a published window names each payee once,
  its claims come to the reward without the fee, one of them is above the floor.
  `StagedInv`: the rows staged for a block are the deltas of the block's own job
  under the block's own ceiling, and that job is good; templates, other blocks,
  verdicts and settlements in between do not touch them. Without it
  `QueueBalances` is not inductive, because a settlement adds what was staged
  under an earlier job.
* `QueueCancels` (`QueueBalances`). `DeltasFacts`: what the paid get above their
  share is what the others are passed over for, as sums. A settlement applies
  whole blocks, so the two sums over miners and blocks can be swapped.
* `JobsRender` (`EveryJobRenders`). `SomeonePaid`: the first claim above the floor
  fits the smallest ceiling, so the payees are never empty; `OutputsFacts`: the
  outputs with the remainder come to the reward.
* `CoinbaseKeepsWithin` (`CoinbaseFits`). `Charged` describes the walk by the bytes
  it has charged before each claim; `ChargedWithin` and `ChargedSum` say that the
  payouts written are within what was charged, the reserve covering the operator.
* `QueueRecords` (`QueueRecordsCoinbase`). `ReadBack`: multiplying a share out and
  dividing it again returns the truncated output.
* `LargestIsServed` (`LargestIsPaid`), if `ReservedFit`. `TopOfOrder`: at most the
  reserved claims come before the largest. Whether they and the largest fit depends
  on how `coinbase_expected_payout_slots` guesses the bytes of the rest of
  the transaction: `ReservedFit` says that the guess, with four of the smallest
  outputs, covers the real bytes with two of the largest. It holds for
  the default tag (134 bytes against a guess of 160) and TLC evaluates it on the
  instance of `services`. A coinbase tag near the limit of the scriptSig takes
  more than the guess allows for, so the theorem has it as a hypothesis and not
  as an assumption about every configuration.
* `WindowIsOfOneMoment` (`WindowOfOneMoment`), an action property, with the
  exceptions the property states. `PinInv`: the ends the walk has pinned are still
  rows of the table, the upper one not older than the call, and once the walk has
  settled the rows between them are the window at the upper end
  (`WindowFrom`). `WalkFinds`: a walk settles only where the window begins, because
  what it read fills the window, or because the batch holds a row that no longer
  counts, or all rows. Inserts come after the pinned rows, and a rollback that
  reaches them is recorded as `gone`. `SelectGives`: what is summed between
  the ends, sorted and cut to the caller's array is what `Anchored` would pay.

Which list a ranking gives is proved from the definition of `Ranked`, counting
what comes before each element (`RankedLists`); that the payment order is one
(`OrderLists`) is the lemma the rest of the module rests on.

Model-checked only:

* liveness, which this prover cannot do: `MatureBlockIsPaid`, `CloseDrains`,
  `DebtIsPaid`, `WorkerLeaves`, `JobFollowsTip`, `WalkEnds`.

Every invariant and every action property of a passing run is stated by a theorem.
Types are proved and not run where they are proved (`BlockLedger`,
`StoreQueue`, `Payout`).

## 5. Not modelled

Hashing, target arithmetic, script and address encoding (bytes, covered by unit
tests); JSON and HTTP; the rest of the configuration, logging; the dashboard,
which reads the database; vendored cJSON; installation. Migrations and
statistics queries of the store. Of the Stratum server: the rate limit of
submits, the count of malformed lines and version rolling. The coinbase of a job without a
window. Slipstream and the Telegram broadcaster, two small services beside the
pool that never touch its books.

## 6. Plan

1. Done: `BlockLedger`, `StoreQueue` with `EventLog`, `Payout`, `ShareWindow`,
   `PayoutQueue`, `Stratum`, `DedupeIndex`, `AuthBudget`, `Difficulty`,
   `PpsRate`, `Publisher`, `TipWatcher`, `WorkerIds`, `PoolLife`; their runs; the
   theorems of section 4.
2. `Slipstream`, `Broadcaster`: at-most-once announcement across restarts.
