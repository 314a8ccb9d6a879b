------------------------------- MODULE Payout -------------------------------
(***************************************************************************)
(* The payout worker (payout/): it drains pps_credits by sending Thunder   *)
(* or L1 transactions, and credits paid_sats only when it has seen the     *)
(* transaction in a block.                                                 *)
(*                                                                         *)
(* A runner is one activation of runOnce: the timer's (startLoop) or the   *)
(* admin endpoint's (POST /tick).  They share the process and the          *)
(* database; each step below is the code between two awaits.               *)
(*                                                                         *)
(* The node and its wallet are external.  A transaction is a record: whom  *)
(* it pays, which batch it was built for, and where it stands.  The        *)
(* operator is external too and follows payout/README.md, "Reconciling by  *)
(* hand".                                                                  *)
(*                                                                         *)
(* Amounts are small integers; fees, dry runs, the choice of delay and the *)
(* tx_attempts log are left out: they never touch the ledger.              *)
(***************************************************************************)
EXTENDS Integers, Sequences, FiniteSets, FiniteSetsExt

CONSTANTS
    Workers,     \* workers with a payout address
    Address,     \* Address[w]: where w is paid; rigs may share one
    Runners,     \* {"loop"} or {"loop", "admin"}
    Rails,       \* the rails an operator may configure (cfg.rail)
    OldNode,     \* whether create_transfer returns an unsigned transaction
    MinSats,     \* PAYOUT_MIN_SATS
    MaxPerTick,  \* PAYOUT_MAX_PER_TICK
    Faults,      \* the kinds of fault that may happen
    MaxFaults,   \* bound: how many of them
    MaxAccrued,  \* bound: what a worker earns in total
    MaxTx        \* bound: transactions ever broadcast

FaultKinds == {"crash", "rpc", "db", "lost", "evict", "miss", "upgrade"}

ASSUME PayoutAssumption ==
    /\ IsFiniteSet(Workers)
    /\ DOMAIN Address = Workers
    /\ Runners \subseteq {"loop", "admin"}
    /\ Rails \subseteq {"thunder", "btc"}
    /\ OldNode \in BOOLEAN
    /\ MinSats \in Nat \ {0}
    /\ MaxPerTick \in Nat \ {0}
    /\ Faults \subseteq FaultKinds
    /\ {MaxFaults, MaxAccrued, MaxTx} \subseteq Nat

VARIABLES
    accrued,   \* pps_credits.accrued_sats; the pool's writer adds to it
    paid,      \* pps_credits.paid_sats
    inflight,  \* payouts_in_flight, one record per batch: [id, txid, sats]
    run,       \* per runner: its progress through runOnce
    learned,   \* per runner's ctx: _nodeBroadcastsOnCreate
    rail,      \* cfg.rail
    oldNode,   \* the node hands back unsigned transactions
    txs,       \* every transaction ever broadcast, by txid
    utxo,      \* the txid whose change output the wallet holds, or 0
    parked,    \* txids in the block body of the parked BMM request
    received,  \* what has reached each worker's address in blocks
    faults     \* how many faults happened

dbVars   == <<accrued, paid, inflight>>
nodeVars == <<rail, oldNode, txs, utxo, parked, received>>
vars     == <<accrued, paid, inflight, run, learned, rail, oldNode, txs,
              utxo, parked, received, faults>>

-----------------------------------------------------------------------------
(* Types.  A batch's rows appear, are stamped and vanish together, each time *)
(* in one SQLite transaction, so a batch is one record; txid 0 is ''.        *)

Sats == UNION {[W -> 1..MaxAccrued] : W \in SUBSET Workers}

NoSats == [w \in {} |-> 0]

Batch == [id : Nat, txid : 0..MaxTx, sats : Sats]

\* Where a transaction stands: unmined, in the tip block, in an older block,
\* or dropped from the mempool.
TxStates == {"mempool", "tip", "buried", "gone"}

Tx == [outs : Sats \cup [Workers -> Nat], batch : Nat, state : TxStates]

Pcs == {"idle", "gettx", "utxos", "select", "mempool", "balance", "create",
        "sign", "submit", "attach"}

\* `batch`: the batch being settled or paid; `answer`: what get_transaction
\* said about it, or how the transfer came to be broadcast.
Run == [pc : Pcs, batch : Batch,
        answer : {"none", "pending", "unknown", "unintended", "bynode"}]

NoBatch == [id |-> 0, txid |-> 0, sats |-> NoSats]

Idle == [pc |-> "idle", batch |-> NoBatch, answer |-> "none"]

-----------------------------------------------------------------------------
(* The node and its wallet (external). *)

Fault(k) ==
    /\ k \in Faults
    /\ faults < MaxFaults
    /\ faults' = faults + 1

InMempool == {t \in DOMAIN txs : txs[t].state = "mempool"}

Mined(t) == txs[t].state \in {"tip", "buried"}

Pays(t, w) == IF w \in DOMAIN txs[t].outs THEN txs[t].outs[w] ELSE 0

\* A block whose body holds `body`: everything older leaves the tip, and a
\* mined transfer leaves its change, if any, as the wallet's output.
Connect(body) ==
    /\ txs' = [t \in DOMAIN txs |->
                 IF t \in body THEN [txs[t] EXCEPT !.state = "tip"]
                 ELSE IF txs[t].state = "tip" THEN [txs[t] EXCEPT !.state = "buried"]
                 ELSE txs[t]]
    /\ received' = [w \in Workers |->
                      received[w] + SumFunction([t \in body |-> Pays(t, w)])]
    /\ IF body = {} THEN UNCHANGED utxo ELSE utxo' \in {0, Max(body)}

\* The parked BMM request is carried by a mainchain block.
MineParked ==
    /\ parked # {}
    /\ Connect(parked \cap InMempool)
    /\ parked' = {}
    /\ UNCHANGED <<dbVars, run, learned, rail, oldNode, faults>>

\* Somebody else's block: with the whole mempool, or with nothing of it.
MineElsewhere ==
    /\ \E body \in {{}, InMempool} : Connect(body)
    /\ parked' = {}
    /\ UNCHANGED <<dbVars, run, learned, rail, oldNode, faults>>

\* A BMM miss: nothing is parked any more.
Miss ==
    /\ Fault("miss")
    /\ parked # {}
    /\ parked' = {}
    /\ UNCHANGED <<dbVars, run, learned, rail, oldNode, txs, utxo, received>>

\* remove-from-mempool, or the node forgot it.
Evict ==
    /\ Fault("evict")
    /\ \E t \in InMempool : txs' = [txs EXCEPT ![t].state = "gone"]
    /\ UNCHANGED <<dbVars, run, learned, rail, oldNode, utxo, parked, received>>

\* Thunder >= 0.17.1 signs and broadcasts inside create_transfer.
Upgrade ==
    /\ Fault("upgrade")
    /\ oldNode
    /\ oldNode' = FALSE
    /\ UNCHANGED <<dbVars, run, learned, rail, txs, utxo, parked, received>>

\* The transaction goes out.  Thunder refuses one that spends what its
\* mempool already spends, and every transfer spends the whole wallet.
Accepts == /\ rail = "thunder" => InMempool = {}
           /\ Len(txs) < MaxTx

Broadcast(id, outs) ==
    txs' = Append(txs, [outs |-> outs, batch |-> id, state |-> "mempool"])

\* get_transaction / ListTransactions.  Thunder forgets a transaction as soon
\* as its block is no longer the tip.
Known(t) == txs[t].state = "mempool"

Confirmed(t) == IF rail = "thunder" THEN txs[t].state = "tip" ELSE Mined(t)

-----------------------------------------------------------------------------
(* The database: listDue, beginBatch, finalizeBatch. *)

Owed(w) == accrued[w] - paid[w]

\* Mutant: a debt of exactly the minimum is not due.
DueAboveMinimum == {w \in Workers : /\ Owed(w) > MinSats
                                    /\ \A b \in inflight : w \notin DOMAIN b.sats}

\* Not below the minimum, and in no batch already.
Due == {w \in Workers : /\ Owed(w) >= MinSats
                        /\ \A b \in inflight : w \notin DOMAIN b.sats}

\* ORDER BY owed_sats DESC LIMIT maxPerTick.
Listed(S) == /\ S \subseteq Due
             /\ Cardinality(S) = Min({MaxPerTick, Cardinality(Due)})
             /\ \A w \in S, v \in Due \ S : Owed(w) >= Owed(v)

\* groupByAddress: the group with the largest debt goes first.
GroupOf(S, a) == {w \in S : Address[w] = a}

GroupOwed(S, a) == MapThenSumSet(LAMBDA w : Owed(w), GroupOf(S, a))

FirstGroup(S, T) ==
    \E a \in {Address[w] : w \in S} :
        /\ T = GroupOf(S, a)
        /\ \A o \in {Address[w] : w \in S} : GroupOwed(S, a) >= GroupOwed(S, o)

\* AUTOINCREMENT, up to renaming of ids nobody refers to any more.
FreshId == 1 + Max({0} \cup {b.id : b \in inflight}
                       \cup {run[r].batch.id : r \in Runners}
                       \cup {txs[t].batch : t \in DOMAIN txs})

Credit(b) == paid' = [w \in Workers |->
                        IF w \in DOMAIN b.sats THEN paid[w] + b.sats[w] ELSE paid[w]]

\* finalizeBatch: credit every row and delete it, in one transaction; whether
\* the rows are still there is not asked.
Finalize(b) ==
    /\ Credit(b)
    /\ inflight' = {o \in inflight : o.id # b.id}

\* attachBatchTxid.
Attach(id, txid) ==
    inflight' = {IF b.id = id THEN [b EXCEPT !.txid = txid] ELSE b : b \in inflight}

\* abortBatch.
Abort(id) == inflight' = {b \in inflight : b.id # id}

\* pendingBatch: the newest batch that carries a txid.
Pending(b) == /\ b \in inflight
              /\ b.txid # 0
              /\ \A o \in inflight : o.txid # 0 => o.id <= b.id

-----------------------------------------------------------------------------
(* One activation of runOnce. *)

Step(r, pc) == run' = [run EXCEPT ![r].pc = pc]

Stop(r) == run' = [run EXCEPT ![r] = Idle]

\* nudgeMine: Thunder snapshots its mempool and parks the body, unless a
\* request is parked already.  On L1 blocks need no nudging.
Nudge == parked' = IF rail = "thunder" /\ parked = {} THEN InMempool ELSE parked

\* runOnce starts: settlePending looks for a batch with a txid.
Tick(r) ==
    /\ run[r].pc = "idle"
    /\ \/ \E b \in inflight :
            /\ Pending(b)
            /\ run' = [run EXCEPT ![r] = [pc |-> "gettx", batch |-> b, answer |-> "none"]]
       \/ /\ \A b \in inflight : b.txid = 0
          /\ Step(r, "select")
    /\ UNCHANGED <<dbVars, learned, nodeVars, faults>>

\* A confirmed batch is credited and the tick goes on.
Settled(r) ==
    /\ Finalize(run[r].batch)
    /\ run' = [run EXCEPT ![r] = [Idle EXCEPT !.pc = "select"]]
    /\ UNCHANGED <<accrued, learned, nodeVars, faults>>

\* settlementState, first source: get_transaction knows the block.
SettleByBlock(r) ==
    /\ run[r].pc = "gettx"
    /\ Confirmed(run[r].batch.txid)
    /\ Settled(r)

\* It does not, or cannot be asked.
NotInTip(r) ==
    /\ run[r].pc = "gettx"
    /\ LET t == run[r].batch.txid
           Answer(a) == run' = [run EXCEPT ![r].pc = "utxos", ![r].answer = a]
       IN  \/ /\ ~Confirmed(t)
              /\ Answer(IF Known(t) THEN "pending" ELSE "unknown")
              /\ UNCHANGED faults
           \/ Fault("rpc") /\ Answer("unknown")
    /\ UNCHANGED <<dbVars, learned, nodeVars>>

\* Mutant: a transaction the node no longer knows is taken for mined.
ChangeSeenOrForgotten(r) == \/ utxo = run[r].batch.txid
                            \/ run[r].answer = "unknown"

\* Second source: the wallet holds an output of that transaction.
ChangeSeen(r) == utxo = run[r].batch.txid

SettleByOutput(r) ==
    /\ run[r].pc = "utxos"
    /\ ChangeSeen(r)
    /\ Settled(r)

\* Pending or undeterminable: the tick ends, nothing is credited or retried.
\* walletUtxos may fail, and then proves nothing.
Wait(r) ==
    /\ run[r].pc = "utxos"
    /\ \/ ~ChangeSeen(r) /\ UNCHANGED faults
       \/ Fault("rpc")
    /\ Stop(r)
    /\ UNCHANGED <<dbVars, learned, nodeVars>>

\* The same, with the batch pending for longer than nudgeStallSec.
WaitAndNudge(r) ==
    /\ run[r].pc = "utxos"
    /\ run[r].answer = "pending"
    /\ ~ChangeSeen(r)
    /\ Nudge
    /\ Stop(r)
    /\ UNCHANGED <<dbVars, learned, rail, oldNode, txs, utxo, received, faults>>

\* inFlightCount: a row without a txid halts payouts.
Blocked == inflight # {}

CanBatchAcrossAddresses(r) == rail = "btc" \/ learned[r] = "unsigned"

\* inFlightCount, listDue and the choice of what one transaction can pay.
Select(r) ==
    /\ run[r].pc = "select"
    /\ ~Blocked
    /\ \E S, T \in SUBSET Due :
         /\ S # {}
         /\ Listed(S)
         /\ IF CanBatchAcrossAddresses(r) THEN T = S ELSE FirstGroup(S, T)
         /\ run' = [run EXCEPT ![r].pc = "mempool",
                               ![r].batch = [NoBatch EXCEPT !.sats = [w \in T |-> Owed(w)]]]
    /\ UNCHANGED <<dbVars, learned, nodeVars, faults>>

SelectNothing(r) ==
    /\ run[r].pc = "select"
    /\ Blocked \/ Due = {}
    /\ Stop(r)
    /\ UNCHANGED <<dbVars, learned, nodeVars, faults>>

\* thunder.mempool(): a transaction nobody recorded halts payouts.  An
\* unreachable node does not; on L1 the answer is always empty.
CheckMempool(r) ==
    /\ run[r].pc = "mempool"
    /\ \/ /\ rail = "btc" \/ InMempool = {}
          /\ Step(r, "balance")
          /\ UNCHANGED faults
       \/ /\ rail = "thunder" /\ InMempool # {}
          /\ Stop(r)
          /\ UNCHANGED faults
       \/ /\ rail = "thunder"
          /\ Fault("rpc")
          /\ Step(r, "balance")
    /\ UNCHANGED <<dbVars, learned, nodeVars>>

\* balance() failed or the reserve is short.
ReserveShort(r) ==
    /\ run[r].pc = "balance"
    /\ Fault("rpc")
    /\ Stop(r)
    /\ UNCHANGED <<dbVars, learned, nodeVars>>

\* The reserve covers it: beginBatch, in the same step as balance()'s answer.
BeginBatch(r) ==
    /\ run[r].pc = "balance"
    /\ LET b == [run[r].batch EXCEPT !.id = FreshId]
       IN  /\ inflight' = inflight \cup {b}
           /\ run' = [run EXCEPT ![r].pc = "create", ![r].batch = b]
    /\ UNCHANGED <<accrued, paid, learned, nodeVars, faults>>

-----------------------------------------------------------------------------
(* transferBatchDetailed and what runOnce makes of its outcome. *)

\* The broadcast happened and its answer is on the way.
Sent(r, answer) ==
    run' = [run EXCEPT ![r].pc = "attach", ![r].answer = answer,
                       ![r].batch.txid = Len(txs) + 1]

\* A node that broadcasts inside create_transfer pays the whole total to the
\* first recipient; that is what was meant only if all share his address.
CreateBroadcasts(r) ==
    /\ run[r].pc = "create"
    /\ rail = "thunder"
    /\ ~oldNode
    /\ Accepts
    /\ LET sats == run[r].batch.sats
           total == SumFunction(sats)
       IN  IF Cardinality({Address[w] : w \in DOMAIN sats}) = 1
           THEN /\ Broadcast(run[r].batch.id, sats)
                /\ Sent(r, "bynode")
           ELSE \E first \in DOMAIN sats :
                  /\ \A w \in DOMAIN sats : sats[first] >= sats[w]
                  /\ Broadcast(run[r].batch.id,
                         [w \in Workers |-> IF w = first THEN total ELSE 0])
                  /\ Sent(r, "unintended")
    /\ UNCHANGED <<dbVars, learned, rail, oldNode, utxo, parked, received, faults>>

\* An older node returns an unsigned transaction; its outputs are split here.
CreateUnsigned(r) ==
    /\ run[r].pc = "create"
    /\ rail = "thunder"
    /\ oldNode
    /\ Step(r, "sign")
    /\ UNCHANGED <<dbVars, learned, nodeVars, faults>>

Sign(r) ==
    /\ run[r].pc = "sign"
    /\ Step(r, "submit")
    /\ UNCHANGED <<dbVars, learned, nodeVars, faults>>

\* submit_transaction, or the enforcer's SendTransaction.
Submit(r) ==
    /\ \/ run[r].pc = "submit"
       \/ run[r].pc = "create" /\ rail = "btc"
    /\ Accepts
    /\ Broadcast(run[r].batch.id, run[r].batch.sats)
    /\ Sent(r, "none")
    /\ UNCHANGED <<dbVars, learned, rail, oldNode, utxo, parked, received, faults>>

\* A call threw: the rows are dropped.  Either the node refused, or the call
\* never reached it.
TransferFails(r) ==
    /\ run[r].pc \in {"create", "sign", "submit"}
    /\ \/ ~Accepts /\ UNCHANGED faults
       \/ Fault("rpc")
    /\ Abort(run[r].batch.id)
    /\ Stop(r)
    /\ UNCHANGED <<accrued, paid, learned, nodeVars>>

\* The answer to a call that did broadcast is lost (timeout, HTTP error): no
\* broadcastTxid comes with the exception, so the rows are dropped as well.
AnswerLost(r) ==
    /\ run[r].pc = "attach"
    /\ Fault("lost")
    /\ Abort(run[r].batch.id)
    /\ Stop(r)
    /\ UNCHANGED <<accrued, paid, learned, nodeVars>>

\* What this transfer proved about the node (ctx._nodeBroadcastsOnCreate).
Learn(r) == learned' = [learned EXCEPT ![r] =
                          IF run[r].answer \in {"bynode", "unintended"}
                          THEN "broadcasts" ELSE "unsigned"]

\* The txid arrives, with the result or, for an unintended payment, on the
\* exception: it is stamped onto the rows, which stay in flight.  Only the
\* intended one is followed by a nudge, which may fail.
AttachTxid(r) ==
    /\ run[r].pc = "attach"
    /\ Attach(run[r].batch.id, run[r].batch.txid)
    /\ Learn(r)
    /\ \/ run[r].answer # "unintended" /\ Nudge /\ UNCHANGED faults
       \/ run[r].answer = "unintended" /\ UNCHANGED <<parked, faults>>
       \/ Fault("rpc") /\ UNCHANGED parked
    /\ Stop(r)
    /\ UNCHANGED <<accrued, paid, rail, oldNode, txs, utxo, received>>

\* Mutant: a txid that cannot be stored aborts the batch.
AttachFailsAborts(r) ==
    /\ run[r].pc = "attach"
    /\ Fault("db")
    /\ Learn(r)
    /\ Abort(run[r].batch.id)
    /\ Stop(r)
    /\ UNCHANGED <<accrued, paid, nodeVars>>

\* attachBatchTxid throws: the rows keep txid ''.
AttachFails(r) ==
    /\ run[r].pc = "attach"
    /\ Fault("db")
    /\ Learn(r)
    /\ Stop(r)
    /\ UNCHANGED <<dbVars, nodeVars>>

-----------------------------------------------------------------------------
(* The rest of the world. *)

\* The pool's writer thread credits a worker.
Accrue(w) ==
    /\ accrued[w] < MaxAccrued
    /\ accrued' = [accrued EXCEPT ![w] = @ + 1]
    /\ UNCHANGED <<paid, inflight, run, learned, nodeVars, faults>>

\* The worker process dies and is started again.
Crash ==
    /\ Fault("crash")
    /\ run' = [r \in Runners |-> Idle]
    /\ learned' = [r \in Runners |-> "unknown"]
    /\ UNCHANGED <<dbVars, nodeVars>>

\* The operator looks at the chain first, and only when no tick is running.
Ticking == \E r \in Runners : run[r].pc # "idle"

LiveTx(b, t) == txs[t].batch = b.id /\ txs[t].state # "gone"

\* A row with no txid: adopt the transaction, or release the workers.
OperatorAdopts ==
    /\ ~Ticking
    /\ \E b \in inflight, t \in DOMAIN txs :
         b.txid = 0 /\ LiveTx(b, t) /\ Attach(b.id, t)
    /\ UNCHANGED <<accrued, paid, run, learned, nodeVars, faults>>

OperatorReleases ==
    /\ ~Ticking
    /\ \E b \in inflight :
         /\ ~\E t \in DOMAIN txs : LiveTx(b, t)
         /\ Abort(b.id)
    /\ UNCHANGED <<accrued, paid, run, learned, nodeVars, faults>>

\* "CANNOT DETERMINE settlement" of a batch that was mined.
OperatorFinalizes ==
    /\ ~Ticking
    /\ \E b \in inflight :
         /\ b.txid # 0
         /\ Mined(b.txid) /\ ~Confirmed(b.txid) /\ utxo # b.txid
         /\ Finalize(b)
    /\ UNCHANGED <<accrued, run, learned, nodeVars, faults>>

\* "Thunder is holding N unmined transaction(s)": mine what nobody recorded.
OperatorMines ==
    /\ ~Ticking
    /\ \E t \in InMempool : \A b \in inflight : b.id # txs[t].batch
    /\ Nudge
    /\ UNCHANGED <<dbVars, run, learned, rail, oldNode, txs, utxo, received, faults>>

Operator == OperatorAdopts \/ OperatorReleases \/ OperatorFinalizes \/ OperatorMines

-----------------------------------------------------------------------------
Init ==
    /\ accrued = [w \in Workers |-> 0]
    /\ paid = [w \in Workers |-> 0]
    /\ inflight = {}
    /\ run = [r \in Runners |-> Idle]
    /\ learned = [r \in Runners |-> "unknown"]
    /\ rail \in Rails
    /\ oldNode = OldNode
    /\ txs = <<>>
    /\ utxo = 0
    /\ parked = {}
    /\ received = [w \in Workers |-> 0]
    /\ faults = 0

RunOnce(r) == \/ Tick(r) \/ SettleByBlock(r) \/ NotInTip(r) \/ SettleByOutput(r)
              \/ Wait(r) \/ WaitAndNudge(r) \/ Select(r) \/ SelectNothing(r)
              \/ CheckMempool(r) \/ ReserveShort(r) \/ BeginBatch(r)
              \/ CreateBroadcasts(r) \/ CreateUnsigned(r) \/ Sign(r) \/ Submit(r)
              \/ TransferFails(r) \/ AnswerLost(r) \/ AttachTxid(r) \/ AttachFails(r)

Network == MineParked \/ MineElsewhere \/ Miss \/ Evict \/ Upgrade

Next == \/ \E r \in Runners : RunOnce(r)
        \/ Network
        \/ \E w \in Workers : Accrue(w)
        \/ Crash
        \/ Operator

Spec == Init /\ [][Next]_vars

\* The timer always comes back, a batch that keeps waiting is old enough for
\* a nudge at some tick, a request parked again and again is carried (on L1,
\* blocks arrive by themselves), and between two ticks the operator finds
\* the time to do what the log asks.
Fairness ==
    /\ \A r \in Runners : WF_vars(RunOnce(r)) /\ SF_vars(WaitAndNudge(r))
    /\ SF_vars(MineParked)
    /\ WF_vars(rail = "btc" /\ InMempool # {} /\ MineElsewhere)
    /\ SF_vars(Operator)

FairSpec == Spec /\ Fairness

-----------------------------------------------------------------------------
(* Properties. *)

\* "paid therefore means settled" (db.js): a worker is never credited with
\* more than blocks have brought him, whatever crashed, was forgotten by the
\* node or was reconciled by hand in between.
PaidIsReceived == \A w \in Workers : paid[w] <= received[w]

\* At-most-once payout (db.js, listDue): what a worker got and what is on its
\* way to him never exceeds what he earned.
NeverOverpaid ==
    \A w \in Workers :
        received[w] + SumFunction([t \in InMempool |-> Pays(t, w)]) <= accrued[w]

\* A transfer that is live and untracked is "the state this whole file exists
\* to avoid" (payout.js): an unmined transaction always has its batch in
\* payouts_in_flight, whatever died around the broadcast.
NoUntrackedTransfer ==
    \A t \in InMempool : \E b \in inflight : b.id = txs[t].batch

\* A worker who is owed the minimum is eventually paid below it: no fault
\* leaves the queue halted for good once the operator has done his part.
DebtIsPaid == \A w \in Workers : Owed(w) >= MinSats ~> Owed(w) < MinSats
=============================================================================
