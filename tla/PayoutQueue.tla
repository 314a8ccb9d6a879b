----------------------------- MODULE PayoutQueue -----------------------------
(***************************************************************************)
(* Coinbase-direct PPLNS: a template's window becomes coinbase outputs and *)
(* a found block moves the payout queue (pplns.c, coinbase.c, main.c,      *)
(* stratum.c, store.c).  The tip watcher splits the reward over the window *)
(* and puts the claims in payment order once per template; every           *)
(* connection then pays down that order as far as its own listener's       *)
(* ceiling allows; the block's deltas are staged against its hash and      *)
(* reach the queue when the block is confirmed.                            *)
(*                                                                         *)
(* Difficulty and sats are natural numbers.  The queue counts fractions of *)
(* one reward; Unit is one reward and divisible by every sum of claims, so *)
(* that the doubles of the code are exact here.                            *)
(***************************************************************************)
EXTENDS Integers, Sequences, FiniteSetsExt, SequencesExt

CONSTANTS
    Workers,        \* workers.id
    OutputBytes,    \* out_ser_size of each worker's script
    Windows,        \* difficulties per worker store_pplns_window may report
    Setups,         \* how the pool may be set up, see Setup
    OperatorBytes,  \* out_ser_size of the operator's script
    Rewards,        \* what a template may pay
    FeeBps,         \* fee_bps, with an operator_address set
    Dust,           \* COINBASE_DUST_SATS
    Floor,          \* pplns_payout_floor_sats
    Unit,           \* one reward, in the queue
    Hashes,         \* bound: blocks whose deltas are not settled
    MaxBlocks       \* bound: blocks found

OperatorReserve == 43    \* out_ser_size(34)

\* The listeners' ceilings (max_coinbase_bytes); whether the backend dictates the
\* coinbase (coinbasetxn); bytes charged for the transaction and its commitments,
\* and what coinbase_expected_payout_slots takes them for.
Setup == [ceilings : (SUBSET Nat) \ {{}}, fromTemplate : BOOLEAN,
          envelope : Nat, guess : Nat]

ASSUME QueueAssumption ==
    /\ IsFiniteSet(Workers) /\ Workers \subseteq Nat \ {0}
    /\ OutputBytes \in [Workers -> Nat \ {0}]
    /\ Windows \subseteq [Workers -> Nat]
    /\ Setups \subseteq Setup
    /\ \A s \in Setups : IsFiniteSet(s.ceilings)
    \* The coinbase holds at least one payout (config.c refuses less).
    /\ \A s \in Setups : \A c \in s.ceilings : \A w \in Workers :
          c >= s.envelope + OperatorReserve + OutputBytes[w]
    /\ OperatorBytes \in Nat
    /\ FeeBps \in 0..1000   \* config.c refuses the rest
    /\ OperatorBytes <= OperatorReserve
    /\ {Dust, Floor, Unit, MaxBlocks} \subseteq Nat \ {0}
    /\ Rewards \subseteq Nat \ {0}
    /\ IsFiniteSet(Hashes)

VARIABLES
    setup,     \* fixed at startup
    job,       \* the published window: payees in payment order, and the value
    block,     \* per unsettled block: its job, its connection's ceiling, its status
    staged,    \* pplns_pending_fractions, per block
    owed,      \* pplns_fractions.owed_fraction
    found,     \* how many blocks were found
    skipped    \* history: blocks in turn since a worker was paid

vars == <<setup, job, block, staged, owed, found, skipped>>

NoWindow == [payees |-> <<>>, value |-> 0]
NoBlock == [job |-> NoWindow, ceiling |-> 0, status |-> "none", inTurn |-> FALSE]
NoDeltas == [w \in Workers |-> 0]
EmptyWindow == [w \in Workers |-> 0]

Init ==
    /\ setup \in Setups
    /\ job = NoWindow
    /\ block = [b \in Hashes |-> NoBlock]
    /\ staged = [b \in Hashes |-> NoDeltas]
    /\ owed = NoDeltas
    /\ found = 0
    /\ skipped = [w \in Workers |-> 0]

-----------------------------------------------------------------------------
(* The tip watcher: from a window to a payment order. *)

Sum(f, S) == SumFunctionOnSet(f, S)

\* The fee comes off the top; one below the dust limit is not taken.
Fee(value) ==
    LET f == (value * FeeBps) \div 10000 IN IF f >= Dust THEN f ELSE 0

\* Whatever the claims of those paid sum to divides one reward exactly.
ASSUME UnitAssumption ==
    \A r \in Rewards : \A s \in 1..(r - Fee(r)) : Unit % s = 0

\* No output below the dust limit, whatever the configuration says.
PayoutFloor == Max({Floor, Dust})

\* S in the order of before.
Ranked(S, before(_, _)) ==
    [k \in 1..Cardinality(S) |->
       CHOOSE x \in S : Cardinality({y \in S : before(y, x)}) = k - 1]

\* The window's workers, ORDER BY wd DESC, id ASC.
LargestFirst(win) ==
    Ranked({w \in Workers : win[w] > 0},
           LAMBDA v, w : win[v] > win[w] \/ (win[v] = win[w] /\ v < w))

\* Truncating division by difficulty, the remainder to the largest claim.
Divide(win, payable) ==
    LET claims == LargestFirst(win)
        share  == [w \in Range(claims) |->
                     (payable * win[w]) \div Sum(win, Range(claims))]
    IN  [share EXCEPT ![claims[1]] = @ + payable - Sum(share, Range(claims))]

\* Mutant: the splitter takes a dust fee that the builder does not.
SplitWindowDustFee(win, value) ==
    Divide(win, value - (value * FeeBps) \div 10000)

\* pplns_split_window: what the fee leaves, divided.
SplitWindow(win, value) == Divide(win, value - Fee(value))

\* Mutant: sized from the most generous listener.
LoosestBudget == Max(setup.ceilings)

\* tightest_coinbase_budget
TightestBudget == Min(setup.ceilings)

\* coinbase_expected_payout_slots: as many claims, in order, as have room.
ExpectedSlots(claims) ==
    LET room == TightestBudget - setup.guess
        cost(k) == Sum([i \in DOMAIN claims |-> OutputBytes[claims[i]]], 1..k)
    IN  Max({1} \cup {k \in DOMAIN claims : cost(k) <= room})

\* A claim the floor will drop gets no reserved slot.
CanBePaid(sats) == sats >= PayoutFloor

\* pplns_order_claims: a quarter of the slots for those who wait, longest
\* first, then everyone else, largest first.
OrderClaims(claims, sats) ==
    LET position(w) == CHOOSE i \in DOMAIN claims : claims[i] = w
        waiting == {w \in Range(claims) : owed[w] > 0 /\ CanBePaid(sats[w])}
        longer(v, w) == \/ owed[v] > owed[w]
                        \/ owed[v] = owed[w] /\ position(v) < position(w)
        reserved == ExpectedSlots(claims) \div 4
        first == {w \in waiting : Cardinality({v \in waiting : longer(v, w)}) < reserved}
    IN  Ranked(Range(claims),
               LAMBDA v, w : IF v \in first THEN w \notin first \/ longer(v, w)
                             ELSE w \notin first /\ position(v) < position(w))

\* The window split first and ordered then: payees and amounts move together.
PaymentOrder(win, value) ==
    LET sats  == SplitWindow(win, value)
        order == OrderClaims(LargestFirst(win), sats)
    IN  [k \in DOMAIN order |-> [worker |-> order[k], sats |-> sats[order[k]]]]

\* attach_pplns_window: an empty window publishes a job that pays its finder, a
\* window nobody of which clears the floor publishes nothing.
NewTemplate(win, value) ==
    /\ \/ /\ win = EmptyWindow
          /\ job' = NoWindow
       \/ /\ win # EmptyWindow
          /\ \E payees \in {PaymentOrder(win, value)} :
                /\ {k \in DOMAIN payees : payees[k].sats >= PayoutFloor} # {}
                /\ job' = [payees |-> payees, value |-> value]
    /\ UNCHANGED <<setup, block, staged, owed, found, skipped>>

-----------------------------------------------------------------------------
(* A connection: from the payment order to the outputs of its coinbase. *)

\* Mutant: the operator's output is never reserved.
FixedBytesWithoutOperator == setup.envelope

\* Bytes the builder charges before any payout: with a coinbase of its own it
\* reserves the operator's output, with the backend's it does not.
FixedBytes ==
    setup.envelope + (IF setup.fromTemplate THEN 0 ELSE OperatorReserve)

\* resolve_window_outputs: greedily down the order, past those below the floor
\* or without room; the indices paid.
Paid(payees, ceiling) ==
    LET cost(k) == OutputBytes[payees[k].worker]
        room(k, used) == payees[k].sats >= PayoutFloor /\ used + cost(k) <= ceiling
        bytes[k \in 0..Len(payees)] ==
            IF k = 0 THEN FixedBytes
            ELSE LET used == bytes[k - 1]
                 IN  used + (IF room(k, used) THEN cost(k) ELSE 0)
    IN  {k \in DOMAIN payees : room(k, bytes[k - 1])}

\* Sats of the payees at the indices S.
Claimed(payees, S) == Sum([k \in DOMAIN payees |-> payees[k].sats], S)

\* What could not be paid is spread over those who are, by claim; truncation's
\* remainder goes to the largest output.
Outputs(payees, ceiling) ==
    LET paid    == Paid(payees, ceiling)
        payable == Claimed(payees, DOMAIN payees)
        own     == Claimed(payees, paid)
        scaled  == [k \in paid |-> (payable * payees[k].sats) \div own]
        largest == CHOOSE k \in paid : \A j \in paid :
                      scaled[j] < scaled[k] \/ (scaled[j] = scaled[k] /\ k <= j)
    IN  IF own = payable
        THEN [k \in paid |-> payees[k].sats]
        ELSE [scaled EXCEPT ![largest] = @ + payable - Sum(scaled, paid)]

\* coinbase_build_window renders, or refuses: nobody can be paid, or the payees
\* do not sum to what the block pays after the fee.
Renders(j, ceiling) ==
    /\ Paid(j.payees, ceiling) # {}
    /\ Claimed(j.payees, DOMAIN j.payees) = j.value - Fee(j.value)
    /\ Sum(Outputs(j.payees, ceiling), Paid(j.payees, ceiling)) + Fee(j.value)
         = j.value

\* Mutant: as many payees as were paid, from the front.
WasPaidPrefix(payees, ceiling) == 1..Cardinality(Paid(payees, ceiling))

\* cbwin_was_paid: the payees the builder reports, under the ceiling of the
\* connection that found the block.
WasPaid(payees, ceiling) == Paid(payees, ceiling)

\* What each payee was entitled to minus what it got, as parts of one reward.
Deltas(payees, ceiling) ==
    LET paid  == WasPaid(payees, ceiling)
        whole == Unit \div Claimed(payees, DOMAIN payees)
        part  == Unit \div Claimed(payees, paid)
    IN  [w \in Workers |->
           LET at == {k \in DOMAIN payees : payees[k].worker = w}
           IN  Claimed(payees, at) * whole - Claimed(payees, at \cap paid) * part]

\* The job pays in the order a template built now would: every earlier block is
\* settled, and the queue has not moved since.
InTurn ==
    /\ \A b \in Hashes : block[b] = NoBlock
    /\ \E win \in Windows \ {EmptyWindow} :
          PaymentOrder(win, job.value) = job.payees

\* submit_with_job: a connection's share is a block and the node takes it.  Its
\* deltas are worked out by running the builder again, and staged if they cancel.
FindBlock(ceiling, deltas) ==
    /\ found < MaxBlocks
    /\ found' = found + 1
    /\ \E b \in Hashes :
          /\ block[b] = NoBlock
          /\ block' = [block EXCEPT ![b] = [job |-> job, ceiling |-> ceiling,
                                            status |-> "pending",
                                            inTurn |-> deltas # NoDeltas /\ InTurn]]
          /\ staged' = [staged EXCEPT ![b] =
                           IF Sum(deltas, Workers) = 0 THEN deltas ELSE NoDeltas]
    /\ UNCHANGED <<setup, job, owed, skipped>>

\* The coinbase paid the window.
FindWindowBlock(ceiling) ==
    /\ job # NoWindow
    /\ Renders(job, ceiling)
    /\ \E deltas \in {Deltas(job.payees, ceiling)} : FindBlock(ceiling, deltas)

\* The same when staging fails: the block stands, its rotation is lost.
FindUnstagedBlock(ceiling) ==
    /\ job # NoWindow
    /\ Renders(job, ceiling)
    /\ FindBlock(ceiling, NoDeltas)

\* Without a window the coinbase paid its finder.
FindFinderBlock(ceiling) ==
    /\ job = NoWindow
    /\ FindBlock(ceiling, NoDeltas)

-----------------------------------------------------------------------------
(* Reconciliation. *)

\* Whom block b left unpaid although his claim clears the floor.
Waiting(b) ==
    LET payees == block[b].job.payees
        paid   == Paid(payees, block[b].ceiling)
    IN  {payees[k].worker : k \in {i \in DOMAIN payees :
                                     payees[i].sats >= PayoutFloor} \ paid}

\* reconcile_blocks_pass finds the block in the chain.
Confirm(b) ==
    /\ block[b].status = "pending"
    /\ block' = [block EXCEPT ![b].status = "confirmed"]
    /\ skipped' = [w \in Workers |->
                     IF w \notin Waiting(b) THEN 0
                     ELSE IF block[b].inTurn THEN skipped[w] + 1
                     ELSE skipped[w]]
    /\ UNCHANGED <<setup, job, staged, owed, found>>

\* Or finds it gone.
Orphan(b) ==
    /\ block[b].status = "pending"
    /\ block' = [block EXCEPT ![b].status = "orphaned"]
    /\ UNCHANGED <<setup, job, staged, owed, found, skipped>>

\* Mutant: only those who were skipped are recorded.
AppliedSkippedOnly(bs) ==
    [w \in Workers |-> owed[w] + Sum([b \in bs |-> Max({0, staged[b][w]})], bs)]

\* Every confirmed block's deltas are added, block by block.
Applied(bs) ==
    [w \in Workers |-> owed[w] + Sum([b \in bs |-> staged[b][w]], bs)]

\* store_settle_block_fractions: what is confirmed is applied, what is orphaned
\* dropped, in one transaction.  Nothing reads a block's row after that.
Settle ==
    LET judged == {b \in Hashes : block[b].status \in {"confirmed", "orphaned"}}
    IN  /\ judged # {}
        /\ owed' = Applied({b \in judged : block[b].status = "confirmed"})
        /\ staged' = [b \in Hashes |->
                        IF b \in judged THEN NoDeltas ELSE staged[b]]
        /\ block' = [b \in Hashes |->
                       IF b \in judged THEN NoBlock ELSE block[b]]
        /\ UNCHANGED <<setup, job, found, skipped>>

Next ==
    \/ \E win \in Windows, value \in Rewards : NewTemplate(win, value)
    \/ \E c \in setup.ceilings : \/ FindWindowBlock(c)
                          \/ FindUnstagedBlock(c)
                          \/ FindFinderBlock(c)
    \/ \E b \in Hashes : Confirm(b) \/ Orphan(b)
    \/ Settle

Spec == Init /\ [][Next]_vars

-----------------------------------------------------------------------------
(* Properties. *)

\* Every job that goes out can be rendered on every listener: the splitter of
\* pplns.c and the builder of coinbase.c agree to the satoshi on what is payable,
\* and whoever is left can be paid (attach_pplns_window, conn_render_coinbase).
EveryJobRenders ==
    job # NoWindow => \A c \in setup.ceilings : Renders(job, c)

\* What the guess has to leave room for, so that the reserved slots do not crowd
\* out the largest claim: four of the smallest outputs in the place of two of the
\* largest (coinbase_expected_payout_slots).
ReservedFit ==
    \A s \in Setups : \A v, w \in Workers :
        /\ s.envelope + (IF s.fromTemplate THEN 0 ELSE OperatorReserve) + 2 * OutputBytes[v]
              <= s.guess + 4 * OutputBytes[w]
        /\ OutputBytes[v] <= 4 * OutputBytes[w]

\* However long others have waited, a largest claim is paid on every listener,
\* the tightest included (tightest_coinbase_budget, pplns_order_claims).
LargestIsPaid ==
    LET sats == {job.payees[k].sats : k \in DOMAIN job.payees}
    IN  job # NoWindow => \A c \in setup.ceilings :
            \E k \in Paid(job.payees, c) : job.payees[k].sats = Max(sats)

\* The whole transaction: what the builder charged for the output count (three
\* bytes for one), the payouts, and the operator's output when a fee is taken.
CoinbaseBytes(j, ceiling) ==
    setup.envelope - 2 + (IF Fee(j.value) > 0 THEN OperatorBytes ELSE 0)
      + Sum([k \in DOMAIN j.payees |-> OutputBytes[j.payees[k].worker]],
            Paid(j.payees, ceiling))

\* A coinbase the pool builds itself keeps within its listener's ceiling, the
\* operator's output included (coinbase_build_window).
CoinbaseFits ==
    job # NoWindow /\ ~setup.fromTemplate =>
        \A c \in setup.ceilings : CoinbaseBytes(job, c) <= c

\* The queue only says whose turn it is: what it owes cancels out, also while
\* deltas of several blocks wait for a verdict (store_stage_block_fractions,
\* store_settle_block_fractions).
QueueBalances ==
    /\ Sum(owed, Workers) = 0
    /\ \A b \in Hashes : Sum(staged[b], Workers) = 0

\* What the staged deltas say block b paid payee k, in whole sats.
Recorded(b, k) ==
    LET payees == block[b].job.payees
        total  == Claimed(payees, DOMAIN payees)
    IN  (Unit * payees[k].sats - total * staged[b][payees[k].worker]) \div Unit

\* The staged deltas record what the block's own coinbase pays: nothing to those
\* it left out, to the others their output, the largest with the truncation's
\* remainder on top (submit_with_job, resolve_window_outputs).
QueueRecordsCoinbase ==
    \A b \in Hashes : staged[b] # NoDeltas =>
        LET payees == block[b].job.payees
            outs   == Outputs(payees, block[b].ceiling)
            got(k) == IF k \in DOMAIN outs THEN outs[k] ELSE 0
        IN  /\ \A k \in DOMAIN payees : got(k) >= Recorded(b, k)
            /\ Cardinality({k \in DOMAIN payees : got(k) > Recorded(b, k)}) <= 1

\* Reserved slots go to whoever waits longest: with one of them, a claim that
\* clears the floor is not passed over more often than there are workers, counting
\* blocks whose order saw all earlier ones (pplns_order_claims).
NobodyStarves ==
    \A w \in Workers : skipped[w] <= Cardinality(Workers)
=============================================================================
