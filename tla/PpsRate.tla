------------------------------ MODULE PpsRate ------------------------------
(***************************************************************************)
(* What a share earns in pps-classic (main.c, stratum.c).  The tip watcher *)
(* prices every template from its value, the network's difficulty and the  *)
(* pool's own measured throughput, and publishes a gate and a rate, one    *)
(* after the other; connection threads test the gate, add their share's    *)
(* difficulty to the measurement with a load and a separate store, and     *)
(* read the rate, with no lock at all.                                     *)
(*                                                                         *)
(* Every share has difficulty 1, so the measurement is the set of shares   *)
(* it counts, over windows of one second.  Rates are rounded down.         *)
(***************************************************************************)
EXTENDS Integers, FiniteSets

CONSTANTS
    PpsThreads,   \* connection threads
    PpsTemplates, \* templates: [net, value]
    PpsConfigs,   \* [override, feeBps, minNet, interval, refuse]
    MaxPpsShares  \* bound: shares of one thread

ASSUME PpsAssumption ==
    /\ \A t \in PpsTemplates : t.net \in Nat \ {0} /\ t.value \in Nat
    /\ \A g \in PpsConfigs : g.interval \in Nat \ {0} /\ g.feeBps \in 0..1000

VARIABLES
    pps,        \* the configuration
    gate,       \* pps_gated
    rate,       \* pps_rate
    accum,      \* diff_accum
    perSec,     \* diff_per_sec
    refresh,    \* refresh_pps_rate: where it is and what it has worked out
    spc,        \* per thread: where its submit is
    nth,        \* per thread: its shares so far
    loaded,     \* per thread: the diff_accum it loaded
    crossed,    \* the threads whose submit a refresh has crossed
    folded,     \* shares folded in since the window opened
    overlap,    \* did a fold overlap another, or the window's end, in this window
    unpaid      \* accepted shares that no refresh crossed and that earned nothing

ppsVars == <<pps, gate, rate, accum, perSec, refresh, spc, nth, loaded, crossed,
             folded, overlap, unpaid>>

\* effective_pps_rate, pps_rate_from_template
FairRate(t) ==
    IF pps.override > 0 THEN pps.override
    ELSE (t.value * (10000 - pps.feeBps)) \div (t.net * 10000)

\* pps_rate_apply_issuance_ceiling
UnderCeiling(r, t, dps) ==
    IF r <= 0 \/ t.value <= 0 \/ dps <= 0 THEN r ELSE
    LET ceiling == t.value \div (pps.interval * dps)
    IN  IF r < ceiling THEN r ELSE ceiling

Suspends(t) == pps.minNet > 0 /\ t.net < pps.minNet

Priced(t, dps) == IF Suspends(t) THEN 0 ELSE UnderCeiling(FairRate(t), t, dps)

\* main() prices the first template before it serves anyone.
InitPps ==
    /\ pps \in PpsConfigs
    /\ \E t \in PpsTemplates : gate = Suspends(t) /\ rate = Priced(t, 0)
    /\ accum = {} /\ perSec = 0
    /\ refresh = [at |-> "idle", gated |-> FALSE, rate |-> 0]
    /\ spc = [c \in PpsThreads |-> "idle"]
    /\ nth = [c \in PpsThreads |-> 0]
    /\ loaded = [c \in PpsThreads |-> {}]
    /\ crossed = {} /\ folded = {} /\ overlap = FALSE /\ unpaid = {}

Folding == {c \in PpsThreads : spc[c] = "store"}

\* The threads whose submit is past the gate's test.
PastGate == {c \in PpsThreads : spc[c] # "idle"}

\* Mutant: the window's difficulty is read, not taken.
MeasureKeeps(t, over) ==
    /\ refresh.at = "idle"
    /\ perSec' = IF over THEN Cardinality(accum) ELSE perSec
    /\ folded' = IF over THEN {} ELSE folded
    /\ overlap' = IF over THEN Folding # {} ELSE overlap
    /\ refresh' = [at |-> "gate", gated |-> Suspends(t), rate |-> Priced(t, perSec')]
    /\ UNCHANGED <<pps, gate, rate, accum, spc, nth, loaded, crossed, unpaid>>

\* refresh_pps_rate up to the gate: the window is closed if it has run long
\* enough, and the template is priced.
Measure(t, over) ==
    /\ refresh.at = "idle"
    /\ perSec' = IF over THEN Cardinality(accum) ELSE perSec
    /\ accum' = IF over THEN {} ELSE accum
    /\ folded' = IF over THEN {} ELSE folded
    /\ overlap' = IF over THEN Folding # {} ELSE overlap
    /\ refresh' = [at |-> "gate", gated |-> Suspends(t), rate |-> Priced(t, perSec')]
    /\ UNCHANGED <<pps, gate, rate, spc, nth, loaded, crossed, unpaid>>

ExchangeGate ==
    /\ refresh.at = "gate"
    /\ gate' = refresh.gated
    /\ refresh' = [refresh EXCEPT !.at = "rate"]
    /\ crossed' = crossed \cup PastGate
    /\ UNCHANGED <<pps, rate, accum, perSec, spc, nth, loaded, folded, overlap, unpaid>>

StoreRate ==
    /\ refresh.at = "rate"
    /\ rate' = refresh.rate
    /\ refresh' = [at |-> "idle", gated |-> FALSE, rate |-> 0]
    /\ crossed' = crossed \cup PastGate
    /\ UNCHANGED <<pps, gate, accum, perSec, spc, nth, loaded, folded, overlap, unpaid>>

\* Mutant: only authorize asks the gate.
TurnsAwayNever == FALSE

\* pps_gated, in the server
TurnsAway == pps.refuse /\ gate

\* handle_submit.  Between the gate's exchange and the rate's store, the two
\* do not agree.
SubmitPps(c) ==
    /\ spc[c] = "idle" /\ nth[c] < MaxPpsShares
    /\ nth' = [nth EXCEPT ![c] = @ + 1]
    /\ spc' = IF TurnsAway THEN spc ELSE [spc EXCEPT ![c] = "load"]
    /\ crossed' = IF refresh.at = "rate" THEN crossed \cup {c} ELSE crossed \ {c}
    /\ UNCHANGED <<pps, gate, rate, accum, perSec, refresh, loaded, folded, overlap, unpaid>>

\* on_share_cb: the load ...
FoldLoad(c) ==
    /\ spc[c] = "load"
    /\ loaded' = [loaded EXCEPT ![c] = accum]
    /\ spc' = [spc EXCEPT ![c] = "store"]
    /\ overlap' = (overlap \/ Folding # {})
    /\ UNCHANGED <<pps, gate, rate, accum, perSec, refresh, nth, crossed, folded, unpaid>>

\* ... and the store
FoldStore(c) ==
    /\ spc[c] = "store"
    /\ accum' = loaded[c] \cup {<<c, nth[c]>>}
    /\ folded' = folded \cup {<<c, nth[c]>>}
    /\ loaded' = [loaded EXCEPT ![c] = {}]
    /\ spc' = [spc EXCEPT ![c] = "credit"]
    /\ UNCHANGED <<pps, gate, rate, perSec, refresh, nth, crossed, overlap, unpaid>>

Credit(c) ==
    /\ spc[c] = "credit"
    /\ unpaid' = IF rate = 0 /\ c \notin crossed THEN unpaid \cup {<<c, nth[c]>>} ELSE unpaid
    /\ spc' = [spc EXCEPT ![c] = "idle"]
    /\ UNCHANGED <<pps, gate, rate, accum, perSec, refresh, nth, loaded, crossed, folded, overlap>>

NextPps ==
    \/ \E t \in PpsTemplates, over \in BOOLEAN : Measure(t, over)
    \/ ExchangeGate \/ StoreRate
    \/ \E c \in PpsThreads : SubmitPps(c) \/ FoldLoad(c) \/ FoldStore(c) \/ Credit(c)

PpsSpec == InitPps /\ [][NextPps]_ppsVars
-----------------------------------------------------------------------------
\* A pool that refuses shares it will not pay for takes none for nothing: an
\* accepted share earns nothing only if the gate or the rate changed between
\* its test of the gate and its reading of the rate.
WorkIsPaid == pps.refuse => unpaid = {}

\* The throughput the issuance ceiling is judged by counts every share of the
\* window once, as long as no two folds overlapped and none straddled the end
\* of a window; overlapping ones may lose or repeat work.
MeasureIsExact == ~overlap => accum = folded
=============================================================================
